---------------------------- MODULE ClibProofs ----------------------------
(***************************************************************************)
(* Proofs about the C library that compile-clib.lisp builds: the ring      *)
(* buffer, for every size, all requests and any number of bytes (the size  *)
(* need not be a power of two: the mask is the remainder), and the TLSF    *)
(* allocator, for every geometry of its tables, every area and any         *)
(* requests.                                                               *)
(***************************************************************************)
EXTENDS RingBufferRefinement, Tlsf, SequenceTheorems, FiniteSetTheorems, WellFoundedInduction, TLAPS

-----------------------------------------------------------------------------
(* The ring buffer *)

\* The mask of a number between - Size and Size adds Size or leaves it.
LEMMA MaskWraps ==
    ASSUME NEW n \in Int, - Size <= n, n < Size
    PROVE  Mask(n) = (IF n < 0 THEN n + Size ELSE n) /\ Mask(n) \in Positions
BY RingSizeAssumption DEF Mask, Positions

LEMMA InPositions ==
    ASSUME NEW p \in Int, 0 <= p, p < Size
    PROVE  p \in Positions
BY RingSizeAssumption DEF Positions

\* What a head becomes, however the code writes it.
LEMMA HeadWraps ==
    ASSUME NEW h \in Positions, NEW n \in 0 .. Size - 1
    PROVE  Mask(h + n - Size) = Wrap(h + n) /\ Wrap(h + n) \in Positions
<1>1. h + n - Size \in Int /\ - Size <= h + n - Size /\ h + n - Size < Size
  BY RingSizeAssumption DEF Positions
<1>. QED BY <1>1, MaskWraps, RingSizeAssumption DEF Wrap, Positions

\* The spaces that both threads compute are those of the history.
LEMMA SpacesExact ==
    ASSUME TypeOK, Window
    PROVE  ReadSpace = sent - received /\ WriteSpace = Size - 1 - (sent - received)
<1>1. /\ readHead \in Positions /\ writeHead \in Positions
      /\ sent \in Nat /\ received \in Nat /\ received <= sent
      /\ sent - received < Size /\ writeHead = Wrap(readHead + (sent - received))
  BY MaxBytesAssumption DEF TypeOK, Window
<1>2. writeHead - readHead \in Int /\ - Size <= writeHead - readHead /\ writeHead - readHead < Size
  BY <1>1, RingSizeAssumption DEF Positions
<1>3. /\ readHead - writeHead - 1 \in Int /\ - Size <= readHead - writeHead - 1
      /\ readHead - writeHead - 1 < Size
  BY <1>1, RingSizeAssumption DEF Positions
<1>4. Mask(writeHead - readHead) = sent - received
  BY <1>1, <1>2, MaskWraps, RingSizeAssumption DEF Wrap, Positions
<1>5. Mask(readHead - writeHead - 1) = Size - 1 - (sent - received)
  BY <1>1, <1>3, MaskWraps, RingSizeAssumption DEF Wrap, Positions
<1>. QED BY <1>4, <1>5 DEF ReadSpace, WriteSpace

LEMMA RingInit == Init => RingInv
<1> SUFFICES ASSUME Init PROVE RingInv
  OBVIOUS
<1>1. 0 \in Positions /\ 0 \in 0 .. MaxBytes /\ 0 \in 0 .. Size - 1
  BY RingSizeAssumption, MaxBytesAssumption DEF Positions
<1>2. TypeOK
  BY <1>1 DEF Init, TypeOK
<1>3. Window /\ Writing /\ Reading
  BY <1>1, RingSizeAssumption DEF Init, Window, Writing, Reading, Wrap
<1>. QED BY <1>2, <1>3 DEF RingInv

\* The facts about the state that every step below uses.
LEMMA RingFacts ==
    ASSUME RingInv
    PROVE  /\ Size \in Nat /\ Size > 0 /\ MaxBytes \in Nat
           /\ buf \in [Positions -> 0 .. MaxBytes]
           /\ writeHead \in Int /\ 0 <= writeHead /\ writeHead < Size
           /\ readHead \in Int /\ 0 <= readHead /\ readHead < Size
           /\ bytes \in Int /\ 0 <= bytes /\ bytes < Size
           /\ rbytes \in Int /\ 0 <= rbytes /\ rbytes < Size
           /\ sent \in Int /\ received \in Int
           /\ 0 <= received /\ received <= sent /\ sent <= MaxBytes
           /\ sent - received < Size
           /\ writeEnd \in Int /\ 0 <= writeEnd /\ writeEnd < Size
           /\ readEnd \in Int /\ 0 <= readEnd /\ readEnd < Size
BY RingSizeAssumption, MaxBytesAssumption DEF RingInv, TypeOK, Window, Positions

-----------------------------------------------------------------------------
(* The writing thread *)

LEMMA RingWriteBegin ==
    ASSUME RingInv, NEW n \in Requests, WriteBegin(n)
    PROVE  RingInv'
<1>1. WriteSpace = Size - 1 - (sent - received)
  BY SpacesExact DEF RingInv
<1>2. n \in Nat
  BY RequestsAssumption
<1>3. bytes' \in 0 .. Size - 1 /\ bytes' + (sent - received) < Size
  BY <1>1, <1>2, RingFacts DEF WriteBegin, Least
<1>4. writeHead \in Positions
  BY DEF RingInv, TypeOK
<1>5. writeEnd' = Wrap(writeHead + bytes') /\ writeEnd' \in Positions
  BY <1>3, <1>4, HeadWraps DEF WriteBegin
<1>6. TypeOK'
  BY <1>3, <1>5 DEF RingInv, TypeOK, WriteBegin, rb, reading, history
<1>7. Window' /\ Reading'
  BY DEF RingInv, Window, Reading, Wrap, WriteBegin, rb, reading, history
<1>8. Writing'
  BY <1>3, <1>5 DEF Writing, Wrap, WriteBegin, rb, history
<1>. QED BY <1>6, <1>7, <1>8 DEF RingInv

LEMMA RingWritePublish ==
    ASSUME RingInv, WritePublish
    PROVE  RingInv'
<1>1. writer = "publish" /\ writeEnd = Wrap(writeHead + bytes)
      /\ bytes + (sent - received) < Size /\ sent + bytes <= MaxBytes
  BY DEF RingInv, Writing, WritePublish
<1>2. TypeOK'
  BY <1>1, RingFacts DEF RingInv, TypeOK, WritePublish, reading
<1>3. sent' - received' < Size /\ writeHead' = Wrap(readHead' + (sent' - received'))
  BY <1>1, RingFacts DEF RingInv, Window, Wrap, WritePublish
<1>4. ASSUME NEW k \in 0 .. Size - 1, k < sent' - received'
      PROVE  buf'[Wrap(readHead' + k)] = received' + 1 + k
  <2>1. CASE k < sent - received
    BY <2>1 DEF RingInv, Window, Wrap, WritePublish
  <2>2. CASE ~ (k < sent - received)
    <3> DEFINE j == k - (sent - received)
    <3>1. j \in 0 .. Size - 1 /\ j < bytes
      BY <1>4, <2>2, RingFacts DEF WritePublish
    <3>2. buf[Wrap(writeHead + j)] = sent + 1 + j
      BY <1>1, <3>1 DEF RingInv, Writing
    <3>3. Wrap(writeHead + j) = Wrap(readHead + k)
      BY <1>4, <2>2, RingFacts DEF RingInv, Window, Wrap, WritePublish
    <3>. QED BY <3>2, <3>3, RingFacts DEF Wrap, WritePublish
  <2>. QED BY <2>1, <2>2
<1>5. Window'
  BY <1>3, <1>4 DEF Window, Wrap
<1>6. Writing'
  BY DEF Writing, WritePublish
<1>7. Reading'
  BY <1>1, RingFacts DEF RingInv, Reading, Wrap, WritePublish, reading
<1>. QED BY <1>2, <1>5, <1>6, <1>7 DEF RingInv

LEMMA RingWriteAdvance ==
    ASSUME RingInv, WriteAdvance
    PROVE  RingInv'
<1>1. writer = "filled" /\ bytes + (sent - received) < Size /\ sent + bytes <= MaxBytes
  BY DEF RingInv, Writing, WriteAdvance
<1>a. writeHead \in Positions /\ bytes \in 0 .. Size - 1
  BY DEF RingInv, TypeOK
<1>b. writeHead' = Wrap(writeHead + bytes) /\ writeHead' \in Positions
  BY <1>a, HeadWraps DEF WriteAdvance
<1>2. TypeOK'
  BY <1>1, <1>b, RingFacts DEF RingInv, TypeOK, WriteAdvance, reading
<1>3. sent' - received' < Size /\ writeHead' = Wrap(readHead' + (sent' - received'))
  BY <1>1, <1>b, RingFacts DEF RingInv, Window, Wrap, WriteAdvance
<1>4. ASSUME NEW k \in 0 .. Size - 1, k < sent' - received'
      PROVE  buf'[Wrap(readHead' + k)] = received' + 1 + k
  <2>1. CASE k < sent - received
    BY <2>1 DEF RingInv, Window, Wrap, WriteAdvance
  <2>2. CASE ~ (k < sent - received)
    <3> DEFINE j == k - (sent - received)
    <3>1. j \in 0 .. Size - 1 /\ j < bytes
      BY <1>4, <2>2, RingFacts DEF WriteAdvance
    <3>2. buf[Wrap(writeHead + j)] = sent + 1 + j
      BY <1>1, <3>1 DEF RingInv, Writing
    <3>3. Wrap(writeHead + j) = Wrap(readHead + k)
      BY <1>4, <2>2, RingFacts DEF RingInv, Window, Wrap, WriteAdvance
    <3>. QED BY <3>2, <3>3, RingFacts DEF Wrap, WriteAdvance
  <2>. QED BY <2>1, <2>2
<1>5. Window'
  BY <1>3, <1>4 DEF Window, Wrap
<1>6. Writing'
  BY DEF Writing, WriteAdvance
<1>7. Reading'
  BY <1>1, RingFacts DEF RingInv, Reading, Wrap, WriteAdvance, reading
<1>. QED BY <1>2, <1>5, <1>6, <1>7 DEF RingInv

\* Where the k-th byte behind the read head lies, as seen from the writer.
LEMMA PublishedPlace ==
    ASSUME RingInv, NEW k \in 0 .. Size - 1, k < sent - received,
           bytes + (sent - received) < Size
    PROVE  /\ Wrap(readHead + k) \in Positions
           /\ writeHead + bytes < Size =>
                 ~ (writeHead <= Wrap(readHead + k) /\ Wrap(readHead + k) < writeHead + bytes)
           /\ writeHead + bytes >= Size =>
                 /\ Wrap(readHead + k) < writeHead
                 /\ Wrap(readHead + k) >= writeHead + bytes - Size
<1>1. writeHead = Wrap(readHead + (sent - received))
  BY DEF RingInv, Window
<1>2. PICK u \in Int : u = sent - received /\ 0 <= u /\ u < Size
  BY RingFacts
<1>3. k \in Int /\ 0 <= k /\ k < u /\ bytes + u < Size
  BY <1>2
<1>4. PICK p \in Int : /\ p = Wrap(readHead + k)
                       /\ p = (IF readHead + k >= Size THEN readHead + k - Size ELSE readHead + k)
  BY <1>3, RingFacts DEF Wrap
<1>5. writeHead = (IF readHead + u >= Size THEN readHead + u - Size ELSE readHead + u)
  BY <1>1, <1>2, RingFacts DEF Wrap
<1>6. 0 <= p /\ p < Size
  BY <1>2, <1>3, <1>4, RingFacts
<1>7. ASSUME writeHead + bytes < Size
      PROVE  ~ (writeHead <= p /\ p < writeHead + bytes)
  BY <1>2, <1>3, <1>4, <1>5, <1>7, RingFacts
<1>8. ASSUME writeHead + bytes >= Size
      PROVE  p < writeHead /\ p >= writeHead + bytes - Size
  BY <1>2, <1>3, <1>4, <1>5, <1>8, RingFacts
<1>. QED BY <1>4, <1>6, <1>7, <1>8, RingSizeAssumption DEF Positions

LEMMA RingWriteCopy ==
    ASSUME RingInv, WriteCopy
    PROVE  RingInv'
<1>1. writer = "copy" /\ writeEnd = Wrap(writeHead + bytes)
      /\ bytes + (sent - received) < Size /\ sent + bytes <= MaxBytes
  BY DEF RingInv, Writing, WriteCopy
<1>2. UNCHANGED <<writeHead, readHead, bytes, writeEnd, sent, received, returned,
                  reader, rbytes, readEnd, dest, advance>>
  BY DEF WriteCopy, reading, history
<1>3. Reading'
  BY <1>2 DEF RingInv, Reading, Wrap
<1>4. CASE writeHead > writeEnd
  <2>1. buf' = [q \in Positions |-> IF q \in writeHead .. writeHead + (Size - writeHead) - 1
                                     THEN sent + 1 + (q - writeHead) ELSE buf[q]]
        /\ writer' = "wrap"
    BY <1>4 DEF WriteCopy, Stored
  <2>2. writeHead + bytes >= Size
    BY <1>1, <1>4, RingFacts DEF Wrap
  <2>3. ASSUME NEW q \in Positions
        PROVE  buf'[q] = (IF writeHead <= q THEN sent + 1 + (q - writeHead) ELSE buf[q])
    BY <2>1, RingFacts, SMTT(30) DEF Positions
  <2>4. ASSUME NEW q \in Positions
        PROVE  (IF writeHead <= q THEN sent + 1 + (q - writeHead) ELSE buf[q]) \in 0 .. MaxBytes
    <3>1. q \in Int /\ q < Size /\ buf[q] \in 0 .. MaxBytes
      BY RingFacts DEF Positions
    <3>. QED BY <1>1, <2>2, <3>1, RingFacts
  <2>5. buf' \in [Positions -> 0 .. MaxBytes]
    BY <2>1, <2>3, <2>4
  <2>6. TypeOK'
    BY <1>2, <2>1, <2>5 DEF RingInv, TypeOK
  <2>7. ASSUME NEW k \in 0 .. Size - 1, k < sent' - received'
        PROVE  buf'[Wrap(readHead' + k)] = received' + 1 + k
    <3>1. Wrap(readHead + k) \in Positions /\ Wrap(readHead + k) < writeHead
      BY <1>1, <1>2, <2>2, <2>7, PublishedPlace
    <3>2. buf'[Wrap(readHead + k)] = buf[Wrap(readHead + k)]
      BY <2>3, <3>1, RingFacts DEF Positions
    <3>3. buf[Wrap(readHead + k)] = received + 1 + k
      BY <1>2, <2>7 DEF RingInv, Window
    <3>. QED BY <1>2, <3>2, <3>3 DEF Wrap
  <2>8. Window'
    BY <1>2, <2>7 DEF RingInv, Window, Wrap
  <2>9. ASSUME NEW k \in 0 .. Size - 1, writeHead + k < Size
        PROVE  buf'[writeHead + k] = sent + 1 + k
    <3>1. writeHead + k \in Positions
      BY <2>9, RingFacts DEF Positions
    <3>. QED BY <2>3, <3>1, RingFacts
  <2>10. Writing'
    BY <1>1, <1>2, <1>4, <2>1, <2>9 DEF Writing, Wrap
  <2>. QED BY <1>3, <2>6, <2>8, <2>10 DEF RingInv
<1>5. CASE ~ (writeHead > writeEnd)
  <2>1. buf' = [q \in Positions |-> IF q \in writeHead .. writeHead + bytes - 1
                                     THEN sent + 1 + (q - writeHead) ELSE buf[q]]
        /\ writer' = "publish"
    BY <1>5 DEF WriteCopy, Stored
  <2>2. writeHead + bytes < Size
    BY <1>1, <1>5, RingFacts DEF Wrap
  <2>3. ASSUME NEW q \in Positions
        PROVE  buf'[q] = (IF writeHead <= q /\ q < writeHead + bytes
                          THEN sent + 1 + (q - writeHead) ELSE buf[q])
    <3>1. q \in writeHead .. writeHead + bytes - 1 <=> writeHead <= q /\ q < writeHead + bytes
      BY RingFacts DEF Positions
    <3>. QED BY <2>1, <3>1
  <2>4. ASSUME NEW q \in Positions
        PROVE  (IF writeHead <= q /\ q < writeHead + bytes
                THEN sent + 1 + (q - writeHead) ELSE buf[q]) \in 0 .. MaxBytes
    <3>1. q \in Int /\ q < Size /\ buf[q] \in 0 .. MaxBytes
      BY RingFacts DEF Positions
    <3>. QED BY <1>1, <3>1, RingFacts
  <2>5. buf' \in [Positions -> 0 .. MaxBytes]
    BY <2>1, <2>3, <2>4
  <2>6. TypeOK'
    BY <1>2, <2>1, <2>5 DEF RingInv, TypeOK
  <2>7. ASSUME NEW k \in 0 .. Size - 1, k < sent' - received'
        PROVE  buf'[Wrap(readHead' + k)] = received' + 1 + k
    <3>1. Wrap(readHead + k) \in Positions
          /\ ~ (writeHead <= Wrap(readHead + k) /\ Wrap(readHead + k) < writeHead + bytes)
      BY <1>1, <1>2, <2>2, <2>7, PublishedPlace
    <3>2. buf'[Wrap(readHead + k)] = buf[Wrap(readHead + k)]
      BY <2>3, <3>1
    <3>3. buf[Wrap(readHead + k)] = received + 1 + k
      BY <1>2, <2>7 DEF RingInv, Window
    <3>. QED BY <1>2, <3>2, <3>3 DEF Wrap
  <2>8. Window'
    BY <1>2, <2>7 DEF RingInv, Window, Wrap
  <2>9. ASSUME NEW k \in 0 .. Size - 1, k < bytes
        PROVE  buf'[Wrap(writeHead + k)] = sent + 1 + k
    <3>1. writeHead + k \in Positions /\ Wrap(writeHead + k) = writeHead + k
      BY <2>2, <2>9, RingFacts DEF Positions, Wrap
    <3>. QED BY <2>3, <2>9, <3>1, RingFacts
  <2>10. Writing'
    BY <1>1, <1>2, <2>1, <2>9 DEF Writing, Wrap
  <2>. QED BY <1>3, <2>6, <2>8, <2>10 DEF RingInv
<1>. QED BY <1>4, <1>5

LEMMA RingWriteWrap ==
    ASSUME RingInv, WriteWrap
    PROVE  RingInv'
<1>1. /\ writer = "wrap" /\ writeHead > writeEnd /\ writeEnd = Wrap(writeHead + bytes)
      /\ bytes + (sent - received) < Size /\ sent + bytes <= MaxBytes
      /\ \A k \in 0 .. Size - 1 : writeHead + k < Size => buf[writeHead + k] = sent + 1 + k
  BY DEF RingInv, Writing, WriteWrap
<1>2. UNCHANGED <<writeHead, readHead, bytes, writeEnd, sent, received, returned,
                  reader, rbytes, readEnd, dest, advance>>
  BY DEF WriteWrap, reading, history
<1>3. writeHead + bytes >= Size /\ writeEnd = writeHead + bytes - Size
  BY <1>1, RingFacts DEF Wrap
<1>4. buf' = [q \in Positions |-> IF q \in 0 .. 0 + writeEnd - 1
                                   THEN sent + (Size - writeHead + 1) + (q - 0) ELSE buf[q]]
      /\ writer' = "publish"
  BY DEF WriteWrap, Stored
<1>5. ASSUME NEW q \in Positions
      PROVE  buf'[q] = (IF q < writeEnd THEN sent + 1 + (Size - writeHead) + q ELSE buf[q])
  <2>1. q \in 0 .. 0 + writeEnd - 1 <=> q < writeEnd
    BY RingFacts DEF Positions
  <2>2. q \in Int
    BY RingFacts DEF Positions
  <2>. QED BY <1>4, <2>1, <2>2, RingFacts
<1>6. ASSUME NEW q \in Positions
      PROVE  (IF q < writeEnd THEN sent + 1 + (Size - writeHead) + q ELSE buf[q]) \in 0 .. MaxBytes
  <2>1. q \in Int /\ 0 <= q /\ buf[q] \in 0 .. MaxBytes
    BY RingFacts DEF Positions
  <2>. QED BY <1>1, <1>3, <2>1, RingFacts
<1>7. buf' \in [Positions -> 0 .. MaxBytes]
  BY <1>4, <1>5, <1>6
<1>8. TypeOK'
  BY <1>2, <1>4, <1>7 DEF RingInv, TypeOK
<1>9. ASSUME NEW k \in 0 .. Size - 1, k < sent' - received'
      PROVE  buf'[Wrap(readHead' + k)] = received' + 1 + k
  <2>1. Wrap(readHead + k) \in Positions /\ Wrap(readHead + k) >= writeEnd
    BY <1>1, <1>2, <1>3, <1>9, PublishedPlace
  <2>2. buf'[Wrap(readHead + k)] = buf[Wrap(readHead + k)]
    BY <1>5, <2>1, RingFacts DEF Positions
  <2>3. buf[Wrap(readHead + k)] = received + 1 + k
    BY <1>2, <1>9 DEF RingInv, Window
  <2>. QED BY <1>2, <2>2, <2>3 DEF Wrap
<1>10. Window'
  BY <1>2, <1>9 DEF RingInv, Window, Wrap
<1>11. ASSUME NEW k \in 0 .. Size - 1, k < bytes
       PROVE  buf'[Wrap(writeHead + k)] = sent + 1 + k
  <2>1. CASE writeHead + k < Size
    <3>1. writeHead + k \in Positions /\ Wrap(writeHead + k) = writeHead + k
      BY <2>1, RingFacts DEF Positions, Wrap
    <3>2. ~ (writeHead + k < writeEnd)
      BY <1>1, RingFacts
    <3>. QED BY <1>1, <1>5, <2>1, <3>1, <3>2
  <2>2. CASE writeHead + k >= Size
    <3>1. Wrap(writeHead + k) = writeHead + k - Size
      BY <2>2, RingFacts DEF Wrap
    <3>0. k \in Int /\ k < bytes
      BY <1>11, RingFacts
    <3>a. /\ writeHead + k - Size \in Int /\ 0 <= writeHead + k - Size
          /\ writeHead + k - Size < Size /\ writeHead + k - Size < writeEnd
      BY <1>3, <2>2, <3>0, RingFacts
    <3>2. writeHead + k - Size \in Positions /\ writeHead + k - Size < writeEnd
      BY <3>a, InPositions
    <3>3. buf'[writeHead + k - Size] = sent + 1 + (Size - writeHead) + (writeHead + k - Size)
      BY <1>5, <3>2
    <3>. QED BY <3>1, <3>3, RingFacts
  <2>. QED BY <2>1, <2>2, RingFacts
<1>12. Writing'
  BY <1>1, <1>2, <1>4, <1>11 DEF Writing, Wrap
<1>13. Reading'
  BY <1>2 DEF RingInv, Reading, Wrap
<1>. QED BY <1>8, <1>10, <1>12, <1>13 DEF RingInv

LEMMA RingFillInPlace ==
    ASSUME RingInv, NEW n \in Requests, FillInPlace(n)
    PROVE  RingInv'
<1>1. /\ n \in Nat /\ n + (sent - received) < Size /\ sent + n <= MaxBytes
      /\ bytes' = n /\ writer' = "filled"
  <2>1. WriteSpace = Size - 1 - (sent - received) /\ n \in Nat
    BY SpacesExact, RequestsAssumption DEF RingInv
  <2>. QED BY <2>1, RingFacts DEF FillInPlace
<1>2. UNCHANGED <<writeHead, readHead, writeEnd, sent, received, returned,
                  reader, rbytes, readEnd, dest, advance>>
  BY DEF FillInPlace, reading, history
<1> DEFINE Offset(q) == IF q < writeHead THEN q - writeHead + Size ELSE q - writeHead
<1>3. ASSUME NEW q \in Positions
      PROVE  /\ Mask(q - writeHead) = Offset(q) /\ q \in Int /\ 0 <= q /\ q < Size
             /\ Offset(q) \in Int /\ 0 <= Offset(q) /\ Offset(q) < Size
  <2>1. q \in Int /\ 0 <= q /\ q < Size
    BY RingFacts DEF Positions
  <2>2. q - writeHead \in Int /\ - Size <= q - writeHead /\ q - writeHead < Size
    BY <2>1, RingFacts
  <2>. QED BY <2>1, <2>2, MaskWraps, RingFacts
<1>4. ASSUME NEW q \in Positions
      PROVE  buf'[q] = (IF Offset(q) < n THEN sent + 1 + Offset(q) ELSE buf[q])
  BY <1>3 DEF FillInPlace
<1>5. buf' \in [Positions -> 0 .. MaxBytes]
  <2>1. ASSUME NEW q \in Positions
        PROVE  buf'[q] \in 0 .. MaxBytes
    <3>1. buf[q] \in 0 .. MaxBytes
      BY RingFacts
    <3> HIDE DEF Offset
    <3>. QED BY <1>1, <1>3, <1>4, <3>1, RingFacts
  <2>2. buf' = [q \in Positions |-> buf'[q]]
    BY DEF FillInPlace
  <2>. QED BY <2>1, <2>2
<1>6. TypeOK'
  BY <1>1, <1>2, <1>5, RingFacts DEF RingInv, TypeOK
<1>7. ASSUME NEW k \in 0 .. Size - 1, k < sent' - received'
      PROVE  buf'[Wrap(readHead' + k)] = received' + 1 + k
  <2>1. PICK p \in Int : p = Wrap(readHead + k)
    BY RingFacts DEF Wrap
  <2>2. p \in Positions /\ ~ (Offset(p) < n)
    <3>1. PICK u \in Int : u = sent - received /\ 0 <= u /\ u < Size
      BY RingFacts
    <3>2. p = (IF readHead + k >= Size THEN readHead + k - Size ELSE readHead + k)
      BY <2>1, RingFacts DEF Wrap
    <3>3. writeHead = (IF readHead + u >= Size THEN readHead + u - Size ELSE readHead + u)
      BY <3>1, RingFacts DEF RingInv, Window, Wrap
    <3>4. k \in Int /\ 0 <= k /\ k < u /\ n + u < Size
      BY <1>1, <1>2, <1>7, <3>1
    <3>a. 0 <= p /\ p < Size
      BY <3>1, <3>2, <3>4, RingFacts
    <3>5. p \in Positions
      BY <3>a, InPositions
    <3>6. ~ (Offset(p) < n)
      BY <1>1, <3>1, <3>2, <3>3, <3>4, RingFacts
    <3>. QED BY <3>5, <3>6
  <2>3. buf'[p] = buf[p]
    BY <1>4, <2>2
  <2>4. buf[p] = received + 1 + k
    BY <1>2, <1>7, <2>1 DEF RingInv, Window
  <2>. QED BY <1>2, <2>1, <2>3, <2>4 DEF Wrap
<1>8. Window'
  BY <1>2, <1>7 DEF RingInv, Window, Wrap
<1>9. ASSUME NEW k \in 0 .. Size - 1, k < n
      PROVE  buf'[Wrap(writeHead + k)] = sent + 1 + k
  <2>1. PICK p \in Int : p = Wrap(writeHead + k)
    BY RingFacts DEF Wrap
  <2>a. k \in Int /\ 0 <= k /\ k < Size
    BY RingFacts
  <2>b. p = (IF writeHead + k >= Size THEN writeHead + k - Size ELSE writeHead + k)
    BY <2>1, RingFacts DEF Wrap
  <2>c. 0 <= p /\ p < Size /\ Offset(p) = k
    BY <2>a, <2>b, RingFacts
  <2>2. p \in Positions /\ Offset(p) = k
    BY <2>c, InPositions
  <2>. QED BY <1>4, <1>9, <2>1, <2>2
<1>10. Writing'
  BY <1>1, <1>2, <1>9 DEF Writing, Wrap
<1>11. Reading'
  BY <1>2 DEF RingInv, Reading, Wrap
<1>. QED BY <1>6, <1>8, <1>10, <1>11 DEF RingInv

-----------------------------------------------------------------------------
(* The reading thread *)

LEMMA RingReadBegin ==
    ASSUME RingInv, NEW n \in Requests, NEW moves \in BOOLEAN, ReadBegin(n, moves)
    PROVE  RingInv'
<1>1. ReadSpace = sent - received /\ n \in Nat
  BY SpacesExact, RequestsAssumption DEF RingInv
<1>2. rbytes' \in 0 .. Size - 1 /\ rbytes' <= sent - received
  BY <1>1, RingFacts DEF ReadBegin, Least
<1>3. readHead \in Positions
  BY DEF RingInv, TypeOK
<1>4. readEnd' = Wrap(readHead + rbytes') /\ readEnd' \in Positions
  BY <1>2, <1>3, HeadWraps DEF ReadBegin
<1>5. TypeOK'
  BY <1>2, <1>4 DEF RingInv, TypeOK, ReadBegin, rb, writing, history
<1>6. Window' /\ Writing'
  BY DEF RingInv, Window, Writing, Wrap, ReadBegin, rb, writing, history
<1>7. Reading'
  BY <1>2, <1>4 DEF Reading, Wrap, ReadBegin, rb, history
<1>. QED BY <1>5, <1>6, <1>7 DEF RingInv

\* A published byte, where a memcpy of the reader finds it.
LEMMA Oldest ==
    ASSUME RingInv, NEW k \in Int, 0 <= k, k < sent - received
    PROVE  /\ readHead + k < Size => buf[readHead + k] = received + 1 + k
           /\ readHead + k >= Size => buf[readHead + k - Size] = received + 1 + k
<1>1. k \in 0 .. Size - 1
  BY RingFacts
<1>2. buf[Wrap(readHead + k)] = received + 1 + k
  BY <1>1 DEF RingInv, Window
<1>3. readHead + k \in Int /\ Size \in Int
  BY RingFacts
<1>4. ASSUME readHead + k < Size PROVE Wrap(readHead + k) = readHead + k
  BY <1>3, <1>4, RingFacts DEF Wrap
<1>5. ASSUME readHead + k >= Size PROVE Wrap(readHead + k) = readHead + k - Size
  BY <1>3, <1>5, RingFacts DEF Wrap
<1>. QED BY <1>2, <1>4, <1>5

LEMMA RingReadCopy ==
    ASSUME RingInv, ReadCopy
    PROVE  RingInv'
<1>1. reader = "copy" /\ rbytes <= sent - received /\ readEnd = Wrap(readHead + rbytes)
  BY DEF RingInv, Reading, ReadCopy
<1>2. UNCHANGED <<buf, writeHead, readHead, writer, bytes, writeEnd, rbytes, readEnd, advance,
                  sent, received, returned>>
  BY DEF ReadCopy, rb, writing, history
<1>3. TypeOK'
  BY <1>2 DEF RingInv, TypeOK, ReadCopy
<1>4. Window' /\ Writing'
  BY <1>2 DEF RingInv, Window, Writing, Wrap
<1>5. CASE readHead > readEnd
  <2>1. dest' = [k \in 1 .. Size - readHead |-> buf[readHead + k - 1]] /\ reader' = "wrap"
    BY <1>5 DEF ReadCopy, Loaded
  <2>2. readHead + rbytes >= Size
    BY <1>1, <1>5, RingFacts DEF Wrap
  <2>3. ASSUME NEW k \in 1 .. Size - readHead
        PROVE  buf[readHead + k - 1] = received + k
    <3>1. k \in Int /\ 1 <= k /\ k <= Size - readHead
      BY RingFacts
    <3>2. k - 1 \in Int /\ 0 <= k - 1 /\ k - 1 < sent - received /\ readHead + (k - 1) < Size
      BY <1>1, <2>2, <3>1, RingFacts
    <3>3. buf[readHead + (k - 1)] = received + 1 + (k - 1)
      BY <3>2, Oldest
    <3>4. readHead + (k - 1) = readHead + k - 1 /\ received + 1 + (k - 1) = received + k
      BY <3>1, RingFacts
    <3>. QED BY <3>3, <3>4
  <2>4. dest' = [k \in 1 .. Size - readHead |-> received + k]
    BY <2>1, <2>3
  <2>5. Reading'
    BY <1>1, <1>2, <1>5, <2>1, <2>4 DEF Reading, Wrap
  <2>. QED BY <1>3, <1>4, <2>5 DEF RingInv
<1>6. CASE ~ (readHead > readEnd)
  <2>1. dest' = [k \in 1 .. rbytes |-> buf[readHead + k - 1]] /\ reader' = "publish"
    BY <1>6 DEF ReadCopy, Loaded
  <2>2. readHead + rbytes < Size
    BY <1>1, <1>6, RingFacts DEF Wrap
  <2>3. ASSUME NEW k \in 1 .. rbytes
        PROVE  buf[readHead + k - 1] = received + k
    <3>1. k \in Int /\ 1 <= k /\ k <= rbytes
      BY RingFacts
    <3>2. k - 1 \in Int /\ 0 <= k - 1 /\ k - 1 < sent - received /\ readHead + (k - 1) < Size
      BY <1>1, <2>2, <3>1, RingFacts
    <3>3. buf[readHead + (k - 1)] = received + 1 + (k - 1)
      BY <3>2, Oldest
    <3>4. readHead + (k - 1) = readHead + k - 1 /\ received + 1 + (k - 1) = received + k
      BY <3>1, RingFacts
    <3>. QED BY <3>3, <3>4
  <2>4. dest' = [k \in 1 .. rbytes |-> received + k]
    BY <2>1, <2>3
  <2>5. Reading'
    BY <1>1, <1>2, <2>1, <2>4 DEF Reading, Wrap
  <2>. QED BY <1>3, <1>4, <2>5 DEF RingInv
<1>. QED BY <1>5, <1>6

LEMMA RingReadWrap ==
    ASSUME RingInv, ReadWrap
    PROVE  RingInv'
<1>1. /\ reader = "wrap" /\ rbytes <= sent - received /\ readEnd = Wrap(readHead + rbytes)
      /\ readHead > readEnd /\ dest = [k \in 1 .. Size - readHead |-> received + k]
  BY DEF RingInv, Reading, ReadWrap
<1>2. UNCHANGED <<buf, writeHead, readHead, writer, bytes, writeEnd, rbytes, readEnd, advance,
                  sent, received, returned>>
  BY DEF ReadWrap, rb, writing, history
<1>3. TypeOK'
  BY <1>2 DEF RingInv, TypeOK, ReadWrap
<1>4. Window' /\ Writing'
  BY <1>2 DEF RingInv, Window, Writing, Wrap
<1>5. readHead + rbytes >= Size /\ readEnd = readHead + rbytes - Size
  BY <1>1, RingFacts DEF Wrap
<1> DEFINE rest == [k \in 1 .. readEnd |-> buf[0 + k - 1]]
<1>6. dest' = dest \o rest
  BY DEF ReadWrap, Loaded
<1>7. dest \in Seq(Int) /\ Len(dest) = Size - readHead
      /\ \A k \in 1 .. Size - readHead : dest[k] = received + k
  <2>1. Size - readHead \in Nat /\ \A k \in 1 .. Size - readHead : received + k \in Int
    BY RingFacts
  <2>. QED BY <1>1, <2>1
<1>8. \A k \in 1 .. readEnd : buf[0 + k - 1] \in Int
  <2>1. ASSUME NEW k \in 1 .. readEnd
        PROVE  buf[0 + k - 1] \in Int
    <3>1. 0 + k - 1 \in Int /\ 0 <= 0 + k - 1 /\ 0 + k - 1 < Size
      BY RingFacts
    <3>2. 0 + k - 1 \in Positions
      BY <3>1, InPositions
    <3>. QED BY <3>2, RingFacts
  <2>. QED BY <2>1
<1>9. rest \in Seq(Int) /\ Len(rest) = readEnd /\ \A k \in 1 .. readEnd : rest[k] = buf[0 + k - 1]
  <2>1. readEnd \in Nat
    BY RingFacts
  <2>. QED BY <1>8, <2>1
<1> HIDE DEF rest
<1>10. /\ dest \o rest \in Seq(Int) /\ Len(dest \o rest) = rbytes
       /\ \A k \in 1 .. rbytes :
             (dest \o rest)[k] = IF k <= Size - readHead THEN dest[k] ELSE rest[k - (Size - readHead)]
  <2>1. (Size - readHead) + readEnd = rbytes
    BY <1>5, RingFacts
  <2>2. dest \in Seq(Int) /\ rest \in Seq(Int)
        /\ Len(dest) = Size - readHead /\ Len(rest) = readEnd
    BY <1>7, <1>9
  <2>3. /\ dest \o rest \in Seq(Int)
        /\ Len(dest \o rest) = Len(dest) + Len(rest)
        /\ \A k \in 1 .. Len(dest) + Len(rest) :
              (dest \o rest)[k] = IF k <= Len(dest) THEN dest[k] ELSE rest[k - Len(dest)]
    BY <2>2, ConcatProperties, Zenon
  <2>4. Len(dest) + Len(rest) = rbytes
    BY <2>1, <2>2, Zenon
  <2>. QED BY <2>2, <2>3, <2>4, Zenon
<1>11. ASSUME NEW k \in 1 .. rbytes
       PROVE  (dest \o rest)[k] = received + k
  <2>1. k \in Int /\ 1 <= k /\ k <= rbytes
    BY RingFacts
  <2>2. CASE k <= Size - readHead
    BY <1>7, <1>10, <2>1, <2>2, RingFacts, SMTT(30)
  <2>3. CASE ~ (k <= Size - readHead)
    <3>1. PICK j \in Int : j = k - (Size - readHead) /\ 1 <= j /\ j <= readEnd
      BY <1>5, <2>1, <2>3, RingFacts
    <3>a. (dest \o rest)[k] = rest[j]
      BY <1>10, <2>3, <3>1
    <3>b. j \in 1 .. readEnd
      BY <3>1, RingFacts
    <3>2. (dest \o rest)[k] = buf[0 + j - 1]
      BY <1>9, <3>a, <3>b
    <3>3. k - 1 \in Int /\ 0 <= k - 1 /\ k - 1 < sent - received /\ readHead + (k - 1) >= Size
      BY <1>1, <2>1, <2>3, RingFacts
    <3>4. buf[readHead + (k - 1) - Size] = received + 1 + (k - 1)
      BY <3>3, Oldest
    <3>5. readHead + (k - 1) - Size = 0 + j - 1 /\ received + 1 + (k - 1) = received + k
      BY <2>1, <3>1, RingFacts
    <3>. QED BY <3>2, <3>4, <3>5
  <2>. QED BY <2>2, <2>3
<1>12. dest' = [k \in 1 .. rbytes |-> received + k]
  <2>1. DOMAIN (dest \o rest) = 1 .. rbytes /\ dest \o rest \in [1 .. rbytes -> Int]
    BY <1>10, LenProperties
  <2>2. dest \o rest = [k \in 1 .. rbytes |-> (dest \o rest)[k]]
    BY <2>1
  <2>. QED BY <1>6, <1>11, <2>2
<1>13. Reading'
  BY <1>1, <1>2, <1>12 DEF Reading, Wrap, ReadWrap
<1>. QED BY <1>3, <1>4, <1>13 DEF RingInv

\* Moving the read head over n published bytes leaves a window of the rest.
LEMMA WindowReleased ==
    ASSUME RingInv, NEW n \in 0 .. Size - 1, n <= sent - received,
           readHead' = Wrap(readHead + n), received' = received + n,
           UNCHANGED <<buf, writeHead, sent>>
    PROVE  Window'
<1>1. n \in Int /\ 0 <= n /\ n < Size
  BY RingFacts
<1>2. readHead' = (IF readHead + n >= Size THEN readHead + n - Size ELSE readHead + n)
  BY <1>1, RingFacts DEF Wrap
<1>3. PICK u \in Int : u = sent - received /\ 0 <= u /\ u < Size /\ n <= u
  BY RingFacts
<1>4. sent' - received' = u - n /\ sent' - received' < Size
  BY <1>1, <1>3, RingFacts
<1>5. writeHead' = Wrap(readHead' + (u - n))
  <2>1. writeHead = (IF readHead + u >= Size THEN readHead + u - Size ELSE readHead + u)
    BY <1>3, RingFacts DEF RingInv, Window, Wrap
  <2>. QED BY <1>1, <1>2, <1>3, <2>1, RingFacts DEF Wrap
<1>6. ASSUME NEW k \in 0 .. Size - 1, k < sent' - received'
      PROVE  buf'[Wrap(readHead' + k)] = received' + 1 + k
  <2>1. k \in Int /\ 0 <= k /\ k + n < u
    BY <1>1, <1>3, <1>4, <1>6, RingFacts
  <2>2. k + n \in 0 .. Size - 1 /\ k + n < sent - received
    BY <1>1, <1>3, <2>1, RingFacts
  <2>3. buf[Wrap(readHead + (k + n))] = received + 1 + (k + n)
    BY <2>2 DEF RingInv, Window
  <2>4. Wrap(readHead' + k) = Wrap(readHead + (k + n))
    BY <1>1, <1>2, <1>3, <2>1, RingFacts DEF Wrap
  <2>5. received + 1 + (k + n) = received' + 1 + k
    BY <1>1, <2>1, RingFacts
  <2>. QED BY <2>3, <2>4, <2>5 DEF Wrap
<1>. QED BY <1>4, <1>5, <1>6 DEF Window, Wrap

LEMMA RingReadPublish ==
    ASSUME RingInv, ReadPublish
    PROVE  RingInv'
<1>1. reader = "publish" /\ rbytes <= sent - received /\ readEnd = Wrap(readHead + rbytes)
  BY DEF RingInv, Reading, ReadPublish
<1>2. reader' = "idle" /\ UNCHANGED <<buf, writeHead, writer, bytes, writeEnd, rbytes, readEnd,
                                      advance, sent>>
  BY DEF ReadPublish, writing
<1>3. Reading'
  BY <1>2 DEF Reading
<1>4. CASE advance
  <2>1. readHead' = readEnd /\ received' = received + rbytes
    BY <1>4 DEF ReadPublish
  <2>2. received' \in 0 .. sent' /\ received' >= received
    BY <1>1, <1>2, <2>1, RingFacts
  <2>3. TypeOK'
    BY <1>2, <2>1, <2>2 DEF RingInv, TypeOK
  <2>4. rbytes \in 0 .. Size - 1
    BY DEF RingInv, TypeOK
  <2>5. Window'
    BY <1>1, <1>2, <2>1, <2>4, WindowReleased
  <2>6. Writing'
    BY <1>2, <2>2, RingFacts DEF RingInv, Writing, Wrap
  <2>. QED BY <1>3, <2>3, <2>5, <2>6 DEF RingInv
<1>5. CASE ~ advance
  <2>1. UNCHANGED <<readHead, received>>
    BY <1>5 DEF ReadPublish
  <2>2. TypeOK'
    BY <1>2, <2>1 DEF RingInv, TypeOK
  <2>3. Window' /\ Writing'
    BY <1>2, <2>1 DEF RingInv, Window, Writing, Wrap
  <2>. QED BY <1>3, <2>2, <2>3 DEF RingInv
<1>. QED BY <1>4, <1>5

LEMMA RingReadAdvance ==
    ASSUME RingInv, NEW n \in Requests, ReadAdvance(n)
    PROVE  RingInv'
<1>1. n \in Nat /\ n <= sent - received
  BY SpacesExact, RequestsAssumption DEF RingInv, ReadAdvance
<1>2. n \in 0 .. Size - 1 /\ readHead \in Positions
  BY <1>1, RingFacts DEF RingInv, TypeOK
<1>3. readHead' = Wrap(readHead + n) /\ readHead' \in Positions
  BY <1>2, HeadWraps DEF ReadAdvance
<1>4. reader = "idle" /\ received' = received + n
      /\ UNCHANGED <<buf, writeHead, writer, bytes, writeEnd, reader, rbytes, readEnd,
                     advance, sent>>
  BY DEF ReadAdvance, writing, reading
<1>5. received' \in 0 .. sent' /\ received' >= received
  BY <1>1, <1>4, RingFacts
<1>6. TypeOK'
  BY <1>3, <1>4, <1>5 DEF RingInv, TypeOK
<1>7. Window'
  BY <1>1, <1>2, <1>3, <1>4, WindowReleased
<1>8. Writing'
  BY <1>4, <1>5, RingFacts DEF RingInv, Writing, Wrap
<1>9. Reading'
  BY <1>4 DEF Reading
<1>. QED BY <1>6, <1>7, <1>8, <1>9 DEF RingInv

LEMMA RingReset ==
    ASSUME RingInv, Reset
    PROVE  RingInv'
<1>1. /\ reader = "idle" /\ writer = "idle" /\ writeHead' = 0 /\ readHead' = 0
      /\ received' = sent
      /\ UNCHANGED <<buf, writer, bytes, writeEnd, reader, rbytes, readEnd, advance, sent>>
  BY DEF Reset, writing, reading
<1>2. 0 \in Positions
  BY RingFacts, InPositions
<1>3. received' \in 0 .. sent'
  BY <1>1, RingFacts
<1>4. TypeOK'
  BY <1>1, <1>2, <1>3 DEF RingInv, TypeOK
<1>5. Window'
  BY <1>1, RingFacts DEF Window, Wrap
<1>6. Writing' /\ Reading'
  BY <1>1 DEF Writing, Reading
<1>. QED BY <1>4, <1>5, <1>6 DEF RingInv

-----------------------------------------------------------------------------
(* Theorems *)

\* Every step of either thread, and of a reset, preserves the invariant.
LEMMA RingNext ==
    ASSUME RingInv, [Next]_vars
    PROVE  RingInv'
<1>1. CASE \E n \in Requests : WriteBegin(n) \/ FillInPlace(n)
  BY <1>1, RingWriteBegin, RingFillInPlace
<1>2. CASE WriteCopy \/ WriteWrap \/ WritePublish \/ WriteAdvance
  BY <1>2, RingWriteCopy, RingWriteWrap, RingWritePublish, RingWriteAdvance
<1>3. CASE \E n \in Requests, moves \in BOOLEAN : ReadBegin(n, moves)
  BY <1>3, RingReadBegin
<1>4. CASE ReadCopy \/ ReadWrap \/ ReadPublish
  BY <1>4, RingReadCopy, RingReadWrap, RingReadPublish
<1>5. CASE \E n \in Requests : ReadAdvance(n)
  BY <1>5, RingReadAdvance
<1>6. CASE Reset
  BY <1>6, RingReset
<1>7. CASE UNCHANGED vars
  BY <1>7 DEF RingInv, TypeOK, Window, Writing, Reading, Wrap,
              vars, rb, writing, reading, history
<1>. QED BY <1>1, <1>2, <1>3, <1>4, <1>5, <1>6, <1>7 DEF Next

\* The heads of the buffer always delimit the bytes that were published and
\* not released, in order and not overwritten, while both threads are in the
\* middle of a write and of a read (ringbuffer.c, write, read and peek).
THEOREM RingInvariant == Spec => []RingInv
<1>. QED BY RingInit, RingNext, PTL DEF Spec

\* The memcpy of the writer and that of the reader never overlap.
THEOREM CopiesDisjointCorrect == Spec => []CopiesDisjoint
<1>1. RingInv => CopiesDisjoint
  <2> SUFFICES ASSUME RingInv, NEW p \in Positions,
                      writer \in {"copy", "wrap"}, Mask(p - writeHead) < bytes,
                      reader \in {"copy", "wrap"}, Mask(p - readHead) < rbytes
               PROVE  FALSE
    BY DEF CopiesDisjoint
  <2>1. p \in Int /\ 0 <= p /\ p < Size
    BY RingFacts DEF Positions
  <2>2. PICK u \in Int : u = sent - received /\ 0 <= u /\ u < Size
    BY RingFacts
  <2>3. bytes + u < Size /\ rbytes <= u
    BY <2>2 DEF RingInv, Writing, Reading
  <2>4. writeHead = (IF readHead + u >= Size THEN readHead + u - Size ELSE readHead + u)
    BY <2>2, RingFacts DEF RingInv, Window, Wrap
  <2>5. Mask(p - writeHead) = (IF p - writeHead < 0 THEN p - writeHead + Size ELSE p - writeHead)
    BY <2>1, RingFacts, MaskWraps
  <2>6. Mask(p - readHead) = (IF p - readHead < 0 THEN p - readHead + Size ELSE p - readHead)
    BY <2>1, RingFacts, MaskWraps
  <2>7. /\ (IF p - writeHead < 0 THEN p - writeHead + Size ELSE p - writeHead) < bytes
        /\ (IF p - readHead < 0 THEN p - readHead + Size ELSE p - readHead) < rbytes
    BY <2>5, <2>6
  <2>. QED BY <2>1, <2>2, <2>3, <2>4, <2>7, RingFacts
<1>. QED BY <1>1, RingInvariant, PTL

\* A read or a peek returns the oldest bytes of the stream.
THEOREM ReturnsOldestCorrect == Spec => ReturnsOldest
<1> DEFINE Old == returned' # returned =>
                    /\ returned' = [k \in 1 .. Len(returned') |-> received + k]
                    /\ received + Len(returned') <= sent
<1>1. ASSUME RingInv, Next, returned' # returned
      PROVE  Old
  <2>1. ReadPublish
    BY <1>1 DEF Next, WriteBegin, FillInPlace, WriteCopy, WriteWrap, WritePublish, WriteAdvance,
                ReadBegin, ReadCopy, ReadWrap, ReadAdvance, Reset, history
  <2>2. returned' = [k \in 1 .. rbytes |-> received + k] /\ rbytes <= sent - received
    BY <1>1, <2>1 DEF RingInv, Reading, ReadPublish
  <2>3. rbytes \in Nat /\ Len(returned') = rbytes
    <3>1. rbytes \in Nat /\ \A k \in 1 .. rbytes : received + k \in Int
      BY <1>1, RingFacts
    <3>. QED BY <2>2, <3>1
  <2>4. received + rbytes <= sent
    BY <1>1, <2>2, <2>3, RingFacts
  <2>. QED BY <2>2, <2>3, <2>4
<1>2. RingInv /\ [Next]_vars => [Old]_vars
  BY <1>1
<1>. QED BY <1>2, RingInvariant, PTL DEF Spec, ReturnsOldest

-----------------------------------------------------------------------------
(* The refinement *)

\* The bytes after byte r, n of them: what the stream holds.
Numbered(r, n) == [k \in 1 .. n |-> r + k]

LEMMA NumberedSeq ==
    ASSUME NEW r \in Int, NEW n \in Nat
    PROVE  /\ Numbered(r, n) \in Seq(Int) /\ Len(Numbered(r, n)) = n
           /\ \A k \in 1 .. n : Numbered(r, n)[k] = r + k
<1>1. \A k \in 1 .. n : r + k \in Int
  OBVIOUS
<1>. QED BY <1>1 DEF Numbered

LEMMA NumberedConcat ==
    ASSUME NEW r \in Int, NEW m \in Nat, NEW n \in Nat
    PROVE  Numbered(r, m) \o Numbered(r + m, n) = Numbered(r, m + n)
<1> DEFINE s == Numbered(r, m)
           t == Numbered(r + m, n)
           u == Numbered(r, m + n)
<1>1. /\ s \in Seq(Int) /\ Len(s) = m /\ \A k \in 1 .. m : s[k] = r + k
      /\ t \in Seq(Int) /\ Len(t) = n /\ \A k \in 1 .. n : t[k] = r + m + k
      /\ u \in Seq(Int) /\ Len(u) = m + n /\ \A k \in 1 .. m + n : u[k] = r + k
  BY NumberedSeq
<1> HIDE DEF s, t, u
<1>2. /\ s \o t \in Seq(Int) /\ Len(s \o t) = m + n
      /\ \A k \in 1 .. m + n : (s \o t)[k] = IF k <= m THEN s[k] ELSE t[k - m]
  <2>1. /\ s \o t \in Seq(Int) /\ Len(s \o t) = Len(s) + Len(t)
        /\ \A k \in 1 .. Len(s) + Len(t) : (s \o t)[k] = IF k <= Len(s) THEN s[k] ELSE t[k - Len(s)]
    BY <1>1, ConcatProperties, Zenon
  <2>. QED BY <1>1, <2>1, Zenon
<1>3. ASSUME NEW k \in 1 .. m + n
      PROVE  (s \o t)[k] = u[k]
  <2>1. CASE k <= m
    BY <1>1, <1>2, <2>1
  <2>2. CASE ~ (k <= m)
    <3>1. k - m \in 1 .. n /\ r + m + (k - m) = r + k
      BY <2>2
    <3>. QED BY <1>1, <1>2, <2>2, <3>1
  <2>. QED BY <2>1, <2>2
<1>4. s \o t = u
  BY <1>1, <1>2, <1>3, SeqEqual, Zenon
<1>. QED BY <1>4 DEF s, t, u

LEMMA NumberedSub ==
    ASSUME NEW r \in Int, NEW m \in Nat, NEW n \in Nat, m <= n
    PROVE  /\ SubSeq(Numbered(r, n), 1, m) = Numbered(r, m)
           /\ SubSeq(Numbered(r, n), m + 1, n) = Numbered(r + m, n - m)
<1> DEFINE s == Numbered(r, n)
<1>1. s \in Seq(Int) /\ Len(s) = n /\ \A k \in 1 .. n : s[k] = r + k
  BY NumberedSeq
<1> HIDE DEF s
<1>2. SubSeq(s, 1, m) = [k \in 1 .. m |-> r + k]
  <2>1. SubSeq(s, 1, m) = [k \in 1 .. 1 + m - 1 |-> s[k + 1 - 1]]
    BY <1>1
  <2>. QED BY <1>1, <2>1
<1>3. SubSeq(s, m + 1, n) = [k \in 1 .. n - m |-> (r + m) + k]
  <2>. QED BY <1>1
<1>. QED BY <1>2, <1>3 DEF s, Numbered

\* Publishing n bytes is a write of the stream.
LEMMA PublishWrites ==
    ASSUME RingInv, NEW n \in Nat, n + (sent - received) < Size,
           sent' = sent + n, UNCHANGED <<received, returned>>
    PROVE  Stream!Next
<1>1. sent - received \in Nat /\ sent \in Int /\ received \in Int /\ Size \in Nat
  BY RingFacts
<1>2. Numbered(received, sent - received) \o Numbered(received + (sent - received), n)
         = Numbered(received, (sent - received) + n)
  BY <1>1, NumberedConcat
<1>3. received + (sent - received) = sent /\ (sent - received) + n = sent' - received'
  BY <1>1
<1>4. Numbered(received, sent - received) \o Numbered(sent, n)
         = Numbered(received', sent' - received')
  BY <1>2, <1>3
<1>5. Len(Numbered(received, sent - received)) + n <= Size - 1
  BY <1>1, NumberedSeq
<1>6. n \in 0 .. Size - 1
  BY <1>1
<1>7. Stream!Write(n)
  BY <1>4, <1>5 DEF Stream!Write, Numbered
<1>. QED BY <1>6, <1>7 DEF Stream!Next

\* Releasing n bytes removes the first bytes of the stream.
LEMMA ReleaseRemoves ==
    ASSUME RingInv, NEW n \in Nat, n <= sent - received, UNCHANGED sent
    PROVE  /\ n \in 0 .. Len(Numbered(received, sent - received))
           /\ received' = received + n =>
                 Numbered(received', sent' - received')
                    = SubSeq(Numbered(received, sent - received), n + 1,
                             Len(Numbered(received, sent - received)))
           /\ SubSeq(Numbered(received, sent - received), 1, n) = Numbered(received, n)
<1>1. sent - received \in Nat /\ sent \in Int /\ received \in Int
  BY RingFacts
<1>2. Len(Numbered(received, sent - received)) = sent - received
  BY <1>1, NumberedSeq
<1>3. /\ SubSeq(Numbered(received, sent - received), 1, n) = Numbered(received, n)
      /\ SubSeq(Numbered(received, sent - received), n + 1, sent - received)
            = Numbered(received + n, (sent - received) - n)
  BY <1>1, NumberedSub
<1>4. received' = received + n => sent' - received' = (sent - received) - n
  BY <1>1
<1>. QED BY <1>1, <1>2, <1>3, <1>4

LEMMA StepImplements ==
    ASSUME RingInv, [Next]_vars
    PROVE  [Stream!Next]_(Stream!vars)
<1>1. CASE WritePublish
  <2>1. bytes \in Nat /\ bytes + (sent - received) < Size
    BY <1>1, RingFacts DEF RingInv, Writing, WritePublish
  <2>. QED BY <1>1, <2>1, PublishWrites DEF WritePublish
<1>2. CASE WriteAdvance
  <2>1. bytes \in Nat /\ bytes + (sent - received) < Size
    BY <1>2, RingFacts DEF RingInv, Writing, WriteAdvance
  <2>. QED BY <1>2, <2>1, PublishWrites DEF WriteAdvance
<1>3. CASE ReadPublish
  <2>1. /\ rbytes \in Nat /\ rbytes <= sent - received
        /\ dest = Numbered(received, rbytes) /\ sent' = sent /\ returned' = dest
    BY <1>3, RingFacts DEF RingInv, Reading, ReadPublish, Numbered
  <2>2. /\ rbytes \in 0 .. Len(Numbered(received, sent - received))
        /\ returned' = SubSeq(Numbered(received, sent - received), 1, rbytes)
    BY <2>1, ReleaseRemoves
  <2>3. CASE advance
    <3>1. received' = received + rbytes
      BY <1>3, <2>3 DEF ReadPublish
    <3>2. Numbered(received', sent' - received')
             = SubSeq(Numbered(received, sent - received), rbytes + 1,
                      Len(Numbered(received, sent - received)))
      BY <2>1, <3>1, ReleaseRemoves
    <3>3. PICK n \in Nat : n = rbytes
      BY <2>1
    <3>4. Stream!Read(n)
      BY <2>1, <2>2, <3>2, <3>3 DEF Stream!Read, Numbered
    <3>. QED BY <2>2, <3>3, <3>4, Zenon DEF Stream!Next, Numbered
  <2>4. CASE ~ advance
    <3>1. UNCHANGED <<received, sent>>
      BY <1>3, <2>4 DEF ReadPublish
    <3>2. Stream!Peek(rbytes)
      BY <2>2, <3>1 DEF Stream!Peek, Numbered
    <3>. QED BY <2>2, <3>2, Zenon DEF Stream!Next, Numbered
  <2>. QED BY <2>3, <2>4
<1>4. CASE \E n \in Requests : ReadAdvance(n)
  <2>1. PICK n \in Requests : ReadAdvance(n)
    BY <1>4
  <2>2. n \in Nat /\ n <= sent - received
    BY <2>1, SpacesExact, RequestsAssumption DEF RingInv, ReadAdvance
  <2>3. received' = received + n /\ UNCHANGED <<sent, returned>>
    BY <2>1 DEF ReadAdvance
  <2>4. /\ n \in 0 .. Len(Numbered(received, sent - received))
        /\ Numbered(received', sent' - received')
              = SubSeq(Numbered(received, sent - received), n + 1,
                       Len(Numbered(received, sent - received)))
    BY <2>2, <2>3, ReleaseRemoves
  <2>5. Stream!Skip(n)
    BY <2>3, <2>4 DEF Stream!Skip, Numbered
  <2>. QED BY <2>4, <2>5, Zenon DEF Stream!Next, Numbered
<1>5. CASE Reset
  <2>1. received' = sent /\ UNCHANGED <<sent, returned>>
    BY <1>5 DEF Reset
  <2>2. sent - received \in Nat /\ received' = received + (sent - received)
    BY <2>1, RingFacts
  <2>3. /\ sent - received \in 0 .. Len(Numbered(received, sent - received))
        /\ Numbered(received', sent' - received')
              = SubSeq(Numbered(received, sent - received), (sent - received) + 1,
                       Len(Numbered(received, sent - received)))
    BY <2>1, <2>2, ReleaseRemoves
  <2>4. PICK n \in Nat : n = sent - received
    BY <2>2
  <2>5. Stream!Skip(n)
    BY <2>1, <2>3, <2>4 DEF Stream!Skip, Numbered
  <2>. QED BY <2>3, <2>4, <2>5, Zenon DEF Stream!Next, Numbered
<1>6. CASE UNCHANGED <<sent, received, returned>>
  BY <1>6 DEF Stream!vars
<1>7. \/ WritePublish \/ WriteAdvance \/ ReadPublish \/ Reset
      \/ \E n \in Requests : ReadAdvance(n)
      \/ UNCHANGED <<sent, received, returned>>
  <2>1. ASSUME NEW n \in Requests, WriteBegin(n) \/ FillInPlace(n)
        PROVE  UNCHANGED <<sent, received, returned>>
    BY <2>1 DEF WriteBegin, FillInPlace, history
  <2>2. ASSUME NEW n \in Requests, NEW moves \in BOOLEAN, ReadBegin(n, moves)
        PROVE  UNCHANGED <<sent, received, returned>>
    BY <2>2 DEF ReadBegin, history
  <2>3. ASSUME WriteCopy \/ WriteWrap \/ ReadCopy \/ ReadWrap \/ UNCHANGED vars
        PROVE  UNCHANGED <<sent, received, returned>>
    BY <2>3 DEF WriteCopy, WriteWrap, ReadCopy, ReadWrap, vars, history
  <2>. QED BY <2>1, <2>2, <2>3, Zenon DEF Next
<1>. QED BY <1>1, <1>2, <1>3, <1>4, <1>5, <1>6, <1>7

\* Seen from outside, the single loads, stores and copies of both threads are
\* the indivisible writes, reads, peeks and skips of a bounded stream.
THEOREM ByteStreamImplemented == Spec => ImplementsByteStream
<1>1. Init => Stream!Init
  <2>1. ASSUME Init PROVE [k \in 1 .. sent - received |-> received + k] = <<>>
    BY <2>1 DEF Init
  <2>. QED BY <2>1 DEF Init, Stream!Init
<1>. QED BY <1>1, StepImplements, RingInvariant, PTL DEF Spec, ImplementsByteStream, Stream!Spec

-----------------------------------------------------------------------------
(* TLSF: numbers *)

\* A set of numbers has a least element.
LEMMA LeastOf ==
    ASSUME NEW S, S \subseteq Nat, S # {}
    PROVE  \E m \in S : \A j \in S : m <= j
<1>1. PICK m \in S : \A j \in S : ~(<<j, m>> \in OpToRel(<, Nat))
  BY NatLessThanWellFounded, WFMin
<1>2. \A j \in S : ~(j < m)
  BY <1>1 DEF OpToRel
<1>. QED BY <1>2

\* Induction, about a set.
LEMMA EveryNumber ==
    ASSUME NEW T, 0 \in T, \A m \in Nat : m \in T => m + 1 \in T
    PROVE  Nat \subseteq T
<1>. DEFINE left == Nat \ T
<1>. SUFFICES ASSUME left # {} PROVE FALSE
  OBVIOUS
<1>1. PICK m \in left : \A j \in left : m <= j
  BY LeastOf
<1>2. m # 0 /\ m - 1 \in Nat /\ (m - 1) + 1 = m
  BY <1>1
<1>3. m - 1 \in T
  BY <1>1, <1>2
<1>. QED BY <1>1, <1>2, <1>3

\* The table of the powers of two up to n.
IsBit(f, n) == f = [i \in 0 .. n |-> IF i = 0 THEN 1 ELSE 2 * f[i - 1]]

\* The powers of two up to the n-th, as a function.
LEMMA BitExists ==
    ASSUME NEW n \in Nat
    PROVE  \E f : IsBit(f, n)
<1>. DEFINE T == {m \in Nat : \E f : IsBit(f, m)}
<1>1. 0 \in T
  <2>1. IsBit([i \in 0 .. 0 |-> 1], 0)
    BY DEF IsBit
  <2>. QED BY <2>1
<1>2. ASSUME NEW m \in Nat, m \in T PROVE m + 1 \in T
  <2>1. PICK f : IsBit(f, m)
    BY <1>2
  <2>. DEFINE g == [i \in 0 .. m + 1 |-> IF i = m + 1 THEN 2 * f[m] ELSE f[i]]
  <2>2. \A i \in 0 .. m + 1 : g[i] = IF i = m + 1 THEN 2 * f[m] ELSE f[i]
    OBVIOUS
  <2>3. g = [i \in 0 .. m + 1 |-> g[i]]
    OBVIOUS
  <2>. HIDE DEF g
  <2>4. ASSUME NEW i \in 0 .. m + 1
        PROVE  g[i] = IF i = 0 THEN 1 ELSE 2 * g[i - 1]
    <3>1. CASE i = m + 1
      <4>1. i # 0 /\ i - 1 = m /\ m \in 0 .. m + 1 /\ m # m + 1
        BY <3>1
      <4>. QED BY <2>2, <3>1, <4>1
    <3>2. CASE i # m + 1
      <4>1. i \in 0 .. m /\ (i # 0 => i - 1 \in 0 .. m + 1 /\ i - 1 # m + 1)
        BY <3>2
      <4>2. f[i] = IF i = 0 THEN 1 ELSE 2 * f[i - 1]
        BY <2>1, <4>1 DEF IsBit
      <4>. QED BY <2>2, <3>2, <4>1, <4>2
    <3>. QED BY <3>1, <3>2
  <2>5. IsBit(g, m + 1)
    BY <2>3, <2>4 DEF IsBit
  <2>. QED BY <2>5
<1>3. Nat \subseteq T
  <2>. HIDE DEF T
  <2>. QED BY <1>1, <1>2, EveryNumber
<1>. QED BY <1>3

\* Bit is the function that its definition describes.
LEMMA BitIs == IsBit(Bit, MaxFli)
<1>. DEFINE F(f) == [i \in 0 .. MaxFli |-> IF i = 0 THEN 1 ELSE 2 * f[i - 1]]
<1>1. MaxFli \in Nat
  BY TlsfAssumption
<1>2. \E f : f = F(f)
  BY <1>1, BitExists DEF IsBit
<1>3. PICK c : c = (CHOOSE f : f = F(f))
  OBVIOUS
<1>4. c = F(c)
  <2>. HIDE DEF F
  <2>. QED BY <1>2, <1>3
<1>5. Bit = c
  BY <1>3, Zenon DEF Bit
<1>. QED BY <1>4, <1>5 DEF IsBit

\* Bit[i] is 2 ^ i.
LEMMA BitNumbers ==
    /\ Bit[0] = 1
    /\ \A i \in 0 .. MaxFli : Bit[i] \in Nat \ {0}
    /\ \A i \in 0 .. MaxFli - 1 : Bit[i + 1] = 2 * Bit[i]
<1>1. MaxFli \in Nat
  BY TlsfAssumption
<1>2. \A i \in 0 .. MaxFli : Bit[i] = IF i = 0 THEN 1 ELSE 2 * Bit[i - 1]
  <2>1. Bit = [i \in 0 .. MaxFli |-> IF i = 0 THEN 1 ELSE 2 * Bit[i - 1]]
    BY BitIs, Zenon DEF IsBit
  <2>. QED BY <2>1
<1>. DEFINE T == {m \in Nat : m <= MaxFli => Bit[m] \in Nat \ {0}}
<1>3. 0 \in T
  BY <1>1, <1>2
<1>4. ASSUME NEW m \in Nat, m \in T PROVE m + 1 \in T
  <2>1. m + 1 <= MaxFli => Bit[m + 1] = 2 * Bit[m] /\ m <= MaxFli
    BY <1>1, <1>2
  <2>. QED BY <1>1, <1>4, <2>1
<1>5. Nat \subseteq T
  <2>. HIDE DEF T
  <2>. QED BY <1>3, <1>4, EveryNumber
<1>6. \A i \in 0 .. MaxFli - 1 : Bit[i + 1] = 2 * Bit[i]
  BY <1>1, <1>2
<1>. QED BY <1>1, <1>2, <1>5, <1>6

\* A product of powers is a power.
LEMMA BitProduct ==
    ASSUME NEW i \in Nat, NEW j \in Nat, i + j <= MaxFli
    PROVE  Bit[i + j] = Bit[i] * Bit[j]
<1>1. MaxFli \in Nat /\ i \in 0 .. MaxFli
  BY TlsfAssumption
<1>. DEFINE T == {m \in Nat : i + m <= MaxFli => Bit[i + m] = Bit[i] * Bit[m]}
<1>2. 0 \in T
  BY <1>1, BitNumbers
<1>3. ASSUME NEW m \in Nat, m \in T PROVE m + 1 \in T
  <2>. SUFFICES ASSUME i + (m + 1) <= MaxFli PROVE Bit[i + (m + 1)] = Bit[i] * Bit[m + 1]
    OBVIOUS
  <2>1. Bit[i + m] = Bit[i] * Bit[m]
    BY <1>1, <1>3
  <2>2. /\ i + m \in 0 .. MaxFli - 1 /\ m \in 0 .. MaxFli - 1 /\ m \in 0 .. MaxFli
        /\ i + (m + 1) = (i + m) + 1
    BY <1>1
  <2>3. Bit[(i + m) + 1] = 2 * Bit[i + m] /\ Bit[m + 1] = 2 * Bit[m]
    BY <2>2, BitNumbers
  <2>4. Bit[i] \in Nat /\ Bit[m] \in Nat
    BY <1>1, <2>2, BitNumbers
  <2>5. \A x, y \in Nat : 2 * (x * y) = x * (2 * y)
    OBVIOUS
  <2>. QED BY <2>1, <2>2, <2>3, <2>4, <2>5
<1>4. Nat \subseteq T
  <2>. HIDE DEF T
  <2>. QED BY <1>2, <1>3, EveryNumber
<1>. QED BY <1>4

\* A higher bit is at least twice a lower one.
LEMMA BitGrows ==
    ASSUME NEW i \in 0 .. MaxFli, NEW j \in 0 .. MaxFli, i < j
    PROVE  2 * Bit[i] <= Bit[j]
<1>1. MaxFli \in Nat
  BY TlsfAssumption
<1>. DEFINE T == {m \in Nat : i + 1 + m <= MaxFli => 2 * Bit[i] <= Bit[i + 1 + m]}
<1>2. 0 \in T
  BY <1>1, BitNumbers
<1>3. ASSUME NEW m \in Nat, m \in T PROVE m + 1 \in T
  <2>. SUFFICES ASSUME i + 1 + (m + 1) <= MaxFli PROVE 2 * Bit[i] <= Bit[i + 1 + (m + 1)]
    OBVIOUS
  <2>1. 2 * Bit[i] <= Bit[i + 1 + m]
    BY <1>1, <1>3
  <2>2. i + 1 + m \in 0 .. MaxFli - 1 /\ i + 1 + m \in 0 .. MaxFli /\ i + 1 + (m + 1) = (i + 1 + m) + 1
    BY <1>1
  <2>3. Bit[(i + 1 + m) + 1] = 2 * Bit[i + 1 + m] /\ Bit[i + 1 + m] \in Nat /\ Bit[i] \in Nat
    BY <1>1, <2>2, BitNumbers
  <2>. QED BY <2>1, <2>2, <2>3
<1>4. Nat \subseteq T
  <2>. HIDE DEF T
  <2>. QED BY <1>2, <1>3, EveryNumber
<1>5. j - (i + 1) \in Nat /\ i + 1 + (j - (i + 1)) = j /\ j <= MaxFli
  BY <1>1
<1>. QED BY <1>4, <1>5

-----------------------------------------------------------------------------
(* TLSF: the class of a size *)

\* A number is its quotient times the divisor and a remainder.
LEMMA DivFacts ==
    ASSUME NEW a \in Nat, NEW w \in Nat \ {0}
    PROVE  /\ a \div w \in Nat /\ a % w \in 0 .. w - 1
           /\ w * (a \div w) <= a /\ a - w < w * (a \div w)
  OBVIOUS

\* A multiple is divided exactly.
LEMMA DivMultiple ==
    ASSUME NEW q \in Nat, NEW w \in Nat \ {0}
    PROVE  (w * q) % w = 0 /\ (w * q) \div w = q
<1>1. w * q = q * w + 0 /\ 0 < w
  OBVIOUS
<1>2. \A r \in 0 .. w - 1 : (q * w + r) % w = r /\ (q * w + r) \div w = q
  OBVIOUS
<1>. QED BY <1>1, <1>2

\* A multiple is its quotient times the divisor.
LEMMA DivExact ==
    ASSUME NEW a \in Nat, NEW w \in Nat \ {0}, a % w = 0
    PROVE  a = w * (a \div w)
  OBVIOUS

\* A larger number has no smaller quotient.
LEMMA DivMonotone ==
    ASSUME NEW a \in Nat, NEW b \in Nat, NEW w \in Nat \ {0}, a <= b
    PROVE  a \div w <= b \div w
  OBVIOUS

\* What the quotient is between two multiples.
LEMMA DivBetween ==
    ASSUME NEW a \in Nat, NEW w \in Nat \ {0}, NEW q \in Nat, w * q <= a, a < w * q + w
    PROVE  a \div w = q
<1>1. a - w * q \in 0 .. w - 1 /\ a = q * w + (a - w * q)
  OBVIOUS
<1>2. \A r \in 0 .. w - 1 : (q * w + r) \div w = q
  OBVIOUS
<1>. QED BY <1>1, <1>2

\* A larger number has no smaller multiple.
LEMMA TimesMonotone ==
    ASSUME NEW w \in Nat, NEW p \in Nat, NEW q \in Nat, p <= q
    PROVE  w * p <= w * q
<1>1. q - p \in Nat /\ q = p + (q - p)
  OBVIOUS
<1>2. w * q = w * p + w * (q - p)
  BY <1>1
<1>3. w * (q - p) \in Nat
  BY <1>1
<1>. QED BY <1>2, <1>3

\* The width of the lists of small blocks.
Width == SmallBlock \div MaxSli

\* What TlsfAssumption says of the constants of the tables.
LEMMA TableFacts ==
    /\ MaxFli \in Nat \ {0} /\ Log2Sli \in 1 .. MaxFli /\ FliOffset \in 1 .. MaxFli - 1
    /\ Align \in Nat \ {0} /\ MinBlock \in Nat \ {0} /\ Overhead \in Nat \ {0}
    /\ AreaSize \in Nat \ {0} /\ Admin \in Nat \ {0}
    /\ MaxSli \in Nat \ {0} /\ SmallBlock \in Nat \ {0} /\ Log2Sli <= FliOffset + 1
    /\ Width \in Nat \ {0} /\ SmallBlock = Width * MaxSli
<1>1. /\ MaxFli \in Nat \ {0} /\ Log2Sli \in 1 .. MaxFli /\ FliOffset \in 1 .. MaxFli - 1
      /\ Align \in Nat \ {0} /\ MinBlock \in Nat \ {0} /\ Overhead \in Nat \ {0}
      /\ AreaSize \in Nat \ {0} /\ Admin \in Nat \ {0}
  BY TlsfAssumption
<1>2. MaxSli \in Nat \ {0} /\ SmallBlock \in Nat \ {0}
  <2>1. Log2Sli \in 0 .. MaxFli /\ FliOffset + 1 \in 0 .. MaxFli
    BY <1>1
  <2>. QED BY <2>1, BitNumbers DEF MaxSli, SmallBlock
<1>3. SmallBlock % MaxSli = 0
  BY TlsfAssumption
<1>4. SmallBlock = MaxSli * (SmallBlock \div MaxSli) /\ SmallBlock \div MaxSli \in Nat
  BY <1>2, <1>3, DivExact, DivFacts
<1>5. Width \in Nat \ {0} /\ SmallBlock = Width * MaxSli
  BY <1>2, <1>4 DEF Width
<1>6. Log2Sli <= FliOffset + 1
  <2>. SUFFICES ASSUME FliOffset + 1 < Log2Sli PROVE FALSE
    BY <1>1
  <2>1. 2 * SmallBlock <= MaxSli
    <3>1. FliOffset + 1 \in 0 .. MaxFli /\ Log2Sli \in 0 .. MaxFli
      BY <1>1
    <3>. QED BY <3>1, BitGrows DEF MaxSli, SmallBlock
  <2>2. 1 * MaxSli <= Width * MaxSli
    BY <1>2, <1>5, TimesMonotone
  <2>. QED BY <1>2, <1>5, <2>1, <2>2
<1>. QED BY <1>1, <1>2, <1>5, <1>6

\* The most significant bit of a number is the only one that its range fits.
LEMMA MsBitIs ==
    ASSUME NEW x \in Nat, NEW m \in 0 .. MaxFli, Bit[m] <= x, x < 2 * Bit[m]
    PROVE  MsBit(x) = m
<1>1. ASSUME NEW i \in 0 .. MaxFli, Bit[i] <= x, x < 2 * Bit[i] PROVE i = m
  <2>1. Bit[i] \in Nat /\ Bit[m] \in Nat /\ MaxFli \in Nat
    BY BitNumbers, TableFacts
  <2>2. CASE i < m
    BY <1>1, <2>1, <2>2, BitGrows
  <2>3. CASE m < i
    BY <1>1, <2>1, <2>3, BitGrows
  <2>. QED BY <2>1, <2>2, <2>3
<1>. QED BY <1>1 DEF MsBit

\* MS_BIT (tlsf.c) of a number below 2 ^ MAX_FLI.
LEMMA MsBitFacts ==
    ASSUME NEW x \in Nat \ {0}, x < Bit[MaxFli]
    PROVE  /\ MsBit(x) \in 0 .. MaxFli - 1
           /\ Bit[MsBit(x)] <= x /\ x < 2 * Bit[MsBit(x)]
<1>1. MaxFli \in Nat \ {0}
  BY TableFacts
<1>. DEFINE S == {i \in 0 .. MaxFli : x < Bit[i]}
<1>2. PICK m \in S : \A j \in S : m <= j
  <2>1. S \subseteq Nat /\ MaxFli \in S
    BY <1>1
  <2>. QED BY <2>1, LeastOf
<1>3. m # 0
  BY <1>2, BitNumbers
<1>4. m - 1 \in 0 .. MaxFli - 1 /\ m - 1 \in 0 .. MaxFli /\ m - 1 \notin S /\ (m - 1) + 1 = m
  BY <1>1, <1>2, <1>3
<1>5. Bit[m - 1] \in Nat /\ Bit[m] = 2 * Bit[m - 1]
  BY <1>4, BitNumbers
<1>6. Bit[m - 1] <= x /\ x < 2 * Bit[m - 1]
  BY <1>2, <1>4, <1>5
<1>7. MsBit(x) = m - 1
  BY <1>4, <1>6, MsBitIs
<1>. QED BY <1>4, <1>6, <1>7

\* The width of the list of a size.
WidthOf(x) == IF x < SmallBlock THEN Width ELSE Bit[MsBit(x) - Log2Sli]

\* MAPPING_INSERT for the sizes that the first level tells apart.
LEMMA LargeSizes ==
    ASSUME NEW x \in Nat, SmallBlock <= x, x < Bit[MaxFli]
    PROVE  /\ MsBit(x) \in FliOffset + 1 .. MaxFli - 1
           /\ Bit[MsBit(x)] <= x /\ x < 2 * Bit[MsBit(x)]
           /\ WidthOf(x) = Bit[MsBit(x) - Log2Sli] /\ WidthOf(x) \in Nat \ {0}
           /\ Bit[MsBit(x)] = WidthOf(x) * MaxSli
           /\ x \div WidthOf(x) \in MaxSli .. 2 * MaxSli - 1
           /\ MappingInsert(x) = <<MsBit(x) - FliOffset, (x \div WidthOf(x)) - MaxSli>>
<1>1. x \in Nat \ {0}
  BY TableFacts
<1>2. PICK m : m = MsBit(x)
  OBVIOUS
<1>3. m \in 0 .. MaxFli - 1 /\ Bit[m] <= x /\ x < 2 * Bit[m]
  BY <1>1, <1>2, MsBitFacts
<1>4. /\ MaxFli \in Nat \ {0} /\ Log2Sli \in 1 .. MaxFli
      /\ FliOffset \in 1 .. MaxFli - 1 /\ Log2Sli <= FliOffset + 1
      /\ MaxSli \in Nat \ {0} /\ SmallBlock \in Nat \ {0}
  BY TableFacts
<1>5. m \in FliOffset + 1 .. MaxFli - 1
  <2>. SUFFICES ASSUME m < FliOffset + 1 PROVE FALSE
    BY <1>3, <1>4
  <2>1. 2 * Bit[m] <= Bit[FliOffset + 1]
    <3>1. m \in 0 .. MaxFli /\ FliOffset + 1 \in 0 .. MaxFli
      BY <1>3, <1>4
    <3>. QED BY <3>1, BitGrows
  <2>2. Bit[m] \in Nat
    BY <1>3, <1>4, BitNumbers
  <2>. QED BY <1>3, <1>4, <2>1, <2>2 DEF SmallBlock
<1>6. PICK w : w = Bit[m - Log2Sli]
  OBVIOUS
<1>7. w \in Nat \ {0} /\ Bit[m] = w * MaxSli
  <2>1. m - Log2Sli \in Nat /\ Log2Sli \in Nat /\ (m - Log2Sli) + Log2Sli = m /\ m <= MaxFli
        /\ m - Log2Sli \in 0 .. MaxFli
    BY <1>4, <1>5
  <2>2. Bit[(m - Log2Sli) + Log2Sli] = Bit[m - Log2Sli] * Bit[Log2Sli]
    BY <2>1, BitProduct
  <2>3. Bit[m - Log2Sli] \in Nat \ {0}
    BY <2>1, BitNumbers
  <2>. QED BY <1>6, <2>1, <2>2, <2>3 DEF MaxSli
<1>8. WidthOf(x) = w
  BY <1>2, <1>4, <1>6 DEF WidthOf
<1>9. x \div w \in MaxSli .. 2 * MaxSli - 1
  <2>1. x \div w \in Nat /\ w * (x \div w) <= x /\ x - w < w * (x \div w)
    BY <1>7, DivFacts
  <2>2. MaxSli <= x \div w
    <3>. SUFFICES ASSUME (x \div w) + 1 <= MaxSli PROVE FALSE
      BY <1>4, <2>1
    <3>1. w * ((x \div w) + 1) <= w * MaxSli
      BY <1>4, <1>7, <2>1, TimesMonotone
    <3>2. PICK p : p = w * (x \div w)
      OBVIOUS
    <3>3. w * ((x \div w) + 1) = p + w /\ p \in Nat
      BY <1>7, <2>1, <3>2
    <3>4. p + w <= Bit[m] /\ x - w < p /\ Bit[m] \in Nat
      BY <1>4, <1>7, <2>1, <3>1, <3>2, <3>3
    <3>. QED BY <1>3, <1>7, <3>3, <3>4
  <2>3. x \div w < 2 * MaxSli
    <3>. SUFFICES ASSUME 2 * MaxSli <= x \div w PROVE FALSE
      BY <1>4, <2>1
    <3>1. w * (2 * MaxSli) <= w * (x \div w)
      BY <1>4, <1>7, <2>1, TimesMonotone
    <3>2. w * (2 * MaxSli) = 2 * (w * MaxSli)
      BY <1>4, <1>7
    <3>3. PICK p : p = w * (x \div w)
      OBVIOUS
    <3>4. p \in Nat /\ p <= x /\ 2 * Bit[m] <= p /\ Bit[m] \in Nat
      BY <1>7, <1>4, <2>1, <3>1, <3>2, <3>3
    <3>. QED BY <1>3, <3>4
  <2>. QED BY <1>4, <2>1, <2>2, <2>3
<1>10. MappingInsert(x) = <<m - FliOffset, (x \div w) - MaxSli>>
  BY <1>2, <1>4, <1>6 DEF MappingInsert
<1>. QED BY <1>2, <1>3, <1>5, <1>6, <1>7, <1>8, <1>9, <1>10

\* MAPPING_INSERT for the sizes of the first list.
LEMMA SmallSizes ==
    ASSUME NEW x \in Nat, x < SmallBlock
    PROVE  /\ WidthOf(x) = Width /\ x \div Width \in 0 .. MaxSli - 1
           /\ MappingInsert(x) = <<0, x \div Width>>
<1>1. Width \in Nat \ {0} /\ SmallBlock = Width * MaxSli /\ MaxSli \in Nat \ {0}
  BY TableFacts
<1>2. x \div Width \in Nat /\ Width * (x \div Width) <= x
  BY <1>1, DivFacts
<1>3. x \div Width < MaxSli
  <2>. SUFFICES ASSUME MaxSli <= x \div Width PROVE FALSE
    BY <1>1, <1>2
  <2>1. Width * MaxSli <= Width * (x \div Width)
    BY <1>1, <1>2, TimesMonotone
  <2>. QED BY <1>1, <1>2, <2>1
<1>4. MappingInsert(x) = <<0, x \div Width>>
  BY DEF MappingInsert, Width
<1>5. WidthOf(x) = Width
  BY DEF WidthOf
<1>. QED BY <1>1, <1>2, <1>3, <1>4, <1>5

\* Every size below 2 ^ MAX_FLI has a class of the matrix.
LEMMA ClassIn ==
    ASSUME NEW x \in Nat, x < Bit[MaxFli]
    PROVE  MappingInsert(x) \in Classes
<1>1. MaxFli \in Nat \ {0} /\ FliOffset \in 1 .. MaxFli - 1 /\ MaxSli \in Nat \ {0} /\ SmallBlock \in Nat
  BY TableFacts
<1>2. CASE x < SmallBlock
  <2>1. 0 \in 0 .. MaxFl
    BY <1>1 DEF MaxFl
  <2>. QED BY <1>2, <2>1, SmallSizes DEF Classes
<1>3. CASE ~(x < SmallBlock)
  <2>1. SmallBlock <= x
    BY <1>1, <1>3
  <2>2. MsBit(x) - FliOffset \in 0 .. MaxFl /\ (x \div WidthOf(x)) - MaxSli \in 0 .. MaxSli - 1
    <3>1. MsBit(x) \in FliOffset + 1 .. MaxFli - 1 /\ x \div WidthOf(x) \in MaxSli .. 2 * MaxSli - 1
      BY <2>1, LargeSizes
    <3>. QED BY <1>1, <3>1 DEF MaxFl
  <2>. QED BY <2>1, <2>2, LargeSizes DEF Classes
<1>. QED BY <1>2, <1>3

\* The order in which the bitmaps are searched.
Leq(c, d) == c[1] < d[1] \/ (c[1] = d[1] /\ c[2] <= d[2])

\* Quotients by the width keep the order of a multiple and a number.
LEMMA QuotientOrder ==
    ASSUME NEW x \in Nat, NEW y \in Nat, NEW w \in Nat \ {0}, x % w = 0
    PROVE  (x \div w <= y \div w) <=> x <= y
<1>1. x = w * (x \div w) /\ x \div w \in Nat /\ y \div w \in Nat /\ w * (y \div w) <= y
  BY DivExact, DivFacts
<1>2. ASSUME x \div w <= y \div w PROVE x <= y
  <2>1. w * (x \div w) <= w * (y \div w)
    BY <1>1, <1>2, TimesMonotone
  <2>. QED BY <1>1, <2>1
<1>3. ASSUME x <= y PROVE x \div w <= y \div w
  BY <1>3, DivMonotone
<1>. QED BY <1>2, <1>3

\* The smallest size of a class is at most another size exactly when the
\* lists are in that order.
LEMMA ClassOrder ==
    ASSUME NEW x \in Nat, NEW y \in Nat, x < Bit[MaxFli], y < Bit[MaxFli], x % WidthOf(x) = 0
    PROVE  Leq(MappingInsert(x), MappingInsert(y)) <=> x <= y
<1>1. MaxFli \in Nat \ {0} /\ FliOffset \in 1 .. MaxFli - 1 /\ SmallBlock \in Nat /\ Width \in Nat \ {0}
      /\ MaxSli \in Nat \ {0}
  BY TableFacts
<1>2. CASE x < SmallBlock /\ y < SmallBlock
  <2>1. (x \div Width <= y \div Width) <=> x <= y
    BY <1>1, <1>2, SmallSizes, QuotientOrder
  <2>2. MappingInsert(x) = <<0, x \div Width>> /\ MappingInsert(y) = <<0, y \div Width>>
    BY <1>2, SmallSizes
  <2>. QED BY <2>1, <2>2 DEF Leq
<1>3. CASE x < SmallBlock /\ SmallBlock <= y
  <2>1. MappingInsert(x) = <<0, x \div Width>>
    BY <1>3, SmallSizes
  <2>2. MsBit(y) \in FliOffset + 1 .. MaxFli - 1 
        /\ MappingInsert(y) = <<MsBit(y) - FliOffset, (y \div WidthOf(y)) - MaxSli>>
    BY <1>3, LargeSizes
  <2>3. 0 < MsBit(y) - FliOffset
    BY <1>1, <2>2
  <2>. QED BY <1>1, <1>3, <2>1, <2>2, <2>3 DEF Leq
<1>4. CASE SmallBlock <= x /\ y < SmallBlock
  <2>1. MappingInsert(y) = <<0, y \div Width>>
    BY <1>4, SmallSizes
  <2>2. MsBit(x) \in FliOffset + 1 .. MaxFli - 1 
        /\ MappingInsert(x) = <<MsBit(x) - FliOffset, (x \div WidthOf(x)) - MaxSli>>
    BY <1>4, LargeSizes
  <2>3. 0 < MsBit(x) - FliOffset
    BY <1>1, <2>2
  <2>. QED BY <1>1, <1>4, <2>1, <2>2, <2>3 DEF Leq
<1>5. CASE SmallBlock <= x /\ SmallBlock <= y
  <2>1. /\ MsBit(x) \in FliOffset + 1 .. MaxFli - 1 /\ WidthOf(x) \in Nat \ {0}
        /\ Bit[MsBit(x)] <= x /\ x < 2 * Bit[MsBit(x)]
        /\ WidthOf(x) = Bit[MsBit(x) - Log2Sli]
        /\ x \div WidthOf(x) \in MaxSli .. 2 * MaxSli - 1
        /\ MappingInsert(x) = <<MsBit(x) - FliOffset, (x \div WidthOf(x)) - MaxSli>>
    BY <1>5, LargeSizes
  <2>2. /\ MsBit(y) \in FliOffset + 1 .. MaxFli - 1 /\ WidthOf(y) \in Nat \ {0}
        /\ Bit[MsBit(y)] <= y /\ y < 2 * Bit[MsBit(y)]
        /\ WidthOf(y) = Bit[MsBit(y) - Log2Sli]
        /\ y \div WidthOf(y) \in MaxSli .. 2 * MaxSli - 1
        /\ MappingInsert(y) = <<MsBit(y) - FliOffset, (y \div WidthOf(y)) - MaxSli>>
    BY <1>5, LargeSizes
  <2>3. MsBit(x) \in 0 .. MaxFli /\ MsBit(y) \in 0 .. MaxFli
    BY <1>1, <2>1, <2>2
  <2>4. Bit[MsBit(x)] \in Nat /\ Bit[MsBit(y)] \in Nat
    BY <2>3, BitNumbers
  <2>5. CASE MsBit(x) < MsBit(y)
    <3>1. 2 * Bit[MsBit(x)] <= Bit[MsBit(y)]
      BY <2>3, <2>5, BitGrows
    <3>2. MsBit(x) - FliOffset < MsBit(y) - FliOffset
      BY <1>1, <2>3, <2>5
    <3>3. x <= y
      BY <2>1, <2>2, <2>4, <3>1
    <3>. QED BY <2>1, <2>2, <3>2, <3>3 DEF Leq
  <2>6. CASE MsBit(y) < MsBit(x)
    <3>1. 2 * Bit[MsBit(y)] <= Bit[MsBit(x)]
      BY <2>3, <2>6, BitGrows
    <3>2. MsBit(y) - FliOffset < MsBit(x) - FliOffset
      BY <1>1, <2>3, <2>6
    <3>3. ~(x <= y)
      BY <2>1, <2>2, <2>4, <3>1
    <3>4. ~Leq(<<MsBit(x) - FliOffset, (x \div WidthOf(x)) - MaxSli>>,
               <<MsBit(y) - FliOffset, (y \div WidthOf(y)) - MaxSli>>)
      BY <1>1, <2>3, <3>2 DEF Leq
    <3>. QED BY <2>1, <2>2, <3>3, <3>4
  <2>7. CASE MsBit(x) = MsBit(y)
    <3>1. WidthOf(y) = WidthOf(x)
      BY <2>1, <2>2, <2>7
    <3>2. (x \div WidthOf(x) <= y \div WidthOf(x)) <=> x <= y
      BY <2>1, QuotientOrder
    <3>3. Leq(<<MsBit(x) - FliOffset, (x \div WidthOf(x)) - MaxSli>>,
              <<MsBit(x) - FliOffset, (y \div WidthOf(x)) - MaxSli>>)
            <=> x \div WidthOf(x) <= y \div WidthOf(x)
      BY <1>1, <2>1, <2>2, <2>3, <3>1 DEF Leq
    <3>. QED BY <2>1, <2>2, <2>7, <3>1, <3>2, <3>3
  <2>. QED BY <2>3, <2>5, <2>6, <2>7
<1>. QED BY <1>1, <1>2, <1>3, <1>4, <1>5

\* A number without its remainder is the quotient times the divisor.
LEMMA DivRest ==
    ASSUME NEW a \in Nat, NEW w \in Nat \ {0}
    PROVE  a - (a % w) = w * (a \div w)
<1>1. PICK q \in Nat : q = a \div w
  BY DivFacts
<1>2. w * q <= a /\ a - w < w * q /\ w * q \in Nat
  BY <1>1, DivFacts
<1>3. PICK r \in 0 .. w - 1 : r = a - w * q
  BY <1>2
<1>4. a = q * w + r
  BY <1>2, <1>3
<1>5. \A x \in 0 .. w - 1 : (q * w + x) % w = x
  OBVIOUS
<1>6. a % w = r
  BY <1>4, <1>5, Zenon
<1>. QED BY <1>1, <1>2, <1>3, <1>6

\* What the search looks for when the rounding stays in the level.
LEMMA SearchLarge ==
    ASSUME NEW r \in Nat, SmallBlock <= r, 2 * r + 2 <= Bit[MaxFli]
    PROVE  LET s == MappingSearch(r)
           IN  /\ s.size \in Nat /\ r <= s.size /\ s.size < Bit[MaxFli]
               /\ s.class = MappingInsert(s.size) /\ s.size % WidthOf(s.size) = 0
<1>1. /\ MaxFli \in Nat \ {0} /\ FliOffset \in 1 .. MaxFli - 1 /\ SmallBlock \in Nat \ {0}
      /\ MaxSli \in Nat \ {0} /\ Log2Sli \in 1 .. MaxFli /\ Log2Sli <= FliOffset + 1
  BY TableFacts
<1>2. r < Bit[MaxFli]
  <2>1. MaxFli \in 0 .. MaxFli
    BY <1>1
  <2>2. Bit[MaxFli] \in Nat
    BY <2>1, BitNumbers
  <2>. QED BY <2>2
<1>3. PICK m : m = MsBit(r)
  OBVIOUS
<1>4. PICK w : w = Bit[m - Log2Sli]
  OBVIOUS
<1>5. /\ m \in FliOffset + 1 .. MaxFli - 1 /\ Bit[m] <= r /\ r < 2 * Bit[m]
      /\ w \in Nat \ {0} /\ Bit[m] = w * MaxSli
  BY <1>2, <1>3, <1>4, LargeSizes
<1>6. m \in 0 .. MaxFli /\ m + 1 \in 0 .. MaxFli /\ m \in 0 .. MaxFli - 1 /\ MaxFli \in 0 .. MaxFli
      /\ m - Log2Sli \in 0 .. MaxFli - 1 /\ (m - Log2Sli) + 1 = (m + 1) - Log2Sli
  BY <1>1, <1>5
<1>7. Bit[m] \in Nat /\ Bit[m + 1] = 2 * Bit[m] /\ Bit[(m + 1) - Log2Sli] = 2 * w /\ Bit[MaxFli] \in Nat
  BY <1>4, <1>6, BitNumbers
<1>8. m + 1 \in 0 .. MaxFli - 1 /\ 2 * Bit[m + 1] <= Bit[MaxFli]
  <2>1. m + 1 # MaxFli
    BY <1>5, <1>7
  <2>2. m + 1 < MaxFli
    BY <1>1, <1>5, <2>1
  <2>. QED BY <1>1, <1>6, <2>2, BitGrows
<1>9. SmallBlock <= Bit[m]
  <2>1. FliOffset + 1 = m \/ FliOffset + 1 < m
    BY <1>1, <1>5
  <2>2. FliOffset + 1 \in 0 .. MaxFli
    BY <1>1
  <2>3. FliOffset + 1 < m => 2 * SmallBlock <= Bit[m]
    BY <1>6, <2>2, BitGrows DEF SmallBlock
  <2>4. FliOffset + 1 = m => SmallBlock = Bit[m]
    BY DEF SmallBlock
  <2>. QED BY <1>1, <1>7, <2>1, <2>3, <2>4
<1>10. PICK up \in Nat : up = r + w - 1
  BY <1>5
<1>11. PICK q \in Nat : q = up \div w
  BY <1>5, DivFacts
<1>12. PICK z : z = w * q
  OBVIOUS
<1>13. z \in Nat /\ z <= up /\ r <= z /\ up - (up % w) = z
  <2>1. up - (up % w) = w * (up \div w)
    BY <1>5, DivRest
  <2>2. w * (up \div w) <= up /\ up - w < w * (up \div w)
    BY <1>5, DivFacts
  <2>3. z \in Nat /\ z <= up /\ up - w < z
    BY <1>5, <1>11, <1>12, <2>2
  <2>. QED BY <1>5, <1>10, <1>11, <1>12, <2>1, <2>3
<1>14. MappingSearch(r) =
         [size |-> z,
          class |-> <<MsBit(up) - FliOffset, (up \div Bit[MsBit(up) - Log2Sli]) - MaxSli>>]
  <2>1. ~(r < SmallBlock)
    BY <1>1
  <2>. QED BY <1>3, <1>4, <1>10, <1>13, <2>1 DEF MappingSearch
<1>15. CASE up < 2 * Bit[m]
  <2>1. Bit[m] <= up /\ Bit[m] <= z /\ z < 2 * Bit[m] /\ SmallBlock <= z /\ z < Bit[MaxFli]
    BY <1>1, <1>5, <1>7, <1>8, <1>9, <1>10, <1>13, <1>15
  <2>2. MsBit(up) = m /\ MsBit(z) = m
    BY <1>6, <1>13, <1>15, <2>1, MsBitIs
  <2>3. WidthOf(z) = w /\ MappingInsert(z) = <<m - FliOffset, (z \div WidthOf(z)) - MaxSli>>
    BY <1>4, <1>13, <2>1, <2>2, LargeSizes
  <2>4. z % w = 0 /\ z \div w = q
    BY <1>5, <1>12, DivMultiple
  <2>. QED BY <1>4, <1>11, <1>13, <1>14, <2>1, <2>2, <2>3, <2>4
<1>16. CASE 2 * Bit[m] <= up
  <2>1. up < 2 * Bit[m] + w
    BY <1>5, <1>7, <1>10
  <2>2. 2 * Bit[m] = w * (2 * MaxSli) /\ 2 * MaxSli \in Nat
    BY <1>1, <1>5
  <2>3. q = 2 * MaxSli
    BY <1>5, <1>11, <1>16, <2>1, <2>2, DivBetween
  <2>4. z = Bit[m + 1]
    BY <1>7, <1>12, <2>2, <2>3
  <2>5. w <= Bit[m]
    <3>1. w * 1 <= w * MaxSli
      BY <1>1, <1>5, TimesMonotone
    <3>. QED BY <1>5, <3>1
  <2>6. Bit[m + 1] <= up /\ up < 2 * Bit[m + 1] /\ z < 2 * Bit[m + 1] /\ SmallBlock <= z /\ z < Bit[MaxFli]
    BY <1>1, <1>5, <1>7, <1>8, <1>9, <1>13, <1>16, <2>1, <2>4, <2>5
  <2>7. MsBit(up) = m + 1 /\ MsBit(z) = m + 1
    BY <1>6, <1>7, <1>13, <2>4, <2>6, MsBitIs
  <2>8. /\ WidthOf(z) = 2 * w
        /\ MappingInsert(z) = <<(m + 1) - FliOffset, (z \div WidthOf(z)) - MaxSli>>
    BY <1>7, <1>13, <2>6, <2>7, LargeSizes
  <2>9. PICK v \in Nat \ {0} : v = 2 * w
    BY <1>5
  <2>10. z = v * MaxSli
    BY <1>1, <1>5, <1>7, <2>4, <2>9
  <2>11. z % v = 0 /\ z \div v = MaxSli
    BY <1>1, <2>9, <2>10, DivMultiple
  <2>12. up \div v = MaxSli
    <3>1. v * MaxSli <= up /\ up < v * MaxSli + v
      BY <1>5, <1>7, <2>1, <1>13, <2>4, <2>6, <2>9, <2>10
    <3>. QED BY <1>1, <3>1, DivBetween
  <2>. QED BY <1>7, <1>13, <1>14, <2>6, <2>7, <2>8, <2>9, <2>11, <2>12
<1>. QED BY <1>7, <1>15, <1>16

\* The search takes the smallest size of a class, not less than the request.
LEMMA SearchClass ==
    ASSUME NEW r \in Nat, 2 * r + 2 <= Bit[MaxFli], r % Width = 0
    PROVE  LET s == MappingSearch(r)
           IN  /\ s.size \in Nat /\ r <= s.size /\ s.size < Bit[MaxFli]
               /\ s.class = MappingInsert(s.size) /\ s.size % WidthOf(s.size) = 0
<1>1. SmallBlock \in Nat /\ MaxFli \in 0 .. MaxFli
  BY TableFacts
<1>2. CASE r < SmallBlock
  <2>1. MappingSearch(r) = [size |-> r, class |-> MappingInsert(r)]
    BY <1>2 DEF MappingSearch
  <2>2. WidthOf(r) = Width
    BY <1>2, SmallSizes
  <2>3. r < Bit[MaxFli]
    BY <1>1, BitNumbers
  <2>. QED BY <2>1, <2>2, <2>3
<1>3. CASE ~(r < SmallBlock)
  BY <1>1, <1>3, SearchLarge
<1>. QED BY <1>2, <1>3

\* A divisor of a divisor divides.
LEMMA DivTransitive ==
    ASSUME NEW a \in Nat, NEW b \in Nat \ {0}, NEW c \in Nat \ {0}, a % b = 0, b % c = 0
    PROVE  a % c = 0
<1>1. PICK p \in Nat : p = a \div b
  BY DivFacts
<1>2. PICK q \in Nat : q = b \div c
  BY DivFacts
<1>3. a = b * p /\ b = c * q
  BY <1>1, <1>2, DivExact
<1>4. \A x, y, z \in Nat : (x * y) * z = x * (y * z)
  OBVIOUS
<1>5. a = c * (q * p)
  BY <1>3, <1>4
<1>6. q * p \in Nat
  OBVIOUS
<1>. QED BY <1>5, <1>6, DivMultiple

\* ROUNDUP_SIZE is the next multiple of the alignment.
LEMMA RoundUpFacts ==
    ASSUME NEW r \in Nat
    PROVE  /\ RoundUpSize(r) \in Nat /\ r <= RoundUpSize(r) /\ RoundUpSize(r) <= r + Align - 1
           /\ RoundUpSize(r) % Align = 0
<1>1. Align \in Nat \ {0}
  BY TableFacts
<1>2. PICK a \in Nat : a = r + Align - 1
  BY <1>1
<1>3. PICK q \in Nat : q = a \div Align
  BY <1>1, DivFacts
<1>4. RoundUpSize(r) = Align * q
  BY <1>1, <1>2, <1>3 DEF RoundUpSize
<1>5. Align * q <= a /\ a - Align < Align * q /\ Align * q \in Nat
  BY <1>1, <1>3, DivFacts
<1>6. (Align * q) % Align = 0
  BY <1>1, DivMultiple
<1>. QED BY <1>1, <1>2, <1>4, <1>5, <1>6

\* A size that has been rounded up is not rounded up again.
LEMMA RoundUpTwice ==
    ASSUME NEW r \in Nat, r % Align = 0
    PROVE  RoundUpSize(r) = r
<1>1. Align \in Nat \ {0}
  BY TableFacts
<1>2. PICK p \in Nat : p = r \div Align
  BY <1>1, DivFacts
<1>3. r = Align * p
  BY <1>1, <1>2, DivExact
<1>4. PICK a \in Nat : a = r + Align - 1
  BY <1>1
<1>5. a \div Align = p
  BY <1>1, <1>3, <1>4, DivBetween
<1>. QED BY <1>1, <1>3, <1>4, <1>5 DEF RoundUpSize

\* The sizes that are aligned are multiples of the width of the small classes.
LEMMA WidthDivides ==
    MinBlock % Width = 0 /\ (\A r \in Nat : r % Align = 0 => r % Width = 0)
<1>1. Width \in Nat \ {0} /\ Overhead \in Nat \ {0} /\ Align \in Nat \ {0} /\ MinBlock \in Nat \ {0}
  BY TableFacts
<1>2. Overhead % Width = 0 /\ Align % Overhead = 0 /\ MinBlock % Overhead = 0
  BY TlsfAssumption DEF Width
<1>3. Align % Width = 0 /\ MinBlock % Width = 0
  BY <1>1, <1>2, DivTransitive
<1>. QED BY <1>1, <1>3, DivTransitive

\* What malloc_ex may be asked for: no index goes past the table.
Fits(r) == 2 * r + 2 <= Bit[MaxFli]

\* The size that malloc_ex searches for a request.
LEMMA AdjustedFacts ==
    ASSUME NEW r \in Nat
    PROVE  /\ Adjusted(r) \in Nat /\ r <= Adjusted(r) /\ MinBlock <= Adjusted(r)
           /\ Adjusted(r) % Width = 0
           /\ MinBlock <= r => Adjusted(Adjusted(r)) = Adjusted(r)
           /\ r \in Sizes => Fits(Adjusted(r))
<1>1. Align \in Nat \ {0} /\ MinBlock \in Nat \ {0} /\ AreaSize \in Nat \ {0} /\ MaxFli \in 0 .. MaxFli
  BY TableFacts
<1>2. Bit[MaxFli] \in Nat
  BY <1>1, BitNumbers
<1>3. 2 * (AreaSize + Align) <= Bit[MaxFli] /\ MinBlock <= AreaSize
  BY TlsfAssumption
<1>4. r \in Sizes => 2 * (r + Align) <= Bit[MaxFli]
  BY TlsfAssumption
<1>5. CASE r < MinBlock
  <2>1. Adjusted(r) = MinBlock
    BY <1>5 DEF Adjusted
  <2>2. Fits(MinBlock)
    BY <1>1, <1>2, <1>3 DEF Fits
  <2>. QED BY <1>1, <1>5, <2>1, <2>2, WidthDivides
<1>6. CASE ~(r < MinBlock)
  <2>1. PICK u : u = RoundUpSize(r)
    OBVIOUS
  <2>2. u \in Nat /\ r <= u /\ u <= r + Align - 1 /\ u % Align = 0
    BY <2>1, RoundUpFacts
  <2>3. Adjusted(r) = u /\ MinBlock <= u /\ ~(u < MinBlock)
    BY <1>1, <1>6, <2>1, <2>2 DEF Adjusted
  <2>4. Adjusted(u) = u
    BY <2>2, <2>3, RoundUpTwice DEF Adjusted
  <2>5. r \in Sizes => Fits(u)
    BY <1>1, <1>2, <1>4, <2>2 DEF Fits
  <2>6. u % Width = 0
    BY <2>2, WidthDivides
  <2>. QED BY <2>2, <2>3, <2>4, <2>5, <2>6
<1>. QED BY <1>5, <1>6

-----------------------------------------------------------------------------
(* TLSF: the bytes of a set of blocks *)

Cost(hd, b) == hd[b].size + Overhead
Bytes(hd, S) == MapThenSumSet(LAMBDA b : hd[b].size + Overhead, S)

\* The table of the sums over the subsets of S.
Pick(s) == CHOOSE x \in s : TRUE
SumTable(hd, S, it) ==
    it = [s \in SUBSET S |-> IF s = {} THEN 0 ELSE Cost(hd, Pick(s)) + it[s \ {Pick(s)}]]

\* The sum is an entry of the table of the sums.
LEMMA BytesIs ==
    ASSUME NEW hd, NEW S
    PROVE  Bytes(hd, S) = (CHOOSE it : SumTable(hd, S, it))[S]
  BY DEF Bytes, MapThenSumSet, MapThenFoldSet, SumTable, Pick, Cost

Upto(S, n) == {s \in SUBSET S : Cardinality(s) <= n}
PartTable(hd, S, n, it) ==
    it = [s \in Upto(S, n) |-> IF s = {} THEN 0 ELSE Cost(hd, Pick(s)) + it[s \ {Pick(s)}]]

\* A set is one element larger than the rest of it.
LEMMA Picked ==
    ASSUME NEW S, IsFiniteSet(S), NEW s \in SUBSET S, s # {}
    PROVE  /\ Pick(s) \in s /\ s \ {Pick(s)} \in SUBSET S
           /\ \A x \in s : /\ Cardinality(s) \in Nat /\ Cardinality(s \ {x}) \in Nat
                           /\ Cardinality(s \ {x}) + 1 = Cardinality(s)
<1>1. Pick(s) \in s
  BY DEF Pick
<1>2. IsFiniteSet(s)
  BY FS_Subset
<1>3. ASSUME NEW x \in s
      PROVE  /\ Cardinality(s) \in Nat /\ Cardinality(s \ {x}) \in Nat
             /\ Cardinality(s \ {x}) + 1 = Cardinality(s)
  <2>1. IsFiniteSet(s \ {x}) /\ Cardinality(s \ {x}) = Cardinality(s) - 1
    BY <1>2, FS_RemoveElement
  <2>2. Cardinality(s) \in Nat /\ Cardinality(s \ {x}) \in Nat
    BY <1>2, <2>1, FS_CardinalityType
  <2>. QED BY <2>1, <2>2
<1>. QED BY <1>1, <1>3

\* The table of the sums, up to the subsets of n blocks.
LEMMA PartExists ==
    ASSUME NEW hd, NEW S, IsFiniteSet(S), NEW n \in Nat
    PROVE  \E it : PartTable(hd, S, n, it)
<1>. DEFINE T == {m \in Nat : \E it : PartTable(hd, S, m, it)}
<1>1. 0 \in T
  <2>. DEFINE g == [s \in Upto(S, 0) |-> 0]
  <2>1. ASSUME NEW s \in Upto(S, 0) PROVE s = {} /\ g[s] = 0
    <3>1. s \in SUBSET S /\ Cardinality(s) <= 0
      BY DEF Upto
    <3>2. IsFiniteSet(s)
      BY <3>1, FS_Subset
    <3>3. Cardinality(s) \in Nat
      BY <3>2, FS_CardinalityType
    <3>4. Cardinality(s) = 0
      BY <3>1, <3>3
    <3>. QED BY <3>2, <3>4, FS_EmptySet
  <2>2. g = [s \in Upto(S, 0) |-> g[s]]
    OBVIOUS
  <2>. HIDE DEF g
  <2>3. PartTable(hd, S, 0, g)
    BY <2>1, <2>2 DEF PartTable
  <2>. QED BY <2>3
<1>2. ASSUME NEW m \in Nat, m \in T PROVE m + 1 \in T
  <2>1. PICK f : PartTable(hd, S, m, f)
    BY <1>2
  <2>. DEFINE g == [s \in Upto(S, m + 1) |->
                      IF s = {} THEN 0 ELSE Cost(hd, Pick(s)) + f[s \ {Pick(s)}]]
  <2>2. \A s \in Upto(S, m + 1) : g[s] = IF s = {} THEN 0 ELSE Cost(hd, Pick(s)) + f[s \ {Pick(s)}]
    OBVIOUS
  <2>3. g = [s \in Upto(S, m + 1) |-> g[s]]
    OBVIOUS
  <2>. HIDE DEF g
  <2>4. ASSUME NEW s \in Upto(S, m) PROVE s \in Upto(S, m + 1) /\ g[s] = f[s]
    <3>1. s \in SUBSET S /\ Cardinality(s) <= m
      BY DEF Upto
    <3>2. IsFiniteSet(s)
      BY <3>1, FS_Subset
    <3>3. Cardinality(s) \in Nat
      BY <3>2, FS_CardinalityType
    <3>4. s \in Upto(S, m + 1)
      BY <3>1, <3>3 DEF Upto
    <3>5. f[s] = IF s = {} THEN 0 ELSE Cost(hd, Pick(s)) + f[s \ {Pick(s)}]
      BY <2>1 DEF PartTable
    <3>. QED BY <2>2, <3>4, <3>5
  <2>5. ASSUME NEW s \in Upto(S, m + 1)
        PROVE  g[s] = IF s = {} THEN 0 ELSE Cost(hd, Pick(s)) + g[s \ {Pick(s)}]
    <3>1. CASE s = {}
      BY <2>2, <3>1
    <3>2. CASE s # {}
      <4>1. s \in SUBSET S /\ Cardinality(s) <= m + 1
        BY DEF Upto
      <4>2. /\ Pick(s) \in s /\ s \ {Pick(s)} \in SUBSET S
            /\ \A x \in s : /\ Cardinality(s) \in Nat /\ Cardinality(s \ {x}) \in Nat
                            /\ Cardinality(s \ {x}) + 1 = Cardinality(s)
        BY <3>2, <4>1, Picked
      <4>3. Cardinality(s \ {Pick(s)}) <= m
        BY <4>1, <4>2
      <4>4. s \ {Pick(s)} \in Upto(S, m)
        BY <4>2, <4>3 DEF Upto
      <4>5. g[s \ {Pick(s)}] = f[s \ {Pick(s)}]
        BY <2>4, <4>4
      <4>. QED BY <2>2, <3>2, <4>5
    <3>. QED BY <3>1, <3>2
  <2>6. PartTable(hd, S, m + 1, g)
    BY <2>3, <2>5 DEF PartTable
  <2>. QED BY <2>6
<1>3. Nat \subseteq T
  <2>. HIDE DEF T
  <2>. QED BY <1>1, <1>2, EveryNumber
<1>. QED BY <1>3

\* The table of the sums exists for any finite set of blocks.
LEMMA SumTableExists ==
    ASSUME NEW hd, NEW S, IsFiniteSet(S)
    PROVE  SumTable(hd, S, CHOOSE it : SumTable(hd, S, it))
<1>1. Cardinality(S) \in Nat
  BY FS_CardinalityType
<1>2. Upto(S, Cardinality(S)) = SUBSET S
  BY FS_Subset DEF Upto
<1>3. PICK f : PartTable(hd, S, Cardinality(S), f)
  BY <1>1, PartExists
<1>4. SumTable(hd, S, f)
  BY <1>2, <1>3 DEF PartTable, SumTable
<1>. QED BY <1>4

\* Two tables agree on the sets of blocks whose sizes they agree on.
LEMMA TablesAgree ==
    ASSUME NEW hd, NEW S, NEW it, SumTable(hd, S, it),
           NEW he, NEW R, NEW jt, SumTable(he, R, jt),
           NEW X, IsFiniteSet(X), X \subseteq S, X \subseteq R,
           \A x \in X : Cost(hd, x) = Cost(he, x)
    PROVE  it[X] = jt[X]
<1>. DEFINE T == {m \in Nat : \A s \in SUBSET X : Cardinality(s) = m => it[s] = jt[s]}
<1>1. ASSUME NEW s \in SUBSET X
      PROVE  /\ it[s] = IF s = {} THEN 0 ELSE Cost(hd, Pick(s)) + it[s \ {Pick(s)}]
             /\ jt[s] = IF s = {} THEN 0 ELSE Cost(he, Pick(s)) + jt[s \ {Pick(s)}]
  <2>1. s \in SUBSET S /\ s \in SUBSET R
    OBVIOUS
  <2>. QED BY <2>1 DEF SumTable
<1>2. 0 \in T
  <2>1. ASSUME NEW s \in SUBSET X, Cardinality(s) = 0 PROVE it[s] = jt[s]
    <3>1. s = {}
      BY <2>1, FS_Subset, FS_EmptySet
    <3>. QED BY <1>1, <3>1
  <2>. QED BY <2>1
<1>3. ASSUME NEW m \in Nat, m \in T PROVE m + 1 \in T
  <2>1. ASSUME NEW s \in SUBSET X, Cardinality(s) = m + 1 PROVE it[s] = jt[s]
    <3>1. s # {}
      BY <1>3, <2>1, FS_EmptySet
    <3>2. /\ Pick(s) \in s /\ s \ {Pick(s)} \in SUBSET X
          /\ \A x \in s : /\ Cardinality(s) \in Nat /\ Cardinality(s \ {x}) \in Nat
                          /\ Cardinality(s \ {x}) + 1 = Cardinality(s)
      BY <3>1, Picked
    <3>3. Cardinality(s \ {Pick(s)}) = m
      BY <1>3, <2>1, <3>2
    <3>4. it[s \ {Pick(s)}] = jt[s \ {Pick(s)}]
      BY <1>3, <3>2, <3>3
    <3>5. Cost(hd, Pick(s)) = Cost(he, Pick(s))
      BY <3>2
    <3>. QED BY <1>1, <3>1, <3>4, <3>5
  <2>. QED BY <2>1
<1>4. Nat \subseteq T
  <2>. HIDE DEF T
  <2>. QED BY <1>2, <1>3, EveryNumber
<1>5. Cardinality(X) \in Nat /\ X \in SUBSET X
  BY FS_CardinalityType
<1>. QED BY <1>4, <1>5

\* The bytes depend on the sizes only.
LEMMA BytesSame ==
    ASSUME NEW hd, NEW he, NEW S, IsFiniteSet(S), \A x \in S : hd[x].size = he[x].size
    PROVE  Bytes(hd, S) = Bytes(he, S)
<1>1. \A x \in S : Cost(hd, x) = Cost(he, x)
  BY DEF Cost
<1>. QED BY <1>1, BytesIs, SumTableExists, TablesAgree

\* The sum, one block at a time.
LEMMA BytesPicked ==
    ASSUME NEW hd, NEW S, IsFiniteSet(S)
    PROVE  Bytes(hd, S) = IF S = {} THEN 0 ELSE Cost(hd, Pick(S)) + Bytes(hd, S \ {Pick(S)})
<1>. DEFINE it == CHOOSE tab : SumTable(hd, S, tab)
            R == S \ {Pick(S)}
            jt == CHOOSE tab : SumTable(hd, R, tab)
<1>1. SumTable(hd, S, it) /\ Bytes(hd, S) = it[S]
  BY BytesIs, SumTableExists
<1>2. IsFiniteSet(R)
  BY FS_RemoveElement
<1>3. SumTable(hd, R, jt) /\ Bytes(hd, R) = jt[R]
  BY <1>2, BytesIs, SumTableExists
<1>4. R \subseteq S /\ R \subseteq R
  OBVIOUS
<1>. HIDE DEF it, jt
<1>5. it[R] = jt[R]
  <2>. HIDE DEF R
  <2>. QED BY <1>1, <1>2, <1>3, <1>4, TablesAgree
<1>6. it[S] = IF S = {} THEN 0 ELSE Cost(hd, Pick(S)) + it[R]
  BY <1>1 DEF SumTable
<1>. QED BY <1>1, <1>3, <1>5, <1>6

\* Any block may be taken out first.
LEMMA BytesRemove ==
    ASSUME NEW hd, NEW S, IsFiniteSet(S), \A x \in S : Cost(hd, x) \in Nat
    PROVE  /\ Bytes(hd, S) \in Nat
           /\ \A x \in S : Bytes(hd, S) = Cost(hd, x) + Bytes(hd, S \ {x})
           /\ \A x \in S : Bytes(hd, S \ {x}) \in Nat
<1>. DEFINE Good(s) == /\ Bytes(hd, s) \in Nat
                       /\ \A x \in s : Bytes(hd, s) = Cost(hd, x) + Bytes(hd, s \ {x})
            T == {m \in Nat : \A s \in SUBSET S : Cardinality(s) <= m => Good(s)}
<1>1. ASSUME NEW s \in SUBSET S PROVE IsFiniteSet(s) /\ Cardinality(s) \in Nat
  BY FS_Subset, FS_CardinalityType
<1>2. Good({})
  <2>1. Bytes(hd, {}) = 0
    BY FS_EmptySet, BytesPicked
  <2>. QED BY <2>1
<1>3. 0 \in T
  <2>1. ASSUME NEW s \in SUBSET S, Cardinality(s) <= 0 PROVE Good(s)
    <3>1. s = {}
      BY <1>1, <2>1, FS_EmptySet
    <3>. QED BY <1>2, <3>1
  <2>. QED BY <2>1
<1>4. ASSUME NEW m \in Nat, m \in T PROVE m + 1 \in T
  <2>1. ASSUME NEW s \in SUBSET S, s # {}, Cardinality(s) <= m + 1 PROVE Good(s)
    <3>1. PICK p : p = Pick(s)
      OBVIOUS
    <3>2. /\ p \in s
          /\ \A x \in s : Cardinality(s \ {x}) \in Nat /\ Cardinality(s \ {x}) + 1 = Cardinality(s)
      BY <2>1, <3>1, Picked
    <3>3. ASSUME NEW x \in s PROVE Cardinality(s \ {x}) <= m
      BY <1>1, <2>1, <3>2
    <3>4. ASSUME NEW x \in s PROVE Good(s \ {x})
      BY <1>4, <3>3
    <3>5. Bytes(hd, s) = Cost(hd, p) + Bytes(hd, s \ {p})
      BY <1>1, <2>1, <3>1, BytesPicked
    <3>6. Bytes(hd, s) \in Nat
      BY <3>2, <3>4, <3>5
    <3>7. ASSUME NEW x \in s, x # p PROVE Bytes(hd, s) = Cost(hd, x) + Bytes(hd, s \ {x})
      <4>1. x \in s \ {p} /\ p \in s \ {x} /\ (s \ {p}) \ {x} = (s \ {x}) \ {p}
        BY <3>2, <3>7
      <4>2. Bytes(hd, s \ {p}) = Cost(hd, x) + Bytes(hd, (s \ {x}) \ {p})
        BY <3>2, <3>4, <4>1
      <4>3. Bytes(hd, s \ {x}) = Cost(hd, p) + Bytes(hd, (s \ {x}) \ {p})
        BY <3>4, <4>1
      <4>4. Cardinality((s \ {x}) \ {p}) <= m
        <5>1. s \ {x} \in SUBSET S /\ s \ {x} # {}
          BY <4>1
        <5>2. Cardinality((s \ {x}) \ {p}) \in Nat
              /\ Cardinality((s \ {x}) \ {p}) + 1 = Cardinality(s \ {x})
          BY <4>1, <5>1, Picked
        <5>. QED BY <1>1, <3>3, <5>1, <5>2
      <4>5. Bytes(hd, (s \ {x}) \ {p}) \in Nat
        BY <1>4, <4>4
      <4>6. Cost(hd, x) \in Nat /\ Cost(hd, p) \in Nat
        BY <3>2
      <4>7. PICK k \in Nat : k = Bytes(hd, (s \ {x}) \ {p})
        BY <4>5
      <4>. QED BY <3>5, <4>2, <4>3, <4>6, <4>7
    <3>. QED BY <3>5, <3>6, <3>7
  <2>. QED BY <1>2, <2>1
<1>5. Nat \subseteq T
  <2>. HIDE DEF T
  <2>. QED BY <1>3, <1>4, EveryNumber
<1>6. ASSUME NEW s \in SUBSET S PROVE Good(s)
  <2>1. Cardinality(s) \in T
    BY <1>1, <1>5
  <2>. QED BY <1>1, <2>1
<1>. QED BY <1>6

-----------------------------------------------------------------------------
(* TLSF: the blocks of the area *)

Headers == [size : Nat, free : BOOLEAN, prevFree : BOOLEAN, prev : Int]
NextIn(hd, b) == b + Overhead + hd[b].size

\* The blocks cover the area.
Blocks(hd) ==
    /\ hd \in [DOMAIN hd -> Headers]
    /\ DOMAIN hd \subseteq 0 .. End /\ 0 \in DOMAIN hd /\ End \in DOMAIN hd
    /\ hd[End].size = 0
    /\ \A b \in DOMAIN hd \ {End} :
          /\ MinBlock <= hd[b].size /\ NextIn(hd, b) \in DOMAIN hd
          /\ \A x \in DOMAIN hd : b < x => NextIn(hd, b) <= x

\* The last header is after the area.
LEMMA EndFacts == End \in Nat /\ End # 0 /\ End = Overhead + AreaSize
  BY TableFacts DEF End

\* The fields of a header, and the place of the next one.
LEMMA HeaderFacts ==
    ASSUME NEW hd, Blocks(hd), NEW b \in DOMAIN hd
    PROVE  /\ hd[b] \in Headers /\ hd[b].size \in Nat /\ hd[b].free \in BOOLEAN
           /\ hd[b].prevFree \in BOOLEAN /\ hd[b].prev \in Int
           /\ b \in Nat /\ b <= End /\ NextIn(hd, b) \in Nat /\ b < NextIn(hd, b)
           /\ Cost(hd, b) \in Nat /\ NextIn(hd, b) = b + Cost(hd, b)
<1>1. hd[b] \in Headers /\ b \in 0 .. End
  BY DEF Blocks
<1>2. hd[b].size \in Nat /\ hd[b].free \in BOOLEAN /\ hd[b].prevFree \in BOOLEAN /\ hd[b].prev \in Int
  BY <1>1 DEF Headers
<1>. QED BY <1>1, <1>2, EndFacts, TableFacts DEF NextIn, Cost

\* A block ends where the next header is.
LEMMA BlockFacts ==
    ASSUME NEW hd, Blocks(hd), NEW b \in DOMAIN hd \ {End}
    PROVE  /\ MinBlock <= hd[b].size /\ hd[b].size <= AreaSize
           /\ NextIn(hd, b) \in DOMAIN hd /\ NextIn(hd, b) <= End
           /\ NextIn(hd, b) # 0 /\ NextIn(hd, b) # b
           /\ \A x \in DOMAIN hd : b < x => NextIn(hd, b) <= x
<1>1. /\ MinBlock <= hd[b].size /\ NextIn(hd, b) \in DOMAIN hd
      /\ \A x \in DOMAIN hd : b < x => NextIn(hd, b) <= x
  BY DEF Blocks
<1>2. NextIn(hd, b) <= End /\ NextIn(hd, b) \in Nat
  BY <1>1, HeaderFacts
<1>3. b \in Nat /\ hd[b].size \in Nat /\ b < NextIn(hd, b)
  BY HeaderFacts
<1>4. hd[b].size <= AreaSize
  BY <1>2, <1>3, TableFacts DEF NextIn, End
<1>. QED BY <1>1, <1>2, <1>3, <1>4

\* A header follows one block at most.
LEMMA NextUnique ==
    ASSUME NEW hd, Blocks(hd), NEW b \in DOMAIN hd \ {End}, NEW c \in DOMAIN hd \ {End},
           NextIn(hd, b) = NextIn(hd, c)
    PROVE  b = c
<1>1. b \in Nat /\ c \in Nat /\ b < NextIn(hd, b) /\ c < NextIn(hd, c) /\ NextIn(hd, b) \in Nat
  BY HeaderFacts
<1>2. (b < c => NextIn(hd, b) <= c) /\ (c < b => NextIn(hd, c) <= b)
  BY BlockFacts
<1>. QED BY <1>1, <1>2

\* Every header but the first follows a block.
LEMMA PrevExists ==
    ASSUME NEW hd, Blocks(hd), NEW x \in DOMAIN hd, x # 0
    PROVE  \E p \in DOMAIN hd \ {End} : NextIn(hd, p) = x
<1>1. \A y \in DOMAIN hd : y \in Nat /\ y <= End
  BY HeaderFacts
<1>. DEFINE S == {d \in Nat : \E y \in DOMAIN hd : y < x /\ d = x - y}
<1>2. x - 0 \in S
  BY <1>1 DEF Blocks
<1>3. PICK d \in S : \A e \in S : d <= e
  BY <1>2, LeastOf
<1>4. PICK p \in DOMAIN hd : p < x /\ d = x - p
  BY <1>3
<1>5. p \in Nat /\ x \in Nat /\ p # End /\ x <= End
  BY <1>1, <1>4, EndFacts
<1>6. NextIn(hd, p) <= x /\ NextIn(hd, p) \in DOMAIN hd /\ p < NextIn(hd, p) /\ NextIn(hd, p) \in Nat
  BY <1>4, <1>5, BlockFacts, HeaderFacts
<1>7. ~(NextIn(hd, p) < x)
  <2>. SUFFICES ASSUME NextIn(hd, p) < x PROVE FALSE
    OBVIOUS
  <2>1. x - NextIn(hd, p) \in Nat
    BY <1>5, <1>6
  <2>2. x - NextIn(hd, p) \in S
    BY <1>6, <2>1
  <2>3. d <= x - NextIn(hd, p)
    BY <1>3, <2>2
  <2>. QED BY <1>4, <1>5, <1>6, <2>3
<1>. QED BY <1>5, <1>6, <1>7

\* Blocks are not larger than the area.
LEMMA BytesBound ==
    ASSUME NEW hd, Blocks(hd), NEW H, H \subseteq DOMAIN hd \ {End}
    PROVE  IsFiniteSet(H) /\ Bytes(hd, H) \in Nat /\ Bytes(hd, H) <= End
<1>1. /\ \A y \in DOMAIN hd : y \in Nat /\ y <= End /\ Cost(hd, y) \in Nat
      /\ End \in Nat
  BY HeaderFacts, EndFacts
<1>2. IsFiniteSet(H)
  <2>1. IsFiniteSet(0 .. End)
    BY <1>1, FS_Interval
  <2>2. H \in SUBSET (0 .. End)
    BY <1>1
  <2>. QED BY <2>1, <2>2, FS_Subset
<1>. DEFINE Below(n) == {x \in H : x < n}
<1>3. ASSUME NEW n PROVE IsFiniteSet(Below(n)) /\ \A x \in Below(n) : x \in DOMAIN hd
  <2>1. Below(n) \in SUBSET H
    OBVIOUS
  <2>. QED BY <1>2, <2>1, FS_Subset
<1>4. ASSUME NEW n
      PROVE  /\ Bytes(hd, Below(n)) \in Nat
             /\ \A x \in Below(n) : /\ Bytes(hd, Below(n)) = Cost(hd, x) + Bytes(hd, Below(n) \ {x})
                                    /\ Bytes(hd, Below(n) \ {x}) \in Nat
  <2>1. \A x \in Below(n) : Cost(hd, x) \in Nat
    BY <1>1, <1>3
  <2>. HIDE DEF Below
  <2>. QED BY <1>3, <2>1, BytesRemove
<1>. DEFINE S == {n \in DOMAIN hd : n < Bytes(hd, Below(n))}
<1>5. S = {}
  <2>. SUFFICES ASSUME S # {} PROVE FALSE
    OBVIOUS
  <2>1. PICK n \in S : \A k \in S : n <= k
    <3>1. S \subseteq Nat
      BY <1>1
    <3>. QED BY <3>1, LeastOf
  <2>2. n # 0
    <3>1. Below(0) = {}
      BY <1>1
    <3>2. Bytes(hd, {}) = 0
      BY FS_EmptySet, BytesPicked
    <3>. QED BY <3>1, <3>2
  <2>3. PICK p \in DOMAIN hd \ {End} : NextIn(hd, p) = n
    BY <2>2, PrevExists
  <2>4. p \in Nat /\ n \in Nat /\ p < n /\ n = p + Cost(hd, p) /\ Cost(hd, p) \in Nat
    BY <2>3, HeaderFacts
  <2>5. Bytes(hd, Below(p)) <= p
    <3>1. p \notin S
      BY <2>1, <2>4
    <3>. QED BY <1>4, <2>4, <3>1
  <2>6. \A x \in DOMAIN hd : p < x => n <= x
    BY <2>3, BlockFacts
  <2>7. Below(n) \ {p} = Below(p)
    BY <1>1, <2>4, <2>6
  <2>8. Bytes(hd, Below(n)) <= n
    <3>1. CASE p \in H
      <4>1. p \in Below(n)
        BY <2>4, <3>1
      <4>2. Bytes(hd, Below(n)) = Cost(hd, p) + Bytes(hd, Below(p))
        BY <1>4, <2>7, <4>1
      <4>. QED BY <1>4, <2>4, <2>5, <4>2
    <3>2. CASE p \notin H
      <4>1. Below(n) = Below(p)
        BY <2>7, <3>2
      <4>2. Bytes(hd, Below(p)) \in Nat
        BY <1>4
      <4>. QED BY <2>4, <2>5, <4>1, <4>2
    <3>. QED BY <3>1, <3>2
  <2>9. Bytes(hd, Below(n)) \in Nat
    BY <1>4
  <2>. QED BY <2>1, <2>4, <2>8, <2>9
<1>6. Below(End) = H
  BY <1>1
<1>7. End \in DOMAIN hd
  BY DEF Blocks
<1>8. ~(End < Bytes(hd, Below(End)))
  BY <1>5, <1>7
<1>9. Bytes(hd, Below(End)) \in Nat
  BY <1>4
<1>. QED BY <1>1, <1>2, <1>6, <1>8, <1>9

-----------------------------------------------------------------------------
(* TLSF: what the steps do to the blocks *)

\* Headers of the same sizes.
LEMMA BlocksSame ==
    ASSUME NEW hd, Blocks(hd), NEW he \in [DOMAIN hd -> Headers],
           \A x \in DOMAIN hd : he[x].size = hd[x].size
    PROVE  Blocks(he) /\ \A x \in DOMAIN hd : NextIn(he, x) = NextIn(hd, x)
<1>1. DOMAIN he = DOMAIN hd
  OBVIOUS
<1>2. \A x \in DOMAIN hd : NextIn(he, x) = NextIn(hd, x)
  BY DEF NextIn
<1>3. End \in DOMAIN hd
  BY DEF Blocks
<1>. QED BY <1>1, <1>2, <1>3 DEF Blocks

\* The headers when a block absorbs the next one.
LEMMA AbsorbFields ==
    ASSUME NEW hd, Blocks(hd), NEW b \in DOMAIN hd \ {End}, NextIn(hd, b) # End,
           NEW he, he = AbsorbIn(hd, b, NextIn(hd, b))
    PROVE  /\ DOMAIN he = DOMAIN hd \ {NextIn(hd, b)} /\ b \in DOMAIN he
           /\ he \in [DOMAIN he -> Headers]
           /\ \A x \in DOMAIN he : /\ he[x].free = hd[x].free /\ he[x].prevFree = hd[x].prevFree
                                   /\ he[x].prev = hd[x].prev
                                   /\ x # b => he[x] = hd[x] /\ NextIn(he, x) = NextIn(hd, x)
           /\ he[b].size = hd[b].size + hd[NextIn(hd, b)].size + Overhead
           /\ NextIn(he, b) = NextIn(hd, NextIn(hd, b))
<1>1. PICK n : n = NextIn(hd, b)
  OBVIOUS
<1>2. n \in DOMAIN hd /\ n # b /\ b \in Nat /\ hd[n].size \in Nat /\ hd[b] \in Headers /\ hd[b].size \in Nat
  BY <1>1, BlockFacts, HeaderFacts
<1>3. DOMAIN he = DOMAIN hd \ {n} /\ b \in DOMAIN he
  BY <1>1, <1>2 DEF AbsorbIn
<1>4. he[b] = [hd[b] EXCEPT !.size = @ + hd[n].size + Overhead]
  BY <1>1, <1>2 DEF AbsorbIn
<1>5. /\ he[b].size = hd[b].size + hd[n].size + Overhead
      /\ he[b].free = hd[b].free /\ he[b].prevFree = hd[b].prevFree /\ he[b].prev = hd[b].prev
      /\ he[b] \in Headers
  <2>1. hd[b].size + hd[n].size + Overhead \in Nat
    BY <1>2, TableFacts
  <2>. QED BY <1>2, <1>4, <2>1 DEF Headers
<1>6. ASSUME NEW x \in DOMAIN he, x # b PROVE he[x] = hd[x] /\ NextIn(he, x) = NextIn(hd, x)
  <2>1. he[x] = hd[x]
    BY <1>1, <1>3, <1>6 DEF AbsorbIn
  <2>. QED BY <2>1 DEF NextIn
<1>7. \A x \in DOMAIN he : he[x] \in Headers
  BY <1>3, <1>5, <1>6, HeaderFacts
<1>8. he \in [DOMAIN he -> Headers]
  <2>1. he = [x \in DOMAIN he |-> he[x]]
    BY DEF AbsorbIn
  <2>. QED BY <1>7, <2>1
<1>9. NextIn(he, b) = NextIn(hd, n)
  <2>1. n = b + Overhead + hd[b].size
    BY <1>1 DEF NextIn
  <2>. QED BY <1>2, <1>5, <2>1, TableFacts DEF NextIn
<1>. QED BY <1>1, <1>3, <1>5, <1>6, <1>8, <1>9

\* The same of two blocks that are neighbours.
LEMMA AbsorbNext ==
    ASSUME NEW hd, Blocks(hd), NEW b, b \in DOMAIN hd \ {End}, NEW n, n = NextIn(hd, b), n # End,
           NEW he, he = AbsorbIn(hd, b, n)
    PROVE  /\ DOMAIN he = DOMAIN hd \ {n} /\ he[b].size = hd[b].size + hd[n].size + Overhead
           /\ \A x \in DOMAIN he : he[x].free = hd[x].free /\ (x # b => he[x] = hd[x])
<1>1. hd[b] \in Headers /\ n # b /\ b \in DOMAIN hd
  BY HeaderFacts, BlockFacts
<1>2. PICK new : new = [hd[b] EXCEPT !.size = @ + hd[n].size + Overhead]
  OBVIOUS
<1>3. new.size = hd[b].size + hd[n].size + Overhead /\ new.free = hd[b].free
  BY <1>1, <1>2 DEF Headers
<1>4. he = [x \in DOMAIN hd \ {n} |-> IF x = b THEN new ELSE hd[x]]
  BY <1>2 DEF AbsorbIn
<1>5. DOMAIN he = DOMAIN hd \ {n} /\ he[b] = new
  BY <1>1, <1>4
<1>6. \A x \in DOMAIN he : (x = b => he[x] = new) /\ (x # b => he[x] = hd[x])
  BY <1>4, <1>5
<1>. QED BY <1>3, <1>5, <1>6

\* The same for the block n after b, as a relation.
Absorbed(hd, he, b, n) ==
    /\ DOMAIN he = DOMAIN hd \ {n}
    /\ \A x \in DOMAIN he : he[x].free = hd[x].free /\ (x # b => he[x] = hd[x])

\* Absorbing the next block is such a change.
LEMMA AbsorbRelates ==
    ASSUME NEW hd, Blocks(hd), NEW b, b \in DOMAIN hd \ {End}, NEW n, n = NextIn(hd, b), n # End
    PROVE  Absorbed(hd, AbsorbIn(hd, b, n), b, n)
<1>1. PICK he : he = AbsorbIn(hd, b, n)
  OBVIOUS
<1>2. Absorbed(hd, he, b, n)
  <2>1. /\ DOMAIN he = DOMAIN hd \ {n}
        /\ \A x \in DOMAIN he : he[x].free = hd[x].free /\ (x # b => he[x] = hd[x])
    BY <1>1, AbsorbNext
  <2>. QED BY <2>1 DEF Absorbed
<1>. QED BY <1>1, <1>2

\* The area is still covered when a block absorbs the next one.
LEMMA AbsorbBlocks ==
    ASSUME NEW hd, Blocks(hd), NEW b \in DOMAIN hd \ {End}, NextIn(hd, b) # End,
           NEW he, he = AbsorbIn(hd, b, NextIn(hd, b))
    PROVE  Blocks(he)
<1>1. PICK n : n = NextIn(hd, b)
  OBVIOUS
<1>2. /\ n \in DOMAIN hd \ {End} /\ n # 0 /\ n # b /\ b < n /\ n \in Nat /\ b \in Nat
      /\ \A x \in DOMAIN hd : b < x => n <= x
  BY <1>1, BlockFacts, HeaderFacts
<1>3. /\ DOMAIN he = DOMAIN hd \ {n} /\ b \in DOMAIN he
      /\ he \in [DOMAIN he -> Headers]
      /\ \A x \in DOMAIN he : x # b => he[x] = hd[x] /\ NextIn(he, x) = NextIn(hd, x)
      /\ he[b].size = hd[b].size + hd[n].size + Overhead
      /\ NextIn(he, b) = NextIn(hd, n)
  <2>1. /\ DOMAIN he = DOMAIN hd \ {NextIn(hd, b)} /\ b \in DOMAIN he
        /\ he \in [DOMAIN he -> Headers]
        /\ \A x \in DOMAIN he : x # b => he[x] = hd[x] /\ NextIn(he, x) = NextIn(hd, x)
        /\ he[b].size = hd[b].size + hd[NextIn(hd, b)].size + Overhead
        /\ NextIn(he, b) = NextIn(hd, NextIn(hd, b))
    BY AbsorbFields
  <2>. QED BY <1>1, <2>1
<1>4. DOMAIN he \subseteq 0 .. End /\ 0 \in DOMAIN he /\ End \in DOMAIN he /\ he[End].size = 0
  BY <1>2, <1>3 DEF Blocks
<1>5. ASSUME NEW c \in DOMAIN he \ {End}
      PROVE  /\ MinBlock <= he[c].size /\ NextIn(he, c) \in DOMAIN he
             /\ \A x \in DOMAIN he : c < x => NextIn(he, c) <= x
  <2>1. CASE c = b
    <3>1. /\ NextIn(hd, n) \in DOMAIN hd /\ n < NextIn(hd, n)
          /\ \A x \in DOMAIN hd : n < x => NextIn(hd, n) <= x
      BY <1>2, BlockFacts, HeaderFacts
    <3>2. NextIn(he, b) \in DOMAIN he
      BY <1>2, <1>3, <3>1
    <3>3. ASSUME NEW x \in DOMAIN he, b < x PROVE NextIn(he, b) <= x
      <4>1. n <= x /\ x # n /\ x \in DOMAIN hd /\ x \in Nat
        BY <1>2, <1>3, <3>3, HeaderFacts
      <4>2. n < x
        BY <1>2, <4>1
      <4>. QED BY <1>3, <3>1, <4>1, <4>2
    <3>4. MinBlock <= he[b].size
      <4>1. MinBlock <= hd[b].size /\ hd[b].size \in Nat /\ hd[n].size \in Nat
        BY <1>2, BlockFacts, HeaderFacts
      <4>. QED BY <1>3, <4>1, TableFacts
    <3>. QED BY <2>1, <3>2, <3>3, <3>4
  <2>2. CASE c # b
    <3>1. c \in DOMAIN hd \ {End} /\ he[c] = hd[c] /\ NextIn(he, c) = NextIn(hd, c)
      BY <1>3, <2>2
    <3>2. /\ MinBlock <= hd[c].size /\ NextIn(hd, c) \in DOMAIN hd
          /\ \A x \in DOMAIN hd : c < x => NextIn(hd, c) <= x
      BY <3>1, BlockFacts
    <3>3. NextIn(hd, c) # n
      BY <1>1, <2>2, <3>1, NextUnique
    <3>. QED BY <1>3, <3>1, <3>2, <3>3
  <2>. QED BY <2>1, <2>2
<1>. QED BY <1>3, <1>4, <1>5 DEF Blocks

\* A block that has been cut in two.
LEMMA SplitBlocks ==
    ASSUME NEW hd, Blocks(hd), NEW b \in DOMAIN hd \ {End}, NEW size \in Nat, MinBlock <= size,
           SizeofBhdr <= hd[b].size - size,
           NEW c, c = b + Overhead + size,
           NEW he \in [DOMAIN hd \cup {c} -> Headers],
           he[b].size = size, he[c].size = hd[b].size - size - Overhead,
           \A x \in DOMAIN hd \ {b} : he[x].size = hd[x].size
    PROVE  /\ Blocks(he) /\ c \notin DOMAIN hd /\ c # End
           /\ NextIn(he, b) = c /\ NextIn(he, c) = NextIn(hd, b)
           /\ \A x \in DOMAIN hd \ {b} : NextIn(he, x) = NextIn(hd, x)
<1>1. PICK n : n = NextIn(hd, b)
  OBVIOUS
<1>2. /\ n \in DOMAIN hd /\ n \in Nat /\ b \in Nat /\ hd[b].size \in Nat /\ n = b + Overhead + hd[b].size
      /\ \A x \in DOMAIN hd : x \in Nat /\ x <= End /\ (b < x => n <= x)
  BY <1>1, BlockFacts, HeaderFacts DEF NextIn
<1>3. Overhead \in Nat \ {0} /\ MinBlock \in Nat \ {0} /\ SizeofBhdr = Overhead + MinBlock /\ End \in Nat
  BY TableFacts, EndFacts DEF SizeofBhdr
<1>4. b < c /\ c < n /\ c \in Nat /\ MinBlock <= hd[b].size - size - Overhead
  BY <1>2, <1>3
<1>5. c \notin DOMAIN hd
  BY <1>2, <1>4
<1>6. n <= End /\ c # End
  BY <1>2, <1>3, <1>4
<1>7. NextIn(he, b) = c /\ NextIn(he, c) = n
  BY <1>2, <1>3 DEF NextIn
<1>8. \A x \in DOMAIN hd \ {b} : NextIn(he, x) = NextIn(hd, x)
  BY DEF NextIn
<1>9. DOMAIN he = DOMAIN hd \cup {c}
  OBVIOUS
<1>10. DOMAIN he \subseteq 0 .. End /\ 0 \in DOMAIN he /\ End \in DOMAIN he /\ he[End].size = 0
  BY <1>2, <1>3, <1>4, <1>6, <1>9 DEF Blocks
<1>11. ASSUME NEW d \in DOMAIN he \ {End}
       PROVE  /\ MinBlock <= he[d].size /\ NextIn(he, d) \in DOMAIN he
              /\ \A x \in DOMAIN he : d < x => NextIn(he, d) <= x
  <2>1. CASE d = b
    <3>1. \A x \in DOMAIN he : b < x => c <= x
      BY <1>2, <1>4, <1>9
    <3>. QED BY <1>7, <1>9, <2>1, <3>1
  <2>2. CASE d = c
    <3>1. \A x \in DOMAIN he : c < x => n <= x
      BY <1>2, <1>4, <1>9
    <3>. QED BY <1>2, <1>4, <1>7, <1>9, <2>2, <3>1
  <2>3. CASE d # b /\ d # c
    <3>1. d \in DOMAIN hd \ {End} /\ he[d].size = hd[d].size /\ NextIn(he, d) = NextIn(hd, d)
      BY <1>8, <1>9, <2>3
    <3>2. /\ MinBlock <= hd[d].size /\ NextIn(hd, d) \in DOMAIN hd /\ NextIn(hd, d) \in Nat /\ d \in Nat
          /\ \A x \in DOMAIN hd : d < x => NextIn(hd, d) <= x
      BY <3>1, BlockFacts, HeaderFacts
    <3>3. d < c => NextIn(hd, d) <= c
      <4>. SUFFICES ASSUME d < c PROVE NextIn(hd, d) <= c
        OBVIOUS
      <4>1. d < n
        BY <1>2, <1>4, <3>2
      <4>2. d < b
        BY <1>2, <2>3, <3>1, <3>2, <4>1
      <4>3. NextIn(hd, d) <= b
        BY <3>2, <4>2
      <4>. QED BY <1>2, <1>4, <3>2, <4>3
    <3>. QED BY <1>9, <3>1, <3>2, <3>3
  <2>. QED BY <2>1, <2>2, <2>3
<1>12. he \in [DOMAIN he -> Headers]
  BY <1>9
<1>. QED BY <1>1, <1>5, <1>6, <1>7, <1>8, <1>10, <1>11, <1>12 DEF Blocks

-----------------------------------------------------------------------------
(* TLSF: what a header says of the block before it *)

PrevTrue(hd, x) ==
    /\ hd[NextIn(hd, x)].prevFree = hd[x].free
    /\ hd[x].free => hd[NextIn(hd, x)].prev = x
Apart(hd, x) == hd[x].free => ~hd[NextIn(hd, x)].free

\* The first block has none before it, the last header is of no block.
Ends(hd) == ~hd[0].prevFree /\ ~hd[End].free

\* True after all blocks, or after all but one.
Tagged(hd) == Ends(hd) /\ \A x \in DOMAIN hd \ {End} : PrevTrue(hd, x) /\ Apart(hd, x)
TaggedBut(hd, e) == Ends(hd) /\ \A x \in DOMAIN hd \ {End, e} : PrevTrue(hd, x) /\ Apart(hd, x)

\* A block has become free between its neighbours.
Freeing(hd, b) ==
    /\ Ends(hd) /\ hd[b].free
    /\ \A x \in DOMAIN hd \ {End, b} : PrevTrue(hd, x) /\ (NextIn(hd, x) # b => Apart(hd, x))

\* The steps that only change what two headers say.
Relinked(hd, he, b) ==
    /\ he \in [DOMAIN hd -> Headers]
    /\ \A x \in DOMAIN hd : /\ he[x].size = hd[x].size
                            /\ x # NextIn(hd, b) => he[x].prevFree = hd[x].prevFree /\ he[x].prev = hd[x].prev
                            /\ x # b => he[x].free = hd[x].free

\* Once the header after b says what b is, every header does.
LEMMA RelinkedTags ==
    ASSUME NEW hd, Blocks(hd), NEW b \in DOMAIN hd \ {End}, TaggedBut(hd, b), ~hd[NextIn(hd, b)].free,
           NEW he, Relinked(hd, he, b), he[b].free => hd[b].free,
           he[NextIn(hd, b)].prevFree = he[b].free, he[b].free => he[NextIn(hd, b)].prev = b
    PROVE  Blocks(he) /\ Tagged(he) /\ DOMAIN he = DOMAIN hd
<1>1. /\ he \in [DOMAIN hd -> Headers] /\ DOMAIN he = DOMAIN hd
      /\ \A x \in DOMAIN hd : he[x].size = hd[x].size
  BY DEF Relinked
<1>2. Blocks(he) /\ \A x \in DOMAIN hd : NextIn(he, x) = NextIn(hd, x)
  BY <1>1, BlocksSame
<1>3. NextIn(hd, b) \in DOMAIN hd /\ NextIn(hd, b) # 0 /\ NextIn(hd, b) # b
  BY BlockFacts
<1>4. 0 \in DOMAIN hd /\ End \in DOMAIN hd
  BY DEF Blocks
<1>5. Ends(he)
  <2>1. he[0].prevFree = hd[0].prevFree
    BY <1>3, <1>4 DEF Relinked
  <2>2. he[End].free = hd[End].free
    BY <1>4 DEF Relinked
  <2>. QED BY <2>1, <2>2 DEF Ends, TaggedBut
<1>6. PrevTrue(he, b)
  BY <1>2 DEF PrevTrue
<1>7. Apart(he, b)
  <2>1. he[NextIn(hd, b)].free = hd[NextIn(hd, b)].free
    BY <1>3 DEF Relinked
  <2>. QED BY <1>2, <2>1 DEF Apart
<1>8. ASSUME NEW x \in DOMAIN hd \ {End}, x # b PROVE PrevTrue(he, x) /\ Apart(he, x)
  <2>1. PrevTrue(hd, x) /\ Apart(hd, x)
    BY <1>8 DEF TaggedBut
  <2>2. NextIn(hd, x) \in DOMAIN hd /\ NextIn(hd, x) # NextIn(hd, b)
    BY <1>8, BlockFacts, NextUnique
  <2>3. /\ he[NextIn(hd, x)].prevFree = hd[NextIn(hd, x)].prevFree
        /\ he[NextIn(hd, x)].prev = hd[NextIn(hd, x)].prev
        /\ he[x].free = hd[x].free
    BY <1>8, <2>2 DEF Relinked
  <2>4. he[NextIn(hd, x)].free => hd[NextIn(hd, x)].free
    <3>1. NextIn(hd, x) # b => he[NextIn(hd, x)].free = hd[NextIn(hd, x)].free
      BY <2>2 DEF Relinked
    <3>. QED BY <3>1
  <2>5. NextIn(he, x) = NextIn(hd, x)
    BY <1>2
  <2>. QED BY <2>1, <2>3, <2>4, <2>5 DEF PrevTrue, Apart
<1>. QED BY <1>1, <1>2, <1>5, <1>6, <1>7, <1>8 DEF Tagged

\* A block that takes the next one changes nothing for the other blocks.
LEMMA AbsorbTags ==
    ASSUME NEW hd, Blocks(hd), NEW b \in DOMAIN hd \ {End}, NextIn(hd, b) # End, Ends(hd),
           NEW he, he = AbsorbIn(hd, b, NextIn(hd, b))
    PROVE  /\ Ends(he)
           /\ \A x \in DOMAIN he \ {End, b} : /\ x \in DOMAIN hd \ {End} /\ NextIn(he, x) = NextIn(hd, x)
                                              /\ PrevTrue(hd, x) => PrevTrue(he, x)
                                              /\ Apart(hd, x) => Apart(he, x)
           /\ he[NextIn(he, b)].free = hd[NextIn(hd, NextIn(hd, b))].free
<1>1. PICK n : n = NextIn(hd, b)
  OBVIOUS
<1>2. n \in DOMAIN hd \ {End} /\ n # 0 /\ n # b
  BY <1>1, BlockFacts
<1>3. /\ DOMAIN he = DOMAIN hd \ {NextIn(hd, b)}
      /\ \A x \in DOMAIN he : /\ he[x].free = hd[x].free /\ he[x].prevFree = hd[x].prevFree
                              /\ he[x].prev = hd[x].prev
                              /\ x # b => he[x] = hd[x] /\ NextIn(he, x) = NextIn(hd, x)
      /\ NextIn(he, b) = NextIn(hd, NextIn(hd, b))
  BY AbsorbFields
<1>4. 0 \in DOMAIN he /\ End \in DOMAIN he
  BY <1>1, <1>2, <1>3 DEF Blocks
<1>5. Ends(he)
  BY <1>3, <1>4 DEF Ends
<1>6. ASSUME NEW x \in DOMAIN he \ {End, b}
      PROVE  /\ x \in DOMAIN hd \ {End} /\ NextIn(he, x) = NextIn(hd, x)
             /\ PrevTrue(hd, x) => PrevTrue(he, x)
             /\ Apart(hd, x) => Apart(he, x)
  <2>1. x \in DOMAIN hd \ {End} /\ NextIn(he, x) = NextIn(hd, x) /\ he[x].free = hd[x].free
    BY <1>3
  <2>2. NextIn(hd, x) \in DOMAIN he
    <3>1. NextIn(hd, x) \in DOMAIN hd /\ NextIn(hd, x) # NextIn(hd, b)
      BY <2>1, BlockFacts, NextUnique
    <3>. QED BY <1>3, <3>1
  <2>3. /\ he[NextIn(hd, x)].free = hd[NextIn(hd, x)].free
        /\ he[NextIn(hd, x)].prevFree = hd[NextIn(hd, x)].prevFree
        /\ he[NextIn(hd, x)].prev = hd[NextIn(hd, x)].prev
    BY <1>3, <2>2
  <2>. QED BY <2>1, <2>3 DEF PrevTrue, Apart
<1>7. he[NextIn(he, b)].free = hd[NextIn(hd, NextIn(hd, b))].free
  <2>1. NextIn(hd, n) \in DOMAIN hd /\ NextIn(hd, n) # n
    BY <1>2, BlockFacts
  <2>. QED BY <1>1, <1>3, <2>1
<1>. QED BY <1>5, <1>6, <1>7

\* The block that is freed, and the free one after it.
FreeIn(hd, b) == [hd EXCEPT ![b].free = TRUE]

\* free_ex marks the block, and the headers around it are as they were.
LEMMA FreeingStart ==
    ASSUME NEW hd, Blocks(hd), Tagged(hd), NEW b \in DOMAIN hd \ {End}, ~hd[b].free,
           NEW he, he = FreeIn(hd, b)
    PROVE  /\ Blocks(he) /\ Freeing(he, b) /\ DOMAIN he = DOMAIN hd
           /\ NextIn(he, b) = NextIn(hd, b) /\ he[NextIn(he, b)].free = hd[NextIn(hd, b)].free
           /\ \A x \in DOMAIN hd : /\ he[x].size = hd[x].size /\ he[x].prevFree = hd[x].prevFree
                                   /\ he[x].prev = hd[x].prev
                                   /\ x # b => he[x] = hd[x]
<1>1. \A x \in DOMAIN hd : hd[x] \in Headers
  BY HeaderFacts
<1>2. DOMAIN he = DOMAIN hd /\ he[b] = [hd[b] EXCEPT !.free = TRUE]
  BY DEF FreeIn
<1>3. /\ he[b] \in Headers /\ he[b].size = hd[b].size /\ he[b].prevFree = hd[b].prevFree
      /\ he[b].prev = hd[b].prev /\ he[b].free = TRUE
  BY <1>1, <1>2 DEF Headers
<1>4. \A x \in DOMAIN hd : x # b => he[x] = hd[x]
  BY DEF FreeIn
<1>5. \A x \in DOMAIN hd : /\ he[x].size = hd[x].size /\ he[x].prevFree = hd[x].prevFree
                           /\ he[x].prev = hd[x].prev
                           /\ x # b => he[x] = hd[x]
  BY <1>3, <1>4
<1>6. he \in [DOMAIN hd -> Headers]
  <2>1. \A x \in DOMAIN hd : he[x] \in Headers
    BY <1>1, <1>3, <1>4
  <2>2. he = [x \in DOMAIN hd |-> he[x]]
    BY DEF FreeIn
  <2>. QED BY <2>1, <2>2
<1>7. Blocks(he) /\ \A x \in DOMAIN hd : NextIn(he, x) = NextIn(hd, x)
  BY <1>5, <1>6, BlocksSame
<1>8. Ends(he)
  <2>1. 0 \in DOMAIN hd /\ End \in DOMAIN hd
    BY DEF Blocks
  <2>. QED BY <1>5, <2>1 DEF Ends, Tagged
<1>9. ASSUME NEW x \in DOMAIN he \ {End, b} PROVE PrevTrue(he, x) /\ (NextIn(he, x) # b => Apart(he, x))
  <2>1. x \in DOMAIN hd \ {End} /\ PrevTrue(hd, x) /\ Apart(hd, x) /\ NextIn(hd, x) \in DOMAIN hd
    BY <1>2, BlockFacts DEF Tagged
  <2>2. NextIn(he, x) = NextIn(hd, x) /\ he[x] = hd[x]
    BY <1>4, <1>7, <2>1
  <2>3. /\ he[NextIn(hd, x)].prevFree = hd[NextIn(hd, x)].prevFree
        /\ he[NextIn(hd, x)].prev = hd[NextIn(hd, x)].prev
        /\ NextIn(hd, x) # b => he[NextIn(hd, x)] = hd[NextIn(hd, x)]
    BY <1>5, <2>1
  <2>. QED BY <2>1, <2>2, <2>3 DEF PrevTrue, Apart
<1>10. NextIn(he, b) = NextIn(hd, b) /\ he[NextIn(he, b)].free = hd[NextIn(hd, b)].free
  <2>1. NextIn(hd, b) \in DOMAIN hd /\ NextIn(hd, b) # b
    BY BlockFacts
  <2>. QED BY <1>4, <1>7, <2>1
<1>. QED BY <1>2, <1>3, <1>5, <1>7, <1>8, <1>9, <1>10 DEF Freeing

\* The block that is being freed absorbs the free block after it.
LEMMA FreeingNext ==
    ASSUME NEW hd, Blocks(hd), NEW b \in DOMAIN hd \ {End}, Freeing(hd, b), hd[NextIn(hd, b)].free,
           NEW he, he = AbsorbIn(hd, b, NextIn(hd, b))
    PROVE  /\ NextIn(hd, b) \in DOMAIN hd \ {End}
           /\ Blocks(he) /\ b \in DOMAIN he \ {End} /\ Freeing(he, b) /\ ~he[NextIn(he, b)].free
<1>1. NextIn(hd, b) \in DOMAIN hd \ {End} /\ NextIn(hd, b) # b
  BY BlockFacts DEF Freeing, Ends
<1>2. Blocks(he)
  BY <1>1, AbsorbBlocks
<1>3. /\ DOMAIN he = DOMAIN hd \ {NextIn(hd, b)} /\ b \in DOMAIN he
      /\ he[b].free = hd[b].free
  BY <1>1, AbsorbFields
<1>4. /\ Ends(he)
      /\ \A x \in DOMAIN he \ {End, b} : /\ x \in DOMAIN hd \ {End} /\ NextIn(he, x) = NextIn(hd, x)
                                         /\ PrevTrue(hd, x) => PrevTrue(he, x)
                                         /\ Apart(hd, x) => Apart(he, x)
      /\ he[NextIn(he, b)].free = hd[NextIn(hd, NextIn(hd, b))].free
  BY <1>1, AbsorbTags DEF Freeing
<1>5. ~hd[NextIn(hd, NextIn(hd, b))].free
  <2>1. NextIn(hd, NextIn(hd, b)) # b
    <3>1. NextIn(hd, b) < NextIn(hd, NextIn(hd, b)) /\ b < NextIn(hd, b)
          /\ b \in Nat /\ NextIn(hd, b) \in Nat
      BY <1>1, HeaderFacts
    <3>. QED BY <3>1
  <2>2. Apart(hd, NextIn(hd, b))
    BY <1>1, <2>1 DEF Freeing
  <2>. QED BY <2>2 DEF Apart
<1>6. \A x \in DOMAIN he \ {End, b} : PrevTrue(he, x) /\ (NextIn(he, x) # b => Apart(he, x))
  BY <1>3, <1>4 DEF Freeing
<1>. QED BY <1>1, <1>2, <1>3, <1>4, <1>5, <1>6 DEF Freeing

\* No block before, or a used one.
LEMMA FreeingFirst ==
    ASSUME NEW hd, Blocks(hd), NEW b \in DOMAIN hd \ {End}, Freeing(hd, b), ~hd[b].prevFree
    PROVE  TaggedBut(hd, b)
<1>1. ASSUME NEW x \in DOMAIN hd \ {End, b}, NextIn(hd, x) = b PROVE Apart(hd, x)
  <2>1. PrevTrue(hd, x)
    BY DEF Freeing
  <2>2. ~hd[x].free
    <3>1. x \in DOMAIN hd
      OBVIOUS
    <3>2. hd[x].free \in BOOLEAN
      BY <3>1, HeaderFacts
    <3>. QED BY <1>1, <2>1, <3>2 DEF PrevTrue
  <2>. QED BY <2>2 DEF Apart
<1>. QED BY <1>1 DEF Freeing, TaggedBut

\* A free block before, which takes the block.
LEMMA FreeingPrevious ==
    ASSUME NEW hd, Blocks(hd), NEW b \in DOMAIN hd \ {End}, Freeing(hd, b), hd[b].prevFree,
           ~hd[NextIn(hd, b)].free,
           NEW p, p = hd[b].prev,
           NEW he, he = AbsorbIn(hd, p, b)
    PROVE  /\ p \in DOMAIN hd \ {End} /\ p # b /\ NextIn(hd, p) = b /\ hd[p].free
           /\ Blocks(he) /\ p \in DOMAIN he \ {End} /\ TaggedBut(he, p)
           /\ he[p].free /\ ~he[NextIn(he, p)].free
<1>1. b # 0
  BY DEF Freeing, Ends
<1>2. PICK q \in DOMAIN hd \ {End} : NextIn(hd, q) = b
  BY <1>1, PrevExists
<1>3. q # b
  BY <1>2, BlockFacts
<1>4. PrevTrue(hd, q)
  BY <1>3 DEF Freeing
<1>5. hd[q].free \in BOOLEAN /\ hd[b].prevFree \in BOOLEAN
  BY HeaderFacts
<1>6. hd[q].free /\ p = q
  BY <1>2, <1>4, <1>5 DEF PrevTrue
<1>7. he = AbsorbIn(hd, p, NextIn(hd, p)) /\ NextIn(hd, p) # End /\ p \in DOMAIN hd \ {End}
  BY <1>2, <1>6
<1>8. Blocks(he)
  BY <1>7, AbsorbBlocks
<1>9. /\ DOMAIN he = DOMAIN hd \ {NextIn(hd, p)} /\ p \in DOMAIN he
      /\ he[p].free = hd[p].free
  <2>1. DOMAIN he = DOMAIN hd \ {NextIn(hd, p)} /\ p # NextIn(hd, p)
    BY <1>7, BlockFacts DEF AbsorbIn
  <2>2. \A x \in DOMAIN he : he[x].free = hd[x].free
    BY <1>7 DEF AbsorbIn
  <2>. QED BY <1>7, <2>1, <2>2
<1>10. /\ Ends(he)
       /\ \A x \in DOMAIN he \ {End, p} : /\ x \in DOMAIN hd \ {End} /\ NextIn(he, x) = NextIn(hd, x)
                                          /\ PrevTrue(hd, x) => PrevTrue(he, x)
                                          /\ Apart(hd, x) => Apart(he, x)
       /\ he[NextIn(he, p)].free = hd[NextIn(hd, NextIn(hd, p))].free
  BY <1>7, AbsorbTags DEF Freeing
<1>11. ASSUME NEW x \in DOMAIN he \ {End, p} PROVE PrevTrue(he, x) /\ Apart(he, x)
  <2>1. x \in DOMAIN hd \ {End, b}
    BY <1>2, <1>6, <1>9
  <2>2. NextIn(hd, x) # b
    BY <1>2, <1>6, <2>1, NextUnique
  <2>3. PrevTrue(hd, x) /\ Apart(hd, x)
    BY <2>1, <2>2 DEF Freeing
  <2>. QED BY <1>10, <2>3
<1>. QED BY <1>2, <1>3, <1>6, <1>7, <1>8, <1>9, <1>10, <1>11 DEF TaggedBut

\* A used block has taken the free one after it.
LEMMA JoinedTags ==
    ASSUME NEW hd, Blocks(hd), Tagged(hd), NEW b \in DOMAIN hd \ {End}, hd[NextIn(hd, b)].free,
           NEW he, he = AbsorbIn(hd, b, NextIn(hd, b))
    PROVE  /\ NextIn(hd, b) \in DOMAIN hd \ {End}
           /\ Blocks(he) /\ b \in DOMAIN he \ {End} /\ TaggedBut(he, b) /\ ~he[NextIn(he, b)].free
<1>1. NextIn(hd, b) \in DOMAIN hd \ {End} /\ NextIn(hd, b) # b
  BY BlockFacts DEF Tagged, Ends
<1>2. Blocks(he)
  BY <1>1, AbsorbBlocks
<1>3. DOMAIN he = DOMAIN hd \ {NextIn(hd, b)} /\ b \in DOMAIN he
  BY <1>1 DEF AbsorbIn
<1>4. /\ Ends(he)
      /\ \A x \in DOMAIN he \ {End, b} : /\ x \in DOMAIN hd \ {End} /\ NextIn(he, x) = NextIn(hd, x)
                                         /\ PrevTrue(hd, x) => PrevTrue(he, x)
                                         /\ Apart(hd, x) => Apart(he, x)
      /\ he[NextIn(he, b)].free = hd[NextIn(hd, NextIn(hd, b))].free
  BY <1>1, AbsorbTags DEF Tagged
<1>5. ~hd[NextIn(hd, NextIn(hd, b))].free
  <2>1. Apart(hd, NextIn(hd, b))
    BY <1>1 DEF Tagged
  <2>. QED BY <2>1 DEF Apart
<1>6. \A x \in DOMAIN he \ {End, b} : PrevTrue(he, x) /\ Apart(he, x)
  BY <1>4 DEF Tagged
<1>. QED BY <1>1, <1>2, <1>3, <1>4, <1>5, <1>6 DEF TaggedBut

\* The rest of a block that was cut is a free one.
LEMMA SplitTags ==
    ASSUME NEW hd, Blocks(hd), NEW b \in DOMAIN hd \ {End}, TaggedBut(hd, b), ~hd[NextIn(hd, b)].free,
           NEW c, c \notin DOMAIN hd, c # End,
           NEW he \in [DOMAIN hd \cup {c} -> Headers], Blocks(he),
           NextIn(he, b) = c, NextIn(he, c) = NextIn(hd, b),
           \A x \in DOMAIN hd \ {b} : NextIn(he, x) = NextIn(hd, x),
           ~he[b].free, he[c].free, ~he[c].prevFree,
           he[NextIn(hd, b)].prevFree, he[NextIn(hd, b)].prev = c,
           \A x \in DOMAIN hd : /\ x # NextIn(hd, b) => /\ he[x].prevFree = hd[x].prevFree
                                                        /\ he[x].prev = hd[x].prev
                                /\ x # b => he[x].free = hd[x].free
    PROVE  Tagged(he)
<1>1. PICK n : n = NextIn(hd, b)
  OBVIOUS
<1>2. n \in DOMAIN hd /\ n # 0 /\ n # b /\ n # c /\ b # c
  BY <1>1, BlockFacts
<1>3. 0 \in DOMAIN hd /\ End \in DOMAIN hd
  BY DEF Blocks
<1>4. \A x \in DOMAIN he : he[x].free \in BOOLEAN /\ he[x].prevFree \in BOOLEAN
  BY HeaderFacts
<1>5. DOMAIN he = DOMAIN hd \cup {c}
  OBVIOUS
<1>6. Ends(he)
  BY <1>1, <1>2, <1>3 DEF Ends, TaggedBut
<1>7. PrevTrue(he, b) /\ Apart(he, b)
  <2>1. he[c].prevFree = FALSE /\ he[b].free = FALSE
    BY <1>4, <1>5
  <2>. QED BY <2>1 DEF PrevTrue, Apart
<1>8. PrevTrue(he, c) /\ Apart(he, c)
  <2>1. he[n].prevFree = TRUE /\ he[c].free = TRUE /\ he[n].prev = c
    BY <1>1, <1>2, <1>4, <1>5
  <2>2. ~he[n].free
    BY <1>1, <1>2
  <2>. QED BY <1>1, <2>1, <2>2 DEF PrevTrue, Apart
<1>9. ASSUME NEW x \in DOMAIN hd \ {End}, x # b PROVE PrevTrue(he, x) /\ Apart(he, x)
  <2>1. PrevTrue(hd, x) /\ Apart(hd, x)
    BY <1>9 DEF TaggedBut
  <2>2. NextIn(hd, x) \in DOMAIN hd /\ NextIn(hd, x) # n
    BY <1>1, <1>9, BlockFacts, NextUnique
  <2>3. /\ he[NextIn(hd, x)].prevFree = hd[NextIn(hd, x)].prevFree
        /\ he[NextIn(hd, x)].prev = hd[NextIn(hd, x)].prev
        /\ he[x].free = hd[x].free
        /\ NextIn(he, x) = NextIn(hd, x)
    BY <1>1, <1>9, <2>2
  <2>4. he[NextIn(hd, x)].free => hd[NextIn(hd, x)].free
    BY <2>2
  <2>. QED BY <2>1, <2>3, <2>4 DEF PrevTrue, Apart
<1>. QED BY <1>5, <1>6, <1>7, <1>8, <1>9 DEF Tagged

-----------------------------------------------------------------------------
(* TLSF: lists and bitmaps *)

\* The lists and the bitmaps when the list of the class c has the blocks K[c].
ListsOf(mx, f, s, K) ==
    /\ mx \in [Classes -> Seq(Int)] /\ f \subseteq 0 .. MaxFl
    /\ s \in [0 .. MaxFl -> SUBSET (0 .. MaxSli - 1)]
    /\ \A c \in Classes : /\ Range(mx[c]) = K[c] /\ IsInjective(mx[c])
                          /\ c[2] \in s[c[1]] <=> mx[c] # <<>>
    /\ \A i \in 0 .. MaxFl : i \in f <=> s[i] # {}

\* A class is a first and a second level.
LEMMA ClassFacts ==
    ASSUME NEW c \in Classes
    PROVE  c[1] \in 0 .. MaxFl /\ c[2] \in 0 .. MaxSli - 1 /\ c = <<c[1], c[2]>>
  BY DEF Classes

\* The bits of a level, and of the levels, when the list of c becomes q.
NewSl(s, c, q) == [s EXCEPT ![c[1]] = IF q = <<>> THEN @ \ {c[2]} ELSE @ \cup {c[2]}]
NewFl(f, t, c) == IF t[c[1]] = {} THEN f \ {c[1]} ELSE f \cup {c[1]}
Put(m, c, q) == [m EXCEPT ![c] = q]

\* One list has changed, and its bits with it.
LEMMA Relisted ==
    ASSUME NEW mx, NEW f, NEW s, NEW K, DOMAIN K = Classes, ListsOf(mx, f, s, K), NEW c \in Classes,
           NEW q \in Seq(Int), IsInjective(q), NEW t, t = NewSl(s, c, q)
    PROVE  ListsOf(Put(mx, c, q), NewFl(f, t, c), t, Put(K, c, Range(q)))
<1>1. PICK g, nx, L : g = NewFl(f, t, c) /\ nx = Put(mx, c, q) /\ L = Put(K, c, Range(q))
  OBVIOUS
<1>2. c[1] \in 0 .. MaxFl /\ c[2] \in 0 .. MaxSli - 1 /\ c = <<c[1], c[2]>>
  BY ClassFacts
<1>3. PICK i \in 0 .. MaxFl : i = c[1]
  BY <1>2
<1>4. PICK j \in 0 .. MaxSli - 1 : j = c[2]
  BY <1>2
<1>5. /\ mx \in [Classes -> Seq(Int)] /\ f \subseteq 0 .. MaxFl
      /\ s \in [0 .. MaxFl -> SUBSET (0 .. MaxSli - 1)]
  BY DEF ListsOf
<1>6. nx \in [Classes -> Seq(Int)] /\ nx[c] = q /\ \A d \in Classes : d # c => nx[d] = mx[d]
  BY <1>1, <1>5 DEF Put
<1>7. L[c] = Range(q) /\ \A d \in Classes : d # c => L[d] = K[d]
  BY <1>1 DEF Put
<1>8. /\ t \in [0 .. MaxFl -> SUBSET (0 .. MaxSli - 1)]
      /\ t[i] = (IF q = <<>> THEN s[i] \ {j} ELSE s[i] \cup {j})
      /\ \A k \in 0 .. MaxFl : k # i => t[k] = s[k]
  BY <1>3, <1>4, <1>5 DEF NewSl
<1>9. g \subseteq 0 .. MaxFl /\ (i \in g <=> t[i] # {}) /\ \A k \in 0 .. MaxFl : k # i => (k \in g <=> k \in f)
  BY <1>1, <1>3, <1>5 DEF NewFl
<1>10. \A k \in 0 .. MaxFl : k \in g <=> t[k] # {}
  BY <1>8, <1>9 DEF ListsOf
<1>11. ASSUME NEW d \in Classes
       PROVE  /\ Range(nx[d]) = L[d] /\ IsInjective(nx[d])
              /\ d[2] \in t[d[1]] <=> nx[d] # <<>>
  <2>1. CASE d = c
    <3>1. j \in t[i] <=> q # <<>>
      BY <1>8
    <3>. QED BY <1>3, <1>4, <1>6, <1>7, <2>1, <3>1
  <2>2. CASE d # c
    <3>1. d[1] \in 0 .. MaxFl /\ d[2] \in 0 .. MaxSli - 1 /\ d = <<d[1], d[2]>>
      BY ClassFacts
    <3>2. d[1] # i \/ d[2] # j
      BY <1>2, <1>3, <1>4, <2>2, <3>1
    <3>3. d[2] \in t[d[1]] <=> d[2] \in s[d[1]]
      BY <1>8, <3>1, <3>2
    <3>4. /\ Range(mx[d]) = K[d] /\ IsInjective(mx[d])
          /\ d[2] \in s[d[1]] <=> mx[d] # <<>>
      BY DEF ListsOf
    <3>. QED BY <1>6, <1>7, <2>2, <3>3, <3>4
  <2>. QED BY <2>1, <2>2
<1>12. ListsOf(nx, g, t, L)
  BY <1>6, <1>8, <1>9, <1>10, <1>11 DEF ListsOf
<1>. QED BY <1>1, <1>12

\* A heap with its lists.
IsHeap(h) == h = [hdr |-> h.hdr, matrix |-> h.matrix, fl |-> h.fl, sl |-> h.sl, used |-> h.used]
HeapLists(h, K) == IsHeap(h) /\ DOMAIN K = Classes /\ ListsOf(h.matrix, h.fl, h.sl, K)

\* The minimum of a set of numbers.
LEMMA MinOf ==
    ASSUME NEW S, S \subseteq Nat, S # {}
    PROVE  Min(S) \in S /\ \A x \in S : Min(S) <= x
<1>1. \E m \in S : \A j \in S : m <= j
  BY LeastOf
<1>. QED BY <1>1 DEF Min

\* The search by bitmaps misses nothing.
LEMMA FindFacts ==
    ASSUME NEW h, NEW K, HeapLists(h, K), NEW class \in Classes,
           NEW found, found = FindSuitableBlock(h, class)
    PROVE  /\ found = <<>> => \A c \in Classes : Leq(class, c) => K[c] = {}
           /\ found # <<>> => found \in Classes /\ Leq(class, found) /\ h.matrix[found] # <<>>
<1>1. class[1] \in 0 .. MaxFl /\ class[2] \in 0 .. MaxSli - 1
  BY ClassFacts
<1>2. /\ h.matrix \in [Classes -> Seq(Int)] /\ h.fl \subseteq 0 .. MaxFl
      /\ h.sl \in [0 .. MaxFl -> SUBSET (0 .. MaxSli - 1)]
      /\ \A c \in Classes : Range(h.matrix[c]) = K[c] /\ (c[2] \in h.sl[c[1]] <=> h.matrix[c] # <<>>)
      /\ \A i \in 0 .. MaxFl : i \in h.fl <=> h.sl[i] # {}
  BY DEF HeapLists, ListsOf
<1>. DEFINE same == {s \in h.sl[class[1]] : s >= class[2]}
            above == {f \in h.fl : f > class[1]}
<1>3. found = IF same # {} THEN <<class[1], Min(same)>>
              ELSE IF above # {} THEN <<Min(above), Min(h.sl[Min(above)])>> ELSE <<>>
  BY DEF FindSuitableBlock
<1>4. same \subseteq 0 .. MaxSli - 1 /\ above \subseteq 0 .. MaxFl
  BY <1>1, <1>2
<1>5. CASE same # {}
  <2>1. Min(same) \in same
    BY <1>4, <1>5, MinOf
  <2>2. found = <<class[1], Min(same)>>
    BY <1>3, <1>5
  <2>3. found \in Classes /\ found[1] = class[1] /\ found[2] = Min(same)
    BY <1>1, <1>4, <2>1, <2>2 DEF Classes
  <2>4. Leq(class, found)
    BY <1>1, <1>4, <2>1, <2>3 DEF Leq
  <2>5. h.matrix[found] # <<>>
    BY <1>2, <2>1, <2>3
  <2>. QED BY <2>2, <2>3, <2>4, <2>5
<1>6. CASE same = {} /\ above # {}
  <2>1. PICK m : m = Min(above)
    OBVIOUS
  <2>2. m \in above
    BY <1>4, <1>6, <2>1, MinOf
  <2>3. h.sl[m] # {} /\ h.sl[m] \subseteq 0 .. MaxSli - 1 /\ m \in 0 .. MaxFl /\ m > class[1]
    BY <1>2, <1>4, <2>2
  <2>4. Min(h.sl[m]) \in h.sl[m]
    BY <2>3, MinOf
  <2>5. found = <<m, Min(h.sl[m])>>
    BY <1>3, <1>6, <2>1
  <2>6. found \in Classes /\ found[1] = m /\ found[2] = Min(h.sl[m])
    BY <2>3, <2>4, <2>5 DEF Classes
  <2>7. Leq(class, found)
    BY <1>1, <2>3, <2>6 DEF Leq
  <2>8. h.matrix[found] # <<>>
    BY <1>2, <2>4, <2>6
  <2>. QED BY <2>5, <2>6, <2>7, <2>8
<1>7. CASE same = {} /\ above = {}
  <2>1. found = <<>>
    BY <1>3, <1>7
  <2>2. ASSUME NEW c \in Classes, Leq(class, c) PROVE K[c] = {}
    <3>1. c[1] \in 0 .. MaxFl /\ c[2] \in 0 .. MaxSli - 1
      BY ClassFacts
    <3>2. c[2] \notin h.sl[c[1]]
      <4>1. CASE class[1] < c[1]
        BY <1>1, <1>2, <1>7, <3>1, <4>1
      <4>2. CASE class[1] = c[1] /\ class[2] <= c[2]
        BY <1>1, <1>7, <3>1, <4>2
      <4>. QED BY <2>2, <4>1, <4>2 DEF Leq
    <3>3. h.matrix[c] = <<>> /\ Range(h.matrix[c]) = K[c]
      BY <1>2, <3>2
    <3>. QED BY <3>3 DEF Range
  <2>. QED BY <2>1, <2>2
<1>. QED BY <1>5, <1>6, <1>7

\* A sequence without its head, without one of its elements, with a new head.
LEMMA TailRange ==
    ASSUME NEW q \in Seq(Int), q # <<>>, IsInjective(q)
    PROVE  Tail(q) \in Seq(Int) /\ IsInjective(Tail(q)) /\ Range(Tail(q)) = Range(q) \ {Head(q)}
           /\ Head(q) \in Range(q)
<1>1. Len(q) \in Nat \ {0} /\ DOMAIN q = 1 .. Len(q) /\ Head(q) = q[1]
  BY EmptySeq
<1>2. /\ Tail(q) \in Seq(Int) /\ DOMAIN Tail(q) = 1 .. Len(q) - 1
      /\ \A k \in 1 .. Len(q) - 1 : Tail(q)[k] = q[k + 1]
  OBVIOUS
<1>3. IsInjective(Tail(q))
  BY <1>1, <1>2 DEF IsInjective
<1>4. ASSUME NEW x \in Range(Tail(q)) PROVE x \in Range(q) \ {Head(q)}
  <2>1. PICK k \in 1 .. Len(q) - 1 : x = q[k + 1]
    BY <1>2 DEF Range
  <2>2. k + 1 \in DOMAIN q /\ 1 \in DOMAIN q /\ k + 1 # 1
    BY <1>1
  <2>. QED BY <1>1, <2>1, <2>2 DEF Range, IsInjective
<1>5. ASSUME NEW x \in Range(q) \ {Head(q)} PROVE x \in Range(Tail(q))
  <2>1. PICK k \in DOMAIN q : x = q[k]
    BY DEF Range
  <2>2. k # 1
    BY <1>1, <2>1
  <2>3. k - 1 \in 1 .. Len(q) - 1 /\ (k - 1) + 1 = k
    BY <1>1, <2>2
  <2>4. Tail(q)[k - 1] = x /\ k - 1 \in DOMAIN Tail(q)
    BY <1>2, <2>1, <2>3
  <2>. QED BY <2>4 DEF Range
<1>6. Head(q) \in Range(q)
  BY <1>1 DEF Range
<1>. QED BY <1>2, <1>3, <1>4, <1>5, <1>6

\* A list without one of its blocks.
LEMMA RemovedRange ==
    ASSUME NEW q \in Seq(Int), IsInjective(q), NEW i \in DOMAIN q
    PROVE  LET r == RemoveAt(q, i)
           IN  r \in Seq(Int) /\ IsInjective(r) /\ Range(r) = Range(q) \ {q[i]}
<1>1. Len(q) \in Nat /\ DOMAIN q = 1 .. Len(q) /\ i \in 1 .. Len(q)
  OBVIOUS
<1>2. PICK r : r = RemoveAt(q, i)
  OBVIOUS
<1>3. r = SubSeq(q, 1, i - 1) \o SubSeq(q, i + 1, Len(q))
  BY <1>2 DEF RemoveAt
<1>4. PICK u : u = SubSeq(q, 1, i - 1)
  OBVIOUS
<1>5. PICK v : v = SubSeq(q, i + 1, Len(q))
  OBVIOUS
<1>6. u \in Seq(Int) /\ Len(u) = i - 1 /\ \A k \in 1 .. i - 1 : u[k] = q[k]
  BY <1>1, <1>4
<1>7. v \in Seq(Int) /\ Len(v) = Len(q) - i /\ \A k \in 1 .. Len(q) - i : v[k] = q[k + i]
  <2>1. PICK lo : lo = i + 1
    OBVIOUS
  <2>2. PICK hi : hi = Len(q)
    OBVIOUS
  <2>3. lo \in Int /\ hi \in Int
    BY <1>1, <2>1, <2>2
  <2>4. v = SubSeq(q, lo, hi) /\ \A k \in lo .. hi : q[k] \in Int
    BY <1>1, <1>5, <2>1, <2>2
  <2>5. /\ v \in Seq(Int) /\ Len(v) = IF lo <= hi THEN hi - lo + 1 ELSE 0
        /\ \A k \in 1 .. hi - lo + 1 : v[k] = q[lo + k - 1]
    BY <2>3, <2>4, SubSeqProperties
  <2>6. /\ v \in Seq(Int)
        /\ Len(v) = IF i + 1 <= Len(q) THEN Len(q) - (i + 1) + 1 ELSE 0
        /\ \A k \in 1 .. Len(q) - (i + 1) + 1 : v[k] = q[(i + 1) + k - 1]
    BY <2>1, <2>2, <2>3, <2>5
  <2>7. Len(v) = Len(q) - i
    <3>1. \A a \in Nat : \A k \in 1 .. a : (IF k + 1 <= a THEN a - (k + 1) + 1 ELSE 0) = a - k
      OBVIOUS
    <3>2. (IF i + 1 <= Len(q) THEN Len(q) - (i + 1) + 1 ELSE 0) = Len(q) - i
      BY <1>1, <3>1, Zenon
    <3>. QED BY <2>6, <3>2
  <2>8. ASSUME NEW k \in 1 .. Len(q) - i PROVE v[k] = q[k + i]
    <3>1. k \in 1 .. Len(q) - (i + 1) + 1 /\ (i + 1) + k - 1 = k + i
      BY <1>1
    <3>2. v[k] = q[(i + 1) + k - 1]
      BY <2>6, <3>1
    <3>. QED BY <3>1, <3>2
  <2>. QED BY <2>6, <2>7, <2>8
<1>8. r = u \o v
  BY <1>3, <1>4, <1>5
<1>9. /\ r \in Seq(Int) /\ Len(r) = Len(q) - 1 /\ DOMAIN r = 1 .. Len(q) - 1
      /\ \A k \in 1 .. Len(q) - 1 : r[k] = IF k < i THEN q[k] ELSE q[k + 1]
  <2>1. /\ r \in Seq(Int)
        /\ Len(r) = Len(u) + Len(v)
        /\ \A k \in 1 .. Len(u) + Len(v) : r[k] = IF k <= Len(u) THEN u[k] ELSE v[k - Len(u)]
    BY <1>6, <1>7, <1>8, ConcatProperties
  <2>2. Len(r) = Len(q) - 1
    BY <1>1, <1>6, <1>7, <2>1
  <2>3. ASSUME NEW k \in 1 .. Len(q) - 1 PROVE r[k] = IF k < i THEN q[k] ELSE q[k + 1]
    <3>1. k \in 1 .. Len(u) + Len(v) /\ Len(u) = i - 1
      BY <1>1, <1>6, <1>7
    <3>2. r[k] = IF k <= i - 1 THEN u[k] ELSE v[k - (i - 1)]
      BY <2>1, <3>1
    <3>3. CASE k < i
      <4>1. k \in 1 .. i - 1 /\ k <= i - 1
        BY <1>1, <3>3
      <4>. QED BY <1>6, <3>2, <3>3, <4>1
    <3>4. CASE ~(k < i)
      <4>1. /\ k - (i - 1) \in 1 .. Len(q) - i /\ ~(k <= i - 1) /\ (k - (i - 1)) + i = k + 1
        BY <1>1, <3>4
      <4>2. v[k - (i - 1)] = q[(k - (i - 1)) + i]
        BY <1>7, <4>1
      <4>. QED BY <3>2, <3>4, <4>1, <4>2
    <3>. QED BY <3>3, <3>4
  <2>4. DOMAIN r = 1 .. Len(q) - 1
    BY <2>1, <2>2
  <2>. QED BY <2>1, <2>2, <2>3, <2>4
\* Where an element of r is in q.
<1>. DEFINE At(k) == IF k < i THEN k ELSE k + 1
<1>10. ASSUME NEW k \in DOMAIN r PROVE At(k) \in DOMAIN q /\ At(k) # i /\ r[k] = q[At(k)]
  <2>1. k \in 1 .. Len(q) - 1
    BY <1>9
  <2>2. At(k) \in 1 .. Len(q) /\ At(k) # i
    BY <1>1, <2>1
  <2>3. r[k] = q[At(k)]
    BY <1>9, <2>1
  <2>. QED BY <1>1, <2>2, <2>3
<1>11. \A k, m \in DOMAIN r : At(k) = At(m) => k = m
  <2>1. \A k \in DOMAIN r : k \in Nat
    BY <1>9
  <2>2. i \in Nat
    BY <1>1
  <2>3. \A k, m \in Nat : At(k) = At(m) => k = m
    BY <2>2
  <2>. QED BY <2>1, <2>3
<1>12. IsInjective(r)
  <2>. HIDE DEF At
  <2>. QED BY <1>10, <1>11 DEF IsInjective
<1>13. ASSUME NEW x \in Range(r) PROVE x \in Range(q) \ {q[i]}
  <2>1. PICK k \in DOMAIN r : x = r[k]
    BY DEF Range
  <2>. HIDE DEF At
  <2>. QED BY <1>10, <2>1 DEF Range, IsInjective
<1>14. ASSUME NEW x \in Range(q) \ {q[i]} PROVE x \in Range(r)
  <2>1. PICK k \in DOMAIN q : x = q[k] /\ k # i
    BY DEF Range
  <2>2. PICK m \in 1 .. Len(q) - 1 : r[m] = x
    <3>1. CASE k < i
      <4>1. k \in 1 .. Len(q) - 1
        BY <1>1, <3>1
      <4>. QED BY <1>9, <2>1, <3>1, <4>1
    <3>2. CASE i < k
      <4>1. k - 1 \in 1 .. Len(q) - 1 /\ ~(k - 1 < i) /\ (k - 1) + 1 = k
        BY <1>1, <3>2
      <4>2. r[k - 1] = q[(k - 1) + 1]
        BY <1>9, <4>1
      <4>. QED BY <2>1, <4>1, <4>2
    <3>. QED BY <1>1, <2>1, <3>1, <3>2
  <2>. QED BY <1>9, <2>2 DEF Range
<1>. QED BY <1>2, <1>9, <1>14, <1>12, <1>13

\* A list with one more block at its head.
LEMMA PushedRange ==
    ASSUME NEW q \in Seq(Int), IsInjective(q), NEW b \in Int, b \notin Range(q)
    PROVE  LET r == <<b>> \o q
           IN  r \in Seq(Int) /\ r # <<>> /\ IsInjective(r) /\ Range(r) = Range(q) \cup {b}
<1>1. PICK r : r = <<b>> \o q
  OBVIOUS
<1>2. Len(q) \in Nat /\ DOMAIN q = 1 .. Len(q)
  OBVIOUS
<1>3. r \in Seq(Int) /\ Len(r) = Len(q) + 1 /\ DOMAIN r = 1 .. Len(q) + 1
      /\ r[1] = b /\ \A k \in 1 .. Len(q) : r[k + 1] = q[k]
  BY <1>1, <1>2
<1>4. \A k \in DOMAIN r : k = 1 \/ (k - 1 \in DOMAIN q /\ r[k] = q[k - 1])
  <2>1. ASSUME NEW k \in DOMAIN r, k # 1 PROVE k - 1 \in DOMAIN q /\ r[k] = q[k - 1]
    <3>1. k - 1 \in 1 .. Len(q) /\ (k - 1) + 1 = k
      BY <1>2, <1>3, <2>1
    <3>2. r[(k - 1) + 1] = q[k - 1]
      BY <1>3, <3>1
    <3>. QED BY <1>2, <3>1, <3>2
  <2>. QED BY <2>1
<1>5. \A k \in DOMAIN q : q[k] # b
  BY DEF Range
<1>6. IsInjective(r)
  <2>1. ASSUME NEW k \in DOMAIN r, NEW m \in DOMAIN r, r[k] = r[m] PROVE k = m
    <3>1. k \in Nat /\ m \in Nat
      BY <1>3
    <3>2. CASE k = 1 \/ m = 1
      BY <1>3, <1>4, <1>5, <2>1, <3>2
    <3>3. CASE k # 1 /\ m # 1
      <4>1. k - 1 = m - 1
        BY <1>4, <2>1, <3>3 DEF IsInjective
      <4>. QED BY <3>1, <4>1
    <3>. QED BY <3>2, <3>3
  <2>. QED BY <2>1 DEF IsInjective
<1>7. Range(r) = Range(q) \cup {b}
  <2>1. ASSUME NEW x \in Range(r) PROVE x \in Range(q) \cup {b}
    <3>1. PICK k \in DOMAIN r : x = r[k]
      BY DEF Range
    <3>. QED BY <1>3, <1>4, <3>1 DEF Range
  <2>2. b \in Range(r)
    BY <1>3 DEF Range
  <2>3. ASSUME NEW x \in Range(q) PROVE x \in Range(r)
    <3>1. PICK k \in 1 .. Len(q) : x = q[k]
      BY <1>2 DEF Range
    <3>2. k + 1 \in DOMAIN r
      BY <1>2, <1>3
    <3>. QED BY <1>3, <3>1, <3>2 DEF Range
  <2>. QED BY <2>1, <2>2, <2>3
<1>8. r # <<>>
  BY <1>2, <1>3
<1>. QED BY <1>1, <1>3, <1>6, <1>7, <1>8

\* A record is its fields.
LEMMA HeapFields ==
    ASSUME NEW hd, NEW mx, NEW f, NEW s, NEW u,
           NEW h, h = [hdr |-> hd, matrix |-> mx, fl |-> f, sl |-> s, used |-> u]
    PROVE  IsHeap(h) /\ h.hdr = hd /\ h.matrix = mx /\ h.fl = f /\ h.sl = s /\ h.used = u
  BY DEF IsHeap

\* A heap with other lists.
WithLists(h, g, mx) ==
    /\ IsHeap(g) /\ g.hdr = h.hdr /\ g.matrix = mx /\ g.fl = h.fl /\ g.sl = h.sl /\ g.used = h.used

\* A heap with another list.
LEMMA PutList ==
    ASSUME NEW h, IsHeap(h), NEW c, NEW q, NEW g, g = [h EXCEPT !.matrix[c] = q]
    PROVE  WithLists(h, g, Put(h.matrix, c, q))
<1>1. PICK hd, mx, f, s, u : h = [hdr |-> hd, matrix |-> mx, fl |-> f, sl |-> s, used |-> u]
  BY DEF IsHeap
<1>2. h.hdr = hd /\ h.matrix = mx /\ h.fl = f /\ h.sl = s /\ h.used = u
  BY <1>1
<1>3. PICK nx : nx = [mx EXCEPT ![c] = q]
  OBVIOUS
<1>4. g = [h EXCEPT !.matrix = nx]
  BY <1>2, <1>3
<1>5. g = [hdr |-> hd, matrix |-> nx, fl |-> f, sl |-> s, used |-> u]
  BY <1>1, <1>4
<1>6. IsHeap(g) /\ g.hdr = hd /\ g.matrix = nx /\ g.fl = f /\ g.sl = s /\ g.used = u
  BY <1>5 DEF IsHeap
<1>. QED BY <1>2, <1>3, <1>6 DEF WithLists, Put

\* The list of c was not empty and has become q.
Taken(h, K, c, q, h1) ==
    /\ HeapLists(h, K) /\ c \in Classes /\ h.matrix[c] # <<>>
    /\ q \in Seq(Int) /\ IsInjective(q) /\ WithLists(h, h1, Put(h.matrix, c, q))

\* A list without one of its blocks, and its bits.
LEMMA TakenLists ==
    ASSUME NEW h, NEW K, NEW c, NEW q, NEW h1, Taken(h, K, c, q, h1)
    PROVE  LET g == ClearBits(h1, c)
           IN  HeapLists(g, Put(K, c, Range(q))) /\ g.hdr = h.hdr /\ g.used = h.used
<1>. USE DEF Taken
<1>. PICK g : g = ClearBits(h1, c)
  OBVIOUS
<1>1. PICK mx, t, f, L : /\ mx = Put(h.matrix, c, q) /\ t = NewSl(h.sl, c, q) /\ f = NewFl(h.fl, t, c)
                         /\ L = Put(K, c, Range(q))
  OBVIOUS
<1>2. /\ IsHeap(h) /\ DOMAIN K = Classes /\ ListsOf(h.matrix, h.fl, h.sl, K)
  BY DEF HeapLists
<1>3. /\ h.matrix \in [Classes -> Seq(Int)] /\ h.fl \subseteq 0 .. MaxFl
      /\ h.sl \in [0 .. MaxFl -> SUBSET (0 .. MaxSli - 1)]
      /\ c[2] \in h.sl[c[1]]
      /\ c[1] \in 0 .. MaxFl
      /\ c[1] \in h.fl
  <2>1. c[1] \in 0 .. MaxFl
    BY ClassFacts
  <2>2. c[2] \in h.sl[c[1]]
    BY <1>2 DEF ListsOf
  <2>3. c[1] \in h.fl
    BY <1>2, <2>1, <2>2 DEF ListsOf
  <2>. QED BY <1>2, <2>1, <2>2, <2>3 DEF ListsOf
<1>4. ListsOf(mx, f, t, L)
  BY <1>1, <1>2, Relisted
<1>5. h1.matrix = mx /\ h1.matrix[c] = q /\ h1.fl = h.fl /\ h1.sl = h.sl
  BY <1>1, <1>3 DEF WithLists, Put
<1>6. h1 = [hdr |-> h.hdr, matrix |-> mx, fl |-> h.fl, sl |-> h.sl, used |-> h.used]
  BY <1>1, <1>5 DEF IsHeap, WithLists
<1>7. g = [hdr |-> h.hdr, matrix |-> mx, fl |-> f, sl |-> t, used |-> h.used]
  <2>1. CASE q # <<>>
    <3>1. g = h1
      BY <1>5, <2>1 DEF ClearBits
    <3>2. t = h.sl
      <4>1. t = [h.sl EXCEPT ![c[1]] = h.sl[c[1]] \cup {c[2]}]
        BY <1>1, <2>1 DEF NewSl
      <4>2. h.sl[c[1]] \cup {c[2]} = h.sl[c[1]]
        BY <1>3
      <4>. QED BY <1>3, <4>1, <4>2
    <3>3. f = h.fl
      <4>1. t[c[1]] # {}
        BY <1>3, <3>2
      <4>2. h.fl \cup {c[1]} = h.fl
        BY <1>3
      <4>. QED BY <1>1, <4>1, <4>2 DEF NewFl
    <3>. QED BY <1>6, <3>1, <3>2, <3>3
  <2>2. CASE q = <<>>
    <3>1. PICK bits : bits = h.sl[c[1]] \ {c[2]}
      OBVIOUS
    <3>2. g = [h1 EXCEPT !.sl[c[1]] = bits, !.fl = IF bits = {} THEN @ \ {c[1]} ELSE @]
      BY <1>5, <2>2, <3>1 DEF ClearBits
    <3>3. g = [hdr |-> h.hdr, matrix |-> mx, fl |-> IF bits = {} THEN h.fl \ {c[1]} ELSE h.fl,
               sl |-> [h.sl EXCEPT ![c[1]] = bits], used |-> h.used]
      BY <1>6, <3>2
    <3>4. t = [h.sl EXCEPT ![c[1]] = bits] /\ t[c[1]] = bits
      BY <1>1, <1>3, <2>2, <3>1 DEF NewSl
    <3>5. f = IF bits = {} THEN h.fl \ {c[1]} ELSE h.fl
      <4>1. h.fl \cup {c[1]} = h.fl
        BY <1>3
      <4>. QED BY <1>1, <3>4, <4>1 DEF NewFl
    <3>. QED BY <3>3, <3>4, <3>5
  <2>. QED BY <2>1, <2>2
<1>8. IsHeap(g) /\ g.hdr = h.hdr /\ g.matrix = mx /\ g.fl = f /\ g.sl = t /\ g.used = h.used
  BY <1>7, HeapFields
<1>9. DOMAIN L = Classes
  BY <1>1, <1>2 DEF Put
<1>. QED BY <1>1, <1>4, <1>8, <1>9 DEF HeapLists

\* EXTRACT_BLOCK_HDR takes the first block of a list and keeps the bitmaps exact.
LEMMA ExtractHdrLists ==
    ASSUME NEW h, NEW K, HeapLists(h, K), NEW c \in Classes, h.matrix[c] # <<>>,
           NEW b, b = Head(h.matrix[c]),
           NEW g, g = ExtractBlockHdr(h, c)
    PROVE  /\ b \in K[c] /\ HeapLists(g, [K EXCEPT ![c] = @ \ {b}])
           /\ g.hdr = h.hdr /\ g.used = h.used
<1>1. h.matrix \in [Classes -> Seq(Int)] /\ IsInjective(h.matrix[c]) /\ Range(h.matrix[c]) = K[c]
      /\ IsHeap(h)
  BY DEF HeapLists, ListsOf
<1>2. PICK q : q = h.matrix[c]
  OBVIOUS
<1>3. q \in Seq(Int) /\ IsInjective(q) /\ Range(q) = K[c] /\ q # <<>> /\ b = Head(q)
  BY <1>1, <1>2
<1>4. Tail(q) \in Seq(Int) /\ IsInjective(Tail(q)) /\ Range(Tail(q)) = Range(q) \ {b} /\ b \in Range(q)
  BY <1>3, TailRange
<1>5. PICK r : r = Tail(q)
  OBVIOUS
<1>6. PICK h1 : h1 = [h EXCEPT !.matrix[c] = r]
  OBVIOUS
<1>7. WithLists(h, h1, Put(h.matrix, c, r))
  BY <1>1, <1>6, PutList
<1>8. g = ClearBits(h1, c)
  <2>1. [h EXCEPT !.matrix[c] = Tail(@)] = h1
    BY <1>2, <1>5, <1>6
  <2>. QED BY <2>1 DEF ExtractBlockHdr
<1>9. PICK L : L = Put(K, c, Range(r))
  OBVIOUS
<1>10. L = [K EXCEPT ![c] = @ \ {b}]
  BY <1>3, <1>4, <1>5, <1>9 DEF Put
<1>11. HeapLists(g, L) /\ g.hdr = h.hdr /\ g.used = h.used
  <2>1. Taken(h, K, c, r, h1)
    BY <1>4, <1>5, <1>7 DEF Taken
  <2>. QED BY <1>8, <1>9, <2>1, TakenLists
<1>. QED BY <1>3, <1>4, <1>10, <1>11

\* EXTRACT_BLOCK takes a block from the list of its class and keeps the bitmaps exact.
LEMMA ExtractLists ==
    ASSUME NEW h, NEW K, HeapLists(h, K), NEW b,
           NEW c \in Classes, c = MappingInsert(h.hdr[b].size), b \in K[c],
           NEW g, g = ExtractBlock(h, b)
    PROVE  /\ HeapLists(g, [K EXCEPT ![c] = @ \ {b}]) /\ g.hdr = h.hdr /\ g.used = h.used
<1>1. h.matrix \in [Classes -> Seq(Int)] /\ IsInjective(h.matrix[c]) /\ Range(h.matrix[c]) = K[c]
      /\ IsHeap(h)
  BY DEF HeapLists, ListsOf
<1>2. PICK q : q = h.matrix[c]
  OBVIOUS
<1>3. q \in Seq(Int) /\ IsInjective(q) /\ Range(q) = K[c]
  BY <1>1, <1>2
<1>4. \E k \in DOMAIN q : q[k] = b
  BY <1>3 DEF Range
<1>5. q # <<>>
  BY <1>4
<1>6. PICK i \in DOMAIN q : i = (CHOOSE k \in DOMAIN q : q[k] = b) /\ q[i] = b
  BY <1>4
<1>7. PICK r : r = RemoveAt(q, i)
  OBVIOUS
<1>8. r \in Seq(Int) /\ IsInjective(r) /\ Range(r) = K[c] \ {b}
  BY <1>3, <1>6, <1>7, RemovedRange
<1>9. PICK h1 : h1 = [h EXCEPT !.matrix[c] = r]
  OBVIOUS
<1>10. WithLists(h, h1, Put(h.matrix, c, r))
  BY <1>1, <1>9, PutList
<1>11. g = ClearBits(h1, c)
  <2>1. [h EXCEPT !.matrix[c] = RemoveAt(@, CHOOSE k \in DOMAIN @ : @[k] = b)] = h1
    BY <1>2, <1>6, <1>7, <1>9
  <2>. QED BY <2>1 DEF ExtractBlock
<1>12. PICK L : L = Put(K, c, Range(r))
  OBVIOUS
<1>13. L = [K EXCEPT ![c] = @ \ {b}]
  BY <1>8, <1>12 DEF Put
<1>14. HeapLists(g, L) /\ g.hdr = h.hdr /\ g.used = h.used
  <2>1. Taken(h, K, c, r, h1)
    BY <1>2, <1>5, <1>8, <1>10 DEF Taken
  <2>. QED BY <1>11, <1>12, <2>1, TakenLists
<1>. QED BY <1>13, <1>14

\* INSERT_BLOCK puts a block into the list of its class and keeps the bitmaps exact.
LEMMA InsertLists ==
    ASSUME NEW h, NEW K, HeapLists(h, K), NEW b \in Int,
           NEW c \in Classes, c = MappingInsert(h.hdr[b].size), b \notin K[c],
           NEW g, g = InsertBlock(h, b)
    PROVE  /\ HeapLists(g, [K EXCEPT ![c] = @ \cup {b}]) /\ g.hdr = h.hdr /\ g.used = h.used
<1>1. h.matrix \in [Classes -> Seq(Int)] /\ IsInjective(h.matrix[c]) /\ Range(h.matrix[c]) = K[c]
      /\ IsHeap(h) /\ DOMAIN K = Classes /\ ListsOf(h.matrix, h.fl, h.sl, K)
      /\ h.sl \in [0 .. MaxFl -> SUBSET (0 .. MaxSli - 1)] /\ c[1] \in 0 .. MaxFl
  BY ClassFacts DEF HeapLists, ListsOf
<1>2. PICK q : q = <<b>> \o h.matrix[c]
  OBVIOUS
<1>3. q \in Seq(Int) /\ q # <<>> /\ IsInjective(q) /\ Range(q) = K[c] \cup {b}
  <2>1. PICK m : m = h.matrix[c]
    OBVIOUS
  <2>2. m \in Seq(Int) /\ IsInjective(m) /\ Range(m) = K[c] /\ b \notin Range(m)
    BY <1>1, <2>1
  <2>3. q = <<b>> \o m
    BY <1>2, <2>1
  <2>. QED BY <2>2, <2>3, PushedRange
<1>4. PICK t, f, nx, L : /\ t = NewSl(h.sl, c, q) /\ f = NewFl(h.fl, t, c)
                         /\ nx = Put(h.matrix, c, q) /\ L = Put(K, c, Range(q))
  OBVIOUS
<1>5. t = [h.sl EXCEPT ![c[1]] = @ \cup {c[2]}] /\ t[c[1]] # {}
  BY <1>1, <1>3, <1>4 DEF NewSl
<1>6. f = h.fl \cup {c[1]}
  BY <1>4, <1>5 DEF NewFl
<1>7. ListsOf(nx, f, t, L)
  BY <1>1, <1>3, <1>4, Relisted
<1>8. g = [hdr |-> h.hdr, matrix |-> nx, fl |-> f, sl |-> t, used |-> h.used]
  <2>1. g = [h EXCEPT !.matrix[c] = <<b>> \o @, !.sl[c[1]] = @ \cup {c[2]}, !.fl = @ \cup {c[1]}]
    BY DEF InsertBlock
  <2>2. nx = [h.matrix EXCEPT ![c] = <<b>> \o @]
    BY <1>2, <1>4 DEF Put
  <2>. QED BY <1>1, <1>5, <1>6, <2>1, <2>2 DEF IsHeap
<1>9. IsHeap(g) /\ g.hdr = h.hdr /\ g.matrix = nx /\ g.fl = f /\ g.sl = t /\ g.used = h.used
  BY <1>8, HeapFields
<1>10. L = [K EXCEPT ![c] = @ \cup {b}] /\ DOMAIN L = Classes
  BY <1>1, <1>3, <1>4 DEF Put
<1>. QED BY <1>7, <1>9, <1>10 DEF HeapLists

-----------------------------------------------------------------------------
(* TLSF: the heap *)

Frees(hd) == {b \in DOMAIN hd : hd[b].free}
Kinds(hd, F) == [c \in Classes |-> {b \in F : MappingInsert(hd[b].size) = c}]

\* The free blocks F are in the lists of their classes.
Listed(h, F) == HeapLists(h, Kinds(h.hdr, F))

\* Every block has a class.
LEMMA SizeClass ==
    ASSUME NEW hd, Blocks(hd), NEW b \in DOMAIN hd
    PROVE  hd[b].size \in Nat /\ hd[b].size < Bit[MaxFli] /\ MappingInsert(hd[b].size) \in Classes
<1>1. AreaSize \in Nat /\ Align \in Nat \ {0} /\ MaxFli \in 0 .. MaxFli
  BY TableFacts
<1>2. Bit[MaxFli] \in Nat /\ 2 * (AreaSize + Align) <= Bit[MaxFli]
  BY <1>1, BitNumbers, TlsfAssumption
<1>3. hd[b].size \in Nat
  BY HeaderFacts
<1>4. hd[b].size <= AreaSize
  <2>1. b = End => hd[b].size = 0
    BY DEF Blocks
  <2>2. b # End => hd[b].size <= AreaSize
    BY BlockFacts
  <2>. QED BY <1>1, <2>1, <2>2
<1>5. hd[b].size < Bit[MaxFli]
  BY <1>1, <1>2, <1>3, <1>4
<1>. QED BY <1>3, <1>5, ClassIn

\* The lists hold the blocks as long as these keep their sizes.
LEMMA ListedSame ==
    ASSUME NEW h, NEW F, Listed(h, F), NEW g, IsHeap(g), g.matrix = h.matrix, g.fl = h.fl, g.sl = h.sl,
           \A b \in F : g.hdr[b].size = h.hdr[b].size
    PROVE  Listed(g, F)
<1>1. Kinds(g.hdr, F) = Kinds(h.hdr, F)
  BY DEF Kinds
<1>. QED BY <1>1 DEF Listed, HeapLists

\* The classes without one block.
LEMMA KindsLess ==
    ASSUME NEW hd, NEW F, NEW b \in F, MappingInsert(hd[b].size) \in Classes
    PROVE  [Kinds(hd, F) EXCEPT ![MappingInsert(hd[b].size)] = @ \ {b}] = Kinds(hd, F \ {b})
  BY DEF Kinds

\* The classes with one more block.
LEMMA KindsMore ==
    ASSUME NEW hd, NEW F, NEW b, MappingInsert(hd[b].size) \in Classes
    PROVE  [Kinds(hd, F) EXCEPT ![MappingInsert(hd[b].size)] = @ \cup {b}] = Kinds(hd, F \cup {b})
  BY DEF Kinds

\* INSERT_BLOCK lists one more block.
LEMMA InsertListed ==
    ASSUME NEW h, NEW F, Listed(h, F), Blocks(h.hdr), NEW b \in DOMAIN h.hdr, b \notin F,
           NEW g, g = InsertBlock(h, b)
    PROVE  Listed(g, F \cup {b}) /\ g.hdr = h.hdr /\ g.used = h.used
<1>1. PICK c \in Classes : c = MappingInsert(h.hdr[b].size)
  BY SizeClass
<1>2. PICK K : K = Kinds(h.hdr, F)
  OBVIOUS
<1>3. HeapLists(h, K) /\ b \notin K[c] /\ b \in Int
  BY <1>1, <1>2, HeaderFacts DEF Listed, Kinds
<1>4. HeapLists(g, [K EXCEPT ![c] = @ \cup {b}]) /\ g.hdr = h.hdr /\ g.used = h.used
  BY <1>1, <1>3, InsertLists
<1>5. [K EXCEPT ![c] = @ \cup {b}] = Kinds(h.hdr, F \cup {b})
  BY <1>1, <1>2, KindsMore
<1>. QED BY <1>4, <1>5 DEF Listed

\* EXTRACT_BLOCK lists one block less.
LEMMA ExtractListed ==
    ASSUME NEW h, NEW F, Listed(h, F), Blocks(h.hdr), NEW b \in DOMAIN h.hdr, b \in F,
           NEW g, g = ExtractBlock(h, b)
    PROVE  Listed(g, F \ {b}) /\ g.hdr = h.hdr /\ g.used = h.used
<1>1. PICK c \in Classes : c = MappingInsert(h.hdr[b].size)
  BY SizeClass
<1>2. PICK K : K = Kinds(h.hdr, F)
  OBVIOUS
<1>3. HeapLists(h, K) /\ b \in K[c]
  BY <1>1, <1>2 DEF Listed, Kinds
<1>4. HeapLists(g, [K EXCEPT ![c] = @ \ {b}]) /\ g.hdr = h.hdr /\ g.used = h.used
  BY <1>1, <1>3, ExtractLists
<1>5. [K EXCEPT ![c] = @ \ {b}] = Kinds(h.hdr, F \ {b})
  BY <1>1, <1>2, KindsLess
<1>. QED BY <1>4, <1>5 DEF Listed

\* EXTRACT_BLOCK_HDR lists one block less, the first of the list.
LEMMA ExtractHdrListed ==
    ASSUME NEW h, NEW F, Listed(h, F), NEW c \in Classes, h.matrix[c] # <<>>,
           NEW b, b = Head(h.matrix[c]), NEW g, g = ExtractBlockHdr(h, c)
    PROVE  /\ b \in F /\ MappingInsert(h.hdr[b].size) = c
           /\ Listed(g, F \ {b}) /\ g.hdr = h.hdr /\ g.used = h.used
<1>1. PICK K : K = Kinds(h.hdr, F)
  OBVIOUS
<1>2. HeapLists(h, K)
  BY <1>1 DEF Listed
<1>3. b \in K[c] /\ HeapLists(g, [K EXCEPT ![c] = @ \ {b}]) /\ g.hdr = h.hdr /\ g.used = h.used
  BY <1>2, ExtractHdrLists
<1>4. b \in F /\ MappingInsert(h.hdr[b].size) = c
  BY <1>1, <1>3 DEF Kinds
<1>5. [K EXCEPT ![c] = @ \ {b}] = Kinds(h.hdr, F \ {b})
  BY <1>1, <1>4, KindsLess
<1>. QED BY <1>3, <1>4, <1>5 DEF Listed

\* used_size, when a block is counted and when it is not any more.
LEMMA CountAdd ==
    ASSUME NEW hd, NEW H, NEW he, Blocks(he), NEW b, b \notin H, H \cup {b} \subseteq DOMAIN he \ {End},
           \A x \in H : he[x].size = hd[x].size, NEW u, u = Admin + Bytes(hd, H)
    PROVE  u + he[b].size + Overhead = Admin + Bytes(he, H \cup {b})
<1>1. PICK G : G = H \cup {b}
  OBVIOUS
<1>2. IsFiniteSet(G) /\ G \ {b} = H /\ b \in G /\ G \subseteq DOMAIN he \ {End}
  BY <1>1, BytesBound
<1>3. \A x \in G : Cost(he, x) \in Nat
  BY <1>2, HeaderFacts
<1>4. Bytes(he, G) = Cost(he, b) + Bytes(he, H) /\ Bytes(he, H) \in Nat
  BY <1>2, <1>3, BytesRemove
<1>5. Bytes(he, H) = Bytes(hd, H)
  <2>1. IsFiniteSet(H)
    BY <1>2, FS_RemoveElement
  <2>. QED BY <2>1, BytesSame
<1>6. he[b].size \in Nat /\ Overhead \in Nat /\ Admin \in Nat
  BY <1>2, HeaderFacts, TableFacts
<1>. QED BY <1>1, <1>4, <1>5, <1>6 DEF Cost

\* What TLSF_REMOVE_SIZE leaves is the count without the block.
LEMMA CountTake ==
    ASSUME NEW hd, Blocks(hd), NEW H, H \subseteq DOMAIN hd \ {End}, NEW b \in H,
           NEW u, u = Admin + Bytes(hd, H)
    PROVE  u - hd[b].size - Overhead = Admin + Bytes(hd, H \ {b})
<1>1. IsFiniteSet(H) /\ \A x \in H : Cost(hd, x) \in Nat
  BY BytesBound, HeaderFacts
<1>2. Bytes(hd, H) = Cost(hd, b) + Bytes(hd, H \ {b}) /\ Bytes(hd, H \ {b}) \in Nat
  BY <1>1, BytesRemove
<1>3. hd[b].size \in Nat /\ Overhead \in Nat /\ Admin \in Nat
  BY HeaderFacts, TableFacts
<1>. QED BY <1>2, <1>3 DEF Cost

\* The count depends on the sizes of the blocks held only.
LEMMA CountSame ==
    ASSUME NEW hd, NEW he, Blocks(he), NEW H, H \subseteq DOMAIN he \ {End},
           \A x \in H : he[x].size = hd[x].size
    PROVE  Bytes(he, H) = Bytes(hd, H)
  BY BytesBound, BytesSame

\* A heap that differs in its headers.
LEMMA PutHeaders ==
    ASSUME NEW h, IsHeap(h), NEW he, NEW g, g = [h EXCEPT !.hdr = he]
    PROVE  /\ IsHeap(g) /\ g.hdr = he /\ g.matrix = h.matrix /\ g.fl = h.fl /\ g.sl = h.sl /\ g.used = h.used
<1>1. PICK hd, mx, f, s, u : h = [hdr |-> hd, matrix |-> mx, fl |-> f, sl |-> s, used |-> u]
  BY DEF IsHeap
<1>2. h.hdr = hd /\ h.matrix = mx /\ h.fl = f /\ h.sl = s /\ h.used = u
  BY <1>1
<1>3. g = [hdr |-> he, matrix |-> mx, fl |-> f, sl |-> s, used |-> u]
  BY <1>1
<1>4. IsHeap(g) /\ g.hdr = he /\ g.matrix = mx /\ g.fl = f /\ g.sl = s /\ g.used = u
  BY <1>3 DEF IsHeap
<1>. QED BY <1>2, <1>4

\* A heap that differs in the bytes it counts.
LEMMA PutUsed ==
    ASSUME NEW h, IsHeap(h), NEW n, NEW g, g = [h EXCEPT !.used = n]
    PROVE  /\ IsHeap(g) /\ g.hdr = h.hdr /\ g.matrix = h.matrix /\ g.fl = h.fl /\ g.sl = h.sl /\ g.used = n
<1>1. PICK hd, mx, f, s, u : h = [hdr |-> hd, matrix |-> mx, fl |-> f, sl |-> s, used |-> u]
  BY DEF IsHeap
<1>2. h.hdr = hd /\ h.matrix = mx /\ h.fl = f /\ h.sl = s /\ h.used = u
  BY <1>1
<1>3. g = [hdr |-> hd, matrix |-> mx, fl |-> f, sl |-> s, used |-> n]
  BY <1>1
<1>4. IsHeap(g) /\ g.hdr = hd /\ g.matrix = mx /\ g.fl = f /\ g.sl = s /\ g.used = n
  BY <1>3 DEF IsHeap
<1>. QED BY <1>2, <1>4

\* TLSF_ADD_SIZE changes the count only.
LEMMA AddSizeFields ==
    ASSUME NEW h, NEW F, Listed(h, F), NEW b, NEW g, g = AddSize(h, b)
    PROVE  Listed(g, F) /\ g.hdr = h.hdr /\ g.used = h.used + h.hdr[b].size + Overhead
<1>1. IsHeap(h)
  BY DEF Listed, HeapLists
<1>2. PICK n : n = h.used + h.hdr[b].size + Overhead
  OBVIOUS
<1>3. g = [h EXCEPT !.used = n]
  BY <1>1, <1>2 DEF AddSize, IsHeap
<1>4. /\ IsHeap(g) /\ g.hdr = h.hdr /\ g.matrix = h.matrix /\ g.fl = h.fl /\ g.sl = h.sl /\ g.used = n
  BY <1>1, <1>3, PutUsed
<1>5. Listed(g, F)
  BY <1>4, ListedSame
<1>. QED BY <1>2, <1>4, <1>5

\* TLSF_REMOVE_SIZE changes the count only.
LEMMA RemoveSizeFields ==
    ASSUME NEW h, NEW F, Listed(h, F), NEW b, NEW g, g = RemoveSize(h, b)
    PROVE  Listed(g, F) /\ g.hdr = h.hdr /\ g.used = h.used - h.hdr[b].size - Overhead
<1>1. IsHeap(h)
  BY DEF Listed, HeapLists
<1>2. PICK n : n = h.used - h.hdr[b].size - Overhead
  OBVIOUS
<1>3. g = [h EXCEPT !.used = n]
  BY <1>1, <1>2 DEF RemoveSize, IsHeap
<1>4. /\ IsHeap(g) /\ g.hdr = h.hdr /\ g.matrix = h.matrix /\ g.fl = h.fl /\ g.sl = h.sl /\ g.used = n
  BY <1>1, <1>3, PutUsed
<1>5. Listed(g, F)
  BY <1>4, ListedSame
<1>. QED BY <1>2, <1>4, <1>5

\* Absorbing a block that is in no list keeps the lists.
LEMMA AbsorbHeap ==
    ASSUME NEW h, NEW F, Listed(h, F), NEW b, NEW taken, b # taken, b \notin F, taken \notin F,
           F \subseteq DOMAIN h.hdr, b \in DOMAIN h.hdr, NEW g, g = Absorb(h, b, taken)
    PROVE  Listed(g, F) /\ g.hdr = AbsorbIn(h.hdr, b, taken) /\ g.used = h.used
<1>1. IsHeap(h)
  BY DEF Listed, HeapLists
<1>2. PICK he : he = AbsorbIn(h.hdr, b, taken)
  OBVIOUS
<1>3. g = [h EXCEPT !.hdr = he]
  BY <1>1, <1>2 DEF Absorb, IsHeap
<1>4. /\ IsHeap(g) /\ g.hdr = he /\ g.matrix = h.matrix /\ g.fl = h.fl /\ g.sl = h.sl /\ g.used = h.used
  BY <1>1, <1>3, PutHeaders
<1>5. \A x \in F : g.hdr[x].size = h.hdr[x].size
  BY <1>2, <1>4 DEF AbsorbIn
<1>6. Listed(g, F)
  BY <1>4, <1>5, ListedSame
<1>. QED BY <1>2, <1>4, <1>6

\* A heap with other headers.
WithHeaders(h, g, he) ==
    /\ IsHeap(g) /\ g.hdr = he /\ g.matrix = h.matrix /\ g.fl = h.fl /\ g.sl = h.sl /\ g.used = h.used

\* A heap with other headers keeps the rest.
LEMMA PutWithHeaders ==
    ASSUME NEW h, IsHeap(h), NEW he, NEW g, g = [h EXCEPT !.hdr = he]
    PROVE  WithHeaders(h, g, he)
  BY PutHeaders DEF WithHeaders

\* What linking the next header back to a block changes.
LEMMA LinkFields ==
    ASSUME NEW hd, Blocks(hd), NEW n \in DOMAIN hd, NEW isFree \in BOOLEAN, NEW p \in Int,
           NEW he, he = LinkBack(hd, n, isFree, p)
    PROVE  /\ he \in [DOMAIN hd -> Headers] /\ he[n].prevFree = isFree /\ he[n].prev = p
           /\ he[n].size = hd[n].size /\ he[n].free = hd[n].free
           /\ \A x \in DOMAIN hd \ {n} : he[x] = hd[x]
<1>1. hd \in [DOMAIN hd -> Headers] /\ hd[n] \in Headers
  BY DEF Blocks
<1>2. PICK new : new = [size |-> hd[n].size, free |-> hd[n].free, prevFree |-> isFree, prev |-> p]
  OBVIOUS
<1>3. /\ new \in Headers /\ new.prevFree = isFree /\ new.prev = p
      /\ new.size = hd[n].size /\ new.free = hd[n].free
  BY <1>1, <1>2 DEF Headers
<1>4. he = [hd EXCEPT ![n] = new]
  <2>1. PICK mid : mid = [hd EXCEPT ![n].prevFree = isFree]
    OBVIOUS
  <2>2. he = [mid EXCEPT ![n].prev = p]
    BY <2>1 DEF LinkBack
  <2>3. PICK one : one = [hd[n] EXCEPT !.prevFree = isFree]
    OBVIOUS
  <2>4. DOMAIN mid = DOMAIN hd /\ mid[n] = one /\ \A x \in DOMAIN hd \ {n} : mid[x] = hd[x]
    BY <2>1, <2>3
  <2>5. one = [size |-> hd[n].size, free |-> hd[n].free, prevFree |-> isFree, prev |-> hd[n].prev]
    BY <1>1, <2>3 DEF Headers
  <2>6. [one EXCEPT !.prev = p] = new
    BY <1>2, <2>5
  <2>7. he = [mid EXCEPT ![n] = new]
    BY <2>2, <2>4, <2>6
  <2>. QED BY <1>1, <2>1, <2>4, <2>7
<1>. QED BY <1>1, <1>3, <1>4

\* A block that says whether it is free, and the header after it that says the same.
Retold(h, g, b) ==
    /\ DOMAIN g.hdr = DOMAIN h.hdr /\ g.used = h.used
    /\ \A x \in DOMAIN h.hdr : /\ g.hdr[x].size = h.hdr[x].size
                               /\ x # b => g.hdr[x].free = h.hdr[x].free

\* The same of the heap: the lists are kept.
LEMMA RelinkedHeap ==
    ASSUME NEW h, NEW F, Listed(h, F), F \subseteq DOMAIN h.hdr,
           Blocks(h.hdr), NEW b \in DOMAIN h.hdr \ {End}, TaggedBut(h.hdr, b), ~h.hdr[NextIn(h.hdr, b)].free,
           NEW he, NEW g, WithHeaders(h, g, he),
           Relinked(h.hdr, he, b), he[b].free => h.hdr[b].free,
           he[NextIn(h.hdr, b)].prevFree = he[b].free, he[b].free => he[NextIn(h.hdr, b)].prev = b
    PROVE  Blocks(g.hdr) /\ Tagged(g.hdr) /\ Listed(g, F) /\ Retold(h, g, b) /\ g.hdr = he
<1>1. IsHeap(h)
  BY DEF Listed, HeapLists
<1>2. /\ IsHeap(g) /\ g.hdr = he /\ g.matrix = h.matrix /\ g.fl = h.fl /\ g.sl = h.sl /\ g.used = h.used
  BY DEF WithHeaders
<1>3. Blocks(he) /\ Tagged(he) /\ DOMAIN he = DOMAIN h.hdr
  BY RelinkedTags
<1>4. \A x \in DOMAIN h.hdr : he[x].size = h.hdr[x].size /\ (x # b => he[x].free = h.hdr[x].free)
  BY DEF Relinked
<1>5. Listed(g, F)
  <2>1. \A x \in F : g.hdr[x].size = h.hdr[x].size
    BY <1>2, <1>4
  <2>. QED BY <1>2, <2>1, ListedSame
<1>. QED BY <1>2, <1>3, <1>4, <1>5 DEF Retold

\* A block, and a header after it that says whether it is free.
LEMMA LinkKeeps ==
    ASSUME NEW h, NEW F, Listed(h, F), F \subseteq DOMAIN h.hdr,
           Blocks(h.hdr), NEW b \in DOMAIN h.hdr \ {End}, TaggedBut(h.hdr, b), ~h.hdr[NextIn(h.hdr, b)].free,
           NEW isFree \in BOOLEAN, NEW p \in Int, isFree <=> h.hdr[b].free, isFree => p = b,
           NEW n, n = NextIn(h.hdr, b),
           NEW he, he = LinkBack(h.hdr, n, isFree, p), NEW g, WithHeaders(h, g, he)
    PROVE  /\ Blocks(g.hdr) /\ Tagged(g.hdr) /\ Listed(g, F) /\ Retold(h, g, b)
           /\ g.hdr[b].free <=> h.hdr[b].free
<1>1. n \in DOMAIN h.hdr /\ n # b
  BY BlockFacts
<1>2. /\ he \in [DOMAIN h.hdr -> Headers] /\ he[n].prevFree = isFree /\ he[n].prev = p
      /\ he[n].size = h.hdr[n].size /\ he[n].free = h.hdr[n].free
      /\ \A x \in DOMAIN h.hdr \ {n} : he[x] = h.hdr[x]
  BY <1>1, LinkFields
<1>3. Relinked(h.hdr, he, b)
  BY <1>2 DEF Relinked
<1>4. he[b] = h.hdr[b]
  BY <1>1, <1>2
<1>5. Blocks(g.hdr) /\ Tagged(g.hdr) /\ Listed(g, F) /\ Retold(h, g, b) /\ g.hdr = he
  <2>1. he[b].free => h.hdr[b].free
    BY <1>4
  <2>2. he[NextIn(h.hdr, b)].prevFree = he[b].free /\ (he[b].free => he[NextIn(h.hdr, b)].prev = b)
    <3>1. h.hdr[b].free \in BOOLEAN
      BY HeaderFacts
    <3>. QED BY <1>2, <1>4, <3>1
  <2>. QED BY <1>3, <2>1, <2>2, RelinkedHeap
<1>. QED BY <1>4, <1>5

\* A free block that a caller gets as a whole.
MarkIn(hd, b, n) == [LinkBack(hd, n, FALSE, Null) EXCEPT ![b].free = FALSE]

\* What marking a block as used, in both headers, changes.
LEMMA TakeFields ==
    ASSUME NEW hd, Blocks(hd), NEW b \in DOMAIN hd \ {End}, NEW n, n = NextIn(hd, b),
           NEW he, he = MarkIn(hd, b, n)
    PROVE  /\ Relinked(hd, he, b) /\ ~he[NextIn(hd, b)].prevFree /\ ~he[b].free
<1>1. PICK mid : mid = LinkBack(hd, n, FALSE, Null)
  OBVIOUS
<1>2. he = [mid EXCEPT ![b].free = FALSE]
  BY <1>1 DEF MarkIn
<1>3. n \in DOMAIN hd /\ n # b
  BY BlockFacts
<1>4. /\ mid \in [DOMAIN hd -> Headers] /\ mid[n].prevFree = FALSE /\ mid[n].prev = Null
      /\ mid[n].size = hd[n].size /\ mid[n].free = hd[n].free
      /\ \A x \in DOMAIN hd \ {n} : mid[x] = hd[x]
  <2>1. Null \in Int /\ FALSE \in BOOLEAN
    BY DEF Null
  <2>2. Blocks(hd) /\ n \in DOMAIN hd
    BY <1>3
  <2>3. PICK isFree \in BOOLEAN : isFree = FALSE
    OBVIOUS
  <2>4. mid = LinkBack(hd, n, isFree, Null)
    BY <1>1, <2>3
  <2>5. /\ mid \in [DOMAIN hd -> Headers] /\ mid[n].prevFree = isFree /\ mid[n].prev = Null
        /\ mid[n].size = hd[n].size /\ mid[n].free = hd[n].free
        /\ \A x \in DOMAIN hd \ {n} : mid[x] = hd[x]
    BY <2>1, <2>2, <2>4, LinkFields
  <2>. QED BY <2>3, <2>5
<1>5. PICK new : new = [mid[b] EXCEPT !.free = FALSE]
  OBVIOUS
<1>6. he = [mid EXCEPT ![b] = new]
  BY <1>2, <1>5
<1>7. /\ new \in Headers /\ new.size = hd[b].size /\ new.free = FALSE
       /\ new.prevFree = hd[b].prevFree /\ new.prev = hd[b].prev
  <2>1. mid[b] = hd[b] /\ hd[b] \in Headers
    BY <1>3, <1>4 DEF Blocks
  <2>. QED BY <1>5, <2>1 DEF Headers
<1>8. /\ he \in [DOMAIN hd -> Headers] /\ he[b] = new
       /\ \A x \in DOMAIN hd \ {b} : he[x] = mid[x]
  <2>1. b \in DOMAIN hd
    OBVIOUS
  <2>. QED BY <1>4, <1>6, <1>7, <2>1
<1>9. Relinked(hd, he, b)
  BY <1>4, <1>7, <1>8 DEF Relinked
<1>10. ~he[NextIn(hd, b)].prevFree /\ ~he[b].free
  BY <1>3, <1>4, <1>7, <1>8
<1>. QED BY <1>9, <1>10

\* A heap whose block b is marked as used is well formed.
LEMMA TakeKeeps ==
    ASSUME NEW h, NEW F, Listed(h, F), F \subseteq DOMAIN h.hdr,
           Blocks(h.hdr), NEW b \in DOMAIN h.hdr \ {End}, TaggedBut(h.hdr, b), ~h.hdr[NextIn(h.hdr, b)].free,
           NEW he, Relinked(h.hdr, he, b), ~he[NextIn(h.hdr, b)].prevFree, ~he[b].free,
           NEW g, WithHeaders(h, g, he)
    PROVE  /\ Blocks(g.hdr) /\ Tagged(g.hdr) /\ Listed(g, F) /\ Retold(h, g, b) /\ ~g.hdr[b].free
<1>1. (he[b].free => h.hdr[b].free) /\ (he[b].free => he[NextIn(h.hdr, b)].prev = b)
  OBVIOUS
<1>2. he[NextIn(h.hdr, b)].prevFree = he[b].free
  <2>1. b \in DOMAIN h.hdr /\ NextIn(h.hdr, b) \in DOMAIN h.hdr /\ he \in [DOMAIN h.hdr -> Headers]
    BY BlockFacts DEF Relinked
  <2>2. he[b].free \in BOOLEAN /\ he[NextIn(h.hdr, b)].prevFree \in BOOLEAN
    BY <2>1 DEF Headers
  <2>. QED BY <2>2
<1>3. Blocks(g.hdr) /\ Tagged(g.hdr) /\ Listed(g, F) /\ Retold(h, g, b) /\ g.hdr = he
  BY <1>1, <1>2, RelinkedHeap
<1>. QED BY <1>3

\* The headers after a split: the rest of the block b is the block c.
SplitIn(hd, b, size, n, c) ==
    With([LinkBack(hd, n, TRUE, c) EXCEPT ![b].size = size, ![b].free = FALSE],
         c, [size |-> hd[b].size - size - Overhead, free |-> TRUE, prevFree |-> FALSE, prev |-> Null])

\* A used block of another size.
Resized(hd, b, size) == [hd EXCEPT ![b].size = size, ![b].free = FALSE]

\* What giving a block its size changes.
LEMMA ResizedFields ==
    ASSUME NEW hd, hd \in [DOMAIN hd -> Headers], NEW b \in DOMAIN hd, NEW size \in Nat,
           NEW he, he = Resized(hd, b, size)
    PROVE  /\ he \in [DOMAIN hd -> Headers] /\ he[b].size = size /\ ~he[b].free
           /\ he[b].prevFree = hd[b].prevFree /\ he[b].prev = hd[b].prev
           /\ \A x \in DOMAIN hd \ {b} : he[x] = hd[x]
<1>1. PICK D : D = DOMAIN hd
  OBVIOUS
<1>2. PICK mid : mid = [hd EXCEPT ![b].size = size]
  OBVIOUS
<1>3. PICK no \in BOOLEAN : no = FALSE
  OBVIOUS
<1>4. he = [mid EXCEPT ![b].free = no]
  BY <1>2, <1>3 DEF Resized
<1>5. PICK one : one = [hd[b] EXCEPT !.size = size]
  OBVIOUS
<1>6. DOMAIN mid = D /\ mid[b] = one /\ \A x \in D \ {b} : mid[x] = hd[x]
  BY <1>1, <1>2, <1>5
<1>7. hd[b] \in Headers
  OBVIOUS
<1>8. one = [size |-> size, free |-> hd[b].free, prevFree |-> hd[b].prevFree, prev |-> hd[b].prev]
  BY <1>5, <1>7 DEF Headers
<1>9. PICK new : new = [size |-> size, free |-> no, prevFree |-> hd[b].prevFree, prev |-> hd[b].prev]
  OBVIOUS
<1>10. [one EXCEPT !.free = no] = new
  BY <1>8, <1>9
<1>11. he = [mid EXCEPT ![b] = new]
  BY <1>1, <1>4, <1>6, <1>10
<1>12. new \in Headers
  BY <1>7, <1>9 DEF Headers
<1>13. he[b] = new /\ DOMAIN he = D /\ \A x \in D \ {b} : he[x] = hd[x]
  BY <1>1, <1>6, <1>11
<1>14. he \in [D -> Headers]
  <2>1. \A x \in D : he[x] \in Headers
    BY <1>1, <1>7, <1>12, <1>13
  <2>2. he = [x \in D |-> he[x]]
    BY <1>11, <1>13
  <2>. QED BY <2>1, <2>2
<1>. QED BY <1>1, <1>3, <1>9, <1>13, <1>14

\* What a split changes.
LEMMA SplitFields ==
    ASSUME NEW hd, Blocks(hd), NEW b \in DOMAIN hd \ {End}, NEW size \in Nat,
           SizeofBhdr <= hd[b].size - size, NEW c, c = b + Overhead + size,
           NEW n, n = NextIn(hd, b), NEW he, he = SplitIn(hd, b, size, n, c)
    PROVE  /\ c \in Int /\ c \notin DOMAIN hd /\ he \in [DOMAIN hd \cup {c} -> Headers]
           /\ he[b].size = size /\ ~he[b].free
           /\ he[c].size = hd[b].size - size - Overhead /\ he[c].free /\ ~he[c].prevFree
           /\ he[n].prevFree /\ he[n].prev = c
           /\ \A x \in DOMAIN hd : /\ x # n => he[x].prevFree = hd[x].prevFree /\ he[x].prev = hd[x].prev
                                   /\ x # b => he[x].size = hd[x].size /\ he[x].free = hd[x].free
<1>1. /\ n \in DOMAIN hd /\ n # b /\ b \in Nat /\ hd[b].size \in Nat
      /\ \A x \in DOMAIN hd : b < x => n <= x
  BY HeaderFacts, BlockFacts
<1>2. Overhead \in Nat \ {0} /\ MinBlock \in Nat \ {0}
  BY TableFacts
<1>3. c \in Nat /\ b < c /\ c < n /\ n \in Nat /\ hd[b].size - size - Overhead \in Nat
  BY <1>1, <1>2 DEF SizeofBhdr, NextIn
<1>4. c \notin DOMAIN hd
  <2>1. c \in DOMAIN hd => n <= c
    BY <1>1, <1>3
  <2>. QED BY <1>3, <2>1
<1>5. PICK mid : mid = LinkBack(hd, n, TRUE, c)
  OBVIOUS
<1>6. /\ mid \in [DOMAIN hd -> Headers] /\ mid[n].prevFree = TRUE /\ mid[n].prev = c
      /\ mid[n].size = hd[n].size /\ mid[n].free = hd[n].free
      /\ \A x \in DOMAIN hd \ {n} : mid[x] = hd[x]
  <2>1. PICK isFree \in BOOLEAN : isFree = TRUE
    OBVIOUS
  <2>2. c \in Int /\ mid = LinkBack(hd, n, isFree, c)
    BY <1>3, <1>5, <2>1
  <2>3. /\ mid \in [DOMAIN hd -> Headers] /\ mid[n].prevFree = isFree /\ mid[n].prev = c
        /\ mid[n].size = hd[n].size /\ mid[n].free = hd[n].free
        /\ \A x \in DOMAIN hd \ {n} : mid[x] = hd[x]
    BY <1>1, <2>2, LinkFields
  <2>. QED BY <2>1, <2>3
<1>7. PICK D : D = DOMAIN hd
  OBVIOUS
<1>8. PICK one : one = Resized(mid, b, size)
  OBVIOUS
<1>9. /\ one \in [D -> Headers] /\ one[b].size = size /\ ~one[b].free
      /\ one[b].prevFree = mid[b].prevFree /\ one[b].prev = mid[b].prev
      /\ \A x \in D \ {b} : one[x] = mid[x]
  <2>1. DOMAIN mid = D /\ mid \in [DOMAIN mid -> Headers] /\ b \in DOMAIN mid
    BY <1>6, <1>7
  <2>2. /\ one \in [DOMAIN mid -> Headers] /\ one[b].size = size /\ ~one[b].free
        /\ one[b].prevFree = mid[b].prevFree /\ one[b].prev = mid[b].prev
        /\ \A x \in DOMAIN mid \ {b} : one[x] = mid[x]
    <3>1. mid \in [DOMAIN mid -> Headers] /\ b \in DOMAIN mid
      BY <2>1
    <3>. QED BY <1>8, <3>1, ResizedFields
  <2>. QED BY <2>1, <2>2
<1>10. PICK rest : rest =
           [size |-> hd[b].size - size - Overhead, free |-> TRUE, prevFree |-> FALSE, prev |-> Null]
  OBVIOUS
<1>11. he = With(one, c, rest)
  BY <1>5, <1>8, <1>10 DEF SplitIn, Resized
<1>12. rest \in Headers
  <2>1. Null \in Int
    BY DEF Null
  <2>. QED BY <1>3, <1>10, <2>1 DEF Headers
<1>13. he \in [D \cup {c} -> Headers] /\ he[c] = rest /\ \A x \in D : he[x] = one[x]
  <2>1. c \notin D /\ DOMAIN one = D
    BY <1>4, <1>7, <1>9
  <2>. QED BY <1>9, <1>11, <1>12, <2>1 DEF With
<1>14. /\ he[b].size = size /\ ~he[b].free /\ he[b].prevFree = hd[b].prevFree /\ he[b].prev = hd[b].prev
  BY <1>1, <1>6, <1>7, <1>9, <1>13
<1>15. /\ he[n].prevFree /\ he[n].prev = c /\ he[n].size = hd[n].size /\ he[n].free = hd[n].free
  BY <1>1, <1>6, <1>7, <1>9, <1>13
<1>16. \A x \in DOMAIN hd \ {n, b} : he[x] = hd[x]
  BY <1>6, <1>7, <1>9, <1>13
<1>17. /\ he[c].size = hd[b].size - size - Overhead /\ he[c].free /\ ~he[c].prevFree
  BY <1>10, <1>13
<1>. QED BY <1>3, <1>4, <1>7, <1>13, <1>14, <1>15, <1>16, <1>17

\* The heap g has the block b of h as a used block of at least size bytes,
\* and maybe the rest of it as a free one.
Allotted(h, g, b, F, size) ==
    /\ Blocks(g.hdr) /\ Tagged(g.hdr) /\ g.used = h.used
    /\ DOMAIN h.hdr \subseteq DOMAIN g.hdr
    /\ ~g.hdr[b].free /\ size <= g.hdr[b].size
    /\ \A x \in DOMAIN h.hdr \ {b} : g.hdr[x].size = h.hdr[x].size /\ g.hdr[x].free = h.hdr[x].free
    /\ \A x \in DOMAIN g.hdr \ DOMAIN h.hdr : g.hdr[x].free
    /\ Listed(g, F \cup (DOMAIN g.hdr \ DOMAIN h.hdr))

\* The headers after a split cover the area and tell the truth.
LEMMA SplitHeader ==
    ASSUME NEW hd, Blocks(hd), NEW b \in DOMAIN hd \ {End}, TaggedBut(hd, b), ~hd[NextIn(hd, b)].free,
           NEW size \in Nat, MinBlock <= size, SizeofBhdr <= hd[b].size - size,
           NEW c, c = b + Overhead + size, NEW he, he = SplitIn(hd, b, size, NextIn(hd, b), c)
    PROVE  /\ Blocks(he) /\ Tagged(he) /\ c \notin DOMAIN hd /\ DOMAIN he = DOMAIN hd \cup {c}
           /\ he[b].size = size /\ ~he[b].free /\ he[c].free
           /\ \A x \in DOMAIN hd \ {b} : he[x].size = hd[x].size /\ he[x].free = hd[x].free
<1>1. PICK n : n = NextIn(hd, b)
  OBVIOUS
<1>2. /\ c \in Int /\ c \notin DOMAIN hd /\ he \in [DOMAIN hd \cup {c} -> Headers]
      /\ he[b].size = size /\ ~he[b].free
      /\ he[c].size = hd[b].size - size - Overhead /\ he[c].free /\ ~he[c].prevFree
      /\ he[n].prevFree /\ he[n].prev = c
      /\ \A x \in DOMAIN hd : /\ x # n => he[x].prevFree = hd[x].prevFree /\ he[x].prev = hd[x].prev
                              /\ x # b => he[x].size = hd[x].size /\ he[x].free = hd[x].free
  BY <1>1, SplitFields
<1>3. /\ Blocks(he) /\ c # End /\ NextIn(he, b) = c /\ NextIn(he, c) = NextIn(hd, b)
      /\ \A x \in DOMAIN hd \ {b} : NextIn(he, x) = NextIn(hd, x)
  <2>1. \A x \in DOMAIN hd \ {b} : he[x].size = hd[x].size
    BY <1>2
  <2>. QED BY <1>2, <2>1, SplitBlocks
<1>4. Tagged(he)
  BY <1>1, <1>2, <1>3, SplitTags
<1>. QED BY <1>2, <1>3, <1>4

\* After a split the block has the size asked, and the rest is in its list.
LEMMA SplitKeeps ==
    ASSUME NEW h, NEW F, Listed(h, F), Blocks(h.hdr),
           NEW b \in DOMAIN h.hdr \ {End}, F \subseteq DOMAIN h.hdr \ {b},
           TaggedBut(h.hdr, b), ~h.hdr[NextIn(h.hdr, b)].free,
           NEW size \in Nat, MinBlock <= size, CanSplit(h, b, size),
           NEW g, g = SplitBlock(h, b, size)
    PROVE  Allotted(h, g, b, F, size)
<1>1. PICK c : c = b + Overhead + size
  OBVIOUS
<1>2. PICK he : he = SplitIn(h.hdr, b, size, NextIn(h.hdr, b), c)
  OBVIOUS
<1>3. PICK mid : mid = [h EXCEPT !.hdr = he]
  OBVIOUS
<1>4. g = InsertBlock(mid, c)
  BY <1>1, <1>2, <1>3 DEF SplitBlock, SplitIn, Next_, NextIn
<1>5. SizeofBhdr <= h.hdr[b].size - size
  <2>1. h.hdr[b].size \in Nat /\ Overhead \in Nat /\ MinBlock \in Nat
    BY HeaderFacts, TableFacts
  <2>. QED BY <2>1 DEF CanSplit, SizeofBhdr
<1>6. /\ Blocks(he) /\ Tagged(he) /\ c \notin DOMAIN h.hdr /\ DOMAIN he = DOMAIN h.hdr \cup {c}
      /\ he[b].size = size /\ ~he[b].free /\ he[c].free
      /\ \A x \in DOMAIN h.hdr \ {b} : he[x].size = h.hdr[x].size /\ he[x].free = h.hdr[x].free
  BY <1>1, <1>2, <1>5, SplitHeader
<1>7. IsHeap(h)
  BY DEF Listed, HeapLists
<1>8. /\ IsHeap(mid) /\ mid.hdr = he /\ mid.matrix = h.matrix /\ mid.fl = h.fl /\ mid.sl = h.sl
      /\ mid.used = h.used
  BY <1>3, <1>7, PutHeaders
<1>9. Listed(mid, F)
  <2>1. \A x \in F : mid.hdr[x].size = h.hdr[x].size
    BY <1>6, <1>8
  <2>. QED BY <1>8, <2>1, ListedSame
<1>10. Listed(g, F \cup {c}) /\ g.hdr = he /\ g.used = h.used
  <2>1. Blocks(mid.hdr) /\ c \in DOMAIN mid.hdr /\ c \notin F
    BY <1>6, <1>8
  <2>. QED BY <1>4, <1>8, <1>9, <2>1, InsertListed
<1>11. DOMAIN g.hdr \ DOMAIN h.hdr = {c}
  BY <1>6, <1>10
<1>12. Listed(g, F \cup (DOMAIN g.hdr \ DOMAIN h.hdr))
  BY <1>10, <1>11
<1>13. \A x \in DOMAIN g.hdr \ DOMAIN h.hdr : g.hdr[x].free
  BY <1>6, <1>10, <1>11
<1>14. size <= g.hdr[b].size
  BY <1>6, <1>10
<1>15. /\ Blocks(g.hdr) /\ Tagged(g.hdr) /\ g.used = h.used
       /\ DOMAIN h.hdr \subseteq DOMAIN g.hdr /\ ~g.hdr[b].free
       /\ \A x \in DOMAIN h.hdr \ {b} : g.hdr[x].size = h.hdr[x].size /\ g.hdr[x].free = h.hdr[x].free
  BY <1>6, <1>10
<1>. QED BY <1>12, <1>13, <1>14, <1>15 DEF Allotted

\* Blocks, headers, lists and used_size agree, and callers hold the blocks H.
HeapInv(h, H) ==
    /\ Blocks(h.hdr) /\ Tagged(h.hdr)
    /\ H \subseteq DOMAIN h.hdr \ {End} /\ Frees(h.hdr) = DOMAIN h.hdr \ (H \cup {End})
    /\ Listed(h, Frees(h.hdr)) /\ h.used = Admin + Bytes(h.hdr, H)

\* The same, but for the block b, which is neither held nor in a list.
Ready(h, b, H) ==
    /\ Blocks(h.hdr) /\ b \in DOMAIN h.hdr \ {End} /\ TaggedBut(h.hdr, b) /\ ~h.hdr[NextIn(h.hdr, b)].free
    /\ H \subseteq DOMAIN h.hdr \ {b, End} /\ Frees(h.hdr) \ {b} = DOMAIN h.hdr \ (H \cup {b, End})
    /\ Listed(h, Frees(h.hdr) \ {b}) /\ h.used = Admin + Bytes(h.hdr, H)

\* The block b has become a used one of at least size bytes.
Made(h, g, b, size) == Allotted(h, g, b, Frees(h.hdr) \ {b}, size)

\* A held block counts again, or for the first time.
LEMMA FinishKeeps ==
    ASSUME NEW h, NEW b, NEW H, Ready(h, b, H), NEW size,
           NEW g, Made(h, g, b, size),
           NEW k, k = AddSize(g, b)
    PROVE  /\ HeapInv(k, H \cup {b}) /\ b \notin H /\ size <= k.hdr[b].size
           /\ \A x \in H : k.hdr[x].size = h.hdr[x].size
<1>1. PICK new : new = DOMAIN g.hdr \ DOMAIN h.hdr
  OBVIOUS
<1>2. PICK F : F = (Frees(h.hdr) \ {b}) \cup new
  OBVIOUS
<1>3. Listed(g, F)
  BY <1>1, <1>2 DEF Made, Allotted
<1>4. Listed(k, F) /\ k.hdr = g.hdr /\ k.used = g.used + g.hdr[b].size + Overhead
  BY <1>3, AddSizeFields
<1>5. \A x \in H : g.hdr[x].size = h.hdr[x].size
  BY DEF Ready, Made, Allotted
<1>6. /\ Blocks(g.hdr) /\ Tagged(g.hdr) /\ b \notin H /\ H \cup {b} \subseteq DOMAIN g.hdr \ {End}
  BY DEF Ready, Made, Allotted
<1>7. g.used = Admin + Bytes(h.hdr, H)
  BY DEF Ready, Made, Allotted
<1>8. k.used = Admin + Bytes(g.hdr, H \cup {b})
  BY <1>4, <1>5, <1>6, <1>7, CountAdd
<1>9. \A x \in DOMAIN g.hdr : g.hdr[x].free <=> x \in F
  <2>1. ASSUME NEW x \in DOMAIN g.hdr, x = b PROVE g.hdr[x].free <=> x \in F
    <3>1. ~g.hdr[b].free /\ b \in DOMAIN h.hdr
      BY DEF Made, Allotted, Ready
    <3>. QED BY <1>1, <1>2, <2>1, <3>1
  <2>2. ASSUME NEW x \in DOMAIN g.hdr, x # b, x \in DOMAIN h.hdr PROVE g.hdr[x].free <=> x \in F
    <3>1. g.hdr[x].free = h.hdr[x].free
      BY <2>2 DEF Made, Allotted
    <3>. QED BY <1>1, <1>2, <2>2, <3>1 DEF Frees
  <2>3. ASSUME NEW x \in DOMAIN g.hdr, x \notin DOMAIN h.hdr PROVE g.hdr[x].free <=> x \in F
    <3>1. g.hdr[x].free
      BY <2>3 DEF Made, Allotted
    <3>. QED BY <1>1, <1>2, <2>3, <3>1
  <2>. QED BY <2>1, <2>2, <2>3
<1>10. F = Frees(g.hdr)
  <2>1. F \subseteq DOMAIN g.hdr
    BY <1>1, <1>2 DEF Made, Allotted, Frees
  <2>. QED BY <1>9, <2>1 DEF Frees
<1>11. F = DOMAIN g.hdr \ (H \cup {b, End})
  <2>1. Frees(h.hdr) \ {b} = DOMAIN h.hdr \ (H \cup {b, End}) /\ H \subseteq DOMAIN h.hdr /\ b \in DOMAIN h.hdr
        /\ End \in DOMAIN h.hdr
    BY DEF Ready, Blocks
  <2>2. DOMAIN h.hdr \subseteq DOMAIN g.hdr
    BY DEF Made, Allotted
  <2>. QED BY <1>1, <1>2, <2>1, <2>2
<1>12. size <= g.hdr[b].size
  BY DEF Made, Allotted
<1>13. HeapInv(k, H \cup {b})
  <2>1. Frees(k.hdr) = DOMAIN k.hdr \ ((H \cup {b}) \cup {End})
    BY <1>4, <1>10, <1>11
  <2>. QED BY <1>4, <1>6, <1>8, <1>10, <2>1 DEF HeapInv
<1>. QED BY <1>4, <1>5, <1>6, <1>12, <1>13

\* The block b as it is.
LEMMA WholeAllotted ==
    ASSUME NEW h, NEW b, NEW H, Ready(h, b, H), Tagged(h.hdr), ~h.hdr[b].free,
           NEW size, size <= h.hdr[b].size
    PROVE  Made(h, h, b, size)
<1>1. (Frees(h.hdr) \ {b}) \cup (DOMAIN h.hdr \ DOMAIN h.hdr) = Frees(h.hdr) \ {b}
  OBVIOUS
<1>. QED BY <1>1 DEF Ready, Made, Allotted

\* The block b, marked as used.
LEMMA MarkAllotted ==
    ASSUME NEW h, NEW b, NEW H, Ready(h, b, H), NEW size, size <= h.hdr[b].size,
           NEW he, he = MarkIn(h.hdr, b, NextIn(h.hdr, b)), NEW g, WithHeaders(h, g, he)
    PROVE  Made(h, g, b, size)
<1>1. PICK F : F = Frees(h.hdr) \ {b}
  OBVIOUS
<1>2. /\ Blocks(h.hdr) /\ b \in DOMAIN h.hdr \ {End} /\ TaggedBut(h.hdr, b)
      /\ ~h.hdr[NextIn(h.hdr, b)].free /\ Listed(h, F) /\ F \subseteq DOMAIN h.hdr
  BY <1>1 DEF Ready, Frees
<1>3. Relinked(h.hdr, he, b) /\ ~he[NextIn(h.hdr, b)].prevFree /\ ~he[b].free
  BY <1>2, TakeFields
<1>4. Blocks(g.hdr) /\ Tagged(g.hdr) /\ Listed(g, F) /\ Retold(h, g, b) /\ ~g.hdr[b].free
  BY <1>2, <1>3, TakeKeeps
<1>5. F \cup (DOMAIN g.hdr \ DOMAIN h.hdr) = F /\ DOMAIN g.hdr = DOMAIN h.hdr
  BY <1>4 DEF Retold
<1>6. size <= g.hdr[b].size
  BY <1>2, <1>4 DEF Retold
<1>. QED BY <1>1, <1>2, <1>4, <1>5, <1>6 DEF Made, Allotted, Retold

\* The first bytes of the block b.
LEMMA SplitAllotted ==
    ASSUME NEW h, NEW b, NEW H, Ready(h, b, H), NEW size \in Nat, MinBlock <= size, CanSplit(h, b, size),
           NEW g, g = SplitBlock(h, b, size)
    PROVE  Made(h, g, b, size)
<1>1. PICK F : F = Frees(h.hdr) \ {b}
  OBVIOUS
<1>2. /\ Blocks(h.hdr) /\ b \in DOMAIN h.hdr \ {End} /\ TaggedBut(h.hdr, b)
      /\ ~h.hdr[NextIn(h.hdr, b)].free /\ Listed(h, F) /\ F \subseteq DOMAIN h.hdr \ {b}
  BY <1>1 DEF Ready, Frees
<1>3. Allotted(h, g, b, F, size)
  BY <1>2, SplitKeeps
<1>. QED BY <1>1, <1>3 DEF Made

\* The first block of a list is ready to be allotted.
LEMMA ExtractedReady ==
    ASSUME NEW h, NEW H, HeapInv(h, H), NEW c \in Classes, h.matrix[c] # <<>>,
           NEW b, b = Head(h.matrix[c]), NEW g, g = ExtractBlockHdr(h, c)
    PROVE  /\ Ready(g, b, H) /\ b \in DOMAIN h.hdr /\ b # Null /\ b \notin H /\ h.hdr[b].free
           /\ MappingInsert(h.hdr[b].size) = c /\ g.hdr = h.hdr
<1>1. PICK F : F = Frees(h.hdr)
  OBVIOUS
<1>2. Listed(h, F)
  BY <1>1 DEF HeapInv
<1>3. b \in F /\ MappingInsert(h.hdr[b].size) = c /\ Listed(g, F \ {b}) /\ g.hdr = h.hdr /\ g.used = h.used
  BY <1>2, ExtractHdrListed
<1>4. b \in DOMAIN h.hdr /\ h.hdr[b].free /\ b \notin H /\ b # End
  BY <1>1, <1>3 DEF HeapInv, Frees
<1>5. TaggedBut(h.hdr, b) /\ ~h.hdr[NextIn(h.hdr, b)].free
  BY <1>4 DEF HeapInv, Tagged, TaggedBut, Apart
<1>6. b # Null
  <2>1. b \in Nat
    BY <1>4, HeaderFacts DEF HeapInv
  <2>. QED BY <2>1 DEF Null
<1>7. H \subseteq DOMAIN h.hdr \ {b, End} /\ F \ {b} = DOMAIN h.hdr \ (H \cup {b, End})
  BY <1>1, <1>4 DEF HeapInv
<1>8. Ready(g, b, H)
  BY <1>1, <1>3, <1>4, <1>5, <1>7 DEF HeapInv, Ready
<1>. QED BY <1>3, <1>4, <1>6, <1>8

\* What callers see of malloc_ex and realloc_ex.
Refused(h, size, result) ==
    /\ result.ptr = Null /\ result.heap = h
    /\ \A b \in DOMAIN h.hdr : h.hdr[b].free => h.hdr[b].size < MappingSearch(size).size
Granted(h, H, size, result) ==
    /\ result.ptr # Null /\ result.ptr \notin H /\ HeapInv(result.heap, H \cup {result.ptr})
    /\ size <= result.heap.hdr[result.ptr].size
    /\ \A x \in H : result.heap.hdr[x].size = h.hdr[x].size

\* malloc_ex finds no list: the heap is as it was.
LEMMA MallocRefuses ==
    ASSUME NEW h, NEW H, HeapInv(h, H), NEW request \in Nat, Fits(Adjusted(request)),
           FindSuitableBlock(h, MappingSearch(Adjusted(request)).class) = <<>>
    PROVE  Refused(h, Adjusted(request), MallocEx(h, request))
<1>1. PICK size : size = Adjusted(request)
  OBVIOUS
<1>2. PICK s : s = MappingSearch(size)
  OBVIOUS
<1>3. /\ s.size \in Nat /\ size <= s.size /\ s.size < Bit[MaxFli]
      /\ s.class = MappingInsert(s.size) /\ s.size % WidthOf(s.size) = 0
  <2>1. size \in Nat /\ size % Width = 0 /\ 2 * size + 2 <= Bit[MaxFli]
    BY <1>1, AdjustedFacts DEF Fits
  <2>. QED BY <1>2, <2>1, SearchClass
<1>4. s.class \in Classes
  BY <1>3, ClassIn
<1>5. PICK K : K = Kinds(h.hdr, Frees(h.hdr))
  OBVIOUS
<1>6. HeapLists(h, K)
  BY <1>5 DEF HeapInv, Listed
<1>7. \A c \in Classes : Leq(s.class, c) => K[c] = {}
  BY <1>1, <1>2, <1>4, <1>6, FindFacts
<1>8. ASSUME NEW b \in DOMAIN h.hdr, h.hdr[b].free PROVE h.hdr[b].size < s.size
  <2>1. Blocks(h.hdr)
    BY DEF HeapInv
  <2>2. h.hdr[b].size \in Nat /\ h.hdr[b].size < Bit[MaxFli] /\ MappingInsert(h.hdr[b].size) \in Classes
    BY <2>1, SizeClass
  <2>3. PICK c \in Classes : c = MappingInsert(h.hdr[b].size)
    BY <2>2
  <2>4. b \in K[c]
    BY <1>5, <1>8, <2>3 DEF Kinds, Frees
  <2>5. ~Leq(MappingInsert(s.size), MappingInsert(h.hdr[b].size))
    BY <1>3, <1>7, <2>3, <2>4
  <2>6. PICK y \in Nat : y = h.hdr[b].size
    BY <2>2
  <2>7. ~(s.size <= y)
    BY <1>3, <2>2, <2>5, <2>6, ClassOrder
  <2>. QED BY <1>3, <2>6, <2>7
<1>9. MallocEx(h, request) = [heap |-> h, ptr |-> Null]
  BY DEF MallocEx
<1>. QED BY <1>1, <1>2, <1>8, <1>9 DEF Refused

\* malloc_ex finds a list: its first block is large enough and becomes the caller's.
LEMMA MallocGrants ==
    ASSUME NEW h, NEW H, HeapInv(h, H), NEW request \in Nat, Fits(Adjusted(request)),
           FindSuitableBlock(h, MappingSearch(Adjusted(request)).class) # <<>>
    PROVE  Granted(h, H, Adjusted(request), MallocEx(h, request))
<1>1. PICK size : size = Adjusted(request)
  OBVIOUS
<1>2. PICK s : s = MappingSearch(size)
  OBVIOUS
<1>3. /\ s.size \in Nat /\ size <= s.size /\ s.size < Bit[MaxFli]
      /\ s.class = MappingInsert(s.size) /\ s.size % WidthOf(s.size) = 0
      /\ size \in Nat /\ MinBlock <= size
  <2>1. size \in Nat /\ size % Width = 0 /\ 2 * size + 2 <= Bit[MaxFli] /\ MinBlock <= size
    BY <1>1, AdjustedFacts DEF Fits
  <2>. QED BY <1>2, <2>1, SearchClass
<1>4. s.class \in Classes
  BY <1>3, ClassIn
<1>5. PICK K : K = Kinds(h.hdr, Frees(h.hdr))
  OBVIOUS
<1>6. HeapLists(h, K)
  BY <1>5 DEF HeapInv, Listed
<1>7. PICK c : c = FindSuitableBlock(h, s.class)
  OBVIOUS
<1>8. c # <<>> /\ c \in Classes /\ Leq(s.class, c) /\ h.matrix[c] # <<>>
  BY <1>1, <1>2, <1>4, <1>6, <1>7, FindFacts
<1>9. PICK b : b = Head(h.matrix[c])
  OBVIOUS
<1>10. PICK h1 : h1 = ExtractBlockHdr(h, c)
  OBVIOUS
<1>11. /\ Ready(h1, b, H) /\ b \in DOMAIN h.hdr /\ b # Null /\ b \notin H
       /\ MappingInsert(h.hdr[b].size) = c /\ h1.hdr = h.hdr
  BY <1>8, <1>9, <1>10, ExtractedReady
<1>12. s.size <= h1.hdr[b].size
  <2>1. h.hdr[b].size \in Nat /\ h.hdr[b].size < Bit[MaxFli]
    BY <1>11, SizeClass DEF HeapInv
  <2>2. Leq(MappingInsert(s.size), MappingInsert(h.hdr[b].size))
    BY <1>3, <1>8, <1>11
  <2>3. s.size <= h.hdr[b].size
    BY <1>3, <2>1, <2>2, ClassOrder
  <2>. QED BY <1>11, <2>3
<1>13. PICK h2 : h2 = IF CanSplit(h1, b, s.size) THEN SplitBlock(h1, b, s.size)
                      ELSE [h1 EXCEPT !.hdr = [LinkBack(@, Next_(h1, b), FALSE, Null) EXCEPT ![b].free = FALSE]]
  OBVIOUS
<1>14. MallocEx(h, request) = [heap |-> AddSize(h2, b), ptr |-> b]
  BY <1>1, <1>2, <1>7, <1>8, <1>9, <1>10, <1>13 DEF MallocEx
<1>15. Made(h1, h2, b, s.size)
  <2>1. CASE CanSplit(h1, b, s.size)
    <3>1. MinBlock <= s.size
      BY <1>3, TableFacts
    <3>2. h2 = SplitBlock(h1, b, s.size)
      BY <1>13, <2>1
    <3>. QED BY <1>3, <1>11, <2>1, <3>1, <3>2, SplitAllotted
  <2>2. CASE ~CanSplit(h1, b, s.size)
    <3>1. PICK he : he = MarkIn(h1.hdr, b, NextIn(h1.hdr, b))
      OBVIOUS
    <3>2. IsHeap(h1)
      BY <1>11 DEF Ready, Listed, HeapLists
    <3>3. h2 = [h1 EXCEPT !.hdr = he]
      BY <1>13, <2>2, <3>1, <3>2 DEF MarkIn, Next_, NextIn, IsHeap
    <3>4. WithHeaders(h1, h2, he)
      BY <3>2, <3>3, PutWithHeaders
    <3>. QED BY <1>11, <1>12, <3>1, <3>4, MarkAllotted
  <2>. QED BY <2>1, <2>2
<1>16. PICK k : k = AddSize(h2, b)
  OBVIOUS
<1>17. /\ HeapInv(k, H \cup {b}) /\ b \notin H /\ s.size <= k.hdr[b].size
       /\ \A x \in H : k.hdr[x].size = h1.hdr[x].size
  <2>1. PICK n : n = s.size
    OBVIOUS
  <2>2. Ready(h1, b, H) /\ Made(h1, h2, b, n)
    BY <1>11, <1>15, <2>1
  <2>3. /\ HeapInv(k, H \cup {b}) /\ b \notin H /\ n <= k.hdr[b].size
        /\ \A x \in H : k.hdr[x].size = h1.hdr[x].size
    BY <1>16, <2>2, FinishKeeps
  <2>. QED BY <2>1, <2>3
<1>18. size <= k.hdr[b].size
  <2>1. k.hdr[b].size \in Nat
    BY <1>17, HeaderFacts DEF HeapInv
  <2>. QED BY <1>3, <1>17, <2>1
<1>19. PICK result : result = [heap |-> k, ptr |-> b]
  OBVIOUS
<1>20. result.heap = k /\ result.ptr = b /\ result = MallocEx(h, request)
  BY <1>14, <1>16, <1>19
<1>21. Granted(h, H, size, result)
  BY <1>11, <1>17, <1>18, <1>20 DEF Granted
<1>. QED BY <1>1, <1>20, <1>21

\* malloc_ex keeps the heap well formed, whether it grants the request or not.
LEMMA MallocKeeps ==
    ASSUME NEW h, NEW H, HeapInv(h, H), NEW request \in Nat, Fits(Adjusted(request)),
           NEW result, result = MallocEx(h, request)
    PROVE  Refused(h, Adjusted(request), result) \/ Granted(h, H, Adjusted(request), result)
  BY MallocRefuses, MallocGrants

\* The block b is free, but in no list; the headers around it are as they were.
Merging(h, b, H) ==
    /\ Blocks(h.hdr) /\ b \in DOMAIN h.hdr \ {End} /\ Freeing(h.hdr, b)
    /\ H \subseteq DOMAIN h.hdr \ {b, End} /\ Frees(h.hdr) \ {b} = DOMAIN h.hdr \ (H \cup {b, End})
    /\ Listed(h, Frees(h.hdr) \ {b}) /\ h.used = Admin + Bytes(h.hdr, H)

SameSizes(h, g, H) == \A x \in H : g.hdr[x].size = h.hdr[x].size

\* free_ex, up to the first merge.
LEMMA FreeStarts ==
    ASSUME NEW h, NEW H, HeapInv(h, H), NEW b \in H,
           NEW he, he = FreeIn(h.hdr, b),
           NEW g, WithHeaders(h, g, he), NEW k, k = RemoveSize(g, b)
    PROVE  Merging(k, b, H \ {b}) /\ SameSizes(h, k, H)
<1>1. PICK F : F = Frees(h.hdr)
  OBVIOUS
<1>2. /\ Listed(h, F) /\ F = DOMAIN h.hdr \ (H \cup {End}) /\ Blocks(h.hdr) /\ Tagged(h.hdr)
      /\ b \in DOMAIN h.hdr \ {End} /\ ~h.hdr[b].free /\ H \subseteq DOMAIN h.hdr \ {End}
      /\ h.used = Admin + Bytes(h.hdr, H)
  BY <1>1 DEF HeapInv, Frees
<1>3. IsHeap(h)
  BY <1>2 DEF Listed, HeapLists
<1>4. IsHeap(g) /\ g.hdr = he /\ g.matrix = h.matrix /\ g.fl = h.fl /\ g.sl = h.sl /\ g.used = h.used
  BY DEF WithHeaders
<1>5. /\ Blocks(he) /\ Freeing(he, b) /\ DOMAIN he = DOMAIN h.hdr
      /\ \A x \in DOMAIN h.hdr : he[x].size = h.hdr[x].size /\ (x # b => he[x] = h.hdr[x])
  BY <1>2, FreeingStart
<1>6. Listed(g, F)
  <2>1. \A x \in F : g.hdr[x].size = h.hdr[x].size
    BY <1>2, <1>4, <1>5
  <2>. QED BY <1>2, <1>4, <2>1, ListedSame
<1>7. Listed(k, F) /\ k.hdr = he /\ k.used = g.used - he[b].size - Overhead
  <2>1. Listed(k, F) /\ k.hdr = g.hdr /\ k.used = g.used - g.hdr[b].size - Overhead
    BY <1>6, RemoveSizeFields
  <2>. QED BY <1>4, <2>1
<1>8. k.used = Admin + Bytes(he, H \ {b})
  <2>1. h.used = Admin + Bytes(he, H)
    <3>1. H \subseteq DOMAIN he \ {End} /\ \A x \in H : he[x].size = h.hdr[x].size
      BY <1>2, <1>5
    <3>. QED BY <1>2, <1>5, <3>1, CountSame
  <2>2. H \subseteq DOMAIN he \ {End}
    BY <1>2, <1>5
  <2>. QED BY <1>4, <1>5, <1>7, <2>1, <2>2, CountTake
<1>9. Frees(he) \ {b} = F
  BY <1>1, <1>2, <1>5 DEF Frees
<1>10. F = DOMAIN he \ ((H \ {b}) \cup {b, End})
  BY <1>2, <1>5
<1>11. H \ {b} \subseteq DOMAIN he \ {b, End} /\ b \in DOMAIN he \ {End}
  BY <1>2, <1>5
<1>12. Merging(k, b, H \ {b})
  BY <1>5, <1>7, <1>8, <1>9, <1>10, <1>11 DEF Merging
<1>13. SameSizes(h, k, H)
  BY <1>2, <1>5, <1>7 DEF SameSizes
<1>. QED BY <1>12, <1>13

\* The free block after it.
LEMMA FreeNextTaken ==
    ASSUME NEW h, NEW b, NEW H, Merging(h, b, H), NEW n, n = NextIn(h.hdr, b), h.hdr[n].free,
           NEW g, g = ExtractBlock(h, n), NEW k, k = Absorb(g, b, n)
    PROVE  Merging(k, b, H) /\ ~k.hdr[NextIn(k.hdr, b)].free /\ SameSizes(h, k, H)
<1>1. PICK F : F = Frees(h.hdr) \ {b}
  OBVIOUS
<1>2. /\ Listed(h, F) /\ F = DOMAIN h.hdr \ (H \cup {b, End}) /\ Blocks(h.hdr) /\ Freeing(h.hdr, b)
      /\ b \in DOMAIN h.hdr \ {End} /\ H \subseteq DOMAIN h.hdr \ {b, End}
      /\ h.used = Admin + Bytes(h.hdr, H)
  BY <1>1 DEF Merging
<1>3. PICK he : he = AbsorbIn(h.hdr, b, n)
  OBVIOUS
<1>4. /\ n \in DOMAIN h.hdr \ {End} /\ Blocks(he) /\ b \in DOMAIN he \ {End} /\ Freeing(he, b)
      /\ ~he[NextIn(he, b)].free
  BY <1>2, <1>3, FreeingNext
<1>5. /\ DOMAIN he = DOMAIN h.hdr \ {n}
      /\ \A x \in DOMAIN he : he[x].free = h.hdr[x].free /\ (x # b => he[x] = h.hdr[x])
  <2>1. Blocks(h.hdr) /\ b \in DOMAIN h.hdr \ {End} /\ n = NextIn(h.hdr, b) /\ n # End
    BY <1>1, <1>2, <1>4
  <2>. QED BY <1>3, <2>1, AbsorbNext
<1>6. n # b /\ n \in F
  BY <1>1, <1>2, <1>4, BlockFacts DEF Frees
<1>7. Listed(g, F \ {n}) /\ g.hdr = h.hdr /\ g.used = h.used
  BY <1>2, <1>4, <1>6, ExtractListed
<1>8. Listed(k, F \ {n}) /\ k.hdr = he /\ k.used = h.used
  <2>1. b \notin F \ {n} /\ n \notin F \ {n} /\ F \ {n} \subseteq DOMAIN g.hdr /\ b \in DOMAIN g.hdr
    BY <1>1, <1>2, <1>7
  <2>2. Listed(k, F \ {n}) /\ k.hdr = AbsorbIn(g.hdr, b, n) /\ k.used = g.used
    BY <1>6, <1>7, <2>1, AbsorbHeap
  <2>. QED BY <1>3, <1>7, <2>2
<1>9. H \subseteq DOMAIN he \ {b, End} /\ n \notin H
  BY <1>2, <1>5, <1>6
<1>10. Frees(he) \ {b} = F \ {n}
  BY <1>1, <1>5 DEF Frees
<1>11. F \ {n} = DOMAIN he \ (H \cup {b, End})
  BY <1>2, <1>5, <1>6
<1>12. SameSizes(h, k, H)
  BY <1>5, <1>8, <1>9 DEF SameSizes
<1>13. k.used = Admin + Bytes(he, H)
  <2>1. H \subseteq DOMAIN he \ {End} /\ \A x \in H : he[x].size = h.hdr[x].size
    BY <1>5, <1>9
  <2>. QED BY <1>2, <1>4, <1>8, <2>1, CountSame
<1>14. Merging(k, b, H)
  BY <1>4, <1>8, <1>9, <1>10, <1>11, <1>13 DEF Merging
<1>. QED BY <1>4, <1>8, <1>12, <1>14

\* free_ex, the merge with the next block.
LEMMA FreeNext ==
    ASSUME NEW h, NEW b, NEW H, Merging(h, b, H), NEW k, k = JoinNext(h, b)
    PROVE  Merging(k, b, H) /\ ~k.hdr[NextIn(k.hdr, b)].free /\ SameSizes(h, k, H)
<1>1. PICK n : n = NextIn(h.hdr, b)
  OBVIOUS
<1>2. CASE h.hdr[n].free
  <2>1. k = Absorb(ExtractBlock(h, n), b, n)
    BY <1>1, <1>2 DEF JoinNext, Next_, NextIn
  <2>. QED BY <1>1, <1>2, <2>1, FreeNextTaken
<1>3. CASE ~h.hdr[n].free
  <2>1. k = h
    BY <1>1, <1>3 DEF JoinNext, Next_, NextIn
  <2>. QED BY <1>1, <1>3, <2>1 DEF SameSizes
<1>. QED BY <1>2, <1>3

\* No free block before it.
LEMMA FreeFirst ==
    ASSUME NEW h, NEW b, NEW H, Merging(h, b, H), ~h.hdr[NextIn(h.hdr, b)].free, ~h.hdr[b].prevFree
    PROVE  Ready(h, b, H) /\ h.hdr[b].free
  BY FreeingFirst DEF Merging, Ready, Freeing

\* The free block before it.
LEMMA FreePreviousTaken ==
    ASSUME NEW h, NEW b, NEW H, Merging(h, b, H), ~h.hdr[NextIn(h.hdr, b)].free, h.hdr[b].prevFree,
           NEW p, p = h.hdr[b].prev,
           NEW g, g = ExtractBlock(h, p), NEW k, k = Absorb(g, p, b)
    PROVE  /\ p # b /\ Ready(k, p, H) /\ k.hdr[p].free /\ SameSizes(h, k, H)
<1>1. PICK F : F = Frees(h.hdr) \ {b}
  OBVIOUS
<1>2. /\ Listed(h, F) /\ F = DOMAIN h.hdr \ (H \cup {b, End}) /\ Blocks(h.hdr) /\ Freeing(h.hdr, b)
      /\ b \in DOMAIN h.hdr \ {End} /\ H \subseteq DOMAIN h.hdr \ {b, End}
      /\ h.used = Admin + Bytes(h.hdr, H)
  BY <1>1 DEF Merging
<1>3. PICK he : he = AbsorbIn(h.hdr, p, b)
  OBVIOUS
<1>4. /\ p \in DOMAIN h.hdr \ {End} /\ p # b /\ NextIn(h.hdr, p) = b /\ h.hdr[p].free
      /\ Blocks(he) /\ p \in DOMAIN he \ {End} /\ TaggedBut(he, p)
      /\ he[p].free /\ ~he[NextIn(he, p)].free
  BY <1>2, <1>3, FreeingPrevious
<1>5. /\ DOMAIN he = DOMAIN h.hdr \ {b}
      /\ \A x \in DOMAIN he : he[x].free = h.hdr[x].free /\ (x # p => he[x] = h.hdr[x])
  <2>1. PICK hd : hd = h.hdr
    OBVIOUS
  <2>2. /\ Blocks(hd) /\ p \in DOMAIN hd \ {End} /\ b = NextIn(hd, p) /\ b # End
        /\ he = AbsorbIn(hd, p, b)
    BY <1>2, <1>3, <1>4, <2>1
  <2>3. Absorbed(hd, he, p, b)
    BY <2>2, AbsorbRelates
  <2>. QED BY <2>1, <2>3 DEF Absorbed
<1>6. p \in F
  BY <1>1, <1>4 DEF Frees
<1>7. Listed(g, F \ {p}) /\ g.hdr = h.hdr /\ g.used = h.used
  <2>1. Listed(h, F) /\ Blocks(h.hdr) /\ p \in DOMAIN h.hdr /\ p \in F
    BY <1>2, <1>4, <1>6
  <2>. QED BY <2>1, ExtractListed
<1>8. Listed(k, F \ {p}) /\ k.hdr = he /\ k.used = h.used
  <2>1. p \notin F \ {p} /\ b \notin F \ {p} /\ F \ {p} \subseteq DOMAIN g.hdr /\ p \in DOMAIN g.hdr
    BY <1>1, <1>2, <1>4, <1>7
  <2>2. Listed(k, F \ {p}) /\ k.hdr = AbsorbIn(g.hdr, p, b) /\ k.used = g.used
    BY <1>4, <1>7, <2>1, AbsorbHeap
  <2>. QED BY <1>3, <1>7, <2>2
<1>9. H \subseteq DOMAIN he \ {p, End}
  BY <1>2, <1>5, <1>6
<1>10. Frees(he) \ {p} = F \ {p}
  BY <1>1, <1>5 DEF Frees
<1>11. F \ {p} = DOMAIN he \ (H \cup {p, End})
  BY <1>2, <1>4, <1>5
<1>12. SameSizes(h, k, H)
  BY <1>5, <1>8, <1>9 DEF SameSizes
<1>13. k.used = Admin + Bytes(he, H)
  <2>1. H \subseteq DOMAIN he \ {End} /\ \A x \in H : he[x].size = h.hdr[x].size
    BY <1>5, <1>9
  <2>. QED BY <1>2, <1>4, <1>8, <2>1, CountSame
<1>14. Ready(k, p, H)
  BY <1>4, <1>8, <1>9, <1>10, <1>11, <1>13 DEF Ready
<1>. QED BY <1>4, <1>8, <1>12, <1>14

\* free_ex, the merge with the previous block.
LEMMA FreePrevious ==
    ASSUME NEW h, NEW b, NEW H, Merging(h, b, H), ~h.hdr[NextIn(h.hdr, b)].free,
           NEW p, p = FirstOf(h, b), NEW k, k = JoinPrevious(h, b)
    PROVE  Ready(k, p, H) /\ k.hdr[p].free /\ SameSizes(h, k, H)
<1>1. CASE h.hdr[b].prevFree
  <2>1. p = h.hdr[b].prev
    BY <1>1 DEF FirstOf
  <2>2. PICK j : j = Absorb(ExtractBlock(h, p), p, b)
    OBVIOUS
  <2>3. p # b /\ Ready(j, p, H) /\ j.hdr[p].free /\ SameSizes(h, j, H)
    BY <1>1, <2>1, <2>2, FreePreviousTaken
  <2>4. k = j
    BY <2>2, <2>3 DEF JoinPrevious
  <2>. QED BY <2>3, <2>4
<1>2. CASE ~h.hdr[b].prevFree
  <2>1. p = b /\ k = h
    BY <1>2 DEF FirstOf, JoinPrevious
  <2>. QED BY <1>2, <2>1, FreeFirst DEF SameSizes
<1>. QED BY <1>1, <1>2

\* The free block goes into its list, and the header after it says that it is free.
LEMMA FreeEnds ==
    ASSUME NEW h, NEW b, NEW H, Ready(h, b, H), h.hdr[b].free,
           NEW k, k = PutBack(h, b)
    PROVE  HeapInv(k, H) /\ SameSizes(h, k, H)
<1>1. PICK F : F = Frees(h.hdr) \ {b}
  OBVIOUS
<1>2. /\ Listed(h, F) /\ F = DOMAIN h.hdr \ (H \cup {b, End}) /\ Blocks(h.hdr) /\ TaggedBut(h.hdr, b)
      /\ b \in DOMAIN h.hdr \ {End} /\ H \subseteq DOMAIN h.hdr \ {b, End}
      /\ h.used = Admin + Bytes(h.hdr, H) /\ ~h.hdr[NextIn(h.hdr, b)].free
  BY <1>1 DEF Ready
<1>3. PICK g : g = InsertBlock(h, b)
  OBVIOUS
<1>4. PICK n : n = NextIn(g.hdr, b)
  OBVIOUS
<1>5. Listed(g, F \cup {b}) /\ g.hdr = h.hdr /\ g.used = h.used
  <2>1. Listed(h, F) /\ Blocks(h.hdr) /\ b \in DOMAIN h.hdr /\ b \notin F
    BY <1>2
  <2>. QED BY <1>3, <2>1, InsertListed
<1>6. F \cup {b} \subseteq DOMAIN g.hdr
  BY <1>2, <1>5
<1>7. PICK isFree \in BOOLEAN : isFree = TRUE
  OBVIOUS
<1>8. k = [g EXCEPT !.hdr = LinkBack(@, n, isFree, b)]
  <2>1. Next_(g, b) = n
    BY <1>4 DEF Next_, NextIn
  <2>. QED BY <1>7, <1>3, <2>1 DEF PutBack
<1>9. /\ Blocks(k.hdr) /\ Tagged(k.hdr) /\ Listed(k, F \cup {b})
      /\ Retold(g, k, b) /\ (k.hdr[b].free <=> g.hdr[b].free)
  <2>1. (isFree <=> g.hdr[b].free) /\ b \in Int
    <3>1. g.hdr[b].free \in BOOLEAN /\ b \in Nat
      BY <1>2, <1>5, HeaderFacts
    <3>. QED BY <1>5, <1>7, <3>1
  <2>2. Blocks(g.hdr) /\ b \in DOMAIN g.hdr \ {End} /\ TaggedBut(g.hdr, b) /\ ~g.hdr[NextIn(g.hdr, b)].free
    BY <1>2, <1>5
  <2>3. PICK G : G = F \cup {b}
    OBVIOUS
  <2>4. Listed(g, G) /\ G \subseteq DOMAIN g.hdr
    BY <1>5, <1>6, <2>3
  <2>5. PICK p \in Int : p = b
    BY <2>1
  <2>6. (isFree <=> g.hdr[b].free) /\ (isFree => p = b) 
    BY <2>1, <2>5
  <2>7. PICK ke : ke = LinkBack(g.hdr, n, isFree, p)
    OBVIOUS
  <2>8. WithHeaders(g, k, ke)
    <3>1. IsHeap(g)
      BY <1>5 DEF Listed, HeapLists
    <3>2. k = [g EXCEPT !.hdr = ke]
      BY <1>8, <2>5, <2>7, <3>1 DEF IsHeap
    <3>. QED BY <3>1, <3>2, PutWithHeaders
  <2>9. Blocks(k.hdr) /\ Tagged(k.hdr) /\ Listed(k, G) /\ Retold(g, k, b) /\ (k.hdr[b].free <=> g.hdr[b].free)
    BY <1>4, <2>2, <2>4, <2>5, <2>6, <2>7, <2>8, LinkKeeps
  <2>. QED BY <2>3, <2>9
<1>10. /\ DOMAIN k.hdr = DOMAIN h.hdr /\ k.used = h.used
      /\ \A x \in DOMAIN h.hdr : k.hdr[x].size = h.hdr[x].size /\ (k.hdr[x].free <=> h.hdr[x].free)
  BY <1>5, <1>9 DEF Retold
<1>11. Frees(k.hdr) = F \cup {b}
  BY <1>1, <1>2, <1>10 DEF Frees
<1>12. F \cup {b} = DOMAIN k.hdr \ (H \cup {End}) /\ H \subseteq DOMAIN k.hdr \ {End}
  BY <1>2, <1>10
<1>13. k.used = Admin + Bytes(k.hdr, H)
  <2>1. \A x \in H : k.hdr[x].size = h.hdr[x].size
    BY <1>2, <1>10
  <2>2. Blocks(k.hdr) /\ H \subseteq DOMAIN k.hdr \ {End}
    BY <1>9, <1>12
  <2>3. Bytes(k.hdr, H) = Bytes(h.hdr, H)
    BY <2>1, <2>2, CountSame
  <2>. QED BY <1>2, <1>10, <2>3
<1>14. HeapInv(k, H)
  BY <1>9, <1>11, <1>12, <1>13 DEF HeapInv
<1>15. SameSizes(h, k, H)
  BY <1>2, <1>10 DEF SameSizes
<1>. QED BY <1>14, <1>15

\* free_ex keeps the heap well formed and the other blocks of their sizes.
LEMMA FreeKeeps ==
    ASSUME NEW h, NEW H, HeapInv(h, H), NEW b \in H
    PROVE  HeapInv(FreeEx(h, b), H \ {b}) /\ SameSizes(h, FreeEx(h, b), H \ {b})
<1>1. PICK G : G = H \ {b}
  OBVIOUS
<1>2. IsHeap(h)
  BY DEF HeapInv, Listed, HeapLists
<1>3. PICK he : he = FreeIn(h.hdr, b)
  OBVIOUS
<1>4. PICK h0 : h0 = [h EXCEPT !.hdr[b].free = TRUE]
  OBVIOUS
<1>5. PICK h1 : h1 = RemoveSize(h0, b)
  OBVIOUS
<1>6. WithHeaders(h, h0, he)
  <2>1. h0 = [h EXCEPT !.hdr = he]
    BY <1>2, <1>3, <1>4 DEF FreeIn, IsHeap
  <2>. QED BY <1>2, <2>1, PutWithHeaders
<1>7. Merging(h1, b, G) /\ SameSizes(h, h1, G)
  <2>1. Merging(h1, b, H \ {b}) /\ SameSizes(h, h1, H)
    BY <1>3, <1>5, <1>6, FreeStarts
  <2>. QED BY <1>1, <2>1 DEF SameSizes
<1>8. PICK h2 : h2 = JoinNext(h1, b)
  OBVIOUS
<1>9. Merging(h2, b, G) /\ ~h2.hdr[NextIn(h2.hdr, b)].free /\ SameSizes(h1, h2, G)
  BY <1>7, <1>8, FreeNext
<1>10. PICK p : p = FirstOf(h2, b)
  OBVIOUS
<1>11. PICK h3 : h3 = JoinPrevious(h2, b)
  OBVIOUS
<1>12. Ready(h3, p, G) /\ h3.hdr[p].free /\ SameSizes(h2, h3, G)
  BY <1>9, <1>10, <1>11, FreePrevious
<1>13. PICK h4 : h4 = PutBack(h3, p)
  OBVIOUS
<1>14. HeapInv(h4, G) /\ SameSizes(h3, h4, G)
  BY <1>12, <1>13, FreeEnds
<1>15. FreeEx(h, b) = h4
  BY <1>4, <1>5, <1>8, <1>10, <1>11, <1>13 DEF FreeEx
<1>16. SameSizes(h, h4, G)
  BY <1>7, <1>9, <1>12, <1>14 DEF SameSizes
<1>. QED BY <1>1, <1>14, <1>15, <1>16

\* The held block b of h has taken the free block n, and is ready.
Joined(h, k, b, n, H) ==
    /\ Ready(k, b, H \ {b}) /\ ~k.hdr[b].free /\ SameSizes(h, k, H \ {b})
    /\ MinBlock <= h.hdr[n].size /\ k.hdr[b].size = h.hdr[b].size + h.hdr[n].size + Overhead

\* realloc_ex takes the block b out of the count, and joins it with the next one.
LEMMA JoinTaken ==
    ASSUME NEW h, NEW H, HeapInv(h, H), NEW b \in H, NEW n, n = NextIn(h.hdr, b), h.hdr[n].free,
           NEW h1, h1 = RemoveSize(h, b), NEW g, g = ExtractBlock(h1, n), NEW k, k = Absorb(g, b, n)
    PROVE  Joined(h, k, b, n, H)
<1>1. PICK F : F = Frees(h.hdr)
  OBVIOUS
<1>2. PICK G : G = H \ {b}
  OBVIOUS
<1>3. /\ Listed(h, F) /\ F = DOMAIN h.hdr \ (H \cup {End}) /\ Blocks(h.hdr) /\ Tagged(h.hdr)
      /\ b \in DOMAIN h.hdr \ {End} /\ ~h.hdr[b].free /\ H \subseteq DOMAIN h.hdr \ {End}
      /\ h.used = Admin + Bytes(h.hdr, H)
  BY <1>1 DEF HeapInv, Frees
<1>4. Listed(h1, F) /\ h1.hdr = h.hdr /\ h1.used = h.used - h.hdr[b].size - Overhead
  BY <1>3, RemoveSizeFields
<1>5. h1.used = Admin + Bytes(h.hdr, G)
  BY <1>2, <1>3, <1>4, CountTake
<1>6. PICK he : he = AbsorbIn(h.hdr, b, n)
  OBVIOUS
<1>7. /\ n \in DOMAIN h.hdr \ {End} /\ Blocks(he) /\ b \in DOMAIN he \ {End} /\ TaggedBut(he, b)
      /\ ~he[NextIn(he, b)].free
  BY <1>3, <1>6, JoinedTags
<1>8. /\ DOMAIN he = DOMAIN h.hdr \ {n} /\ he[b].size = h.hdr[b].size + h.hdr[n].size + Overhead
      /\ \A x \in DOMAIN he : he[x].free = h.hdr[x].free /\ (x # b => he[x] = h.hdr[x])
  <2>1. Blocks(h.hdr) /\ b \in DOMAIN h.hdr \ {End} /\ n # End
    BY <1>3, <1>7
  <2>. QED BY <1>6, <2>1, AbsorbNext
<1>9. n # b /\ n \in F /\ MinBlock <= h.hdr[n].size
  BY <1>1, <1>3, <1>7, BlockFacts DEF Frees
<1>10. Listed(g, F \ {n}) /\ g.hdr = h.hdr /\ g.used = h1.used
  <2>1. Listed(h1, F) /\ Blocks(h1.hdr) /\ n \in DOMAIN h1.hdr /\ n \in F
    BY <1>3, <1>4, <1>7, <1>9
  <2>. QED BY <1>4, <2>1, ExtractListed
<1>11. Listed(k, F \ {n}) /\ k.hdr = he /\ k.used = h1.used
  <2>1. b \notin F \ {n} /\ n \notin F \ {n} /\ F \ {n} \subseteq DOMAIN g.hdr /\ b \in DOMAIN g.hdr
    BY <1>3, <1>10
  <2>2. Listed(k, F \ {n}) /\ k.hdr = AbsorbIn(g.hdr, b, n) /\ k.used = g.used
    BY <1>9, <1>10, <2>1, AbsorbHeap
  <2>. QED BY <1>6, <1>10, <2>2
<1>12. G \subseteq DOMAIN he \ {b, End}
  BY <1>2, <1>3, <1>8, <1>9
<1>13. Frees(he) \ {b} = F \ {n}
  BY <1>1, <1>3, <1>8 DEF Frees
<1>14. F \ {n} = DOMAIN he \ (G \cup {b, End})
  BY <1>2, <1>3, <1>8
<1>15. SameSizes(h, k, G)
  BY <1>2, <1>8, <1>11, <1>12 DEF SameSizes
<1>16. k.used = Admin + Bytes(he, G)
  <2>1. G \subseteq DOMAIN he \ {End} /\ \A x \in G : he[x].size = h.hdr[x].size
    BY <1>8, <1>12
  <2>2. Bytes(he, G) = Bytes(h.hdr, G)
    BY <1>7, <2>1, CountSame
  <2>. QED BY <1>5, <1>11, <2>2
<1>17. Ready(k, b, G)
  BY <1>7, <1>11, <1>12, <1>13, <1>14, <1>16 DEF Ready
<1>18. ~k.hdr[b].free
  BY <1>3, <1>7, <1>8, <1>11
<1>. QED BY <1>2, <1>8, <1>9, <1>11, <1>15, <1>17, <1>18 DEF Joined

\* realloc_ex, when the next block is not free.
LEMMA JoinNot ==
    ASSUME NEW h, NEW H, HeapInv(h, H), NEW b \in H, ~h.hdr[NextIn(h.hdr, b)].free,
           NEW k, k = RemoveSize(h, b)
    PROVE  /\ Ready(k, b, H \ {b}) /\ Tagged(k.hdr) /\ ~k.hdr[b].free /\ SameSizes(h, k, H \ {b})
           /\ k.hdr = h.hdr
<1>1. PICK F : F = Frees(h.hdr)
  OBVIOUS
<1>2. PICK G : G = H \ {b}
  OBVIOUS
<1>3. /\ Listed(h, F) /\ F = DOMAIN h.hdr \ (H \cup {End}) /\ Blocks(h.hdr) /\ Tagged(h.hdr)
      /\ b \in DOMAIN h.hdr \ {End} /\ ~h.hdr[b].free /\ H \subseteq DOMAIN h.hdr \ {End}
      /\ h.used = Admin + Bytes(h.hdr, H)
  BY <1>1 DEF HeapInv, Frees
<1>4. Listed(k, F) /\ k.hdr = h.hdr /\ k.used = h.used - h.hdr[b].size - Overhead
  BY <1>3, RemoveSizeFields
<1>5. k.used = Admin + Bytes(h.hdr, G)
  BY <1>2, <1>3, <1>4, CountTake
<1>6. F \ {b} = F /\ F = DOMAIN h.hdr \ (G \cup {b, End}) /\ G \subseteq DOMAIN h.hdr \ {b, End}
  BY <1>2, <1>3
<1>7. TaggedBut(h.hdr, b)
  BY <1>3 DEF Tagged, TaggedBut
<1>8. Ready(k, b, G)
  BY <1>1, <1>3, <1>4, <1>5, <1>6, <1>7 DEF Ready
<1>. QED BY <1>2, <1>3, <1>4, <1>8 DEF SameSizes

\* The header after a grown block says that it is used.
Grown(h, k, b, H) ==
    /\ Ready(k, b, H) /\ Tagged(k.hdr) /\ ~k.hdr[b].free /\ SameSizes(h, k, H)
    /\ k.hdr[b].size = h.hdr[b].size

\* realloc_ex, when the header after the larger block is told that the block is used.
LEMMA GrownReady ==
    ASSUME NEW h, NEW b, NEW H, Ready(h, b, H), ~h.hdr[b].free,
           NEW n, n = NextIn(h.hdr, b), NEW isFree \in BOOLEAN, ~isFree, NEW p \in Int,
           NEW he, he = LinkBack(h.hdr, n, isFree, p), NEW k, WithHeaders(h, k, he)
    PROVE  Grown(h, k, b, H)
<1>1. PICK F : F = Frees(h.hdr) \ {b}
  OBVIOUS
<1>2. /\ Listed(h, F) /\ F = DOMAIN h.hdr \ (H \cup {b, End}) /\ Blocks(h.hdr) /\ TaggedBut(h.hdr, b)
      /\ b \in DOMAIN h.hdr \ {End} /\ H \subseteq DOMAIN h.hdr \ {b, End}
      /\ h.used = Admin + Bytes(h.hdr, H) /\ ~h.hdr[NextIn(h.hdr, b)].free
  BY <1>1 DEF Ready
<1>3. (isFree <=> h.hdr[b].free) /\ (isFree => p = b)
  OBVIOUS
<1>4. Blocks(k.hdr) /\ Tagged(k.hdr) /\ Listed(k, F) /\ Retold(h, k, b) /\ (k.hdr[b].free <=> h.hdr[b].free)
  <2>1. F \subseteq DOMAIN h.hdr
    BY <1>2
  <2>. QED BY <1>2, <1>3, <2>1, LinkKeeps
<1>5. /\ DOMAIN k.hdr = DOMAIN h.hdr /\ k.used = h.used
      /\ \A x \in DOMAIN h.hdr : k.hdr[x].size = h.hdr[x].size /\ (k.hdr[x].free <=> h.hdr[x].free)
  BY <1>4 DEF Retold
<1>6. Frees(k.hdr) \ {b} = F
  BY <1>1, <1>5 DEF Frees
<1>7. k.used = Admin + Bytes(k.hdr, H)
  <2>1. \A x \in H : k.hdr[x].size = h.hdr[x].size
    BY <1>2, <1>5
  <2>2. Blocks(k.hdr) /\ H \subseteq DOMAIN k.hdr \ {End}
    BY <1>2, <1>4, <1>5
  <2>3. Bytes(k.hdr, H) = Bytes(h.hdr, H)
    BY <2>1, <2>2, CountSame
  <2>. QED BY <1>2, <1>5, <2>3
<1>8. TaggedBut(k.hdr, b)
  BY <1>4 DEF Tagged, TaggedBut
<1>9. ~k.hdr[NextIn(k.hdr, b)].free
  <2>1. NextIn(k.hdr, b) = NextIn(h.hdr, b) /\ NextIn(h.hdr, b) \in DOMAIN h.hdr
    BY <1>2, <1>5, BlockFacts DEF NextIn
  <2>. QED BY <1>2, <1>5, <2>1
<1>10. b \in DOMAIN k.hdr \ {End} /\ H \subseteq DOMAIN k.hdr \ {b, End} /\ F = DOMAIN k.hdr \ (H \cup {b, End})
  BY <1>2, <1>5
<1>11. Ready(k, b, H)
  BY <1>4, <1>6, <1>7, <1>8, <1>9, <1>10 DEF Ready
<1>. QED BY <1>2, <1>4, <1>5, <1>11 DEF SameSizes, Grown

\* What is left of the block after its first bytes, if it is enough for a block.
LEMMA TrimMade ==
    ASSUME NEW h, NEW b, NEW H, Ready(h, b, H), NEW size \in Nat, MinBlock <= size, size <= h.hdr[b].size,
           CanSplit(h, b, size) \/ (Tagged(h.hdr) /\ ~h.hdr[b].free),
           NEW g, g = Trim(h, b, size)
    PROVE  Made(h, g, b, size)
<1>1. CASE CanSplit(h, b, size)
  <2>1. g = SplitBlock(h, b, size)
    BY <1>1 DEF Trim
  <2>. QED BY <1>1, <2>1, SplitAllotted
<1>2. CASE ~CanSplit(h, b, size)
  <2>1. g = h
    BY <1>2 DEF Trim
  <2>. QED BY <1>2, <2>1, WholeAllotted
<1>. QED BY <1>1, <1>2

\* What callers see when the block stays where it is.
LEMMA TrimGrants ==
    ASSUME NEW h, NEW H, HeapInv(h, H), NEW b \in H, NEW size \in Nat, MinBlock <= size,
           NEW g, Ready(g, b, H \ {b}), size <= g.hdr[b].size, SameSizes(h, g, H \ {b}),
           CanSplit(g, b, size) \/ (Tagged(g.hdr) /\ ~g.hdr[b].free),
           NEW result, result = [heap |-> AddSize(Trim(g, b, size), b), ptr |-> b]
    PROVE  Granted(h, H \ {b}, size, result)
<1>1. PICK G : G = H \ {b}
  OBVIOUS
<1>2. PICK j : j = Trim(g, b, size)
  OBVIOUS
<1>3. PICK k : k = AddSize(j, b)
  OBVIOUS
<1>4. result.heap = k /\ result.ptr = b
  BY <1>2, <1>3
<1>5. Ready(g, b, G)
  BY <1>1
<1>6. Made(g, j, b, size)
  BY <1>2, <1>5, TrimMade
<1>7. /\ HeapInv(k, G \cup {b}) /\ b \notin G /\ size <= k.hdr[b].size
      /\ \A x \in G : k.hdr[x].size = g.hdr[x].size
  BY <1>3, <1>5, <1>6, FinishKeeps
<1>8. \A x \in G : k.hdr[x].size = h.hdr[x].size
  BY <1>1, <1>7 DEF SameSizes
<1>9. b # Null
  <2>1. b \in Nat
    BY HeaderFacts DEF HeapInv
  <2>. QED BY <2>1 DEF Null
<1>. QED BY <1>1, <1>4, <1>7, <1>8, <1>9 DEF Granted

\* realloc_ex, a request that the block already holds.
LEMMA ReallocShrinks ==
    ASSUME NEW h, NEW H, HeapInv(h, H), NEW b \in H, NEW size \in Nat, MinBlock <= size,
           size <= h.hdr[b].size,
           NEW g, g = JoinNext(RemoveSize(h, b), b)
    PROVE  /\ Ready(g, b, H \ {b}) /\ size <= g.hdr[b].size /\ SameSizes(h, g, H \ {b})
           /\ CanSplit(g, b, size) \/ (Tagged(g.hdr) /\ ~g.hdr[b].free)
<1>1. PICK n : n = NextIn(h.hdr, b)
  OBVIOUS
<1>2. PICK h1 : h1 = RemoveSize(h, b)
  OBVIOUS
<1>3. h1.hdr = h.hdr
  BY <1>2, RemoveSizeFields DEF HeapInv
<1>4. /\ b \in DOMAIN h.hdr \ {End} /\ h.hdr[b].size \in Nat /\ n \in DOMAIN h.hdr /\ h.hdr[n].size \in Nat
      /\ Overhead \in Nat /\ MinBlock \in Nat
  BY <1>1, HeaderFacts, BlockFacts, TableFacts DEF HeapInv
<1>5. CASE h.hdr[n].free
  <2>1. PICK e : e = ExtractBlock(h1, n)
    OBVIOUS
  <2>2. g = Absorb(e, b, n)
    BY <1>1, <1>2, <1>3, <1>5, <2>1 DEF JoinNext, Next_, NextIn
  <2>3. /\ Ready(g, b, H \ {b}) /\ ~g.hdr[b].free /\ SameSizes(h, g, H \ {b})
        /\ MinBlock <= h.hdr[n].size /\ g.hdr[b].size = h.hdr[b].size + h.hdr[n].size + Overhead
    <3>1. Joined(h, g, b, n, H)
      BY <1>1, <1>2, <1>5, <2>1, <2>2, JoinTaken
    <3>. QED BY <3>1 DEF Joined
  <2>4. size <= g.hdr[b].size /\ CanSplit(g, b, size)
    BY <1>4, <2>3 DEF CanSplit, SizeofBhdr
  <2>. QED BY <2>3, <2>4
<1>6. CASE ~h.hdr[n].free
  <2>1. g = h1
    BY <1>1, <1>2, <1>3, <1>6 DEF JoinNext, Next_, NextIn
  <2>. QED BY <1>1, <1>2, <1>6, <2>1, JoinNot
<1>. QED BY <1>5, <1>6

\* realloc_ex, a request that the block and the free one after it hold.
LEMMA ReallocGrows ==
    ASSUME NEW h, NEW H, HeapInv(h, H), NEW b \in H, NEW size \in Nat, ReallocFits(h, b, size),
           NEW g, g = JoinNext(RemoveSize(h, b), b)
    PROVE  /\ Ready(g, b, H \ {b}) /\ ~g.hdr[b].free /\ SameSizes(h, g, H \ {b})
           /\ size <= g.hdr[b].size
<1>1. PICK n : n = NextIn(h.hdr, b)
  OBVIOUS
<1>2. PICK h1 : h1 = RemoveSize(h, b)
  OBVIOUS
<1>3. h1.hdr = h.hdr
  BY <1>2, RemoveSizeFields DEF HeapInv
<1>4. /\ b \in DOMAIN h.hdr \ {End} /\ h.hdr[b].size \in Nat /\ n \in DOMAIN h.hdr /\ h.hdr[n].size \in Nat
      /\ Overhead \in Nat
  BY <1>1, HeaderFacts, BlockFacts, TableFacts DEF HeapInv
<1>5. h.hdr[n].free /\ size <= h.hdr[b].size + h.hdr[n].size
  BY <1>1 DEF ReallocFits, Next_, NextIn
<1>6. PICK e : e = ExtractBlock(h1, n)
  OBVIOUS
<1>7. g = Absorb(e, b, n)
  BY <1>1, <1>2, <1>3, <1>5, <1>6 DEF JoinNext, Next_, NextIn
<1>8. Joined(h, g, b, n, H)
  BY <1>1, <1>2, <1>5, <1>6, <1>7, JoinTaken
<1>9. size <= g.hdr[b].size
  BY <1>4, <1>5, <1>8 DEF Joined
<1>. QED BY <1>8, <1>9 DEF Joined

\* realloc_ex writes the header after the larger block.
LEMMA ReallocMarks ==
    ASSUME NEW g, NEW b, NEW G, Ready(g, b, G), ~g.hdr[b].free,
           NEW k, k = [g EXCEPT !.hdr = LinkBack(@, Next_(g, b), FALSE, Null)]
    PROVE  Grown(g, k, b, G)
<1>1. PICK m : m = NextIn(g.hdr, b)
  OBVIOUS
<1>2. PICK isFree \in BOOLEAN : isFree = FALSE
  OBVIOUS
<1>3. PICK p \in Int : p = Null
  BY DEF Null
<1>4. PICK he : he = LinkBack(g.hdr, m, isFree, p)
  OBVIOUS
<1>5. WithHeaders(g, k, he)
  <2>1. IsHeap(g)
    BY DEF Ready, Listed, HeapLists
  <2>2. k = [g EXCEPT !.hdr = he]
    BY <1>1, <1>2, <1>3, <1>4, <2>1 DEF IsHeap, Next_, NextIn
  <2>. QED BY <2>1, <2>2, PutWithHeaders
<1>6. ~isFree
  BY <1>2
<1>. QED BY <1>1, <1>4, <1>5, <1>6, GrownReady

\* realloc_ex, a request that needs another block: malloc, copy and free.
LEMMA ReallocMoves ==
    ASSUME NEW h, NEW H, HeapInv(h, H), NEW b \in H, NEW size \in Nat, Adjusted(size) = size, Fits(size),
           NEW moved, moved = MallocEx(h, size),
           NEW result, result = IF moved.ptr = Null THEN moved ELSE [moved EXCEPT !.heap = FreeEx(@, b)]
    PROVE  Refused(h, size, result) \/ Granted(h, H \ {b}, size, result)
<1>1. Refused(h, size, moved) \/ Granted(h, H, size, moved)
  BY MallocKeeps
<1>2. CASE Refused(h, size, moved)
  BY <1>2 DEF Refused
<1>3. CASE Granted(h, H, size, moved)
  <2>1. PICK p : p = moved.ptr
    OBVIOUS
  <2>2. PICK g : g = moved.heap
    OBVIOUS
  <2>3. /\ p # Null /\ p \notin H /\ HeapInv(g, H \cup {p}) /\ size <= g.hdr[p].size
        /\ \A x \in H : g.hdr[x].size = h.hdr[x].size
    BY <1>3, <2>1, <2>2 DEF Granted
  <2>4. PICK k : k = FreeEx(g, b)
    OBVIOUS
  <2>5. HeapInv(k, (H \cup {p}) \ {b}) /\ SameSizes(g, k, (H \cup {p}) \ {b})
    BY <2>3, <2>4, FreeKeeps
  <2>6. moved = [heap |-> g, ptr |-> p]
    <3>1. \E x, y : moved = [heap |-> x, ptr |-> y]
      BY DEF MallocEx
    <3>. QED BY <2>1, <2>2, <3>1
  <2>7. result = [heap |-> k, ptr |-> p]
    BY <2>3, <2>4, <2>6
  <2>8. result.heap = k /\ result.ptr = p
    BY <2>7
  <2>9. /\ (H \cup {p}) \ {b} = (H \ {b}) \cup {p}
        /\ p \in (H \cup {p}) \ {b} /\ H \ {b} \subseteq (H \cup {p}) \ {b}
    BY <2>3
  <2>10. k.hdr[p].size = g.hdr[p].size /\ \A x \in H \ {b} : k.hdr[x].size = h.hdr[x].size
    BY <2>3, <2>5, <2>9 DEF SameSizes
  <2>. QED BY <2>3, <2>5, <2>8, <2>9, <2>10 DEF Granted
<1>. QED BY <1>1, <1>2, <1>3

\* realloc_ex keeps the heap well formed, whether it grants the request or not.
LEMMA ReallocKeeps ==
    ASSUME NEW h, NEW H, HeapInv(h, H), NEW b \in H, NEW request \in Nat, Fits(Adjusted(request)),
           NEW result, result = ReallocEx(h, b, request)
    PROVE  Refused(h, Adjusted(request), result) \/ Granted(h, H \ {b}, Adjusted(request), result)
<1>1. PICK size : size = Adjusted(request)
  OBVIOUS
<1>2. size \in Nat /\ MinBlock <= size /\ MinBlock \in Nat
  BY <1>1, AdjustedFacts, TableFacts
<1>3. PICK joined : joined = JoinNext(RemoveSize(h, b), b)
  OBVIOUS
<1>4. PICK grown : grown = [joined EXCEPT !.hdr = LinkBack(@, Next_(joined, b), FALSE, Null)]
  OBVIOUS
<1>5. CASE size <= h.hdr[b].size
  <2>1. result = [heap |-> AddSize(Trim(joined, b, size), b), ptr |-> b]
    BY <1>1, <1>3, <1>5 DEF ReallocEx
  <2>2. /\ Ready(joined, b, H \ {b}) /\ size <= joined.hdr[b].size /\ SameSizes(h, joined, H \ {b})
        /\ CanSplit(joined, b, size) \/ (Tagged(joined.hdr) /\ ~joined.hdr[b].free)
    BY <1>2, <1>3, <1>5, ReallocShrinks
  <2>. QED BY <1>1, <1>2, <2>1, <2>2, TrimGrants
<1>6. CASE ~(size <= h.hdr[b].size) /\ ReallocFits(h, b, size)
  <2>1. result = [heap |-> AddSize(Trim(grown, b, size), b), ptr |-> b]
    BY <1>1, <1>3, <1>4, <1>6 DEF ReallocEx
  <2>2. /\ Ready(joined, b, H \ {b}) /\ ~joined.hdr[b].free /\ SameSizes(h, joined, H \ {b})
        /\ size <= joined.hdr[b].size
    BY <1>2, <1>3, <1>6, ReallocGrows
  <2>3. Grown(joined, grown, b, H \ {b})
    BY <1>4, <2>2, ReallocMarks
  <2>4. /\ Ready(grown, b, H \ {b}) /\ size <= grown.hdr[b].size /\ SameSizes(h, grown, H \ {b})
        /\ Tagged(grown.hdr) /\ ~grown.hdr[b].free
    BY <2>2, <2>3 DEF Grown, SameSizes
  <2>. QED BY <1>1, <1>2, <2>1, <2>4, TrimGrants
<1>7. CASE ~(size <= h.hdr[b].size) /\ ~ReallocFits(h, b, size)
  <2>1. PICK moved : moved = MallocEx(h, size)
    OBVIOUS
  <2>2. result = IF moved.ptr = Null THEN moved ELSE [moved EXCEPT !.heap = FreeEx(@, b)]
    BY <1>1, <1>7, <2>1 DEF ReallocEx
  <2>3. MinBlock <= request
    <3>1. MinBlock <= h.hdr[b].size /\ h.hdr[b].size \in Nat
      BY BlockFacts, HeaderFacts DEF HeapInv
    <3>2. size # MinBlock
      BY <1>2, <1>7, <3>1
    <3>. QED BY <1>1, <1>2, <3>2 DEF Adjusted
  <2>4. Adjusted(size) = size /\ Fits(size)
    BY <1>1, <2>3, AdjustedFacts
  <2>. QED BY <1>1, <1>2, <2>1, <2>2, <2>4, ReallocMoves
<1>. QED BY <1>5, <1>6, <1>7

\* The inductive invariant: the heap is well formed for the blocks that callers hold, each
\* of which is large enough for its last request; no free block fits a refused request.
PoolIInv ==
    /\ HeapInv(heap, Held)
    /\ asked \in [Held -> Sizes] /\ LargeEnough
    /\ refused \in Nat /\ RefusedOnlyWhenFull

\* The variables are the fields of the heap.
LEMMA HeapState ==
    /\ heap.hdr = hdr /\ heap.matrix = matrix /\ heap.fl = fl /\ heap.sl = sl /\ heap.used = used
    /\ IsHeap(heap)
  BY DEF heap, IsHeap

\* The variables after a step are the fields of the heap it computes.
LEMMA HeapNext ==
    ASSUME NEW g, IsHeap(g), Becomes(g)
    PROVE  heap' = g
  BY DEF heap, IsHeap, Becomes

\* A refused request keeps the inductive invariant: there was no room for it.
LEMMA StepRefused ==
    ASSUME PoolIInv, NEW request \in Sizes, NEW result, Refused(heap, Adjusted(request), result),
           Becomes(result.heap), Refuse(result, request), asked' = asked
    PROVE  PoolIInv'
<1>1. PICK size : size = Adjusted(request)
  OBVIOUS
<1>2. result.ptr = Null /\ result.heap = heap /\ IsHeap(heap)
  BY HeapState DEF Refused
<1>3. heap' = heap
  BY <1>2, HeapNext
<1>4. hdr' = hdr /\ Held' = Held
  BY <1>2, HeapState DEF Becomes, Held
<1>5. refused' = MappingSearch(size).size
  BY <1>1, <1>2 DEF Refuse
<1>6. refused' \in Nat
  <2>1. request \in Nat
    BY TlsfAssumption
  <2>2. size \in Nat /\ size % Width = 0 /\ 2 * size + 2 <= Bit[MaxFli]
    BY <1>1, <2>1, AdjustedFacts DEF Fits
  <2>3. PICK s : s = MappingSearch(size)
    OBVIOUS
  <2>4. s.size \in Nat
    BY <2>2, <2>3, SearchClass
  <2>. QED BY <1>5, <2>3, <2>4
<1>7. \A b \in DOMAIN hdr : hdr[b].free => hdr[b].size < refused'
  BY <1>1, <1>5, HeapState DEF Refused
<1>8. RefusedOnlyWhenFull'
  BY <1>4, <1>7 DEF RefusedOnlyWhenFull
<1>9. LargeEnough'
  BY <1>4 DEF PoolIInv, LargeEnough
<1>10. HeapInv(heap', Held')
  BY <1>3, <1>4 DEF PoolIInv
<1>11. asked' \in [Held' -> Sizes]
  BY <1>4 DEF PoolIInv
<1>. QED BY <1>6, <1>8, <1>9, <1>10, <1>11 DEF PoolIInv

\* A granted request keeps the inductive invariant.
LEMMA StepGranted ==
    ASSUME PoolIInv, NEW request \in Sizes, NEW G, G \subseteq Held, NEW result,
           Granted(heap, G, Adjusted(request), result),
           Becomes(result.heap), Refuse(result, request),
           asked' = With([x \in G |-> asked[x]], result.ptr, request)
    PROVE  PoolIInv'
<1>1. PICK size : size = Adjusted(request)
  OBVIOUS
<1>2. PICK p : p = result.ptr
  OBVIOUS
<1>3. PICK g : g = result.heap
  OBVIOUS
<1>4. /\ p # Null /\ p \notin G /\ HeapInv(g, G \cup {p}) /\ size <= g.hdr[p].size
      /\ \A x \in G : g.hdr[x].size = heap.hdr[x].size
  BY <1>1, <1>2, <1>3 DEF Granted
<1>5. IsHeap(g)
  BY <1>4 DEF HeapInv, Listed, HeapLists
<1>6. heap' = g /\ hdr' = g.hdr
  BY <1>3, <1>5, HeapNext DEF Becomes
<1>7. /\ DOMAIN asked' = G \cup {p} /\ asked'[p] = request
      /\ \A x \in G : asked'[x] = asked[x]
  BY <1>2, <1>4 DEF With
<1>8. asked' = [x \in G \cup {p} |-> asked'[x]]
  BY <1>2 DEF With
<1>9. \A x \in Held : asked[x] \in Sizes
  BY DEF PoolIInv
<1>10. asked' \in [G \cup {p} -> Sizes]
  <2>1. \A x \in G \cup {p} : asked'[x] \in Sizes
    BY <1>7, <1>9
  <2>. QED BY <1>8, <2>1
<1>11. Held' = G \cup {p}
  BY <1>7 DEF Held
<1>12. g.hdr[p].size >= request
  <2>1. request \in Nat
    BY TlsfAssumption
  <2>2. size \in Nat /\ request <= size
    BY <1>1, <2>1, AdjustedFacts
  <2>3. g.hdr[p].size \in Nat
    BY <1>4, HeaderFacts DEF HeapInv
  <2>. QED BY <1>4, <2>1, <2>2, <2>3
<1>13. \A x \in G : g.hdr[x].size >= asked[x]
  <2>1. \A x \in G : heap.hdr[x].size >= asked[x]
    BY HeapState DEF PoolIInv, LargeEnough
  <2>. QED BY <1>4, <2>1
<1>14. \A x \in G \cup {p} : hdr'[x].size >= asked'[x]
  BY <1>6, <1>7, <1>12, <1>13
<1>15. LargeEnough'
  BY <1>11, <1>14 DEF LargeEnough
<1>16. refused' = 0
  BY <1>2, <1>4 DEF Refuse
<1>17. RefusedOnlyWhenFull' /\ refused' \in Nat
  BY <1>16 DEF RefusedOnlyWhenFull
<1>18. HeapInv(heap', Held') /\ asked' \in [Held' -> Sizes]
  BY <1>4, <1>6, <1>10, <1>11
<1>. QED BY <1>15, <1>17, <1>18 DEF PoolIInv

\* A free keeps the inductive invariant.
LEMMA StepFree ==
    ASSUME PoolIInv, NEW b \in Held, Free(b)
    PROVE  PoolIInv'
<1>1. PICK g : g = FreeEx(heap, b)
  OBVIOUS
<1>2. PICK G : G = Held \ {b}
  OBVIOUS
<1>3. HeapInv(g, G) /\ SameSizes(heap, g, G)
  BY <1>1, <1>2, FreeKeeps DEF PoolIInv
<1>4. IsHeap(g)
  BY <1>3 DEF HeapInv, Listed, HeapLists
<1>5. heap' = g /\ hdr' = g.hdr
  BY <1>1, <1>4, HeapNext DEF Becomes, Free
<1>6. asked' = [x \in G |-> asked[x]]
  BY <1>2 DEF Free
<1>7. Held' = G /\ \A x \in G : asked'[x] = asked[x]
  BY <1>6 DEF Held
<1>8. asked' \in [G -> Sizes]
  BY <1>2, <1>6 DEF PoolIInv
<1>9. \A x \in G : g.hdr[x].size >= asked[x]
  BY <1>2, <1>3, HeapState DEF PoolIInv, LargeEnough, SameSizes
<1>10. LargeEnough'
  BY <1>5, <1>7, <1>9 DEF LargeEnough
<1>11. RefusedOnlyWhenFull' /\ refused' \in Nat
  BY DEF Free, RefusedOnlyWhenFull
<1>. QED BY <1>3, <1>5, <1>7, <1>8, <1>10, <1>11 DEF PoolIInv

\* A malloc keeps the inductive invariant.
LEMMA StepMalloc ==
    ASSUME PoolIInv, NEW request \in Sizes, Malloc(request)
    PROVE  PoolIInv'
<1>1. PICK result : result = MallocEx(heap, request)
  OBVIOUS
<1>2. request \in Nat /\ Fits(Adjusted(request))
  BY TlsfAssumption, AdjustedFacts
<1>3. /\ Becomes(result.heap) /\ Refuse(result, request)
      /\ asked' = IF result.ptr = Null THEN asked ELSE With(asked, result.ptr, request)
  BY <1>1 DEF Malloc
<1>4. asked = [x \in Held |-> asked[x]]
  BY DEF PoolIInv
<1>5. HeapInv(heap, Held)
  BY DEF PoolIInv
<1>6. Refused(heap, Adjusted(request), result) \/ Granted(heap, Held, Adjusted(request), result)
  BY <1>1, <1>2, <1>5, MallocKeeps
<1>7. CASE Refused(heap, Adjusted(request), result)
  <2>1. asked' = asked
    BY <1>3, <1>7 DEF Refused
  <2>. QED BY <1>3, <1>7, <2>1, StepRefused
<1>8. CASE Granted(heap, Held, Adjusted(request), result)
  <2>1. asked' = With([x \in Held |-> asked[x]], result.ptr, request)
    BY <1>3, <1>4, <1>8 DEF Granted
  <2>. QED BY <1>3, <1>8, <2>1, StepGranted
<1>. QED BY <1>6, <1>7, <1>8

\* A realloc keeps the inductive invariant.
LEMMA StepRealloc ==
    ASSUME PoolIInv, NEW b \in Held, NEW request \in Sizes, Realloc(b, request)
    PROVE  PoolIInv'
<1>1. PICK result : result = ReallocEx(heap, b, request)
  OBVIOUS
<1>2. request \in Nat /\ Fits(Adjusted(request))
  BY TlsfAssumption, AdjustedFacts
<1>3. PICK G : G = Held \ {b}
  OBVIOUS
<1>4. /\ Becomes(result.heap) /\ Refuse(result, request)
      /\ asked' = IF result.ptr = Null THEN asked ELSE With([x \in G |-> asked[x]], result.ptr, request)
  BY <1>1, <1>3 DEF Realloc
<1>5. HeapInv(heap, Held)
  BY DEF PoolIInv
<1>6. Refused(heap, Adjusted(request), result) \/ Granted(heap, G, Adjusted(request), result)
  BY <1>1, <1>2, <1>3, <1>5, ReallocKeeps
<1>7. CASE Refused(heap, Adjusted(request), result)
  <2>1. asked' = asked
    BY <1>4, <1>7 DEF Refused
  <2>. QED BY <1>4, <1>7, <2>1, StepRefused
<1>8. CASE Granted(heap, G, Adjusted(request), result)
  <2>1. asked' = With([x \in G |-> asked[x]], result.ptr, request)
    BY <1>4, <1>8 DEF Granted
  <2>2. G \subseteq Held
    BY <1>3
  <2>. QED BY <1>4, <1>8, <2>1, <2>2, StepGranted
<1>. QED BY <1>6, <1>7, <1>8

\* The whole area has a class.
LEMMA ClassOfArea == MappingInsert(AreaSize) \in Classes
<1>1. AreaSize \in Nat /\ Align \in Nat \ {0} /\ MaxFli \in 0 .. MaxFli
  BY TableFacts
<1>2. Bit[MaxFli] \in Nat /\ 2 * (AreaSize + Align) <= Bit[MaxFli]
  BY <1>1, BitNumbers, TlsfAssumption
<1>. QED BY <1>1, <1>2, ClassIn

\* The headers of init_memory_pool: one free block and the last header.
LEMMA InitHeaders ==
    ASSUME NEW hd, hd = [b \in {0, End} |->
               IF b = 0 THEN [size |-> AreaSize, free |-> TRUE, prevFree |-> FALSE, prev |-> Null]
               ELSE [size |-> 0, free |-> FALSE, prevFree |-> TRUE, prev |-> 0]]
    PROVE  /\ Blocks(hd) /\ Tagged(hd) /\ DOMAIN hd = {0, End} /\ Frees(hd) = {0}
           /\ hd[0].size = AreaSize
<1>1. End \in Nat /\ End # 0 /\ End = Overhead + AreaSize
  BY EndFacts
<1>2. AreaSize \in Nat /\ Overhead \in Nat /\ MinBlock <= AreaSize /\ Null \in Int
  BY TableFacts, TlsfAssumption DEF Null
<1>3. /\ DOMAIN hd = {0, End}
      /\ hd[0] = [size |-> AreaSize, free |-> TRUE, prevFree |-> FALSE, prev |-> Null]
      /\ hd[End] = [size |-> 0, free |-> FALSE, prevFree |-> TRUE, prev |-> 0]
  BY <1>1
<1>4. hd[0] \in Headers /\ hd[End] \in Headers
  BY <1>2, <1>3 DEF Headers
<1>5. hd \in [DOMAIN hd -> Headers]
  <2>1. \A x \in DOMAIN hd : hd[x] \in Headers
    BY <1>3, <1>4
  <2>2. hd = [x \in DOMAIN hd |-> hd[x]]
    OBVIOUS
  <2>. QED BY <2>1, <2>2
<1>6. hd[0].size = AreaSize /\ hd[0].free /\ ~hd[0].prevFree
  BY <1>3
<1>7. hd[End].size = 0 /\ ~hd[End].free /\ hd[End].prevFree /\ hd[End].prev = 0
  BY <1>3
<1>8. NextIn(hd, 0) = End
  BY <1>1, <1>2, <1>6 DEF NextIn
<1>9. Blocks(hd)
  <2>1. DOMAIN hd \subseteq 0 .. End /\ 0 \in DOMAIN hd /\ End \in DOMAIN hd /\ hd[End].size = 0
    BY <1>1, <1>3, <1>7
  <2>2. ASSUME NEW b \in DOMAIN hd \ {End}
        PROVE  /\ MinBlock <= hd[b].size /\ NextIn(hd, b) \in DOMAIN hd
               /\ \A x \in DOMAIN hd : b < x => NextIn(hd, b) <= x
    <3>1. b = 0 /\ NextIn(hd, b) = End /\ hd[b].size = AreaSize
      BY <1>3, <1>6, <1>8
    <3>2. \A x \in DOMAIN hd : 0 < x => End <= x
      BY <1>1, <1>3
    <3>. QED BY <1>2, <2>1, <3>1, <3>2
  <2>. QED BY <1>5, <2>1, <2>2 DEF Blocks
<1>10. Tagged(hd)
  <2>1. PrevTrue(hd, 0)
    <3>1. hd[0].free \in BOOLEAN /\ hd[End].prevFree \in BOOLEAN
      BY <1>3
    <3>. QED BY <1>6, <1>7, <1>8, <3>1 DEF PrevTrue
  <2>2. Apart(hd, 0)
    BY <1>7, <1>8 DEF Apart
  <2>3. Ends(hd)
    BY <1>6, <1>7 DEF Ends
  <2>. QED BY <1>1, <1>3, <2>1, <2>2, <2>3 DEF Tagged
<1>11. Frees(hd) = {0}
  BY <1>1, <1>3, <1>6, <1>7 DEF Frees
<1>. QED BY <1>3, <1>6, <1>9, <1>10, <1>11

\* The list of a heap with one free block.
OneBlock == <<0>>

\* The lists of init_memory_pool: the free block is in the list of its class.
LEMMA InitLists ==
    ASSUME NEW class \in Classes, NEW K, K = [c \in Classes |-> {b \in {0} : class = c}],
           NEW q, q = OneBlock, NEW mx, mx = [c \in Classes |-> IF c = class THEN q ELSE <<>>],
           NEW f, f = {class[1]},
           NEW s, s = [i \in 0 .. MaxFl |-> IF i = class[1] THEN {class[2]} ELSE {}]
    PROVE  ListsOf(mx, f, s, K)
<1>1. /\ class[1] \in 0 .. MaxFl /\ class[2] \in 0 .. MaxSli - 1 /\ class = <<class[1], class[2]>>
  BY ClassFacts
<1>2. q \in Seq(Int) /\ <<>> \in Seq(Int) /\ q # <<>>
  BY DEF OneBlock
<1>3. Range(q) = {0} /\ IsInjective(q)
  BY DEF OneBlock, Range, IsInjective
<1>4. Range(<<>>) = {} /\ IsInjective(<<>>)
  BY DEF Range, IsInjective
<1>5. mx \in [Classes -> Seq(Int)]
  BY <1>2
<1>6. s \in [0 .. MaxFl -> SUBSET (0 .. MaxSli - 1)]
  BY <1>1
<1>7. ASSUME NEW c \in Classes
      PROVE  Range(mx[c]) = K[c] /\ IsInjective(mx[c]) /\ (c[2] \in s[c[1]] <=> mx[c] # <<>>)
  <2>1. c[1] \in 0 .. MaxFl /\ c = <<c[1], c[2]>>
    BY ClassFacts
  <2>2. CASE c = class
    <3>1. mx[c] = q /\ K[c] = {0} /\ c[2] \in s[c[1]]
      BY <1>1, <2>2
    <3>. QED BY <1>2, <1>3, <3>1
  <2>3. CASE c # class
    <3>1. mx[c] = <<>> /\ K[c] = {}
      BY <2>3
    <3>2. c[2] \notin s[c[1]]
      BY <1>1, <2>1, <2>3
    <3>. QED BY <1>4, <3>1, <3>2
  <2>. QED BY <2>2, <2>3
<1>8. f \subseteq 0 .. MaxFl /\ \A i \in 0 .. MaxFl : i \in f <=> s[i] # {}
  BY <1>1
<1>. QED BY <1>5, <1>6, <1>7, <1>8 DEF ListsOf

\* init_memory_pool establishes the inductive invariant.
LEMMA PoolInit == TlsfInit => PoolIInv
<1>. SUFFICES ASSUME TlsfInit PROVE PoolIInv
  OBVIOUS
<1>1. PICK class \in Classes : class = MappingInsert(AreaSize)
  BY ClassOfArea
<1>2. /\ hdr = [b \in {0, End} |->
                  IF b = 0 THEN [size |-> AreaSize, free |-> TRUE, prevFree |-> FALSE, prev |-> Null]
                  ELSE [size |-> 0, free |-> FALSE, prevFree |-> TRUE, prev |-> 0]]
      /\ matrix = [c \in Classes |-> IF c = class THEN <<0>> ELSE <<>>]
      /\ fl = {class[1]}
      /\ sl = [f \in 0 .. MaxFl |-> IF f = class[1] THEN {class[2]} ELSE {}]
      /\ used = Admin /\ asked = [x \in {} |-> 0] /\ refused = 0
  BY <1>1 DEF TlsfInit
<1>3. /\ Blocks(hdr) /\ Tagged(hdr) /\ DOMAIN hdr = {0, End} /\ Frees(hdr) = {0} /\ hdr[0].size = AreaSize
  BY <1>2, InitHeaders
<1>4. PICK K : K = Kinds(hdr, {0})
  OBVIOUS
<1>5. K = [c \in Classes |-> {b \in {0} : class = c}]
  BY <1>1, <1>3, <1>4 DEF Kinds
<1>6. ListsOf(matrix, fl, sl, K)
  <2>1. PICK q : q = OneBlock
    OBVIOUS
  <2>2. matrix = [c \in Classes |-> IF c = class THEN q ELSE <<>>]
    BY <1>2, <2>1 DEF OneBlock
  <2>. QED BY <1>2, <1>5, <2>1, <2>2, InitLists
<1>7. Listed(heap, {0})
  <2>1. DOMAIN K = Classes
    BY <1>5
  <2>. QED BY <1>4, <1>6, <2>1, HeapState DEF Listed, HeapLists
<1>8. Held = {} /\ asked \in [Held -> Sizes]
  BY <1>2 DEF Held
<1>9. used = Admin + Bytes(hdr, {})
  <2>1. IsFiniteSet({})
    BY FS_EmptySet
  <2>2. Bytes(hdr, {}) = 0
    BY <2>1, BytesPicked
  <2>. QED BY <1>2, <2>2, TableFacts
<1>10. {0} = DOMAIN hdr \ ({} \cup {End})
  BY <1>3, EndFacts
<1>11. HeapInv(heap, {})
  BY <1>3, <1>7, <1>9, <1>10, HeapState DEF HeapInv
<1>12. LargeEnough /\ RefusedOnlyWhenFull /\ refused \in Nat
  BY <1>2, <1>8 DEF LargeEnough, RefusedOnlyWhenFull
<1>. QED BY <1>8, <1>11, <1>12 DEF PoolIInv

\* Every step keeps the inductive invariant.
LEMMA PoolStep == PoolIInv /\ [TlsfNext]_tlsfVars => PoolIInv'
<1>. SUFFICES ASSUME PoolIInv, [TlsfNext]_tlsfVars PROVE PoolIInv'
  OBVIOUS
<1>1. CASE \E request \in Sizes : Malloc(request)
  BY <1>1, StepMalloc
<1>2. CASE \E b \in Held : Free(b)
  BY <1>2, StepFree
<1>3. CASE \E b \in Held, request \in Sizes : Realloc(b, request)
  BY <1>3, StepRealloc
<1>4. CASE UNCHANGED tlsfVars
  <2>1. heap' = heap /\ Held' = Held /\ hdr' = hdr /\ asked' = asked /\ refused' = refused
    BY <1>4 DEF tlsfVars, heap, Held
  <2>2. LargeEnough' /\ RefusedOnlyWhenFull'
    BY <2>1 DEF PoolIInv, LargeEnough, RefusedOnlyWhenFull
  <2>. QED BY <2>1, <2>2 DEF PoolIInv
<1>. QED BY <1>1, <1>2, <1>3, <1>4 DEF TlsfNext

\* The inductive invariant implies the types.
LEMMA PoolTypes == PoolIInv => TlsfTypeOK
<1>. SUFFICES ASSUME PoolIInv PROVE TlsfTypeOK
  OBVIOUS
<1>1. /\ Blocks(hdr) /\ Held \subseteq DOMAIN hdr \ {End} /\ used = Admin + Bytes(hdr, Held)
      /\ Listed(heap, Frees(hdr))
  BY HeapState DEF PoolIInv, HeapInv
<1>2. AreaSize \in Nat /\ Admin \in Nat /\ Overhead \in Nat /\ End = Overhead + AreaSize
  BY TableFacts, EndFacts
<1>3. ASSUME NEW b \in DOMAIN hdr PROVE hdr[b].size \in 0 .. AreaSize
  <2>1. hdr[b].size \in Nat
    BY <1>1, HeaderFacts
  <2>2. b = End => hdr[b].size = 0
    BY <1>1 DEF Blocks
  <2>3. b # End => hdr[b].size <= AreaSize
    BY <1>1, BlockFacts
  <2>. QED BY <1>2, <2>1, <2>2, <2>3
<1>4. DOMAIN matrix = Classes /\ fl \subseteq 0 .. MaxFl
  BY <1>1, HeapState DEF Listed, HeapLists, ListsOf
<1>5. used \in 0 .. Admin + AreaSize + Overhead
  <2>1. Bytes(hdr, Held) \in Nat /\ Bytes(hdr, Held) <= End
    BY <1>1, BytesBound
  <2>. QED BY <1>1, <1>2, <2>1
<1>. QED BY <1>3, <1>4, <1>5 DEF TlsfTypeOK

\* The blocks cover the area, without a gap or an overlap.
LEMMA PoolTiled == PoolIInv => Tiled
<1>. SUFFICES ASSUME PoolIInv PROVE Tiled
  OBVIOUS
<1>1. /\ Blocks(hdr) /\ Held \subseteq DOMAIN hdr \ {End} /\ Frees(hdr) = DOMAIN hdr \ (Held \cup {End})
  BY HeapState DEF PoolIInv, HeapInv
<1>2. {0, End} \subseteq DOMAIN hdr
  BY <1>1 DEF Blocks
<1>3. ASSUME NEW b \in DOMAIN hdr \ {End}
      PROVE  Next_(heap, b) \in DOMAIN hdr /\ \A x \in DOMAIN hdr : x > b => x >= Next_(heap, b)
  <2>1. Next_(heap, b) = NextIn(hdr, b)
    BY HeapState DEF Next_, NextIn
  <2>2. NextIn(hdr, b) \in DOMAIN hdr /\ \A x \in DOMAIN hdr : b < x => NextIn(hdr, b) <= x
    BY <1>1 DEF Blocks
  <2>3. NextIn(hdr, b) \in Nat /\ b \in Nat /\ \A x \in DOMAIN hdr : x \in Nat
    BY <1>1, HeaderFacts
  <2>. QED BY <2>1, <2>2, <2>3
<1>4. {b \in DOMAIN hdr : ~hdr[b].free} = Held \cup {End}
  BY <1>1, <1>2 DEF Frees
<1>. QED BY <1>2, <1>3, <1>4 DEF Tiled

\* No two neighbours are free, and a header tells whether the block before it is.
LEMMA PoolCoalesced == PoolIInv => Coalesced
<1>. SUFFICES ASSUME PoolIInv, NEW b \in DOMAIN hdr \ {End}
     PROVE  LET next == hdr[Next_(heap, b)]
            IN  /\ next.prevFree = hdr[b].free
                /\ hdr[b].free => next.prev = b /\ ~next.free
  BY DEF Coalesced
<1>1. PrevTrue(hdr, b) /\ Apart(hdr, b)
  BY HeapState DEF PoolIInv, HeapInv, Tagged
<1>2. Next_(heap, b) = NextIn(hdr, b)
  BY HeapState DEF Next_, NextIn
<1>. QED BY <1>1, <1>2 DEF PrevTrue, Apart

\* The lists and the bitmaps hold the free blocks, each in the list of its class.
LEMMA PoolLists == PoolIInv => ListsExact
<1>. SUFFICES ASSUME PoolIInv PROVE ListsExact
  OBVIOUS
<1>1. PICK K : K = Kinds(hdr, Frees(hdr))
  OBVIOUS
<1>2. ListsOf(matrix, fl, sl, K)
  BY <1>1, HeapState DEF PoolIInv, HeapInv, Listed, HeapLists
<1>3. \A c \in Classes : K[c] = {b \in DOMAIN hdr : hdr[b].free /\ MappingInsert(hdr[b].size) = c}
  BY <1>1 DEF Kinds, Frees
<1>. QED BY <1>2, <1>3 DEF ListsOf, ListsExact

\* used_size counts the blocks that callers hold.
LEMMA PoolUsed == PoolIInv => UsedExact
<1>. SUFFICES ASSUME PoolIInv PROVE UsedExact
  OBVIOUS
<1>1. used = Admin + Bytes(hdr, Held)
  BY HeapState DEF PoolIInv, HeapInv
<1>. QED BY <1>1 DEF UsedExact, Bytes, MapThenSumSet, MapThenFoldSet

\* The inductive invariant implies the safety invariant of the pool.
LEMMA PoolImplies == PoolIInv => PoolInv
  BY PoolTypes, PoolTiled, PoolCoalesced, PoolLists, PoolUsed DEF PoolInv

\* The inductive invariant holds of every state: malloc_ex, free_ex and realloc_ex keep the
\* blocks, headers, lists and count of the heap in agreement.
THEOREM PoolIInvCorrect == TlsfSpec => []PoolIInv
  BY PoolInit, PoolStep, PTL DEF TlsfSpec

\* malloc_ex, free_ex and realloc_ex keep the pool: its blocks cover the area, no two
\* neighbours are free, the lists and bitmaps are exact, and used_size counts the blocks held.
THEOREM PoolInvCorrect == TlsfSpec => []PoolInv
  BY PoolIInvCorrect, PoolImplies, PTL

\* A block that malloc_ex or realloc_ex returned holds at least the bytes asked for.
THEOREM LargeEnoughCorrect == TlsfSpec => []LargeEnough
<1>1. PoolIInv => LargeEnough
  BY DEF PoolIInv
<1>. QED BY <1>1, PoolIInvCorrect, PTL

\* A request is refused only when no free block has the size that its class rounds up to.
THEOREM RefusedOnlyWhenFullCorrect == TlsfSpec => []RefusedOnlyWhenFull
<1>1. PoolIInv => RefusedOnlyWhenFull
  BY DEF PoolIInv
<1>. QED BY <1>1, PoolIInvCorrect, PTL

=============================================================================
