--------------------------- MODULE OscPacketProofs ---------------------------
(***************************************************************************)
(* The packets of OscPacket, for any type tags, any lengths of strings and *)
(* blobs, any number of messages and calls of (setf value), and any buffer *)
(* that they fit in.                                                       *)
(*                                                                         *)
(* The argument follows the words of a value.  In the output stream the    *)
(* values stand without a gap between the places of their message          *)
(* (Layout), so that the distance of two entries of a message in the index *)
(* is the size of a value, and a value that grows or shrinks moves all     *)
(* that is behind it by one distance.  Between two messages the index says *)
(* nothing of the size: there the words themselves do (Shaped).  A packet  *)
(* is a chain of messages behind the header (PacketOf), and what is left   *)
(* of a received bundle is the chain of the messages that are not received *)
(* yet (BundleLeft); to index a message swaps words of this message only.  *)
(***************************************************************************)
EXTENDS OscPacket, FiniteSetTheorems, SequenceTheorems, WellFoundedInduction, TLAPS

-----------------------------------------------------------------------------
(* The inductive invariant *)

TagSet == {"i", "s", "b"}
Tags == Seq({"i", "s", "b", "T"})

\* A sequence of anything.
IsSeq(s) == \E S : s \in Seq(S)

\* A buffer, whose length words have a length.
IsBuffer(b) ==
    /\ b = [p \in 0 .. Cap |-> b[p]]
    /\ \A p \in 0 .. Cap : b[p][1] = "len" => b[p][2] \in Nat

\* What the scan of a value relies on: a string ends at its first word with a
\* NUL, a blob with the words that its size says.
Shaped(tag, w) ==
    /\ IsSeq(w) /\ Len(w) >= 1
    /\ tag = "i" => Len(w) = 1
    /\ tag = "s" => /\ \A j \in 1 .. Len(w) - 1 : ~HasNul(w[j])
                    /\ HasNul(w[Len(w)]) /\ Swap(w[1]) = w[1]
    /\ tag = "b" => BlobWords(w[1], "net") = Len(w)
    /\ \A j \in 1 .. Len(w) : w[j][1] # "len"

\* The words w are in b from p on.
HasWords(b, p, w) == \A j \in 1 .. Len(w) : b[p + j - 1] = w[j]

\* The numbers of the values, of the messages, and of the words of a value.
TagCount == Len(tbuf)
MessageCount == Len(parts)
ValueWords(k) == Len(written[k])
ValueCount(m) == Len(Required(parts[m]))

\* The index: an entry per value and the free memory.
IndexInv ==
    /\ tbuf \in Seq(TagSet) /\ IsSeq(written) /\ Len(written) = TagCount
    /\ index \in Seq(Nat) /\ Len(index) = TagCount + 1
    /\ \A k \in DOMAIN tbuf : Shaped(tbuf[k], written[k])
    /\ \A k \in DOMAIN tbuf : HasWords(buf, index[k], written[k])
    /\ \A k, l \in DOMAIN index : k < l => index[k] + ValueWords(k) <= index[l]
    /\ index[Len(index)] = free

\* Message m begins at at[m] and has the values after the first first[m].
MessageParts(at, first) ==
    /\ at \in [1 .. MessageCount + 1 -> Nat] /\ at[1] = 0 /\ at[MessageCount + 1] = free
    /\ first \in [1 .. MessageCount + 1 -> 0 .. TagCount]
    /\ first[1] = 0 /\ first[MessageCount + 1] = TagCount
    /\ \A m, l \in 1 .. MessageCount + 1 : m < l => at[m] + 3 <= at[l] /\ first[m] <= first[l]
    /\ \A m \in 1 .. MessageCount : first[m + 1] = first[m] + ValueCount(m)

MessagePlaces(at, first) ==
    \A m \in 1 .. MessageCount :
        /\ buf[at[m] + 1] = <<"addr">> /\ buf[at[m] + 2] = <<"types", parts[m]>>
        /\ \A k \in 1 .. ValueCount(m) : tbuf[first[m] + k] = Required(parts[m])[k]
        /\ first[m + 1] = first[m] => at[m + 1] = at[m] + 3
        /\ first[m + 1] > first[m] => index[first[m] + 1] = at[m] + 3
        /\ \A k \in first[m] + 1 .. first[m + 1] :
              index[k] + ValueWords(k) = IF k < first[m + 1] THEN index[k + 1] ELSE at[m + 1]

\* The values of other messages are outside of a message.
Apart(at, first) ==
    \A m \in 1 .. MessageCount + 1, k \in DOMAIN tbuf :
        /\ k <= first[m] => index[k] + ValueWords(k) <= at[m]
        /\ k > first[m] => index[k] >= at[m] + 3

LengthWordsRight(at) ==
    \A m \in 1 .. MessageCount : buf[at[m]] = <<"len", at[m + 1] - at[m] - 1>>

Layout(at, first) ==
    /\ MessageParts(at, first) /\ MessagePlaces(at, first) /\ Apart(at, first)
    /\ ~build.lone => LengthWordsRight(at)

Begun == build.at \in {"values", "ready"}

ValuesInv(at, first) ==
    /\ build = [at |-> "values", next |-> build.next, more |-> build.more,
                offset |-> build.offset, lone |-> build.lone]
    /\ build.lone = single
    /\ build.more \in Nat /\ MessageCount + build.more <= MaxMessages
    /\ single => build.more = 0
    /\ build.next \in first[MessageCount] + 1 .. TagCount + 1
    /\ build.offset = IF MessageCount = 1 THEN 0 ELSE at[MessageCount] - 1
    /\ length = free - 1 \/ (MessageCount > 1 /\ length = build.offset)
    /\ \A k \in build.next .. TagCount : written[k] = Unset
    /\ \A p \in free .. Cap : buf[p] = Zero

ReadyInv ==
    /\ build = [at |-> "ready", bundle |-> build.bundle, lone |-> build.lone]
    /\ build.bundle \in BOOLEAN
    /\ length = free - 1
    /\ build.bundle => bundleLen = length + Reserved
    /\ build.lone \/ ~build.bundle => single

BegunInv(at, first) ==
    /\ Layout(at, first)
    /\ free + Reserved <= Cap
    /\ MessageCount \in 1 .. MaxMessages
    /\ build.lone \in BOOLEAN
    /\ single => MessageCount = 1
    /\ build.at = "values" => ValuesInv(at, first)
    /\ build.at = "ready" => ReadyInv

OutputInv ==
    /\ IsBuffer(buf) /\ parts \in Seq(Tags) /\ single \in BOOLEAN
    /\ free \in 1 .. Cap /\ length \in 0 .. Cap /\ bundleLen \in Nat
    /\ sets \in 0 .. MaxSets
    /\ IndexInv
    /\ build.at # "idle" => Begun /\ \E at, first : BegunInv(at, first)
    /\ build.at = "idle" => build = Idle /\ tbuf = <<>>

\* The message msg with the values at the places pl is in b from p to e.
MessageWith(b, p, msg, e, pl) ==
    LET n == Len(msg.tags)
    IN  /\ p \in Nat /\ e \in p + 2 .. Cap
        /\ b[p] = <<"addr">> /\ b[p + 1] = <<"types", b[p + 1][2]>>
        /\ b[p + 1][2] \in Tags /\ msg.tags = Required(b[p + 1][2])
        /\ \A k \in 1 .. n : Shaped(msg.tags[k], msg.values[k])
        /\ pl \in [1 .. n + 1 -> p + 2 .. e] /\ pl[1] = p + 2 /\ pl[n + 1] = e
        /\ \A k, l \in 1 .. n + 1 : k < l => pl[k] + Len(msg.values[k]) <= pl[l]
        /\ \A k \in 1 .. n : /\ pl[k + 1] = pl[k] + Len(msg.values[k])
                             /\ HasWords(b, pl[k], msg.values[k])

MessageAt(b, p, msg, e) == \E pl : MessageWith(b, p, msg, e, pl)

\* The messages msgs, each after its length word, are in b from p to e.
ChainWith(b, p, msgs, e, at) ==
    /\ at \in [1 .. Len(msgs) + 1 -> Nat] /\ at[1] = p /\ at[Len(msgs) + 1] = e
    /\ \A m, l \in 1 .. Len(msgs) + 1 : m < l => at[m] < at[l]
    /\ \A m \in 1 .. Len(msgs) : /\ b[at[m]] = <<"len", at[m + 1] - at[m] - 1>>
                                 /\ MessageAt(b, at[m] + 1, msgs[m], at[m + 1])

Chain(b, p, msgs, e) == \E at : ChainWith(b, p, msgs, e, at)

\* The words w of a packet are the messages s, as a bundle or as one message.
PacketOf(w, s) ==
    IF w[1] = <<"hdr">>
    THEN Len(w) \in Nat /\ Len(s) > 0 /\ Chain(Fits(w), Reserved - 1, s, Len(w))
    ELSE Len(s) = 1 /\ \E e : MessageAt(Fits(w), 0, s[1], e)

NetInv == net # None => ~in.bundle /\ (~net.lone => PacketOf(net.words, sent))

IsWords(b) == b = [p \in 0 .. Cap |-> b[p]]

\* The values of a message, as it was sent, where the index says.
AsSent(b, index_, tags, msg) ==
    /\ tags = msg.tags
    /\ \A k \in DOMAIN tags :
          LET w == msg.values[k]
          IN  [j \in 1 .. Len(w) |-> b[index_[k] + j - 1]] = [w EXCEPT ![1] = Swap(@)]

\* The words w at p are in the buffer, after its first word.
PlaceIn(p, w) == p \in Nat \ {0} /\ Len(w) \in Nat /\ p + Len(w) <= Cap

\* What is left of a bundle: its messages from the end of the received one on.
BundleLeft(i, s) ==
    /\ i.offset \in Nat /\ i.length \in Nat /\ i.end \in Nat
    /\ Chain(i.buf, i.offset + i.length, s, i.end)
    /\ \A k \in DOMAIN i.tbuf : PlaceIn(i.index[k], i.now.values[k])

IsInput(i) ==
    i = [buf |-> i.buf, tbuf |-> i.tbuf, index |-> i.index, bundle |-> i.bundle, end |-> i.end,
         offset |-> i.offset, length |-> i.length, lone |-> i.lone, now |-> i.now]

\* The input stream i when the messages s are not received yet.
InputOf(i, s) ==
    /\ IsInput(i)
    /\ ~i.lone => /\ IsWords(i.buf) /\ AsSent(i.buf, i.index, i.tbuf, i.now)
                  /\ i.bundle => BundleLeft(i, s)

InputInv == InputOf(in, sent)

SentInv == IsSeq(sent) /\ Len(sent) <= MaxMessages

PacketIInv == OutputInv /\ SentInv /\ NetInv /\ InputInv

\* The minimum of a set of numbers that is not empty.
LEMMA MinOf ==
    ASSUME NEW S, S \subseteq Nat, S # {}
    PROVE  Min(S) \in S /\ \A y \in S : Min(S) <= y
<1>1. PICK m \in S : \A j \in S : ~(<<j, m>> \in OpToRel(<, Nat))
  BY NatLessThanWellFounded, WFMin
<1>2. \A j \in S : ~(j < m)
  BY <1>1 DEF OpToRel
<1>3. \E x \in S : \A y \in S : x <= y
  BY <1>2
<1>. QED BY <1>3, Zenon DEF Min
-----------------------------------------------------------------------------
(* Numbers and recursive functions *)

\* The least element of a set of numbers.
LEMMA PacketMin ==
    ASSUME NEW T \in SUBSET Nat, NEW m \in T, \A x \in T : m <= x
    PROVE  Min(T) = m
<1>1. \A x \in T : (\A y \in T : x <= y) => x = m
  OBVIOUS
<1>. QED BY <1>1, Zenon DEF Min

\* The maximum of a set that has a greatest element.
LEMMA PacketMax ==
    ASSUME NEW T \in SUBSET Nat, NEW m \in T, \A x \in T : x <= m
    PROVE  Max(T) = m
<1>1. \A x \in T : (\A y \in T : x >= y) => x = m
  OBVIOUS
<1>2. \A y \in T : m >= y
  OBVIOUS
<1>. QED BY <1>1, <1>2, Zenon DEF Max

\* A set of numbers that is not empty has a least one.
LEMMA PacketLeast ==
    ASSUME NEW T \in SUBSET Nat, NEW x \in T
    PROVE  \E m \in T : \A y \in T : m <= y
<1>1. Min(T) \in T /\ \A y \in T : Min(T) <= y
  BY MinOf
<1>. QED BY <1>1

\* Induction, about a set.
LEMMA PacketNumbers ==
    ASSUME NEW T, 0 \in T, \A i \in Nat : i \in T => i + 1 \in T
    PROVE  Nat \subseteq T
<1>. DEFINE left == Nat \ T
<1>. SUFFICES ASSUME left # {} PROVE FALSE
  OBVIOUS
<1>1. PICK m : m \in left /\ \A y \in left : m <= y
  BY PacketLeast
<1>2. m \in Nat /\ m # 0 /\ m - 1 \in Nat /\ m - 1 \notin left
  BY <1>1
<1>3. m - 1 \in T /\ (m - 1) + 1 = m
  BY <1>2
<1>. QED BY <1>1, <1>2, <1>3

\* f starts with c, and the steps G lead from each value to the next one.
Steps(f, c, G, n) == f[0] = c /\ \A k \in 1 .. n : f[k] = G[k][f[k - 1]]

\* A function that is given by its first value and its steps exists.
LEMMA StepsExist ==
    ASSUME NEW S, NEW c \in S, NEW n \in Nat, NEW G \in [1 .. n -> [S -> S]]
    PROVE  \E f \in [0 .. n -> S] : Steps(f, c, G, n)
<1>. DEFINE T == {m \in Nat : m <= n => \E f \in [0 .. m -> S] : Steps(f, c, G, m)}
<1>1. 0 \in T
  <2>1. [k \in 0 .. 0 |-> c] \in [0 .. 0 -> S] /\ Steps([k \in 0 .. 0 |-> c], c, G, 0)
    BY DEF Steps
  <2>. QED BY <2>1
<1>2. ASSUME NEW m \in Nat, m \in T PROVE m + 1 \in T
  <2>. SUFFICES ASSUME m + 1 <= n
                PROVE  \E f \in [0 .. m + 1 -> S] : Steps(f, c, G, m + 1)
    OBVIOUS
  <2>1. PICK f \in [0 .. m -> S] : Steps(f, c, G, m)
    BY <1>2
  <2>. DEFINE g == [k \in 0 .. m + 1 |-> IF k = m + 1 THEN G[m + 1][f[m]] ELSE f[k]]
  <2>2. G[m + 1][f[m]] \in S
    BY <2>1
  <2>3. g \in [0 .. m + 1 -> S] /\ g[0] = c
    BY <2>1, <2>2 DEF Steps
  <2>4. ASSUME NEW k \in 1 .. m + 1 PROVE g[k] = G[k][g[k - 1]]
    <3>1. CASE k = m + 1
      BY <3>1
    <3>2. CASE k # m + 1
      BY <2>1, <3>2 DEF Steps
    <3>. QED BY <3>1, <3>2
  <2>5. Steps(g, c, G, m + 1)
    BY <2>3, <2>4 DEF Steps
  <2>. QED BY <2>3, <2>5
<1>3. Nat \subseteq T
  <2>. HIDE DEF T
  <2>. QED BY <1>1, <1>2, PacketNumbers
<1>. QED BY <1>3

\* What holds of the first value, and of each next one, holds of all.
LEMMA UpTo ==
    ASSUME NEW n \in Nat, NEW T, 0 \in T, \A k \in 0 .. n - 1 : k \in T => k + 1 \in T
    PROVE  0 .. n \subseteq T
<1>. DEFINE U == {m \in Nat : m <= n => m \in T}
<1>1. 0 \in U
  OBVIOUS
<1>2. ASSUME NEW i \in Nat, i \in U PROVE i + 1 \in U
  BY <1>2
<1>3. Nat \subseteq U
  <2>. HIDE DEF U
  <2>. QED BY <1>1, <1>2, PacketNumbers
<1>. QED BY <1>3

-----------------------------------------------------------------------------
(* Sequences *)

\* A sequence is a function, and a function from 1 to n is a sequence.
LEMMA SeqOf ==
    ASSUME NEW s, IsSeq(s)
    PROVE  Len(s) \in Nat /\ DOMAIN s = 1 .. Len(s) /\ s = [k \in 1 .. Len(s) |-> s[k]]
<1>1. PICK S : s \in Seq(S)
  BY DEF IsSeq
<1>. QED BY <1>1, LenProperties

\* The length of a sequence is its domain's.
LEMMA LengthOfSeq ==
    ASSUME NEW S, NEW s \in Seq(S)
    PROVE  Len(s) \in Nat /\ DOMAIN s = 1 .. Len(s)
BY LenProperties

\* A function over 1 .. n is a sequence of n elements.
LEMMA IsSeqOf ==
    ASSUME NEW s, NEW n \in Nat, s = [k \in 1 .. n |-> s[k]]
    PROVE  IsSeq(s) /\ Len(s) = n
<1>1. s \in [1 .. n -> {s[k] : k \in 1 .. n}]
  OBVIOUS
<1>2. s \in Seq({s[k] : k \in 1 .. n})
  <2>. DEFINE S == {s[k] : k \in 1 .. n}
  <2>1. s \in [1 .. n -> S]
    BY <1>1
  <2>. HIDE DEF S
  <2>2. [k \in 1 .. n |-> s[k]] \in Seq(S)
    BY <2>1, IsASeq
  <2>. QED BY <2>2
<1>3. DOMAIN s = 1 .. n
  BY <1>1
<1>4. Len(s) \in Nat /\ DOMAIN s = 1 .. Len(s)
  <2>1. PICK S : S = {s[k] : k \in 1 .. n}
    OBVIOUS
  <2>2. s \in Seq(S)
    BY <1>2, <2>1
  <2>. QED BY <2>2, LengthOfSeq
<1>5. IsSeq(s)
  BY <1>2 DEF IsSeq
<1>6. PICK l \in Nat : l = Len(s)
  BY <1>4
<1>7. l = n
  <2>1. \A k \in Nat : k \in 1 .. l <=> k \in 1 .. n
    BY <1>3, <1>4, <1>6
  <2>2. l \in 1 .. l <=> l \in 1 .. n
    BY <2>1
  <2>3. n \in 1 .. l <=> n \in 1 .. n
    BY <2>1
  <2>. QED BY <2>2, <2>3
<1>. QED BY <1>5, <1>6, <1>7

\* The elements of two sequences, one after the other.
LEMMA IsSeqConcat ==
    ASSUME NEW s, NEW t, NEW w, w = s \o t, IsSeq(s), IsSeq(t)
    PROVE  /\ IsSeq(w) /\ Len(w) = Len(s) + Len(t)
           /\ \A k \in 1 .. Len(s) : w[k] = s[k]
           /\ \A k \in 1 .. Len(t) : w[Len(s) + k] = t[k]
<1>1. PICK S : s \in Seq(S)
  BY DEF IsSeq
<1>2. PICK R : t \in Seq(R)
  BY DEF IsSeq
<1>3. s \in Seq(S \cup R) /\ t \in Seq(S \cup R)
  BY <1>1, <1>2, SeqMonotonic
<1>. QED BY <1>3, ConcatProperties DEF IsSeq

\* Required is a sequence of tags with a value.
LEMMA RequiredTyped ==
    ASSUME NEW tags \in Tags
    PROVE  Required(tags) \in Seq(TagSet) /\ Len(Required(tags)) \in Nat
<1>. DEFINE n == Len(tags)
            Found(k, r) == IF tags[k] = "T" THEN r ELSE Append(r, tags[k])
            F(g) == [k \in 0 .. n |-> IF k = 0 THEN <<>> ELSE IF tags[k] = "T" THEN g[k - 1] ELSE Append(g[k - 1], tags[k])]
            G == [k \in 1 .. n |-> [r \in Seq(TagSet) |-> Found(k, r)]]
<1>1. n \in Nat /\ \A k \in 1 .. n : tags[k] \in {"i", "s", "b", "T"}
  BY DEF Tags
<1>2. ASSUME NEW k \in 1 .. n, NEW r \in Seq(TagSet) PROVE Found(k, r) \in Seq(TagSet)
  <2>1. tags[k] \in TagSet \cup {"T"}
    BY <1>1 DEF TagSet
  <2>. QED BY <2>1
<1>3. G \in [1 .. n -> [Seq(TagSet) -> Seq(TagSet)]]
  <2>. HIDE DEF Found
  <2>. QED BY <1>2
<1>4. PICK f \in [0 .. n -> Seq(TagSet)] : Steps(f, <<>>, G, n)
  <2>1. <<>> \in Seq(TagSet)
    OBVIOUS
  <2>. HIDE DEF G
  <2>. QED BY <1>1, <1>3, <2>1, StepsExist
<1>5. f = F(f)
  <2>1. f[0] = <<>>
    BY <1>4 DEF Steps
  <2>2. ASSUME NEW k \in 1 .. n PROVE f[k] = Found(k, f[k - 1])
    <3>0. k - 1 \in 0 .. n
      BY <1>1
    <3>1. f[k] = G[k][f[k - 1]] /\ f[k - 1] \in Seq(TagSet)
      <4>. HIDE DEF G
      <4>. QED BY <1>4, <3>0 DEF Steps
    <3>. HIDE DEF Found
    <3>. QED BY <3>1
  <2>3. ASSUME NEW k \in 0 .. n PROVE k = 0 \/ k \in 1 .. n
    BY <1>1
  <2>4. \A k \in 0 .. n : f[k] = IF k = 0 THEN <<>> ELSE Found(k, f[k - 1])
    <3>. HIDE DEF Found
    <3>. QED BY <2>1, <2>2, <2>3
  <2>. QED BY <2>4, Zenon
<1>6. PICK c : c = (CHOOSE g : g = F(g))
  OBVIOUS
<1>7. c = F(c)
  <2>1. \E g : g = F(g)
    BY <1>5
  <2>. QED BY <2>1, <1>6
<1>8. 0 .. n \subseteq {k \in 0 .. n : c[k] \in Seq(TagSet)}
  <2>1. c[0] \in Seq(TagSet)
    BY <1>1, <1>7
  <2>2. ASSUME NEW k \in 0 .. n - 1, c[k] \in Seq(TagSet) PROVE c[k + 1] \in Seq(TagSet)
    <3>0. k + 1 \in 0 .. n /\ k + 1 \in 1 .. n /\ k + 1 # 0 /\ (k + 1) - 1 = k
      BY <1>1
    <3>1. c[k + 1] = Found(k + 1, c[k])
      BY <1>7, <3>0
    <3>2. Found(k + 1, c[k]) \in Seq(TagSet)
      BY <1>2, <2>2, <3>0
    <3>. QED BY <3>1, <3>2
  <2>. DEFINE T == {k \in 0 .. n : c[k] \in Seq(TagSet)}
  <2>3. 0 \in T
    BY <1>1, <2>1
  <2>4. \A k \in 0 .. n - 1 : k \in T => k + 1 \in T
    BY <1>1, <2>2
  <2>5. 0 .. n \subseteq T
    <3>. HIDE DEF T
    <3>. QED BY <1>1, <2>3, <2>4, UpTo
  <2>. QED BY <2>5
<1>9. Required(tags) = c[n]
  BY <1>6, Zenon DEF Required
<1>10. c[n] \in Seq(TagSet)
  BY <1>1, <1>8
<1>. QED BY <1>9, <1>10

-----------------------------------------------------------------------------
(* What the scans find *)

\* A string of one word: the first word has a NUL.
LEMMA StrWordsFirst ==
    ASSUME NEW b, NEW p \in Nat, p > Cap \/ HasNul(b[p])
    PROVE  StrWords(b, p) = 1
<1>. DEFINE T == {k \in 0 .. Cap : p + k > Cap \/ HasNul(b[p + k])}
<1>1. 0 \in T /\ T \in SUBSET Nat /\ \A x \in T : 0 <= x
  BY OscAssumption
<1>2. Min(T) = 0
  <2>. HIDE DEF T
  <2>. QED BY <1>1, PacketMin
<1>3. StrWords(b, p) = 1 + Min(T)
  BY DEF StrWords
<1>. QED BY <1>2, <1>3

\* A string of n words: the first word with a NUL is the last one.
LEMMA StrWordsOf ==
    ASSUME NEW b, NEW p \in Nat, NEW n \in Nat \ {0}, p + n - 1 <= Cap,
           \A j \in 1 .. n - 1 : ~HasNul(b[p + j - 1]), HasNul(b[p + n - 1])
    PROVE  StrWords(b, p) = n
<1>. DEFINE T == {k \in 0 .. Cap : p + k > Cap \/ HasNul(b[p + k])}
<1>1. T \in SUBSET Nat /\ Cap \in Nat
  BY OscAssumption
<1>2. n - 1 \in T
  <2>1. n - 1 \in 0 .. Cap /\ p + (n - 1) = p + n - 1
    BY <1>1
  <2>. QED BY <2>1
<1>3. ASSUME NEW k \in T PROVE n - 1 <= k
  <2>. SUFFICES ASSUME k < n - 1 PROVE FALSE
    BY <1>1, <1>3
  <2>1. k + 1 \in 1 .. n - 1 /\ p + (k + 1) - 1 = p + k /\ ~(p + k > Cap)
    BY <1>1
  <2>2. ~HasNul(b[p + k])
    BY <2>1
  <2>. QED BY <2>1, <2>2
<1>4. Min(T) = n - 1
  <2>. HIDE DEF T
  <2>. QED BY <1>1, <1>2, <1>3, PacketMin
<1>5. StrWords(b, p) = 1 + Min(T)
  BY DEF StrWords
<1>. QED BY <1>4, <1>5

\* The scan of a value finds its words.
LEMMA WordsOf ==
    ASSUME NEW b, NEW tag \in TagSet, NEW w, Shaped(tag, w), NEW p \in Nat,
           p + Len(w) - 1 <= Cap, HasWords(b, p, w)
    PROVE  Words(b, tag, p, "net") = Len(w)
<1>1. Len(w) \in Nat \ {0}
  BY SeqOf DEF Shaped
<1>2. b[p] = w[1]
  <2>1. 1 \in 1 .. Len(w) /\ p + 1 - 1 = p
    BY <1>1
  <2>. QED BY <2>1 DEF HasWords
<1>3. CASE tag = "i"
  BY <1>3 DEF Words, Shaped
<1>4. CASE tag = "s"
  <2>1. ASSUME NEW j \in 1 .. Len(w) - 1 PROVE ~HasNul(b[p + j - 1])
    <3>1. j \in 1 .. Len(w)
      BY <1>1
    <3>2. b[p + j - 1] = w[j] /\ ~HasNul(w[j])
      BY <1>4, <3>1 DEF Shaped, HasWords
    <3>. QED BY <3>2
  <2>2. Len(w) \in 1 .. Len(w)
    BY <1>1
  <2>3. HasNul(b[p + Len(w) - 1])
    BY <1>4, <2>2 DEF Shaped, HasWords
  <2>4. StrWords(b, p) = Len(w)
    BY <1>1, <2>1, <2>3, StrWordsOf
  <2>. QED BY <1>4, <2>4 DEF Words
<1>5. CASE tag = "b"
  BY <1>2, <1>5 DEF Words, Shaped
<1>. QED BY <1>3, <1>4, <1>5 DEF TagSet

\* The next place in a scan.
After(b, tag, p, order) == IF p > Cap THEN p ELSE p + Words(b, tag, p, order)

\* The places are the function that the recursion describes.
Walks(f, b, tags, data, order) ==
    /\ f \in [0 .. Len(tags) -> Nat] /\ f[0] = data
    /\ \A k \in 1 .. Len(tags) : f[k] = After(b, tags[k], f[k - 1], order)
Shifted(pl, f, n) == pl \in [1 .. n + 1 -> Nat] /\ \A k \in 1 .. n + 1 : pl[k] = f[k - 1]

\* index_osc_values: the places are those of a walk over the values.
LEMMA PlacesAre ==
    ASSUME NEW b, NEW tags \in Seq(TagSet), NEW data \in Nat, NEW order,
           NEW f, Walks(f, b, tags, data, order)
    PROVE  Shifted(Places(b, tags, data, order), f, Len(tags))
<1>0. /\ f \in [0 .. Len(tags) -> Nat] /\ f[0] = data
      /\ \A k \in 1 .. Len(tags) : f[k] = After(b, tags[k], f[k - 1], order)
  BY DEF Walks
<1>. DEFINE n == Len(tags)
            F(g) == [k \in 0 .. n |->
                       IF k = 0 THEN data
                       ELSE LET p == g[k - 1]
                            IN  IF p > Cap THEN p ELSE p + Words(b, tags[k], p, order)]
<1>1. n \in Nat
  OBVIOUS
<1>2. f = F(f)
  <2>1. \A k \in 0 .. n : k = 0 \/ k \in 1 .. n
    BY <1>1
  <2>2. \A k \in 0 .. n : f[k] = F(f)[k]
    BY <1>0, <2>1 DEF After
  <2>. QED BY <1>0, <2>2
<1>3. PICK c : c = (CHOOSE g : g = F(g))
  OBVIOUS
<1>4. c = F(c)
  <2>1. \E g : g = F(g)
    BY <1>2
  <2>. QED BY <2>1, <1>3
<1>. DEFINE T == {k \in 0 .. n : c[k] = f[k]}
<1>5. 0 \in T
  BY <1>0, <1>1, <1>4
<1>6. ASSUME NEW k \in 0 .. n - 1, k \in T PROVE k + 1 \in T
  <2>1. k + 1 \in 0 .. n /\ k + 1 \in 1 .. n /\ k + 1 # 0 /\ (k + 1) - 1 = k
    BY <1>1
  <2>2. c[k + 1] = After(b, tags[k + 1], c[k], order)
    BY <1>4, <2>1 DEF After
  <2>3. f[k + 1] = After(b, tags[k + 1], f[k], order)
    BY <1>0, <2>1
  <2>. QED BY <1>6, <2>1, <2>2, <2>3
<1>7. 0 .. n \subseteq T
  <2>. HIDE DEF T
  <2>. QED BY <1>1, <1>5, <1>6, UpTo
<1>8. Places(b, tags, data, order) = [k \in 1 .. n + 1 |-> c[k - 1]]
  <2>. DEFINE R(g) == [k \in 1 .. n + 1 |-> g[k - 1]]
  <2>1. Places(b, tags, data, order) = R(CHOOSE g : g = F(g))
    BY Zenon DEF Places
  <2>2. Places(b, tags, data, order) = R(c)
    <3>. HIDE DEF R, F
    <3>. QED BY <2>1, <1>3
  <2>. QED BY <2>2
<1>9. ASSUME NEW k \in 1 .. n + 1 PROVE c[k - 1] = f[k - 1] /\ f[k - 1] \in Nat
  <2>1. k - 1 \in 0 .. n
    BY <1>1
  <2>. QED BY <1>0, <1>7, <2>1
<1>. QED BY <1>8, <1>9 DEF Shifted

\* Where the words of the values follow each other, the places are theirs.
Follow(pl, b, tags, data, order) ==
    /\ pl \in [1 .. Len(tags) + 1 -> 0 .. Cap] /\ pl[1] = data
    /\ \A k \in 1 .. Len(tags) : pl[k + 1] = pl[k] + Words(b, tags[k], pl[k], order)

\* The places of values that follow each other are the ones they have.
LEMMA PlacesOf ==
    ASSUME NEW b, NEW tags \in Seq(TagSet), NEW data \in Nat, NEW order,
           NEW pl, Follow(pl, b, tags, data, order)
    PROVE  Places(b, tags, data, order) = pl
<1>0. /\ pl \in [1 .. Len(tags) + 1 -> 0 .. Cap] /\ pl[1] = data
      /\ \A k \in 1 .. Len(tags) : pl[k + 1] = pl[k] + Words(b, tags[k], pl[k], order)
  BY DEF Follow
<1>. DEFINE f == [k \in 0 .. Len(tags) |-> pl[k + 1]]
<1>1. Len(tags) \in Nat /\ Cap \in Nat
  BY OscAssumption
<1>2. f \in [0 .. Len(tags) -> Nat] /\ f[0] = data
  BY <1>0, <1>1
<1>3. ASSUME NEW k \in 1 .. Len(tags) PROVE f[k] = After(b, tags[k], f[k - 1], order)
  <2>1. k - 1 \in 0 .. Len(tags) /\ k \in 0 .. Len(tags) /\ (k - 1) + 1 = k
    BY <1>1
  <2>2. f[k] = pl[k + 1] /\ f[k - 1] = pl[k] /\ ~(pl[k] > Cap)
    BY <1>0, <1>1, <2>1
  <2>. QED BY <2>2 DEF After
<1>4. /\ Places(b, tags, data, order) \in [1 .. Len(tags) + 1 -> Nat]
      /\ \A k \in 1 .. Len(tags) + 1 : Places(b, tags, data, order)[k] = f[k - 1]
  <2>. HIDE DEF f
  <2>1. Walks(f, b, tags, data, order)
    BY <1>2, <1>3 DEF Walks
  <2>2. Shifted(Places(b, tags, data, order), f, Len(tags))
    BY <2>1, PlacesAre
  <2>. QED BY <2>2 DEF Shifted
<1>5. \A k \in 1 .. Len(tags) + 1 : f[k - 1] = pl[k]
  BY <1>0, <1>1
<1>. QED BY <1>0, <1>4, <1>5

\* In memory that is zero, every value has one word.
ZeroFrom(b, data) == \A p \in data .. Cap : b[p] = Zero
OneWordEach(places, n, data) ==
    /\ places \in [1 .. n + 1 -> Nat]
    /\ places[n + 1] <= Cap =>
          data + n <= Cap /\ places = [k \in 1 .. n + 1 |-> data + k - 1]

\* In a buffer of zeros each value takes a word.
LEMMA PlacesZero ==
    ASSUME NEW b, NEW tags \in Seq(TagSet), NEW data \in Nat, NEW order, ZeroFrom(b, data)
    PROVE  OneWordEach(Places(b, tags, data, order), Len(tags), data)
<1>0. \A p \in data .. Cap : b[p] = Zero
  BY DEF ZeroFrom
<1>. DEFINE n == Len(tags)
            full == IF data > Cap THEN data ELSE Cap + 1
            f == [k \in 0 .. n |-> IF data + k <= Cap THEN data + k ELSE full]
<1>1. n \in Nat /\ Cap \in Nat /\ full \in Nat
  BY OscAssumption
<1>2. f \in [0 .. n -> Nat] /\ f[0] = data
  BY <1>1
<1>3. ASSUME NEW k \in 1 .. n PROVE f[k] = After(b, tags[k], f[k - 1], order)
  <2>0. k - 1 \in 0 .. n /\ k \in 0 .. n
    BY <1>1
  <2>1. CASE data + (k - 1) <= Cap
    <3>1. f[k - 1] = data + (k - 1) /\ f[k] = data + k
      BY <1>1, <2>0, <2>1
    <3>2. b[data + (k - 1)] = Zero /\ data + (k - 1) \in Nat
      BY <1>0, <1>1, <2>0, <2>1
    <3>3. tags[k] \in {"i", "s", "b"}
      BY DEF TagSet
    <3>4. HasNul(Zero)
      BY DEF HasNul, Zero
    <3>5. StrWords(b, data + (k - 1)) = 1
      BY <3>2, <3>4, StrWordsFirst
    <3>6. BlobWords(Zero, order) = 1
      BY DEF BlobWords, Zero
    <3>7. Words(b, tags[k], data + (k - 1), order) = 1
      BY <3>2, <3>3, <3>5, <3>6 DEF Words
    <3>. QED BY <1>1, <2>1, <3>1, <3>7 DEF After
  <2>2. CASE ~(data + (k - 1) <= Cap)
    BY <1>1, <2>0, <2>2 DEF After
  <2>. QED BY <2>1, <2>2
<1>4. /\ Places(b, tags, data, order) \in [1 .. n + 1 -> Nat]
      /\ \A k \in 1 .. n + 1 : Places(b, tags, data, order)[k] = f[k - 1]
  <2>. HIDE DEF f
  <2>1. Walks(f, b, tags, data, order)
    BY <1>2, <1>3 DEF Walks
  <2>2. Shifted(Places(b, tags, data, order), f, Len(tags))
    BY <2>1, PlacesAre
  <2>. QED BY <2>2 DEF Shifted
<1>5. \A k \in 1 .. n + 1 : k - 1 \in 0 .. n
  BY <1>1
<1>7. ASSUME Places(b, tags, data, order)[n + 1] <= Cap
      PROVE  data + n <= Cap /\ \A k \in 1 .. n + 1 : f[k - 1] = data + k - 1
  <2>1. n + 1 \in 1 .. n + 1 /\ (n + 1) - 1 = n /\ n \in 0 .. n
    BY <1>1
  <2>2. f[n] <= Cap
    BY <1>4, <1>7, <2>1
  <2>3. data + n <= Cap
    BY <1>1, <2>1, <2>2
  <2>. QED BY <1>1, <1>5, <2>3
<1>8. ASSUME Places(b, tags, data, order)[n + 1] <= Cap
      PROVE  Places(b, tags, data, order) = [k \in 1 .. n + 1 |-> data + k - 1]
  <2>. HIDE DEF f
  <2>. QED BY <1>4, <1>7, <1>8
<1>. QED BY <1>4, <1>7, <1>8 DEF OneWordEach

\* f goes from a length word to the next one, as osc_fix_length does.
LengthSteps(f, b, end) ==
    /\ f \in [0 .. MaxMessages -> Nat] /\ f[0] = 0
    /\ \A k \in 1 .. MaxMessages :
          f[k] = IF f[k - 1] <= end /\ b[f[k - 1]][1] = "len"
                 THEN f[k - 1] + b[f[k - 1]][2] + 1 ELSE end + 1

\* osc_fix_length: the length words are the ones that the walk stops at.
LEMMA LengthWordsAre ==
    ASSUME NEW b, IsBuffer(b), NEW end \in 0 .. Cap
    PROVE  \E f : /\ LengthSteps(f, b, end)
                  /\ LengthWords(b, end) = {f[k] : k \in 0 .. MaxMessages} \cap 0 .. end - 1
<1>. DEFINE NextWord(p) == IF p <= end /\ b[p][1] = "len" THEN p + b[p][2] + 1 ELSE end + 1
            F(g) == [k \in 0 .. MaxMessages |->
                       IF k = 0 THEN 0
                       ELSE IF g[k - 1] <= end /\ b[g[k - 1]][1] = "len"
                            THEN g[k - 1] + b[g[k - 1]][2] + 1 ELSE end + 1]
            G == [k \in 1 .. MaxMessages |-> [p \in Nat |-> NextWord(p)]]
<1>1. MaxMessages \in Nat /\ Cap \in Nat /\ end \in Nat
  BY OscAssumption
<1>2. ASSUME NEW p \in Nat PROVE NextWord(p) \in Nat
  <2>1. p <= end => p \in 0 .. Cap
    BY <1>1
  <2>. QED BY <1>1, <2>1 DEF IsBuffer
<1>3. G \in [1 .. MaxMessages -> [Nat -> Nat]]
  <2>. HIDE DEF NextWord
  <2>. QED BY <1>2
<1>4. PICK h \in [0 .. MaxMessages -> Nat] : Steps(h, 0, G, MaxMessages)
  <2>. HIDE DEF G
  <2>. QED BY <1>1, <1>3, StepsExist
<1>5. \A k \in 0 .. MaxMessages : h[k] = IF k = 0 THEN 0 ELSE NextWord(h[k - 1])
  <2>1. h[0] = 0
    BY <1>4 DEF Steps
  <2>2. ASSUME NEW k \in 1 .. MaxMessages PROVE h[k] = NextWord(h[k - 1])
    <3>0. k - 1 \in 0 .. MaxMessages
      BY <1>1
    <3>1. h[k] = G[k][h[k - 1]] /\ h[k - 1] \in Nat
      <4>. HIDE DEF G
      <4>. QED BY <1>4, <3>0 DEF Steps
    <3>. HIDE DEF NextWord
    <3>. QED BY <3>1
  <2>3. \A k \in 0 .. MaxMessages : k = 0 \/ k \in 1 .. MaxMessages
    BY <1>1
  <2>. HIDE DEF NextWord
  <2>. QED BY <2>1, <2>2, <2>3
<1>6. h = F(h)
  BY <1>5, Zenon
<1>7. PICK f : f = (CHOOSE g : g = F(g))
  OBVIOUS
<1>8. f = F(f)
  <2>1. \E g : g = F(g)
    BY <1>6
  <2>. QED BY <2>1, <1>7
<1>. DEFINE T == {k \in 0 .. MaxMessages : f[k] = h[k]}
<1>9. 0 \in T
  BY <1>1, <1>5, <1>8
<1>10. ASSUME NEW k \in 0 .. MaxMessages - 1, k \in T PROVE k + 1 \in T
  <2>1. k + 1 \in 0 .. MaxMessages /\ k + 1 # 0 /\ (k + 1) - 1 = k
    BY <1>1
  <2>2. f[k + 1] = NextWord(f[k])
    BY <1>8, <2>1
  <2>3. h[k + 1] = NextWord(h[k])
    <3>. HIDE DEF NextWord
    <3>. QED BY <1>5, <2>1
  <2>. HIDE DEF NextWord
  <2>. QED BY <1>10, <2>1, <2>2, <2>3
<1>11. 0 .. MaxMessages \subseteq T
  <2>. HIDE DEF T
  <2>. QED BY <1>1, <1>9, <1>10, UpTo
<1>12. LengthSteps(f, b, end)
  <2>1. DOMAIN f = 0 .. MaxMessages
    BY <1>8
  <2>2. f = [k \in 0 .. MaxMessages |-> f[k]]
    BY <1>8
  <2>3. \A k \in 0 .. MaxMessages : f[k] \in Nat
    BY <1>11
  <2>4. f \in [0 .. MaxMessages -> Nat]
    BY <2>2, <2>3
  <2>5. \A k \in 1 .. MaxMessages : k \in 0 .. MaxMessages /\ k # 0
    BY <1>1
  <2>6. \A k \in 1 .. MaxMessages :
          f[k] = IF f[k - 1] <= end /\ b[f[k - 1]][1] = "len"
                 THEN f[k - 1] + b[f[k - 1]][2] + 1 ELSE end + 1
    BY <1>8, <2>5
  <2>7. f[0] = 0
    BY <1>1, <1>8
  <2>. QED BY <2>4, <2>6, <2>7 DEF LengthSteps
<1>13. LengthWords(b, end) = {f[k] : k \in 0 .. MaxMessages} \cap 0 .. end - 1
  BY <1>7, Zenon DEF LengthWords
<1>. QED BY <1>12, <1>13

\* The length words of n messages lead from one to the next.
Lead(at, n, b, end) ==
    /\ \A m \in 1 .. n : at[m] \in Nat
    /\ at[1] = 0
    /\ \A m \in 1 .. n - 1 : at[m] <= end /\ b[at[m]] = <<"len", at[m + 1] - at[m] - 1>>

Agree(f, at, n) == \A m \in 1 .. n : f[m - 1] = at[m]

\* The steps follow the messages.
LEMMA StepsFollow ==
    ASSUME NEW b, NEW end \in Nat, NEW f, LengthSteps(f, b, end),
           NEW n \in 1 .. MaxMessages + 1, NEW at, Lead(at, n, b, end)
    PROVE  Agree(f, at, n)
<1>. DEFINE T == {m \in 0 .. n - 1 : f[m] = at[m + 1]}
<1>1. MaxMessages \in Nat /\ n - 1 \in Nat
  BY OscAssumption
<1>2. 0 \in T
  BY <1>1 DEF LengthSteps, Lead
<1>3. ASSUME NEW m \in 0 .. (n - 1) - 1, m \in T PROVE m + 1 \in T
  <2>1. m + 1 \in 1 .. n - 1 /\ m + 1 \in 1 .. MaxMessages /\ (m + 1) - 1 = m /\ m + 1 \in 1 .. n
        /\ (m + 1) + 1 \in 1 .. n
    BY <1>1
  <2>2. f[m] = at[m + 1] /\ at[m + 1] <= end
        /\ b[at[m + 1]] = <<"len", at[(m + 1) + 1] - at[m + 1] - 1>>
    BY <1>3, <2>1 DEF Lead
  <2>0. b[f[m]] = <<"len", at[(m + 1) + 1] - at[m + 1] - 1>> /\ f[m] <= end
    BY <2>2
  <2>5. b[f[m]][1] = "len"
    BY <2>0
  <2>3. f[m + 1] = f[m] + b[f[m]][2] + 1
    BY <2>1, <2>0, <2>5 DEF LengthSteps
  <2>4. f[m + 1] = at[(m + 1) + 1]
    BY <2>1, <2>2, <2>3 DEF Lead
  <2>. QED BY <1>1, <2>1, <2>4
<1>4. 0 .. n - 1 \subseteq T
  <2>. HIDE DEF T
  <2>. QED BY <1>1, <1>2, <1>3, UpTo
<1>5. \A m \in 1 .. n : m - 1 \in 0 .. n - 1 /\ (m - 1) + 1 = m
  BY <1>1
<1>. QED BY <1>4, <1>5 DEF Agree

\* The steps never go back.
LEMMA StepsAscend ==
    ASSUME NEW b, IsBuffer(b), NEW end \in 0 .. Cap, NEW f, LengthSteps(f, b, end),
           NEW j \in 0 .. MaxMessages, NEW x \in Nat, f[j] >= x, x <= end + 1
    PROVE  \A k \in j .. MaxMessages : f[k] >= x
<1>. DEFINE T == {i \in 0 .. MaxMessages - j : f[j + i] >= x}
<1>1. MaxMessages \in Nat /\ MaxMessages - j \in Nat /\ Cap \in Nat /\ end \in Nat
  BY OscAssumption
<1>2. 0 \in T
  BY <1>1
<1>3. ASSUME NEW i \in 0 .. (MaxMessages - j) - 1, i \in T PROVE i + 1 \in T
  <2>1. j + (i + 1) \in 1 .. MaxMessages /\ (j + (i + 1)) - 1 = j + i /\ j + i \in 0 .. MaxMessages
    BY <1>1
  <2>2. f[j + i] \in Nat /\ f[j + i] >= x
    BY <1>3, <2>1 DEF LengthSteps
  <2>3. f[j + (i + 1)] = IF f[j + i] <= end /\ b[f[j + i]][1] = "len"
                         THEN f[j + i] + b[f[j + i]][2] + 1 ELSE end + 1
    BY <2>1 DEF LengthSteps
  <2>4. f[j + i] <= end /\ b[f[j + i]][1] = "len" => b[f[j + i]][2] \in Nat
    BY <1>1, <2>2 DEF IsBuffer
  <2>5. f[j + (i + 1)] >= x
    BY <1>1, <2>2, <2>3, <2>4
  <2>. QED BY <1>1, <2>1, <2>5
<1>4. 0 .. MaxMessages - j \subseteq T
  <2>. HIDE DEF T
  <2>. QED BY <1>1, <1>2, <1>3, UpTo
<1>5. \A k \in j .. MaxMessages : k - j \in 0 .. MaxMessages - j /\ j + (k - j) = k
  BY <1>1
<1>. QED BY <1>4, <1>5

\* The length words lead to the message that begins at at[n] and has the value.
Precedes(b, n, at, value, size) ==
    /\ \A m \in 1 .. n : at[m] \in Nat /\ at[m] <= at[n]
    /\ at[1] = 0
    /\ \A m \in 1 .. n - 1 : b[at[m]] = <<"len", at[m + 1] - at[m] - 1>>
    /\ at[n] <= value
    /\ size \in Nat /\ b[at[n]] = <<"len", size>> /\ at[n] + size + 1 > value

\* The length word before a value is the one of its message.
LEMMA MessageOf ==
    ASSUME NEW b, IsBuffer(b), NEW end \in 0 .. Cap, NEW value \in Nat, value < end,
           NEW n \in 1 .. MaxMessages, NEW at, NEW size, Precedes(b, n, at, value, size)
    PROVE  Max({q \in LengthWords(b, end) : q <= value}) = at[n]
<1>0. /\ \A m \in 1 .. n : at[m] \in Nat /\ at[m] <= at[n]
      /\ at[1] = 0
      /\ \A m \in 1 .. n - 1 : b[at[m]] = <<"len", at[m + 1] - at[m] - 1>>
      /\ at[n] <= value
      /\ size \in Nat /\ b[at[n]] = <<"len", size>> /\ at[n] + size + 1 > value
  BY DEF Precedes
<1>1. MaxMessages \in Nat /\ Cap \in Nat /\ end \in Nat /\ n \in Nat
  BY OscAssumption
<1>2. PICK f : /\ LengthSteps(f, b, end)
               /\ LengthWords(b, end) = {f[k] : k \in 0 .. MaxMessages} \cap 0 .. end - 1
  BY LengthWordsAre
<1>3. \A m \in 1 .. n : f[m - 1] = at[m]
  <2>1. n \in 1 .. MaxMessages + 1
    BY <1>1
  <2>2. ASSUME NEW m \in 1 .. n - 1 PROVE at[m] <= end
    <3>1. m \in 1 .. n /\ n \in 1 .. n
      BY <1>1
    <3>. QED BY <1>0, <1>1, <3>1
  <2>3. Lead(at, n, b, end)
    BY <1>0, <2>2 DEF Lead
  <2>4. Agree(f, at, n)
    BY <1>1, <1>2, <2>1, <2>3, StepsFollow
  <2>. QED BY <2>4 DEF Agree
<1>4. f[n] > value
  <2>1. n - 1 \in 0 .. MaxMessages /\ f[n - 1] = at[n] /\ at[n] <= end
    BY <1>0, <1>1, <1>3
  <2>2. b[f[n - 1]] = <<"len", size>>
    BY <1>0, <2>1
  <2>3. b[f[n - 1]][1] = "len" /\ b[f[n - 1]][2] = size
    BY <2>2
  <2>4. f[n] = at[n] + size + 1
    BY <1>2, <2>1, <2>3 DEF LengthSteps
  <2>. QED BY <1>0, <2>4
<1>5. \A k \in n .. MaxMessages : f[k] >= value + 1
  <2>1. n \in 0 .. MaxMessages /\ f[n] \in Nat
    BY <1>1, <1>2 DEF LengthSteps
  <2>2. f[n] >= value + 1 /\ value + 1 \in Nat /\ value + 1 <= end + 1
    BY <1>1, <1>4, <2>1
  <2>. QED BY <1>2, <2>1, <2>2, StepsAscend
<1>. DEFINE T == {q \in LengthWords(b, end) : q <= value}
<1>6. T \in SUBSET Nat
  BY <1>1, <1>2
<1>7. at[n] \in T
  <2>1. n - 1 \in 0 .. MaxMessages /\ f[n - 1] = at[n] /\ at[n] \in 0 .. end - 1
    BY <1>0, <1>1, <1>3
  <2>. QED BY <1>0, <1>2, <2>1
<1>8. ASSUME NEW q \in T PROVE q <= at[n]
  <2>1. PICK k \in 0 .. MaxMessages : q = f[k]
    BY <1>2
  <2>2. k < n
    <3>. SUFFICES ASSUME k >= n PROVE FALSE
      BY <1>1
    <3>1. f[k] >= value + 1
      BY <1>1, <1>5
    <3>. QED BY <1>6, <1>8, <2>1, <3>1
  <2>3. k + 1 \in 1 .. n /\ (k + 1) - 1 = k
    BY <1>1, <2>2
  <2>. QED BY <1>0, <1>3, <2>1, <2>3
<1>9. Max(T) = at[n]
  <2>. HIDE DEF T
  <2>. QED BY <1>6, <1>7, <1>8, PacketMax
<1>. QED BY <1>9

\* The n messages that begin at the places at fill the buffer up to end.
Fill(b, n, at, end) ==
    /\ \A m \in 1 .. n + 1 : at[m] \in Nat
    /\ at[1] = 0 /\ at[n + 1] = end
    /\ \A m, l \in 1 .. n + 1 : m < l => at[m] < at[l]
    /\ \A m \in 1 .. n : b[at[m]] = <<"len", at[m + 1] - at[m] - 1>>

\* The length words that follow each other to the end are those of the messages.
LEMMA AllLengthWords ==
    ASSUME NEW b, IsBuffer(b), NEW end \in 0 .. Cap,
           NEW n \in 1 .. MaxMessages, NEW at, Fill(b, n, at, end)
    PROVE  /\ LengthWords(b, end) = {at[m] : m \in 1 .. n}
           /\ Cardinality(LengthWords(b, end)) = n
           /\ Max(LengthWords(b, end)) = at[n]
<1>1. MaxMessages \in Nat /\ Cap \in Nat /\ end \in Nat /\ n \in Nat
  BY OscAssumption
<1>0. ASSUME NEW m \in 1 .. n + 1, NEW l \in 1 .. n + 1, m < l
      PROVE  at[m] \in Nat /\ at[l] \in Nat /\ at[m] < at[l]
  BY <1>0 DEF Fill
<1>2. PICK f : /\ LengthSteps(f, b, end)
               /\ LengthWords(b, end) = {f[k] : k \in 0 .. MaxMessages} \cap 0 .. end - 1
  BY LengthWordsAre
<1>3. ASSUME NEW m \in 1 .. n PROVE at[m] \in 0 .. end - 1
  <2>1. m \in 1 .. n + 1 /\ n + 1 \in 1 .. n + 1 /\ m < n + 1
    BY <1>1
  <2>2. at[m] < at[n + 1] /\ at[m] \in Nat
    BY <1>0, <2>1
  <2>3. at[n + 1] = end
    BY DEF Fill
  <2>. QED BY <1>1, <2>2, <2>3
<1>4. \A m \in 1 .. n + 1 : f[m - 1] = at[m]
  <2>1. n + 1 \in 1 .. MaxMessages + 1 /\ (n + 1) - 1 = n
    BY <1>1
  <2>2. \A m \in 1 .. n : at[m] <= end
    BY <1>1, <1>3
  <2>3. Lead(at, n + 1, b, end)
    BY <2>1, <2>2 DEF Lead, Fill
  <2>4. \A m \in 1 .. n + 1 : f[m - 1] = at[m]
    <3>1. PICK N : N = n + 1
      OBVIOUS
    <3>2. end \in Nat /\ LengthSteps(f, b, end) /\ N \in 1 .. MaxMessages + 1 /\ Lead(at, N, b, end)
      BY <1>1, <1>2, <2>1, <2>3, <3>1
    <3>3. Agree(f, at, N)
      BY <3>2, StepsFollow
    <3>. QED BY <3>1, <3>3 DEF Agree
  <2>. QED BY <2>4
<1>5. \A k \in n .. MaxMessages : f[k] >= end
  <2>1. n \in 0 .. MaxMessages /\ f[n] = end /\ end <= end + 1
    <3>1. n + 1 \in 1 .. n + 1 /\ (n + 1) - 1 = n
      BY <1>1
    <3>2. f[n] = at[n + 1] /\ at[n + 1] = end
      BY <1>4, <3>1 DEF Fill
    <3>. QED BY <1>1, <3>2
  <2>. QED BY <1>1, <1>2, <2>1, StepsAscend
<1>6. LengthWords(b, end) = {at[m] : m \in 1 .. n}
  <2>1. ASSUME NEW q \in LengthWords(b, end) PROVE q \in {at[m] : m \in 1 .. n}
    <3>1. PICK k \in 0 .. MaxMessages : q = f[k] /\ q \in 0 .. end - 1
      BY <1>2
    <3>2. k < n
      <4>. SUFFICES ASSUME k >= n PROVE FALSE
        BY <1>1
      <4>. QED BY <1>1, <1>5, <3>1
    <3>3. k + 1 \in 1 .. n /\ k + 1 \in 1 .. n + 1 /\ (k + 1) - 1 = k
      BY <1>1, <3>2
    <3>4. q = at[k + 1]
      BY <1>4, <3>1, <3>3
    <3>. QED BY <3>3, <3>4
  <2>2. ASSUME NEW m \in 1 .. n PROVE at[m] \in LengthWords(b, end)
    <3>1. m - 1 \in 0 .. MaxMessages /\ f[m - 1] = at[m]
      BY <1>1, <1>4
    <3>. QED BY <1>2, <1>3, <3>1
  <2>. QED BY <2>1, <2>2
<1>7. Cardinality({at[m] : m \in 1 .. n}) = n
  <2>. DEFINE g == [m \in 1 .. n |-> at[m]]
              S == {at[m] : m \in 1 .. n}
  <2>1. IsFiniteSet(1 .. n) /\ Cardinality(1 .. n) = n
    <3>1. 1 \in Int /\ n \in Int
      BY <1>1
    <3>. QED BY <1>1, <3>1, FS_Interval
  <2>2. g \in Bijection(1 .. n, S)
    <3>1. g \in [1 .. n -> S]
      OBVIOUS
    <3>2. ASSUME NEW m \in 1 .. n, NEW l \in 1 .. n, g[m] = g[l] PROVE m = l
      <4>1. m \in 1 .. n + 1 /\ l \in 1 .. n + 1 /\ at[m] = at[l]
        BY <1>1, <3>2
      <4>0. at[m] \in Nat /\ at[l] \in Nat
        BY <4>1 DEF Fill
      <4>2. ~(m < l) /\ ~(l < m)
        BY <1>0, <4>0, <4>1
      <4>. QED BY <4>1, <4>2
    <3>3. \A s \in S : \E m \in 1 .. n : g[m] = s
      OBVIOUS
    <3>. HIDE DEF g, S
    <3>4. g \in Injection(1 .. n, S)
      BY <3>1, <3>2 DEF Injection, IsInjective
    <3>5. g \in Surjection(1 .. n, S)
      BY <3>1, <3>3 DEF Surjection
    <3>. QED BY <3>4, <3>5 DEF Bijection
  <2>3. ExistsBijection(1 .. n, S)
    BY <2>2 DEF ExistsBijection
  <2>. HIDE DEF g, S
  <2>4. Cardinality(S) = Cardinality(1 .. n)
    BY <2>1, <2>3, FS_Bijection
  <2>. QED BY <2>1, <2>4 DEF S
<1>8. Max({at[m] : m \in 1 .. n}) = at[n]
  <2>. DEFINE S == {at[m] : m \in 1 .. n}
  <2>0. ASSUME NEW m \in 1 .. n PROVE at[m] <= at[n] /\ at[m] \in Nat
    <3>1. m \in 1 .. n + 1 /\ n \in 1 .. n + 1 /\ (m = n \/ m < n)
      BY <1>1
    <3>2. at[m] \in Nat /\ at[n] \in Nat /\ (m < n => at[m] < at[n])
      BY <1>0, <3>1 DEF Fill
    <3>. QED BY <3>1, <3>2
  <2>1. S \in SUBSET Nat /\ at[n] \in S /\ \A x \in S : x <= at[n]
    BY <1>1, <2>0
  <2>. HIDE DEF S
  <2>2. Max(S) = at[n]
    BY <2>1, PacketMax
  <2>. QED BY <2>2 DEF S
<1>. QED BY <1>6, <1>7, <1>8

-----------------------------------------------------------------------------
(* The words of a value *)

\* A value that is not written yet is a word, whatever its type is.
LEMMA UnsetShaped ==
    ASSUME NEW tag \in TagSet
    PROVE  Shaped(tag, Unset) /\ Len(Unset) = 1
<1>1. Unset = [k \in 1 .. 1 |-> Unset[k]] /\ Unset[1] = Zero
  BY DEF Unset
<1>2. IsSeq(Unset) /\ Len(Unset) = 1
  BY <1>1, IsSeqOf
<1>3. HasNul(Zero) /\ Swap(Zero) = Zero /\ BlobWords(Zero, "net") = 1 /\ Zero[1] # "len"
  BY DEF HasNul, Swap, BlobWords, Zero
<1>. HIDE DEF Unset
<1>. QED BY <1>1, <1>2, <1>3 DEF Shaped

\* Only the last word of a value is zero or has characters and a NUL.
EndsOnce(w) == \A j \in 1 .. Len(w) : w[j] = Zero \/ w[j][1] = "end" => j = Len(w)

\* The word of a number.
LEMMA EncodedInt ==
    ASSUME NEW id, NEW v \in Values("i", id)
    PROVE  LET w == Encoded("i", v)
           IN  /\ Shaped("i", w) /\ EndsOnce(w)
               /\ ~(w[1] = Zero) /\ ~(w[1][1] = "end")
<1>. DEFINE u == << <<"int", v.id, "net">> >>
<1>1. Encoded("i", v) = u
  BY DEF Encoded
<1>2. u = [k \in 1 .. 1 |-> u[k]] /\ u[1] = <<"int", v.id, "net">>
  OBVIOUS
<1>3. u[1][1] = "int"
  BY <1>2
<1>. HIDE DEF u
<1>4. IsSeq(u) /\ Len(u) = 1
  BY <1>2, IsSeqOf
<1>5. u[1] # Zero
  BY <1>3 DEF Zero
<1>. QED BY <1>1, <1>3, <1>4, <1>5 DEF Shaped, EndsOnce

\* The words of a string.
LEMMA EncodedText ==
    ASSUME NEW id, NEW v \in Values("s", id)
    PROVE  LET w == Encoded("s", v) IN Shaped("s", w) /\ EndsOnce(w)
<1>0. v.full \in Nat /\ v.rest \in BOOLEAN
  BY OscAssumption DEF Values, Texts
<1>. DEFINE n == v.full
            x == IF v.rest THEN <<"end", v.id>> ELSE Zero
            w == Encoded("s", v)
<1>s. PICK s : s = [j \in 1 .. n |-> <<"str", v.id, j>>]
  OBVIOUS
<1>t. PICK t : t = << x >>
  OBVIOUS
<1>1. w = s \o t
  BY <1>s, <1>t DEF Encoded
<1>2. t = [k \in 1 .. 1 |-> t[k]] /\ t[1] = x
  BY <1>t
<1>3. IsSeq(t) /\ Len(t) = 1
  BY <1>2, IsSeqOf
<1>4. s = [k \in 1 .. n |-> s[k]]
  BY <1>s
<1>5. IsSeq(s) /\ Len(s) = n
  BY <1>0, <1>4, IsSeqOf
<1>6. \A j \in 1 .. n : s[j][1] = "str"
  BY <1>s
<1>7. x[1] \in {"end", "zero"}
  BY DEF Zero
<1>8. IsSeq(w) /\ Len(w) = n + 1 /\ (\A j \in 1 .. n : w[j] = s[j]) /\ w[n + 1] = x
  <2>. HIDE DEF w, x
  <2>3. IsSeq(s) /\ IsSeq(t)
    BY <1>3, <1>5
  <2>4. IsSeq(w) /\ Len(w) = Len(s) + Len(t)
    BY <1>1, <2>3, IsSeqConcat
  <2>5. \A j \in 1 .. Len(s) : w[j] = s[j]
    BY <1>1, <2>3, IsSeqConcat
  <2>6. \A j \in 1 .. Len(t) : w[Len(s) + j] = t[j]
    BY <1>1, <2>3, IsSeqConcat
  <2>1. IsSeq(w) /\ Len(w) = n + 1 /\ \A j \in 1 .. n : w[j] = s[j]
    BY <1>1, <1>3, <1>5, <2>4, <2>5, <2>6
  <2>2. 1 \in 1 .. 1
    OBVIOUS
  <2>7. w[n + 1] = t[1]
    BY <1>1, <1>3, <1>5, <2>2, <2>4, <2>5, <2>6
  <2>. QED BY <1>2, <2>1, <2>7
<1>. HIDE DEF w, x
<1>9. ASSUME NEW j \in 1 .. n PROVE w[j][1] = "str" /\ w[j] # Zero
  BY <1>6, <1>8 DEF Zero
<1>10. \A j \in 1 .. Len(w) : j \in 1 .. n \/ j = n + 1
  BY <1>0, <1>8
<1>11. w[n + 1][1] \in {"end", "zero"}
  BY <1>7, <1>8
<1>12. Shaped("s", w)
  <2>1. \A j \in 1 .. Len(w) - 1 : ~HasNul(w[j])
    BY <1>0, <1>8, <1>9 DEF HasNul
  <2>2. HasNul(w[Len(w)])
    BY <1>8, <1>11 DEF HasNul
  <2>3. 1 \in 1 .. Len(w)
    BY <1>0, <1>8
  <2>4. Swap(w[1]) = w[1]
    BY <1>9, <1>10, <1>11, <2>3 DEF Swap
  <2>5. \A j \in 1 .. Len(w) : w[j][1] # "len"
    BY <1>9, <1>10, <1>11
  <2>. QED BY <1>0, <1>8, <2>1, <2>2, <2>4, <2>5 DEF Shaped
<1>13. EndsOnce(w)
  BY <1>0, <1>8, <1>9, <1>10 DEF EndsOnce
<1>. QED BY <1>12, <1>13 DEF w

\* The words of a blob.
LEMMA EncodedBlob ==
    ASSUME NEW id, NEW v \in Values("b", id)
    PROVE  LET w == Encoded("b", v) IN Shaped("b", w) /\ EndsOnce(w)
<1>0. v.full \in Nat
  BY OscAssumption DEF Values, Blobs
<1>. DEFINE n == v.full
            x == IF n = 0 THEN Zero ELSE <<"size", n, "net">>
            w == Encoded("b", v)
<1>s. PICK s : s = [j \in 1 .. n |-> <<"blob", v.id, j>>]
  OBVIOUS
<1>t. PICK t : t = << x >>
  OBVIOUS
<1>1. w = t \o s
  BY <1>s, <1>t DEF Encoded
<1>2. t = [k \in 1 .. 1 |-> t[k]] /\ t[1] = x
  BY <1>t
<1>3. IsSeq(t) /\ Len(t) = 1
  BY <1>2, IsSeqOf
<1>4. s = [k \in 1 .. n |-> s[k]]
  BY <1>s
<1>5. IsSeq(s) /\ Len(s) = n
  BY <1>0, <1>4, IsSeqOf
<1>6. \A j \in 1 .. n : s[j][1] = "blob"
  BY <1>s
<1>7. n = 0 => x = Zero
  OBVIOUS
<1>8. n # 0 => x[1] = "size" /\ x[2] = n /\ x[3] = "net"
  OBVIOUS
<1>9. IsSeq(w) /\ Len(w) = 1 + n /\ w[1] = x /\ \A j \in 1 .. n : w[1 + j] = s[j]
  <2>. HIDE DEF w, x
  <2>3. IsSeq(s) /\ IsSeq(t)
    BY <1>3, <1>5
  <2>4. IsSeq(w) /\ Len(w) = Len(t) + Len(s)
    BY <1>1, <2>3, IsSeqConcat
  <2>5. \A j \in 1 .. Len(t) : w[j] = t[j]
    BY <1>1, <2>3, IsSeqConcat
  <2>6. \A j \in 1 .. Len(s) : w[Len(t) + j] = s[j]
    BY <1>1, <2>3, IsSeqConcat
  <2>1. IsSeq(w) /\ Len(w) = 1 + n /\ \A j \in 1 .. n : w[1 + j] = s[j]
    BY <1>1, <1>3, <1>5, <2>4, <2>5, <2>6
  <2>2. 1 \in 1 .. 1
    OBVIOUS
  <2>7. w[1] = t[1]
    BY <1>1, <1>3, <1>5, <2>2, <2>4, <2>5, <2>6
  <2>. QED BY <1>2, <2>1, <2>7
<1>. HIDE DEF w, x
<1>10. ASSUME NEW j \in 1 .. Len(w), j # 1 PROVE w[j][1] = "blob" /\ w[j] # Zero
  <2>0. Len(w) = 1 + n /\ j \in 1 .. Len(w) /\ j # 1
    BY <1>9, <1>10
  <2>1. j - 1 \in 1 .. n /\ 1 + (j - 1) = j
    BY <1>0, <2>0
  <2>2. w[j][1] = "blob"
    BY <1>6, <1>9, <2>1
  <2>. QED BY <2>2 DEF Zero
<1>11. w[1][1] \in {"zero", "size"}
  BY <1>7, <1>8, <1>9 DEF Zero
<1>12. n # 0 => w[1] # Zero
  BY <1>8, <1>9 DEF Zero
<1>13. BlobWords(w[1], "net") = 1 + n
  <2>1. CASE n = 0
    <3>1. w[1] = Zero /\ 1 + n = 1
      BY <1>7, <1>9, <2>1
    <3>2. BlobWords(Zero, "net") = 1
      BY DEF BlobWords, Zero
    <3>. QED BY <3>1, <3>2
  <2>2. CASE n # 0
    <3>1. w[1] # Zero /\ w[1][1] = "size" /\ w[1][3] = "net" /\ w[1][2] = n
      BY <1>8, <1>9, <1>12, <2>2
    <3>. QED BY <3>1 DEF BlobWords
  <2>. QED BY <2>1, <2>2
<1>14. Shaped("b", w)
  <2>1. \A j \in 1 .. Len(w) : w[j][1] # "len"
    BY <1>10, <1>11
  <2>. QED BY <1>0, <1>9, <1>13, <2>1 DEF Shaped
<1>15. EndsOnce(w)
  <2>1. n # 0 => w[1][1] # "end" /\ w[1] # Zero
    BY <1>8, <1>9, <1>12
  <2>. QED BY <1>0, <1>9, <1>10, <2>1 DEF EndsOnce
<1>. QED BY <1>14, <1>15 DEF w

\* The words of a value, whatever its tag.
LEMMA EncodedShaped ==
    ASSUME NEW tag \in TagSet, NEW id, NEW v \in Values(tag, id)
    PROVE  LET w == Encoded(tag, v)
           IN  /\ Shaped(tag, w) /\ EndsOnce(w)
               /\ tag = "i" => ~(w[1] = Zero) /\ ~(w[1][1] = "end")
BY EncodedInt, EncodedText, EncodedBlob DEF TagSet

-----------------------------------------------------------------------------
(* Space for a value *)

\* The words of b from start to end are in c, shift further on.
Moved(b, c, start, end, shift) ==
    /\ \A q \in start .. end - 1 : c[q + shift] = b[q]
    /\ \A q \in 0 .. Cap : q < start /\ q < start + shift => c[q] = b[q]
    /\ \A q \in 0 .. Cap : q >= end /\ q >= end + shift => c[q] = b[q]

\* osc_move_data_left moves the words of a range.
LEMMA MovedLeft ==
    ASSUME NEW b, IsBuffer(b), NEW start \in Nat, NEW end \in Nat, end <= Cap,
           NEW n \in Nat, n <= start
    PROVE  LET c == MoveDataLeft(b, start, end, n)
           IN  IsBuffer(c) /\ Moved(b, c, start, end, -n)
<1>. DEFINE c == MoveDataLeft(b, start, end, n)
<1>1. c = [p \in 0 .. Cap |-> IF p \in start - n .. end - n - 1 THEN b[p + n] ELSE b[p]]
  BY DEF MoveDataLeft
<1>2. Cap \in Nat
  BY OscAssumption
<1>. HIDE DEF c
<1>3. \A p \in 0 .. Cap : c[p] = IF p \in start - n .. end - n - 1 THEN b[p + n] ELSE b[p]
  BY <1>1
<1>4. ASSUME NEW p \in 0 .. Cap PROVE c[p][1] = "len" => c[p][2] \in Nat
  <2>1. p \in start - n .. end - n - 1 => p + n \in 0 .. Cap
    BY <1>2
  <2>. QED BY <1>3, <2>1 DEF IsBuffer
<1>5. IsBuffer(c)
  <2>1. c = [p \in 0 .. Cap |-> c[p]]
    BY <1>1
  <2>. QED BY <1>4, <2>1 DEF IsBuffer
<1>6. ASSUME NEW q \in start .. end - 1 PROVE c[q + (-n)] = b[q]
  <2>1. q + (-n) \in 0 .. Cap /\ q + (-n) \in start - n .. end - n - 1 /\ (q + (-n)) + n = q
    BY <1>2
  <2>. QED BY <1>3, <2>1
<1>7. ASSUME NEW q \in 0 .. Cap, q < start, q < start + (-n) PROVE c[q] = b[q]
  <2>1. ~(q \in start - n .. end - n - 1)
    BY <1>2, <1>7
  <2>. QED BY <1>3, <2>1
<1>8. ASSUME NEW q \in 0 .. Cap, q >= end, q >= end + (-n) PROVE c[q] = b[q]
  <2>1. ~(q \in start - n .. end - n - 1)
    BY <1>2, <1>8
  <2>. QED BY <1>3, <2>1
<1>9. Moved(b, c, start, end, -n)
  BY <1>6, <1>7, <1>8, Zenon DEF Moved
<1>. QED BY <1>5, <1>9 DEF c

\* osc_move_data_right moves the words of a range.
LEMMA MovedRight ==
    ASSUME NEW b, IsBuffer(b), NEW start \in Nat, NEW end \in Nat, NEW n \in Nat, end + n <= Cap
    PROVE  LET c == MoveDataRight(b, start, end, n)
           IN  IsBuffer(c) /\ Moved(b, c, start, end, n)
<1>. DEFINE c == MoveDataRight(b, start, end, n)
<1>1. c = [p \in 0 .. Cap |-> IF p \in start + n .. end + n - 1 THEN b[p - n] ELSE b[p]]
  BY DEF MoveDataRight
<1>2. Cap \in Nat
  BY OscAssumption
<1>. HIDE DEF c
<1>3. \A p \in 0 .. Cap : c[p] = IF p \in start + n .. end + n - 1 THEN b[p - n] ELSE b[p]
  BY <1>1
<1>4. ASSUME NEW p \in 0 .. Cap PROVE c[p][1] = "len" => c[p][2] \in Nat
  <2>1. p \in start + n .. end + n - 1 => p - n \in 0 .. Cap
    BY <1>2
  <2>. QED BY <1>3, <2>1 DEF IsBuffer
<1>5. IsBuffer(c)
  <2>1. c = [p \in 0 .. Cap |-> c[p]]
    BY <1>1
  <2>. QED BY <1>4, <2>1 DEF IsBuffer
<1>6. ASSUME NEW q \in start .. end - 1 PROVE c[q + n] = b[q]
  <2>1. q + n \in 0 .. Cap /\ q + n \in start + n .. end + n - 1 /\ (q + n) - n = q
    BY <1>2
  <2>. QED BY <1>3, <2>1
<1>7. ASSUME NEW q \in 0 .. Cap, q < start, q < start + n PROVE c[q] = b[q]
  <2>1. ~(q \in start + n .. end + n - 1)
    BY <1>2, <1>7
  <2>. QED BY <1>3, <2>1
<1>8. ASSUME NEW q \in 0 .. Cap, q >= end, q >= end + n PROVE c[q] = b[q]
  <2>1. ~(q \in start + n .. end + n - 1)
    BY <1>2, <1>8
  <2>. QED BY <1>3, <2>1
<1>9. Moved(b, c, start, end, n)
  BY <1>6, <1>7, <1>8, Zenon DEF Moved
<1>. QED BY <1>5, <1>9 DEF c

\* What osc_maybe_reserve_space does to the buffer for the value i, which grows
\* by shift words: it moves what follows, clears the last word of the value and
\* corrects the length of the message.
MovedBuf(i, shift) ==
    LET next == index[i] + ValueWords(i)
    IN  IF shift < 0 THEN MoveDataLeft(buf, next, free, -shift)
        ELSE IF shift > 0 THEN MoveDataRight(buf, next, free, shift)
        ELSE buf
PaddedBuf(i, shift) == [MovedBuf(i, shift) EXCEPT ![index[i] + ValueWords(i) + shift - 1] = Zero]
FixedBuf(i, shift) ==
    IF ~single /\ shift # 0 THEN FixLength(PaddedBuf(i, shift), index[i], free + shift, shift)
    ELSE PaddedBuf(i, shift)
ShiftedIndex(i, shift) == [k \in DOMAIN index |-> IF k > i THEN index[k] + shift ELSE index[k]]

\* The places and the sizes of the values are numbers.
LEMMA IndexFacts ==
    ASSUME IndexInv, NEW i \in DOMAIN tbuf
    PROVE  /\ TagCount \in Nat /\ DOMAIN tbuf = 1 .. TagCount /\ i \in 1 .. TagCount
           /\ DOMAIN index = 1 .. TagCount + 1 /\ index \in [1 .. TagCount + 1 -> Nat]
           /\ index[TagCount + 1] = free
           /\ ValueWords(i) \in Nat \ {0}
           /\ index[i] \in Nat /\ index[i] + ValueWords(i) <= free
           /\ tbuf[i] \in TagSet
<1>1. TagCount \in Nat /\ DOMAIN tbuf = 1 .. TagCount
  BY LenProperties DEF IndexInv, TagCount
<1>2. index \in Seq(Nat) /\ Len(index) = TagCount + 1
  BY DEF IndexInv
<1>3. DOMAIN index = 1 .. TagCount + 1 /\ index \in [1 .. TagCount + 1 -> Nat]
  BY <1>2, LenProperties
<1>4. Shaped(tbuf[i], written[i])
  BY DEF IndexInv
<1>5. ValueWords(i) \in Nat \ {0}
  BY <1>4, SeqOf DEF Shaped, ValueWords
<1>6. i \in DOMAIN index /\ TagCount + 1 \in DOMAIN index /\ i < TagCount + 1
  BY <1>1, <1>3
<1>7. index[i] + ValueWords(i) <= index[TagCount + 1]
  BY <1>6 DEF IndexInv
<1>8. index[TagCount + 1] = free
  BY <1>2 DEF IndexInv
<1>9. tbuf[i] \in TagSet
  BY DEF IndexInv
<1>. QED BY <1>1, <1>3, <1>5, <1>6, <1>7, <1>8, <1>9

\* The result of maybe-reserve-space when the value i grows by shift words.
Grown(i, shift, last, end) ==
    [buf |-> IF end - 1 # length /\ ~last /\ single
             THEN [FixedBuf(i, shift) EXCEPT ![0] = <<"len", end - 1>>]
             ELSE FixedBuf(i, shift),
     index |-> ShiftedIndex(i, shift), free |-> end, length |-> end - 1,
     bundleLen |-> IF end - 1 # length /\ ~last THEN end - 1 + Reserved ELSE bundleLen]

\* osc_maybe_reserve_space, when it knows the size that the value has.
LEMMA ReserveIs ==
    ASSUME IndexInv, NEW i \in DOMAIN tbuf, NEW size \in Nat, NEW last, NEW blob,
           OldSize(i, last, blob) = ValueWords(i)
    PROVE  MaybeReserveSpace(i, size, last, blob)
           = Grown(i, size - ValueWords(i), last, free + (size - ValueWords(i)))
<1>. DEFINE n == TagCount
            shift == size - ValueWords(i)
            T == {k \in DOMAIN index : k > i /\ index[k] >= free}
            places == [k \in DOMAIN index |-> IF k \in i + 1 .. Min(T) THEN index[k] + shift ELSE index[k]]
<1>1. /\ n \in Nat /\ DOMAIN tbuf = 1 .. n /\ i \in 1 .. n
      /\ DOMAIN index = 1 .. n + 1 /\ index \in [1 .. n + 1 -> Nat]
      /\ index[n + 1] = free /\ ValueWords(i) \in Nat \ {0} /\ index[i] \in Nat
  BY IndexFacts
<1>2. Min(T) = n + 1
  <2>1. T \in SUBSET Nat /\ n + 1 \in T
    BY <1>1
  <2>2. ASSUME NEW k \in T PROVE n + 1 <= k
    <3>. SUFFICES ASSUME k < n + 1 PROVE FALSE
      BY <1>1
    <3>1. k \in DOMAIN tbuf
      BY <1>1
    <3>2. index[k] + ValueWords(k) <= free /\ ValueWords(k) \in Nat \ {0} /\ index[k] \in Nat
      BY <3>1, IndexFacts
    <3>3. index[k] >= free /\ free \in Nat
      BY <1>1
    <3>. QED BY <3>2, <3>3
  <2>. HIDE DEF T
  <2>. QED BY <2>1, <2>2, PacketMin
<1>3. places = ShiftedIndex(i, shift)
  <2>1. ASSUME NEW k \in DOMAIN index
        PROVE  (IF k \in i + 1 .. Min(T) THEN index[k] + shift ELSE index[k])
               = (IF k > i THEN index[k] + shift ELSE index[k])
    <3>. HIDE DEF T
    <3>. QED BY <1>1, <1>2
  <2>. HIDE DEF T
  <2>. QED BY <2>1 DEF ShiftedIndex
<1>4. (IF shift = 0 THEN free ELSE places[Min(T)]) = free + shift
  <2>1. ShiftedIndex(i, shift)[n + 1] = free + shift
    BY <1>1 DEF ShiftedIndex
  <2>2. places[Min(T)] = free + shift
    <3>. HIDE DEF T, places
    <3>. QED BY <1>2, <1>3, <2>1
  <2>3. free \in Nat
    BY <1>1
  <2>. HIDE DEF T, places
  <2>. QED BY <2>2, <2>3
<1>. DEFINE newFree == IF shift = 0 THEN free ELSE places[Min(T)]
            padded == [MovedBuf(i, shift) EXCEPT ![index[i] + ValueWords(i) + shift - 1] = Zero]
            fixed == IF ~single /\ shift # 0 THEN FixLength(padded, index[i], newFree, shift) ELSE padded
            grown == newFree - 1 # length
            r == MaybeReserveSpace(i, size, last, blob)
<1>5. r = [buf |-> IF grown /\ ~last /\ single THEN [fixed EXCEPT ![0] = <<"len", newFree - 1>>]
                   ELSE fixed,
           index |-> places, free |-> newFree, length |-> newFree - 1,
           bundleLen |-> IF grown /\ ~last THEN newFree - 1 + Reserved ELSE bundleLen]
  <2>. DEFINE Result(old) ==
         LET next == index[i] + old
             by == size - old
             moved == IF by < 0 THEN MoveDataLeft(buf, next, free, -by)
                      ELSE IF by > 0 THEN MoveDataRight(buf, next, free, by)
                      ELSE buf
             end == Min({k \in DOMAIN index : k > i /\ index[k] >= free})
             moves == [k \in DOMAIN index |-> IF k \in i + 1 .. end THEN index[k] + by ELSE index[k]]
             newEnd == IF by = 0 THEN free ELSE moves[end]
             clear == [moved EXCEPT ![next + by - 1] = Zero]
             right == IF ~single /\ by # 0 THEN FixLength(clear, index[i], newEnd, by) ELSE clear
             more == newEnd - 1 # length
         IN  [buf |-> IF more /\ ~last /\ single THEN [right EXCEPT ![0] = <<"len", newEnd - 1>>]
                      ELSE right,
              index |-> moves, free |-> newEnd, length |-> newEnd - 1,
              bundleLen |-> IF more /\ ~last THEN newEnd - 1 + Reserved ELSE bundleLen]
  <2>1. r = Result(OldSize(i, last, blob))
    BY Zenon DEF MaybeReserveSpace
  <2>2. r = Result(ValueWords(i))
    <3>. HIDE DEF Result, r
    <3>. QED BY <2>1
  <2>. QED BY <2>2, Zenon DEF MovedBuf
<1>e. PICK e : e = free + shift
  OBVIOUS
<1>6. newFree = e
  BY <1>4, <1>e
<1>7. fixed = FixedBuf(i, shift)
  <2>. HIDE DEF newFree, shift
  <2>. QED BY <1>e, <1>6, Zenon DEF FixedBuf, PaddedBuf
<1>. HIDE DEF newFree, fixed, places, shift, r
<1>8. r = Grown(i, shift, last, e)
  BY <1>3, <1>5, <1>6, <1>7 DEF Grown
<1>9. r = Grown(i, shift, last, free + shift)
  BY <1>e, <1>8
<1>. QED BY <1>9, Zenon DEF r, shift

-----------------------------------------------------------------------------
(* The effect of (setf value) *)

\* The words of a value that are written over b: what is there changes only
\* where the value is.
WrittenAt(b, c, p, w) ==
    /\ IsBuffer(c) /\ HasWords(c, p, w)
    /\ \A q \in 0 .. Cap : q < p \/ q >= p + Len(w) => c[q] = b[q]

\* set-string and set-blob write the words of the value and no others.
LEMMA WriteIs ==
    ASSUME NEW b, IsBuffer(b), NEW p \in Nat, NEW tag, NEW w, Shaped(tag, w), EndsOnce(w),
           p + Len(w) - 1 <= Cap,
           b[p + Len(w) - 1] = Zero \/ (Len(w) = 1 /\ ~(w[1] = Zero) /\ ~(w[1][1] = "end"))
    PROVE  WrittenAt(b, Write(b, p, w), p, w)
<1>. DEFINE c == Write(b, p, w)
            New(q, x) == IF x = Zero THEN b[q]
                         ELSE IF x[1] = "end" /\ b[q] # Zero THEN <<"str", "dirty", 0>> ELSE x
<1>1. Len(w) \in Nat \ {0} /\ Cap \in Nat
  BY SeqOf, OscAssumption DEF Shaped
<1>2. c = [q \in 0 .. Cap |-> IF q \notin p .. p + Len(w) - 1 THEN b[q] ELSE New(q, w[q - p + 1])]
  BY DEF Write
<1>. HIDE DEF c
<1>3. ASSUME NEW q \in 0 .. Cap, q < p \/ q >= p + Len(w) PROVE c[q] = b[q]
  <2>1. q \notin p .. p + Len(w) - 1
    BY <1>1, <1>3
  <2>. HIDE DEF New
  <2>. QED BY <1>2, <2>1
<1>4. ASSUME NEW j \in 1 .. Len(w) PROVE c[p + j - 1] = w[j]
  <2>0. p + j - 1 \in 0 .. Cap /\ p + j - 1 \in p .. p + Len(w) - 1 /\ (p + j - 1) - p + 1 = j
    BY <1>1
  <2>1. c[p + j - 1] = New(p + j - 1, w[j])
    <3>. HIDE DEF New
    <3>. QED BY <1>2, <2>0
  <2>2. CASE w[j] = Zero \/ w[j][1] = "end"
    <3>1. j = Len(w)
      BY <2>2 DEF EndsOnce
    <3>2. b[p + j - 1] = Zero
      BY <2>2, <3>1
    <3>. QED BY <2>1, <2>2, <3>2
  <2>3. CASE ~(w[j] = Zero \/ w[j][1] = "end")
    BY <2>1, <2>3
  <2>. QED BY <2>2, <2>3
<1>5. ASSUME NEW q \in 0 .. Cap, c[q][1] = "len" PROVE c[q][2] \in Nat
  <2>1. CASE q < p \/ q >= p + Len(w)
    BY <1>3, <1>5, <2>1 DEF IsBuffer
  <2>2. CASE ~(q < p \/ q >= p + Len(w))
    <3>1. q - p + 1 \in 1 .. Len(w) /\ p + (q - p + 1) - 1 = q
      BY <1>1, <2>2
    <3>2. c[q] = w[q - p + 1]
      BY <1>4, <3>1
    <3>3. w[q - p + 1][1] # "len"
      BY <3>1 DEF Shaped
    <3>. QED BY <1>5, <3>2, <3>3
  <2>. QED BY <2>1, <2>2
<1>6. IsBuffer(c)
  <2>1. c = [q \in 0 .. Cap |-> c[q]]
    BY <1>2
  <2>. QED BY <1>5, <2>1 DEF IsBuffer
<1>7. HasWords(c, p, w)
  BY <1>4 DEF HasWords
<1>8. WrittenAt(b, c, p, w)
  BY <1>3, <1>6, <1>7 DEF WrittenAt
<1>. QED BY <1>8 DEF c

\* There is space for the value i, grown by shift: the words after it have
\* moved, the last word of it is zero, and only the word at a has changed
\* before it.
Spaced(b, i, shift, a) ==
    /\ IsBuffer(b)
    /\ \A q \in index[i] + ValueWords(i) .. free - 1 : b[q + shift] = buf[q]
    /\ \A q \in 0 .. index[i] - 1 : q # a => b[q] = buf[q]
    /\ \A q \in 0 .. Cap : q >= free /\ q >= free + shift => b[q] = buf[q]
    /\ b[index[i] + ValueWords(i) + shift - 1] = Zero

\* The words behind a value that grows or shrinks are moved.
LEMMA MovedBufIs ==
    ASSUME IndexInv, IsBuffer(buf), NEW i \in DOMAIN tbuf, NEW shift \in Int,
           ValueWords(i) + shift >= 1, free \in Nat, free <= Cap, free + shift <= Cap
    PROVE  /\ IsBuffer(MovedBuf(i, shift))
           /\ Moved(buf, MovedBuf(i, shift), index[i] + ValueWords(i), free, shift)
<1>. DEFINE next == index[i] + ValueWords(i)
<1>1. /\ ValueWords(i) \in Nat \ {0} /\ index[i] \in Nat /\ next <= free
  BY IndexFacts
<1>2. next \in Nat /\ Cap \in Nat
  BY <1>1, OscAssumption
<1>3. CASE shift < 0
  <2>1. -shift \in Nat /\ -shift <= next /\ -(-shift) = shift
    BY <1>1, <1>3
  <2>2. MovedBuf(i, shift) = MoveDataLeft(buf, next, free, -shift)
    BY <1>3 DEF MovedBuf
  <2>3. PICK n : n = -shift
    OBVIOUS
  <2>4. n \in Nat /\ n <= next /\ -n = shift
    BY <2>1, <2>3
  <2>5. MovedBuf(i, shift) = MoveDataLeft(buf, next, free, n)
    BY <2>2, <2>3
  <2>. HIDE DEF next
  <2>6. IsBuffer(MoveDataLeft(buf, next, free, n)) /\ Moved(buf, MoveDataLeft(buf, next, free, n), next, free, -n)
    BY <1>2, <2>4, MovedLeft
  <2>7. IsBuffer(MovedBuf(i, shift)) /\ Moved(buf, MovedBuf(i, shift), next, free, shift)
    BY <2>4, <2>5, <2>6
  <2>. QED BY <2>7 DEF next
<1>4. CASE shift > 0
  <2>1. shift \in Nat
    BY <1>4
  <2>2. MovedBuf(i, shift) = MoveDataRight(buf, next, free, shift)
    BY <1>4 DEF MovedBuf
  <2>. HIDE DEF next
  <2>3. IsBuffer(MoveDataRight(buf, next, free, shift))
        /\ Moved(buf, MoveDataRight(buf, next, free, shift), next, free, shift)
    BY <1>2, <2>1, MovedRight
  <2>4. IsBuffer(MovedBuf(i, shift)) /\ Moved(buf, MovedBuf(i, shift), next, free, shift)
    BY <2>2, <2>3
  <2>. QED BY <2>4 DEF next
<1>5. CASE shift = 0
  <2>1. MovedBuf(i, shift) = buf
    BY <1>5 DEF MovedBuf
  <2>2. ASSUME NEW q \in next .. free - 1 PROVE buf[q + shift] = buf[q]
    <3>1. q + shift = q
      BY <1>2, <1>5
    <3>. QED BY <3>1
  <2>. HIDE DEF next
  <2>3. Moved(buf, buf, next, free, shift)
    BY <2>2 DEF Moved
  <2>4. Moved(buf, MovedBuf(i, shift), next, free, shift)
    BY <2>1, <2>3
  <2>. QED BY <2>1, <2>4 DEF next
<1>. QED BY <1>3, <1>4, <1>5

\* The space of a value that ends with a zero, for set-string.
LEMMA PaddedBufIs ==
    ASSUME IndexInv, IsBuffer(buf), NEW i \in DOMAIN tbuf, NEW shift \in Int,
           ValueWords(i) + shift >= 1, free \in Nat, free <= Cap, free + shift <= Cap
    PROVE  \A a : Spaced(PaddedBuf(i, shift), i, shift, a)
<1>. DEFINE x == index[i]
            z == index[i] + ValueWords(i) + shift - 1
<1>1. /\ ValueWords(i) \in Nat \ {0} /\ x \in Nat /\ x + ValueWords(i) <= free
  BY IndexFacts
<1>2. Cap \in Nat
  BY OscAssumption
<1>3. z \in x .. free + shift - 1 /\ z \in 0 .. Cap
  BY <1>1, <1>2
<1>4. PICK m : m = MovedBuf(i, shift)
  OBVIOUS
<1>5. IsBuffer(m) /\ Moved(buf, m, index[i] + ValueWords(i), free, shift)
  BY <1>4, MovedBufIs
<1>6. m = [p \in 0 .. Cap |-> m[p]]
  BY <1>5 DEF IsBuffer
<1>7. PICK c : c = [m EXCEPT ![z] = Zero]
  OBVIOUS
<1>8. PaddedBuf(i, shift) = c
  BY <1>4, <1>7 DEF PaddedBuf
<1>. HIDE DEF z
<1>9. /\ c = [p \in 0 .. Cap |-> c[p]] /\ c[z] = Zero
      /\ \A p \in 0 .. Cap : p # z => c[p] = m[p]
  BY <1>3, <1>6, <1>7
<1>10. IsBuffer(c)
  <2>1. Zero[1] # "len"
    BY DEF Zero
  <2>. QED BY <1>5, <1>9, <2>1 DEF IsBuffer
<1>11. ASSUME NEW q \in x + ValueWords(i) .. free - 1 PROVE c[q + shift] = buf[q]
  <2>1. q + shift \in 0 .. Cap /\ q + shift # z
    BY <1>1, <1>2 DEF z
  <2>2. m[q + shift] = buf[q]
    BY <1>5 DEF Moved
  <2>. QED BY <1>9, <2>1, <2>2
<1>12. ASSUME NEW q \in 0 .. x - 1 PROVE c[q] = buf[q]
  <2>1. q \in 0 .. Cap /\ q # z /\ q < x + ValueWords(i) /\ q < x + ValueWords(i) + shift
    BY <1>1, <1>2, <1>3
  <2>2. m[q] = buf[q]
    BY <1>5, <2>1 DEF Moved
  <2>. QED BY <1>9, <2>1, <2>2
<1>13. ASSUME NEW q \in 0 .. Cap, q >= free, q >= free + shift PROVE c[q] = buf[q]
  <2>1. q # z
    BY <1>1, <1>2, <1>3, <1>13
  <2>2. m[q] = buf[q]
    BY <1>5, <1>13 DEF Moved
  <2>. QED BY <1>9, <2>1, <2>2
<1>14. c[index[i] + ValueWords(i) + shift - 1] = Zero
  BY <1>9 DEF z
<1>15. ASSUME NEW a PROVE Spaced(c, i, shift, a)
  BY <1>10, <1>11, <1>12, <1>13, <1>14 DEF Spaced
<1>. QED BY <1>8, <1>15

\* The value i belongs to message m.
InMessage(at, first, i, m) ==
    /\ Layout(at, first)
    /\ m \in 1 .. MessageCount /\ first[m] < i /\ i <= first[m + 1]

\* Each value belongs to a message.
LEMMA MessageFound ==
    ASSUME IndexInv, MessageCount \in Nat, NEW at, NEW first, Layout(at, first),
           MessageCount >= 1, NEW i \in DOMAIN tbuf
    PROVE  \E m \in 1 .. MessageCount : InMessage(at, first, i, m)
<1>. DEFINE N == MessageCount
            T == {l \in 1 .. N + 1 : i <= first[l]}
<1>1. N \in Nat /\ TagCount \in Nat /\ i \in 1 .. TagCount
  BY IndexFacts
<1>2. /\ first \in [1 .. N + 1 -> 0 .. TagCount] /\ first[1] = 0 /\ first[N + 1] = TagCount
  BY DEF Layout, MessageParts
<1>3. T \in SUBSET Nat /\ N + 1 \in T
  BY <1>1, <1>2
<1>4. PICK l \in T : \A y \in T : l <= y
  <2>. HIDE DEF T
  <2>. QED BY <1>3, PacketLeast
<1>5. l \in 1 .. N + 1 /\ i <= first[l] /\ l # 1
  BY <1>1, <1>2
<1>6. l - 1 \in 1 .. N /\ l - 1 \in 1 .. N + 1 /\ (l - 1) + 1 = l /\ l - 1 \notin T
  BY <1>1, <1>4, <1>5
<1>7. first[l - 1] < i
  BY <1>1, <1>2, <1>6
<1>8. InMessage(at, first, i, l - 1)
  BY <1>5, <1>6, <1>7 DEF InMessage
<1>. QED BY <1>6, <1>8

\* Where a value is in its message, and its message in the buffer.
LEMMA MessageFacts ==
    ASSUME IndexInv, MessageCount \in Nat, NEW i \in DOMAIN tbuf,
           NEW at, NEW first, NEW m, InMessage(at, first, i, m)
    PROVE  /\ MessageCount \in Nat /\ m \in 1 .. MessageCount
           /\ at[m] \in Nat /\ at[m + 1] \in Nat /\ first[m] \in Nat /\ first[m + 1] \in Nat
           /\ at[m] + 3 <= index[i] /\ index[i] + ValueWords(i) <= at[m + 1]
           /\ at[m + 1] <= free /\ at[1] = 0
           /\ \A k \in 1 .. m : at[k] \in Nat /\ at[k] <= at[m]
<1>. DEFINE N == MessageCount
<1>1. N \in Nat /\ m \in 1 .. N /\ first[m] < i /\ i <= first[m + 1] /\ i \in Nat
  BY IndexFacts DEF InMessage
<1>2. /\ at \in [1 .. N + 1 -> Nat] /\ at[1] = 0 /\ at[N + 1] = free
      /\ first \in [1 .. N + 1 -> 0 .. TagCount]
  BY DEF InMessage, Layout, MessageParts
<1>3. m \in 1 .. N + 1 /\ m + 1 \in 1 .. N + 1 /\ N + 1 \in 1 .. N + 1
  BY <1>1
<1>4. Apart(at, first)
  BY DEF InMessage, Layout
<1>5. index[i] >= at[m] + 3
  BY <1>1, <1>3, <1>4 DEF Apart
<1>6. index[i] + ValueWords(i) <= at[m + 1]
  BY <1>1, <1>3, <1>4 DEF Apart
<1>7. at[m + 1] <= at[N + 1]
  <2>1. CASE m + 1 < N + 1
    <3>1. at[m + 1] + 3 <= at[N + 1]
      BY <1>3, <2>1 DEF InMessage, Layout, MessageParts
    <3>. QED BY <1>2, <1>3, <3>1
  <2>2. CASE m + 1 = N + 1
    BY <1>2, <1>3, <2>2
  <2>. QED BY <1>1, <2>1, <2>2
<1>8. ASSUME NEW k \in 1 .. m PROVE at[k] \in Nat /\ at[k] <= at[m]
  <2>0. k \in 1 .. N + 1
    BY <1>1
  <2>1. CASE k < m
    <3>1. at[k] + 3 <= at[m]
      BY <1>3, <2>0, <2>1 DEF InMessage, Layout, MessageParts
    <3>. QED BY <1>2, <1>3, <2>0, <3>1
  <2>2. CASE k = m
    BY <1>2, <1>3, <2>2
  <2>. QED BY <1>1, <2>1, <2>2
<1>9. first[m] \in Nat /\ first[m + 1] \in Nat /\ at[m] \in Nat /\ at[m + 1] \in Nat
  <2>1. TagCount \in Nat
    BY IndexFacts
  <2>. QED BY <1>2, <1>3, <2>1
<1>10. index[i] \in Nat
  BY IndexFacts
<1>. QED BY <1>1, <1>2, <1>5, <1>6, <1>7, <1>8, <1>9, <1>10

\* The length word before the value may be written.
LengthSet(b, c, a, size) == c = [b EXCEPT ![a] = <<"len", size>>]

\* A new length word before the value leaves the rest alone.
LEMMA LengthChanged ==
    ASSUME IndexInv, NEW i \in DOMAIN tbuf, NEW shift \in Int, free \in Nat, free <= Cap,
           ValueWords(i) + shift >= 1, free + shift <= Cap,
           NEW b, NEW a \in 0 .. index[i] - 1, NEW size \in Nat, NEW c,
           Spaced(b, i, shift, a), LengthSet(b, c, a, size)
    PROVE  Spaced(c, i, shift, a) /\ c[a] = <<"len", size>>
<1>1. /\ ValueWords(i) \in Nat \ {0} /\ index[i] \in Nat /\ index[i] + ValueWords(i) <= free
  BY IndexFacts
<1>2. Cap \in Nat /\ a \in 0 .. Cap
  BY <1>1, OscAssumption
<1>3. b = [p \in 0 .. Cap |-> b[p]] /\ IsBuffer(b)
  BY DEF Spaced, IsBuffer
<1>4. c[a] = <<"len", size>> /\ c = [p \in 0 .. Cap |-> c[p]] /\ \A p \in 0 .. Cap : p # a => c[p] = b[p]
  BY <1>2, <1>3 DEF LengthSet
<1>5. IsBuffer(c)
  <2>1. ASSUME NEW p \in 0 .. Cap, c[p][1] = "len" PROVE c[p][2] \in Nat
    <3>1. CASE p = a
      BY <1>4, <3>1
    <3>2. CASE p # a
      BY <1>3, <1>4, <2>1, <3>2 DEF IsBuffer
    <3>. QED BY <3>1, <3>2
  <2>. QED BY <1>4, <2>1 DEF IsBuffer
<1>6. ASSUME NEW q \in index[i] + ValueWords(i) .. free - 1 PROVE c[q + shift] = buf[q]
  <2>1. q + shift \in 0 .. Cap /\ q + shift # a
    BY <1>1, <1>2
  <2>2. b[q + shift] = buf[q]
    BY DEF Spaced
  <2>. QED BY <1>4, <2>1, <2>2
<1>7. ASSUME NEW q \in 0 .. index[i] - 1, q # a PROVE c[q] = buf[q]
  <2>1. q \in 0 .. Cap
    BY <1>1, <1>2
  <2>2. b[q] = buf[q]
    BY <1>7 DEF Spaced
  <2>. QED BY <1>4, <1>7, <2>1, <2>2
<1>8. ASSUME NEW q \in 0 .. Cap, q >= free, q >= free + shift PROVE c[q] = buf[q]
  <2>1. q # a
    BY <1>1, <1>2, <1>8
  <2>2. b[q] = buf[q]
    BY <1>8 DEF Spaced
  <2>. QED BY <1>4, <2>1, <2>2
<1>9. c[index[i] + ValueWords(i) + shift - 1] = Zero
  <2>1. index[i] + ValueWords(i) + shift - 1 \in 0 .. Cap /\ index[i] + ValueWords(i) + shift - 1 # a
    BY <1>1, <1>2
  <2>2. b[index[i] + ValueWords(i) + shift - 1] = Zero
    BY DEF Spaced
  <2>. QED BY <1>4, <2>1, <2>2
<1>10. Spaced(c, i, shift, a)
  BY <1>5, <1>6, <1>7, <1>8, <1>9 DEF Spaced
<1>. QED BY <1>4, <1>10

\* osc_fix_length corrects the length of the message of the value.
LEMMA FixedBufIs ==
    ASSUME IndexInv, IsBuffer(buf), MessageCount \in Nat, MessageCount \in 1 .. MaxMessages,
           NEW i \in DOMAIN tbuf, NEW shift \in Int, free \in Nat, free <= Cap,
           ValueWords(i) + shift >= 1, free + shift <= Cap,
           NEW at, NEW first, NEW m, InMessage(at, first, i, m),
           ~single => LengthWordsRight(at)
    PROVE  /\ Spaced(FixedBuf(i, shift), i, shift, at[m])
           /\ ~single => FixedBuf(i, shift)[at[m]] = <<"len", at[m + 1] + shift - at[m] - 1>>
<1>1. /\ ValueWords(i) \in Nat \ {0} /\ index[i] \in Nat /\ index[i] + ValueWords(i) <= free
      /\ Cap \in Nat
  BY IndexFacts, OscAssumption
<1>2. /\ MessageCount \in Nat /\ m \in 1 .. MessageCount /\ at[m] \in Nat /\ at[m + 1] \in Nat
      /\ at[m] + 3 <= index[i] /\ index[i] + ValueWords(i) <= at[m + 1] /\ at[1] = 0
  BY MessageFacts
<1>2a. \A k \in 1 .. m : at[k] \in Nat /\ at[k] <= at[m]
  BY MessageFacts
<1>3. PICK b : b = PaddedBuf(i, shift)
  OBVIOUS
<1>4. \A a : Spaced(b, i, shift, a)
  BY <1>3, PaddedBufIs
<1>5. \A q \in 0 .. index[i] - 1 : b[q] = buf[q]
  <2>1. Spaced(b, i, shift, index[i])
    BY <1>4
  <2>. QED BY <1>1, <2>1 DEF Spaced
<1>6. CASE single
  <2>1. FixedBuf(i, shift) = b
    BY <1>3, <1>6, Zenon DEF FixedBuf
  <2>. QED BY <1>4, <1>6, <2>1
<1>7. CASE ~single /\ shift = 0
  <2>1. FixedBuf(i, shift) = b
    BY <1>3, <1>7, Zenon DEF FixedBuf
  <2>2. b[at[m]] = buf[at[m]]
    BY <1>1, <1>2, <1>5
  <2>3. buf[at[m]] = <<"len", at[m + 1] - at[m] - 1>>
    BY <1>2, <1>7 DEF LengthWordsRight
  <2>4. at[m + 1] + shift - at[m] - 1 = at[m + 1] - at[m] - 1
    BY <1>2, <1>7
  <2>. QED BY <1>4, <2>1, <2>2, <2>3, <2>4
<1>8. CASE ~single /\ shift # 0
  <2>. DEFINE size == at[m + 1] - at[m] - 1
              end == free + shift
              p == Max({q \in LengthWords(b, end) : q <= index[i]})
  <2>1. FixedBuf(i, shift) = FixLength(b, index[i], end, shift)
    BY <1>3, <1>8, Zenon DEF FixedBuf
  <2>2. FixLength(b, index[i], end, shift) = [b EXCEPT ![p] = <<"len", @[2] + shift>>]
    BY DEF FixLength
  <2>3. b[at[m]] = <<"len", size>>
    <3>1. buf[at[m]] = <<"len", size>>
      BY <1>2, <1>8 DEF LengthWordsRight
    <3>2. at[m] \in 0 .. index[i] - 1
      BY <1>1, <1>2
    <3>. QED BY <1>5, <3>1, <3>2
  <2>4. p = at[m]
    <3>1. ASSUME NEW k \in 1 .. m - 1 PROVE b[at[k]] = <<"len", at[k + 1] - at[k] - 1>>
      <4>1. k \in 1 .. MessageCount /\ k \in 1 .. m
        BY <1>2
      <4>2. buf[at[k]] = <<"len", at[k + 1] - at[k] - 1>>
        BY <1>8, <4>1 DEF LengthWordsRight
      <4>3. at[k] \in 0 .. index[i] - 1
        BY <1>1, <1>2, <1>2a, <4>1
      <4>. QED BY <1>5, <4>2, <4>3
    <3>2. size \in Nat /\ at[m] + size + 1 > index[i] /\ index[i] < end /\ end \in 0 .. Cap
          /\ at[m] <= index[i] /\ m \in 1 .. MaxMessages
      <4>1. MaxMessages \in Nat
        BY OscAssumption
      <4>. QED BY <1>1, <1>2, <4>1
    <3>3. IsBuffer(b)
      BY <1>4 DEF Spaced
    <3>. HIDE DEF size, end
    <3>4. Precedes(b, m, at, index[i], size)
      BY <1>2, <1>2a, <2>3, <3>1, <3>2 DEF Precedes
    <3>. QED BY <1>1, <3>2, <3>3, <3>4, MessageOf
  <2>5. size + shift \in Nat /\ size + shift = at[m + 1] + shift - at[m] - 1
    BY <1>1, <1>2
  <2>6. FixedBuf(i, shift) = [b EXCEPT ![at[m]] = <<"len", size + shift>>]
    <3>1. b[at[m]][2] = size
      BY <2>3
    <3>. HIDE DEF size, p, end
    <3>. QED BY <2>1, <2>2, <2>4, <3>1
  <2>7. at[m] \in 0 .. index[i] - 1
    BY <1>1, <1>2
  <2>8. Spaced(b, i, shift, at[m])
    BY <1>4
  <2>. HIDE DEF size
  <2>9. Spaced(FixedBuf(i, shift), i, shift, at[m]) /\ FixedBuf(i, shift)[at[m]] = <<"len", size + shift>>
    <3>1. PICK c : c = FixedBuf(i, shift)
      OBVIOUS
    <3>2. PICK n \in Nat : n = size + shift
      BY <2>5
    <3>3. PICK a \in 0 .. index[i] - 1 : a = at[m]
      BY <2>7
    <3>4. Spaced(b, i, shift, a) /\ LengthSet(b, c, a, n)
      BY <2>6, <2>8, <3>1, <3>2, <3>3 DEF LengthSet
    <3>5. Spaced(c, i, shift, a) /\ c[a] = <<"len", n>>
      BY <3>4, LengthChanged
    <3>. QED BY <3>1, <3>2, <3>3, <3>5
  <2>. QED BY <2>5, <2>9
<1>. QED BY <1>6, <1>7, <1>8

\* The next value of the last message follows without a gap.
LEMMA LastGap ==
    ASSUME IndexInv, MessageCount \in Nat \ {0}, NEW at, NEW first, Layout(at, first),
           NEW i \in DOMAIN tbuf, i > first[MessageCount]
    PROVE  index[i + 1] = index[i] + ValueWords(i)
<1>1. /\ TagCount \in Nat /\ i \in 1 .. TagCount /\ index[TagCount + 1] = free
  BY IndexFacts
<1>2. /\ first \in [1 .. MessageCount + 1 -> 0 .. TagCount]
      /\ first[MessageCount + 1] = TagCount /\ at[MessageCount + 1] = free
  BY DEF Layout, MessageParts
<1>3. MessageCount \in 1 .. MessageCount /\ MessageCount \in 1 .. MessageCount + 1
  OBVIOUS
<1>4. i \in first[MessageCount] + 1 .. first[MessageCount + 1]
  BY <1>1, <1>2, <1>3
<1>5. index[i] + ValueWords(i)
      = IF i < first[MessageCount + 1] THEN index[i + 1] ELSE at[MessageCount + 1]
  BY <1>3, <1>4 DEF Layout, MessagePlaces
<1>6. CASE i < TagCount
  BY <1>2, <1>5, <1>6
<1>7. CASE i = TagCount
  <2>1. ~(i < TagCount)
    BY <1>1, <1>7
  <2>. QED BY <1>1, <1>2, <1>5, <1>7, <2>1
<1>. QED BY <1>1, <1>6, <1>7

\* The size that maybe-reserve-space finds is the size of the value.
LEMMA OldSizeIs ==
    ASSUME IndexInv, NEW i \in DOMAIN tbuf, tbuf[i] # "i", NEW last \in BOOLEAN,
           single \in BOOLEAN, free \in Nat, free <= Cap,
           single \/ last => index[i + 1] = index[i] + ValueWords(i)
    PROVE  OldSize(i, last, tbuf[i] = "b") = ValueWords(i)
<1>1. /\ ValueWords(i) \in Nat \ {0} /\ index[i] \in Nat /\ index[i] + ValueWords(i) <= free
      /\ tbuf[i] \in TagSet
  BY IndexFacts
<1>2. Cap \in Nat
  BY OscAssumption
<1>3. CASE single \/ last
  <2>1. OldSize(i, last, tbuf[i] = "b") = index[i + 1] - index[i]
    BY <1>3 DEF OldSize
  <2>. QED BY <1>1, <1>3, <2>1
<1>4. CASE ~(single \/ last)
  <2>1. PICK w : w = written[i]
    OBVIOUS
  <2>2. Shaped(tbuf[i], w) /\ HasWords(buf, index[i], w)
    BY <2>1 DEF IndexInv
  <2>3. Len(w) = ValueWords(i)
    BY <2>1 DEF ValueWords
  <2>4. index[i] + Len(w) - 1 <= Cap
    <3>1. index[i] + ValueWords(i) - 1 <= Cap
      BY <1>1, <1>2
    <3>. QED BY <2>3, <3>1
  <2>5. Words(buf, tbuf[i], index[i], "net") = Len(w)
    BY <1>1, <2>2, <2>4, WordsOf
  <2>6. tbuf[i] = "s" \/ tbuf[i] = "b"
    BY <1>1 DEF TagSet
  <2>7. OldSize(i, last, tbuf[i] = "b") = Words(buf, tbuf[i], index[i], "net")
    BY <1>4, <2>6 DEF OldSize, Words
  <2>. QED BY <2>3, <2>5, <2>7
<1>. QED BY <1>3, <1>4

\* The state after w is written at index i of message m: the words and the
\* places after it have moved, and the length word of its message is right.
Edited(at, m, i, w, shift) ==
    /\ tbuf' = tbuf /\ single' = single
    /\ written' = [written EXCEPT ![i] = w]
    /\ index' = ShiftedIndex(i, shift) /\ free' = free + shift
    /\ IsBuffer(buf') /\ HasWords(buf', index[i], w)
    /\ \A q \in index[i] + ValueWords(i) .. free - 1 : buf'[q + shift] = buf[q]
    /\ \A q \in 0 .. index[i] - 1 : q # at[m] => buf'[q] = buf[q]
    /\ ~build.lone => buf'[at[m]] = <<"len", at[m + 1] + shift - at[m] - 1>>
    /\ \A q \in 0 .. Cap : q >= free /\ q >= free + shift => buf'[q] = buf[q]

\* The lengths after it.
Lengths(last) ==
    \/ length' = length /\ bundleLen' = bundleLen /\ free' = free
    \/ /\ length' = free' - 1
       /\ bundleLen' = IF free' - 1 # length /\ ~last THEN free' - 1 + Reserved ELSE bundleLen

\* The hypotheses of the edit.
MayEdit(at, first, i, m, last) ==
    /\ IndexInv /\ IsBuffer(buf) /\ single \in BOOLEAN /\ free \in Nat /\ free <= Cap
    /\ length \in Nat
    /\ MessageCount \in 1 .. MaxMessages /\ InMessage(at, first, i, m)
    /\ build.lone \in BOOLEAN
    /\ ~single => LengthWordsRight(at)
    /\ ~build.lone => LengthWordsRight(at)
    /\ single => MessageCount = 1 /\ (build.lone \/ (~last /\ length = free - 1))
    /\ last \in BOOLEAN /\ (last => i > first[MessageCount])

\* There is space, and the length word of the message is right.
Ready(b, at, m, i, shift) ==
    /\ Spaced(b, i, shift, at[m])
    /\ ~build.lone => b[at[m]] = <<"len", at[m + 1] + shift - at[m] - 1>>

\* The buffer that maybe-reserve-space leaves.
LEMMA GrownIs ==
    ASSUME NEW at, NEW first, NEW i \in DOMAIN tbuf, NEW m, NEW last,
           MayEdit(at, first, i, m, last), NEW shift \in Int,
           ValueWords(i) + shift >= 1, free + shift <= Cap
    PROVE  Ready(Grown(i, shift, last, free + shift).buf, at, m, i, shift)
<1>. DEFINE f == FixedBuf(i, shift)
            end == free + shift
            b == Grown(i, shift, last, end).buf
<1>1. /\ IndexInv /\ IsBuffer(buf) /\ single \in BOOLEAN /\ free \in Nat /\ free <= Cap
      /\ MessageCount \in Nat
      /\ MessageCount \in 1 .. MaxMessages /\ InMessage(at, first, i, m)
  BY OscAssumption DEF MayEdit
<1>2. ~single => LengthWordsRight(at)
  BY DEF MayEdit
<1>3. Spaced(f, i, shift, at[m]) /\ (~single => f[at[m]] = <<"len", at[m + 1] + shift - at[m] - 1>>)
  BY <1>1, <1>2, FixedBufIs
<1>4. b = IF end - 1 # length /\ ~last /\ single THEN [f EXCEPT ![0] = <<"len", end - 1>>] ELSE f
  BY DEF Grown
<1>5. CASE ~single
  <2>. HIDE DEF f, end, b
  <2>1. b = f
    BY <1>4, <1>5
  <2>2. Spaced(b, i, shift, at[m]) /\ b[at[m]] = <<"len", at[m + 1] + shift - at[m] - 1>>
    BY <1>3, <1>5, <2>1
  <2>. QED BY <2>2 DEF Ready, b, end
<1>6. CASE single
  <2>1. MessageCount = 1 /\ (build.lone \/ (~last /\ length = free - 1))
    BY <1>6 DEF MayEdit
  <2>2. /\ m \in 1 .. MessageCount /\ at[m] \in Nat /\ at[m + 1] \in Nat
        /\ at[m] + 3 <= index[i] /\ index[i] + ValueWords(i) <= at[m + 1] /\ at[m + 1] <= free /\ at[1] = 0
    BY <1>1, MessageFacts
  <2>3. ValueWords(i) \in Nat \ {0} /\ index[i] \in Nat /\ index[i] + ValueWords(i) <= free
    BY <1>1, IndexFacts
  <2>4. m = 1 /\ at[m] = 0
    BY <2>1, <2>2
  <2>5. at[m + 1] = free
    <3>1. at[MessageCount + 1] = free
      BY <1>1 DEF InMessage, Layout, MessageParts
    <3>. QED BY <2>1, <2>4, <3>1
  <2>6. end - 1 \in Nat /\ at[m + 1] + shift - at[m] - 1 = end - 1
    BY <1>1, <2>2, <2>3, <2>4, <2>5
  <2>7. CASE end - 1 # length /\ ~last
    <3>1. PICK n \in Nat : n = end - 1
      BY <2>6
    <3>2. PICK a \in 0 .. index[i] - 1 : a = at[m]
      BY <2>2, <2>3
    <3>3. LengthSet(f, b, a, n)
      <4>. HIDE DEF f, end, b
      <4>. QED BY <1>4, <1>6, <2>4, <2>7, <3>1, <3>2 DEF LengthSet
    <3>4. Spaced(f, i, shift, a)
      BY <1>3, <3>2
    <3>. HIDE DEF f, b, end
    <3>5. Spaced(b, i, shift, a) /\ b[a] = <<"len", n>>
      BY <1>1, <3>3, <3>4, LengthChanged
    <3>6. Spaced(b, i, shift, at[m]) /\ b[at[m]] = <<"len", at[m + 1] + shift - at[m] - 1>>
      BY <2>6, <3>1, <3>2, <3>5
    <3>. QED BY <3>6 DEF Ready, b, end
  <2>8. CASE ~(end - 1 # length /\ ~last)
    <3>1. b = f
      <4>. HIDE DEF f, end, b
      <4>. QED BY <1>4, <2>8
    <3>2. Spaced(b, i, shift, at[m])
      <4>. HIDE DEF f, end, b
      <4>. QED BY <1>3, <3>1
    <3>3. ASSUME ~build.lone PROVE b[at[m]] = <<"len", at[m + 1] + shift - at[m] - 1>>
      <4>1. length = free - 1 /\ end - 1 = length
        BY <2>1, <2>8, <3>3
      <4>2. shift = 0 /\ at[m + 1] + shift - at[m] - 1 = at[m + 1] - at[m] - 1
        BY <1>1, <2>2, <4>1
      <4>3. buf[at[m]] = <<"len", at[m + 1] - at[m] - 1>>
        BY <2>2, <3>3 DEF MayEdit, LengthWordsRight
      <4>4. f = PaddedBuf(i, shift)
        BY <1>6, Zenon DEF FixedBuf
      <4>5. Spaced(PaddedBuf(i, shift), i, shift, index[i])
        BY <1>1, PaddedBufIs
      <4>6. at[m] \in 0 .. index[i] - 1 /\ at[m] # index[i]
        BY <2>2, <2>3
      <4>7. PaddedBuf(i, shift)[at[m]] = buf[at[m]]
        BY <4>5, <4>6 DEF Spaced
      <4>. HIDE DEF f, b, end
      <4>. QED BY <3>1, <4>2, <4>3, <4>4, <4>7
    <3>. HIDE DEF f, b, end
    <3>. QED BY <3>2, <3>3 DEF Ready, b, end
  <2>. QED BY <2>7, <2>8
<1>. QED BY <1>1, <1>5, <1>6

\* %set-value of a number changes one word.
LEMMA SetNumber ==
    ASSUME NEW at, NEW first, NEW i \in DOMAIN tbuf, NEW m, NEW last,
           MayEdit(at, first, i, m, last), tbuf[i] = "i",
           NEW id, NEW v \in Values("i", id), SetValue_(i, v, last)
    PROVE  LET w == Encoded("i", v)
           IN  /\ Len(w) - ValueWords(i) = 0 /\ ValueWords(i) = 1
               /\ Edited(at, m, i, w, 0) /\ Lengths(last) /\ free' + Reserved <= Cap
<1>1. PICK w : w = Encoded("i", v)
  OBVIOUS
<1>2. Shaped("i", w) /\ EndsOnce(w) /\ ~(w[1] = Zero) /\ ~(w[1][1] = "end")
  BY <1>1, EncodedInt
<1>3. Len(w) = 1
  BY <1>2 DEF Shaped
<1>4. /\ IndexInv /\ IsBuffer(buf) /\ free \in Nat /\ free <= Cap
      /\ MessageCount \in Nat /\ InMessage(at, first, i, m) /\ Cap \in Nat
  BY OscAssumption DEF MayEdit
<1>5. ~build.lone => LengthWordsRight(at)
  BY DEF MayEdit
<1>6. /\ ValueWords(i) = 1 /\ index[i] \in Nat /\ index[i] + ValueWords(i) <= free
      /\ TagCount \in Nat /\ index \in [1 .. TagCount + 1 -> Nat] /\ DOMAIN index = 1 .. TagCount + 1
  <2>1. Shaped("i", written[i])
    BY <1>4 DEF IndexInv
  <2>2. ValueWords(i) = 1
    BY <2>1 DEF Shaped, ValueWords
  <2>. QED BY <1>4, <2>2, IndexFacts
<1>7. /\ buf' = Write(buf, index[i], w) /\ index' = index /\ free' = free
      /\ length' = length /\ bundleLen' = bundleLen
      /\ written' = [written EXCEPT ![i] = w] /\ tbuf' = tbuf /\ single' = single
      /\ free' + Reserved <= Cap
  BY <1>1 DEF SetValue_, Room
<1>8. WrittenAt(buf, buf', index[i], w)
  <2>1. index[i] + Len(w) - 1 <= Cap
    BY <1>3, <1>4, <1>6
  <2>. QED BY <1>2, <1>3, <1>4, <1>6, <1>7, <2>1, WriteIs
<1>9. index' = ShiftedIndex(i, 0)
  <2>1. \A k \in DOMAIN index : index[k] + 0 = index[k]
    BY <1>6
  <2>. QED BY <1>6, <1>7, <2>1 DEF ShiftedIndex
<1>10. free' = free + 0
  BY <1>4, <1>7
<1>11. IsBuffer(buf') /\ HasWords(buf', index[i], w)
  BY <1>8 DEF WrittenAt
<1>12. \A q \in 0 .. Cap : q < index[i] \/ q >= index[i] + 1 => buf'[q] = buf[q]
  BY <1>3, <1>8 DEF WrittenAt
<1>13. ASSUME NEW q \in index[i] + ValueWords(i) .. free - 1 PROVE buf'[q + 0] = buf[q]
  <2>1. q \in 0 .. Cap /\ q + 0 = q /\ q >= index[i] + 1
    BY <1>4, <1>6
  <2>. QED BY <1>12, <2>1
<1>14. ASSUME NEW q \in 0 .. index[i] - 1 PROVE buf'[q] = buf[q]
  <2>1. q \in 0 .. Cap /\ q < index[i]
    BY <1>4, <1>6
  <2>. QED BY <1>12, <2>1
<1>15. ASSUME NEW q \in 0 .. Cap, q >= free, q >= free + 0 PROVE buf'[q] = buf[q]
  <2>1. q >= index[i] + 1
    BY <1>4, <1>6, <1>15
  <2>. QED BY <1>12, <2>1
<1>16. ASSUME ~build.lone PROVE buf'[at[m]] = <<"len", at[m + 1] + 0 - at[m] - 1>>
  <2>1. /\ m \in 1 .. MessageCount /\ at[m] \in Nat /\ at[m + 1] \in Nat /\ at[m] + 3 <= index[i]
    BY <1>4, MessageFacts
  <2>2. buf[at[m]] = <<"len", at[m + 1] - at[m] - 1>>
    BY <1>5, <1>16, <2>1 DEF LengthWordsRight
  <2>3. at[m] \in 0 .. index[i] - 1
    <3>1. PICK x \in Nat, y \in Nat : x = at[m] /\ y = index[i]
      BY <1>6, <2>1
    <3>2. x + 3 <= y
      BY <2>1, <3>1
    <3>3. x \in 0 .. y - 1
      BY <3>2
    <3>. QED BY <3>1, <3>3
  <2>4. buf'[at[m]] = buf[at[m]]
    BY <1>14, <2>3
  <2>5. at[m + 1] + 0 - at[m] - 1 = at[m + 1] - at[m] - 1
    BY <2>1
  <2>. QED BY <2>2, <2>4, <2>5
<1>17. Edited(at, m, i, w, 0)
  BY <1>7, <1>9, <1>10, <1>11, <1>13, <1>14, <1>15, <1>16 DEF Edited
<1>18. Lengths(last)
  BY <1>7 DEF Lengths
<1>. QED BY <1>1, <1>3, <1>6, <1>7, <1>17, <1>18

\* %set-value of a string or a blob: space for it, and its words.
LEMMA SetWords ==
    ASSUME NEW at, NEW first, NEW i \in DOMAIN tbuf, NEW m, NEW last,
           MayEdit(at, first, i, m, last), tbuf[i] # "i",
           NEW id, NEW v \in Values(tbuf[i], id), SetValue_(i, v, last)
    PROVE  LET w == Encoded(tbuf[i], v)
           IN  /\ Edited(at, m, i, w, Len(w) - ValueWords(i)) /\ Lengths(last)
               /\ free' + Reserved <= Cap
<1>1. PICK w : w = Encoded(tbuf[i], v)
  OBVIOUS
<1>2. /\ IndexInv /\ IsBuffer(buf) /\ free \in Nat /\ free <= Cap /\ single \in BOOLEAN
      /\ MessageCount \in Nat \ {0} /\ InMessage(at, first, i, m) /\ Cap \in Nat
      /\ last \in BOOLEAN
  BY OscAssumption DEF MayEdit
<1>3. /\ ValueWords(i) \in Nat \ {0} /\ index[i] \in Nat /\ index[i] + ValueWords(i) <= free
      /\ TagCount \in Nat /\ DOMAIN index = 1 .. TagCount + 1
      /\ i \in 1 .. TagCount /\ tbuf[i] \in TagSet
  BY <1>2, IndexFacts
<1>4. Shaped(tbuf[i], w) /\ EndsOnce(w)
  BY <1>1, <1>3, EncodedShaped
<1>5. Len(w) \in Nat \ {0}
  BY <1>4, SeqOf DEF Shaped
<1>6. PICK shift \in Int : shift = Len(w) - ValueWords(i)
  BY <1>3, <1>5
<1>7. Len(w) = ValueWords(i) + shift
  BY <1>3, <1>5, <1>6
<1>8. OldSize(i, last, tbuf[i] = "b") = ValueWords(i)
  <2>1. single \/ last => i > first[MessageCount]
    <3>1. single => i > first[MessageCount]
      <4>1. single => MessageCount = 1
        BY DEF MayEdit
      <4>2. first[1] = 0
        BY <1>2 DEF InMessage, Layout, MessageParts
      <4>. QED BY <1>3, <4>1, <4>2
    <3>2. last => i > first[MessageCount]
      BY DEF MayEdit
    <3>. QED BY <3>1, <3>2
  <2>2. Layout(at, first)
    BY <1>2 DEF InMessage
  <2>3. single \/ last => index[i + 1] = index[i] + ValueWords(i)
    BY <1>2, <2>1, <2>2, LastGap
  <2>. QED BY <1>2, <2>3, OldSizeIs
<1>9. PICK r : r = MaybeReserveSpace(i, Len(w), last, tbuf[i] = "b")
  OBVIOUS
<1>10. r = Grown(i, shift, last, free + shift)
  <2>1. PICK n \in Nat : n = Len(w)
    BY <1>5
  <2>2. PICK blob : blob = (tbuf[i] = "b")
    OBVIOUS
  <2>3. OldSize(i, last, blob) = ValueWords(i)
    BY <1>8, <2>2
  <2>4. MaybeReserveSpace(i, n, last, blob)
        = Grown(i, n - ValueWords(i), last, free + (n - ValueWords(i)))
    BY <1>2, <2>3, ReserveIs
  <2>. QED BY <1>6, <1>9, <2>1, <2>2, <2>4
<1>e. PICK end : end = free + shift
  OBVIOUS
<1>11. /\ r.index = ShiftedIndex(i, shift) /\ r.free = end /\ r.length = end - 1
       /\ r.bundleLen = IF end - 1 # length /\ ~last THEN end - 1 + Reserved ELSE bundleLen
  BY <1>10, <1>e DEF Grown
<1>12. r.index[i] = index[i]
  BY <1>3, <1>11 DEF ShiftedIndex
<1>13. /\ buf' = Write(r.buf, index[i], w) /\ index' = r.index /\ free' = r.free
       /\ length' = r.length /\ bundleLen' = r.bundleLen
       /\ written' = [written EXCEPT ![i] = w] /\ tbuf' = tbuf /\ single' = single
       /\ free' + Reserved <= Cap
  BY <1>1, <1>9, <1>12 DEF SetValue_, Room
<1>14. free + shift <= Cap /\ ValueWords(i) + shift >= 1
  BY <1>2, <1>5, <1>7, <1>e, <1>11, <1>13 DEF Reserved
<1>15. PICK b : b = r.buf
  OBVIOUS
<1>16. Spaced(b, i, shift, at[m])
       /\ (~build.lone => b[at[m]] = <<"len", at[m + 1] + shift - at[m] - 1>>)
  <2>1. Ready(Grown(i, shift, last, free + shift).buf, at, m, i, shift)
    BY <1>14, GrownIs
  <2>2. Ready(b, at, m, i, shift)
    BY <1>10, <1>15, <2>1
  <2>. QED BY <2>2 DEF Ready
<1>17. WrittenAt(b, buf', index[i], w)
  <2>1. index[i] + Len(w) - 1 <= Cap
    BY <1>2, <1>3, <1>7, <1>14
  <2>2. b[index[i] + Len(w) - 1] = Zero
    <3>1. PICK x \in Nat, l \in Int, t \in Nat : x = index[i] /\ l = Len(w) /\ t = ValueWords(i)
      <4>1. PICK l : l = Len(w)
        OBVIOUS
      <4>2. PICK t \in Nat : t = ValueWords(i)
        BY <1>3
      <4>3. l \in Int
        BY <1>5, <4>1
      <4>4. PICK x \in Nat : x = index[i]
        BY <1>3
      <4>. QED BY <4>1, <4>2, <4>3, <4>4
    <3>2. l = t + shift
      BY <1>7, <3>1
    <3>3. x + l - 1 = x + t + shift - 1
      BY <1>6, <3>2
    <3>4. b[x + t + shift - 1] = Zero
      BY <1>16, <3>1 DEF Spaced
    <3>5. b[x + l - 1] = Zero
      BY <3>3, <3>4
    <3>. QED BY <3>1, <3>5
  <2>3. IsBuffer(b)
    BY <1>16 DEF Spaced
  <2>4. buf' = Write(b, index[i], w)
    BY <1>13, <1>15
  <2>5. PICK t : t = tbuf[i]
    OBVIOUS
  <2>6. Shaped(t, w)
    BY <1>4, <2>5
  <2>. QED BY <1>3, <1>4, <2>1, <2>2, <2>3, <2>4, <2>6, WriteIs
<1>18. IsBuffer(buf') /\ HasWords(buf', index[i], w)
  BY <1>17 DEF WrittenAt
<1>19. PICK n \in Nat \ {0} : n = Len(w)
  BY <1>5
<1>20. \A q \in 0 .. Cap : q < index[i] \/ q >= index[i] + n => buf'[q] = b[q]
  BY <1>17, <1>19 DEF WrittenAt
<1>21. n = ValueWords(i) + shift
  BY <1>7, <1>19
<1>22. ASSUME NEW q \in index[i] + ValueWords(i) .. free - 1 PROVE buf'[q + shift] = buf[q]
  <2>1. q + shift \in 0 .. Cap /\ q + shift >= index[i] + n
    BY <1>2, <1>3, <1>14, <1>21
  <2>2. b[q + shift] = buf[q]
    BY <1>16 DEF Spaced
  <2>. QED BY <1>20, <2>1, <2>2
<1>23. ASSUME NEW q \in 0 .. index[i] - 1, q # at[m] PROVE buf'[q] = buf[q]
  <2>1. q \in 0 .. Cap /\ q < index[i]
    BY <1>2, <1>3
  <2>2. b[q] = buf[q]
    BY <1>16, <1>23 DEF Spaced
  <2>. QED BY <1>20, <2>1, <2>2
<1>24. ASSUME NEW q \in 0 .. Cap, q >= free, q >= free + shift PROVE buf'[q] = buf[q]
  <2>1. q >= index[i] + n
    BY <1>2, <1>3, <1>21, <1>24
  <2>2. b[q] = buf[q]
    BY <1>16, <1>24 DEF Spaced
  <2>. QED BY <1>20, <2>1, <2>2
<1>25. ASSUME ~build.lone PROVE buf'[at[m]] = <<"len", at[m + 1] + shift - at[m] - 1>>
  <2>1. at[m] \in Nat /\ at[m] + 3 <= index[i]
    BY <1>2, MessageFacts
  <2>2. at[m] \in 0 .. Cap /\ at[m] < index[i]
    BY <1>2, <1>3, <2>1
  <2>. QED BY <1>16, <1>20, <1>25, <2>2
<1>26. Edited(at, m, i, w, shift)
  BY <1>e, <1>11, <1>13, <1>18, <1>22, <1>23, <1>24, <1>25 DEF Edited
<1>27. Lengths(last)
  <2>1. free' = end /\ length' = free' - 1
    BY <1>11, <1>13
  <2>. QED BY <1>11, <1>13, <2>1 DEF Lengths
<1>. QED BY <1>1, <1>6, <1>13, <1>26, <1>27

-----------------------------------------------------------------------------
(* (setf value) keeps the index and the messages *)

\* The value i of message m is written and is longer by shift.
EditOf(at, first, i, m, w, shift) ==
    /\ IndexInv /\ InMessage(at, first, i, m) /\ MessageCount \in Nat \ {0}
    /\ free \in Nat /\ free <= Cap /\ parts' = parts
    /\ shift \in Int /\ Len(w) = ValueWords(i) + shift /\ Shaped(tbuf[i], w)
    /\ Edited(at, m, i, w, shift) /\ free' + Reserved <= Cap

\* The places of the messages after it.
MovedPlaces(a, at, m, shift) ==
    a = [l \in 1 .. MessageCount + 1 |-> IF l > m THEN at[l] + shift ELSE at[l]]

\* The places and the sizes of the values after it.
EditedIndex(i, shift) ==
    /\ TagCount' = TagCount /\ MessageCount' = MessageCount /\ tbuf' = tbuf
    /\ \A k \in 1 .. TagCount + 1 : index'[k] = IF k > i THEN index[k] + shift ELSE index[k]
    /\ \A k \in 1 .. TagCount : ValueWords(k)' = IF k = i THEN ValueWords(k) + shift ELSE ValueWords(k)
    /\ free' = free + shift

\* The index after a value has been set.
LEMMA EditedIndexIs ==
    ASSUME NEW at, NEW first, NEW i \in DOMAIN tbuf, NEW m, NEW w, NEW shift,
           EditOf(at, first, i, m, w, shift)
    PROVE  /\ EditedIndex(i, shift) /\ IsSeq(written') /\ Len(written') = TagCount
           /\ written'[i] = w /\ \A k \in 1 .. TagCount : k # i => written'[k] = written[k]
           /\ index' \in Seq(Nat) /\ Len(index') = TagCount + 1
<1>1. IndexInv /\ shift \in Int /\ Len(w) = ValueWords(i) + shift /\ free \in Nat
  BY DEF EditOf
<1>2. /\ TagCount \in Nat /\ DOMAIN tbuf = 1 .. TagCount /\ i \in 1 .. TagCount
      /\ DOMAIN index = 1 .. TagCount + 1 /\ index \in [1 .. TagCount + 1 -> Nat]
      /\ ValueWords(i) \in Nat \ {0} /\ index[i] \in Nat
  BY <1>1, IndexFacts
<1>3. /\ tbuf' = tbuf /\ parts' = parts /\ index' = ShiftedIndex(i, shift) /\ free' = free + shift
      /\ written' = [written EXCEPT ![i] = w]
  BY DEF EditOf, Edited
<1>4. TagCount' = TagCount /\ MessageCount' = MessageCount
  BY <1>3 DEF TagCount, MessageCount
<1>5. index' = [k \in 1 .. TagCount + 1 |-> IF k > i THEN index[k] + shift ELSE index[k]]
  BY <1>2, <1>3 DEF ShiftedIndex
<1>6. \A k \in 1 .. TagCount + 1 : index'[k] = IF k > i THEN index[k] + shift ELSE index[k]
  BY <1>5
<1>7. IsSeq(written) /\ Len(written) = TagCount
  BY <1>1 DEF IndexInv, TagCount
<1>8. written = [k \in 1 .. TagCount |-> written[k]]
  BY <1>7, SeqOf
<1>9. /\ written' = [k \in 1 .. TagCount |-> written'[k]] /\ written'[i] = w
      /\ \A k \in 1 .. TagCount : k # i => written'[k] = written[k]
  BY <1>2, <1>3, <1>8
<1>10. IsSeq(written') /\ Len(written') = TagCount
  BY <1>2, <1>9, IsSeqOf
<1>11. ASSUME NEW k \in 1 .. TagCount
       PROVE  ValueWords(k)' = IF k = i THEN ValueWords(k) + shift ELSE ValueWords(k)
  <2>1. CASE k = i
    <3>1. ValueWords(k)' = Len(w)
      BY <1>9, <2>1 DEF ValueWords
    <3>. QED BY <1>1, <2>1, <3>1
  <2>2. CASE k # i
    <3>1. ValueWords(k)' = ValueWords(k)
      BY <1>9, <2>2 DEF ValueWords
    <3>. QED BY <2>2, <3>1
  <2>. QED BY <2>1, <2>2
<1>12. ASSUME NEW k \in 1 .. TagCount + 1 PROVE index'[k] \in Nat
  <2>1. CASE k > i
    <3>1. i \in DOMAIN index /\ k \in DOMAIN index /\ i < k
      BY <1>2, <2>1
    <3>2. index[i] + ValueWords(i) <= index[k]
      BY <1>1, <3>1 DEF IndexInv
    <3>3. ValueWords(i) + shift \in Nat
      <4>1. Len(w) \in Nat
        BY SeqOf DEF EditOf, Shaped
      <4>. QED BY <1>1, <4>1
    <3>4. index[k] \in Nat
      BY <1>2
    <3>5. index'[k] = index[k] + shift
      BY <1>6, <2>1
    <3>. QED BY <1>1, <1>2, <3>2, <3>3, <3>4, <3>5
  <2>2. CASE ~(k > i)
    BY <1>2, <1>6, <2>2
  <2>. QED BY <2>1, <2>2
<1>13. index' \in Seq(Nat) /\ Len(index') = TagCount + 1
  <2>1. PICK f : f = index'
    OBVIOUS
  <2>2. f \in [1 .. TagCount + 1 -> Nat]
    BY <1>5, <1>12, <2>1
  <2>3. TagCount + 1 \in Nat
    BY <1>2
  <2>4. f \in Seq(Nat)
    BY <2>2, <2>3, IsASeq
  <2>5. Len(f) = TagCount + 1
    BY <2>2, <2>3, <2>4, LenProperties
  <2>. QED BY <2>1, <2>4, <2>5
<1>14. EditedIndex(i, shift)
  BY <1>3, <1>4, <1>6, <1>11 DEF EditedIndex
<1>. QED BY <1>9, <1>10, <1>13, <1>14

\* The words that move with an edit, and those that stay.
MovedAfter(i, shift) ==
    \A q \in Nat : q >= index[i] + ValueWords(i) /\ q < free => buf'[q + shift] = buf[q]
KeptBefore(i, a) == \A q \in Nat : q < index[i] /\ q # a => buf'[q] = buf[q]

\* The words after a value has been set.
LEMMA EditedWords ==
    ASSUME NEW at, NEW first, NEW i \in DOMAIN tbuf, NEW m, NEW w, NEW shift,
           EditOf(at, first, i, m, w, shift)
    PROVE  HasWords(buf', index[i], w) /\ MovedAfter(i, shift) /\ KeptBefore(i, at[m])
<1>1. IndexInv /\ free \in Nat /\ Edited(at, m, i, w, shift)
  BY DEF EditOf
<1>2. /\ ValueWords(i) \in Nat \ {0} /\ index[i] \in Nat
  BY <1>1, IndexFacts
<1>3. HasWords(buf', index[i], w)
  BY <1>1 DEF Edited
<1>4. ASSUME NEW q \in Nat, q >= index[i] + ValueWords(i), q < free PROVE buf'[q + shift] = buf[q]
  <2>1. q \in index[i] + ValueWords(i) .. free - 1
    BY <1>1, <1>2, <1>4
  <2>. QED BY <1>1, <2>1 DEF Edited
<1>5. ASSUME NEW q \in Nat, q < index[i], q # at[m] PROVE buf'[q] = buf[q]
  <2>1. q \in 0 .. index[i] - 1
    BY <1>2, <1>5
  <2>. QED BY <1>1, <1>5, <2>1 DEF Edited
<1>. QED BY <1>3, <1>4, <1>5 DEF MovedAfter, KeptBefore

\* The order of the places.
LEMMA IndexOrder ==
    ASSUME IndexInv, NEW k \in 1 .. TagCount + 1, NEW l \in 1 .. TagCount + 1, k < l
    PROVE  /\ ValueWords(k) \in Nat \ {0} /\ index[k] \in Nat /\ index[l] \in Nat
           /\ index[k] + ValueWords(k) <= index[l]
<1>1. TagCount \in Nat /\ DOMAIN tbuf = 1 .. TagCount /\ Len(index) = TagCount + 1 /\ index \in Seq(Nat)
  BY LenProperties DEF IndexInv, TagCount
<1>2. DOMAIN index = 1 .. TagCount + 1 /\ k \in DOMAIN index /\ l \in DOMAIN index
  BY <1>1, LenProperties
<1>3. k \in DOMAIN tbuf
  BY <1>1
<1>4. ValueWords(k) \in Nat \ {0} /\ index \in [1 .. TagCount + 1 -> Nat]
  BY <1>3, IndexFacts
<1>5. index[k] + ValueWords(k) <= index[l]
  BY <1>2 DEF IndexInv
<1>. QED BY <1>4, <1>5

\* A value that is set leaves the index and the values right.
LEMMA EditIndex ==
    ASSUME NEW at, NEW first, NEW i \in DOMAIN tbuf, NEW m, NEW w, NEW shift,
           EditOf(at, first, i, m, w, shift)
    PROVE  IndexInv'
<1>w. Len(w) = ValueWords(i) + shift
  BY DEF EditOf
<1>a. MovedAfter(i, shift)
  BY EditedWords
<1>b. KeptBefore(i, at[m])
  BY EditedWords
<1>1. /\ IndexInv /\ shift \in Int /\ free \in Nat
      /\ Shaped(tbuf[i], w) /\ InMessage(at, first, i, m) /\ MessageCount \in Nat
  BY DEF EditOf
<1>2. /\ TagCount \in Nat /\ DOMAIN tbuf = 1 .. TagCount /\ i \in 1 .. TagCount
      /\ DOMAIN index = 1 .. TagCount + 1 /\ index \in [1 .. TagCount + 1 -> Nat]
      /\ ValueWords(i) \in Nat \ {0} /\ index[i] \in Nat /\ index[TagCount + 1] = free
  BY <1>1, IndexFacts
<1>3. EditedIndex(i, shift) /\ IsSeq(written') /\ Len(written') = TagCount /\ written'[i] = w
  BY EditedIndexIs
<1>3a. \A k \in 1 .. TagCount : k # i => written'[k] = written[k]
  BY EditedIndexIs
<1>3b. index' \in Seq(Nat) /\ Len(index') = TagCount + 1
  BY EditedIndexIs
<1>4. DOMAIN index' = 1 .. TagCount + 1
  BY <1>3b, LenProperties
<1>5. tbuf' = tbuf /\ TagCount' = TagCount /\ free' = free + shift
  BY <1>3 DEF EditedIndex
<1>6. ValueWords(i) + shift \in Nat \ {0}
  <2>1. Len(w) \in Nat \ {0}
    BY <1>1, SeqOf DEF Shaped
  <2>. QED BY <1>w, <2>1
<1>7. ASSUME NEW k \in 1 .. TagCount PROVE Shaped(tbuf'[k], written'[k])
  <2>1. CASE k = i
    BY <1>1, <1>3, <1>5, <2>1
  <2>2. CASE k # i
    <3>1. Shaped(tbuf[k], written[k])
      BY <1>1, <1>2 DEF IndexInv
    <3>2. tbuf'[k] = tbuf[k] /\ written'[k] = written[k]
      BY <1>3a, <1>5, <2>2
    <3>. QED BY <3>1, <3>2
  <2>. QED BY <2>1, <2>2
<1>8. ASSUME NEW k \in 1 .. TagCount PROVE HasWords(buf', index'[k], written'[k])
  <2>0. index'[k] = IF k > i THEN index[k] + shift ELSE index[k]
    BY <1>2, <1>3 DEF EditedIndex
  <2>1. CASE k = i
    <3>1. index'[k] = index[i] /\ written'[k] = w
      BY <1>2, <1>3, <2>0, <2>1
    <3>. QED BY <3>1, EditedWords
  <2>2. CASE k # i
    <3>1. HasWords(buf, index[k], written[k]) /\ written'[k] = written[k]
      BY <1>1, <1>2, <1>3a, <2>2 DEF IndexInv
    <3>2. ValueWords(k) = Len(written[k]) /\ k \in DOMAIN tbuf
      BY <1>2 DEF ValueWords
    <3>3. ValueWords(k) \in Nat \ {0} /\ index[k] \in Nat /\ index[k] + ValueWords(k) <= free
      BY <1>1, <3>2, IndexFacts
    <3>4. ASSUME NEW j \in 1 .. ValueWords(k) PROVE buf'[index'[k] + j - 1] = buf[index[k] + j - 1]
      <4>1. CASE k > i
        <5>1. index[i] + ValueWords(i) <= index[k]
          BY <1>1, <1>2, <4>1, IndexOrder
        <5>2. PICK q \in Nat : q = index[k] + j - 1
          BY <3>3
        <5>3. q >= index[i] + ValueWords(i) /\ q < free
          <6>1. PICK x \in Nat, s \in Nat : x = index[k] /\ s = ValueWords(k)
            BY <3>3
          <6>2. j \in Nat /\ j >= 1 /\ j <= s
            BY <6>1
          <6>3. ValueWords(i) \in Nat /\ index[i] \in Nat /\ free \in Nat
            BY <1>1, <1>2, IndexFacts
          <6>4. PICK y \in Nat, t \in Nat, z \in Nat : y = index[i] /\ t = ValueWords(i) /\ z = free
            BY <6>3
          <6>5. y + t <= x /\ x + s <= z /\ q = x + j - 1
            BY <3>3, <5>1, <5>2, <6>1, <6>4
          <6>6. q >= y + t /\ q < z
            BY <6>2, <6>5
          <6>. QED BY <6>4, <6>6
        <5>4. buf'[q + shift] = buf[q]
          BY <1>a, <5>3 DEF MovedAfter
        <5>5. index'[k] + j - 1 = q + shift
          BY <1>1, <2>0, <3>3, <4>1, <5>2
        <5>. QED BY <5>2, <5>4, <5>5
      <4>2. CASE k < i
        <5>1. index[k] + ValueWords(k) <= index[i]
          BY <1>1, <1>2, <4>2, IndexOrder
        <5>2. PICK q \in Nat : q = index[k] + j - 1
          BY <3>3
        <5>3. q < index[i]
          BY <1>2, <3>3, <5>1, <5>2
        <5>4. q # at[m]
          <6>1. at[m] \in Nat /\ m \in 1 .. MessageCount
            BY <1>1, MessageFacts
          <6>2. m \in 1 .. MessageCount + 1 /\ k \in DOMAIN tbuf /\ first[m] \in Nat
            BY <1>1, <3>2, <6>1, MessageFacts
          <6>3. k <= first[m] => index[k] + ValueWords(k) <= at[m]
            BY <1>1, <6>2 DEF InMessage, Layout, Apart
          <6>4. k > first[m] => index[k] >= at[m] + 3
            BY <1>1, <6>2 DEF InMessage, Layout, Apart
          <6>. QED BY <3>3, <5>2, <6>1, <6>2, <6>3, <6>4
        <5>5. buf'[q] = buf[q]
          BY <1>b, <5>3, <5>4 DEF KeptBefore
        <5>6. index'[k] = index[k]
          BY <1>2, <2>0, <4>2
        <5>. QED BY <5>2, <5>5, <5>6
      <4>. QED BY <1>2, <2>2, <4>1, <4>2
    <3>5. \A j \in 1 .. Len(written[k]) : buf[index[k] + j - 1] = written[k][j]
      BY <3>1 DEF HasWords
    <3>6. \A j \in 1 .. Len(written[k]) : buf'[index'[k] + j - 1] = written[k][j]
      BY <3>2, <3>4, <3>5
    <3>7. HasWords(buf', index'[k], written[k])
      BY <3>6 DEF HasWords
    <3>. QED BY <3>1, <3>7
  <2>. QED BY <2>1, <2>2
<1>9. ASSUME NEW k \in 1 .. TagCount + 1, NEW l \in 1 .. TagCount + 1, k < l
      PROVE  index'[k] + ValueWords(k)' <= index'[l]
  <2>0. ValueWords(k) \in Nat \ {0} /\ index[k] \in Nat /\ index[l] \in Nat /\ index[k] + ValueWords(k) <= index[l]
    BY <1>1, <1>9, IndexOrder
  <2>1. k \in 1 .. TagCount
    BY <1>2, <1>9
  <2>2. index'[k] = IF k > i THEN index[k] + shift ELSE index[k]
    BY <1>3 DEF EditedIndex
  <2>3. index'[l] = IF l > i THEN index[l] + shift ELSE index[l]
    BY <1>3 DEF EditedIndex
  <2>4. ValueWords(k)' = IF k = i THEN ValueWords(k) + shift ELSE ValueWords(k)
    BY <1>3, <2>1 DEF EditedIndex
  <2>5. CASE k < i /\ l > i
    <3>1. index[k] + ValueWords(k) <= index[i] /\ index[i] + ValueWords(i) <= index[l]
      <4>1. i \in 1 .. TagCount + 1 /\ k < i /\ i < l
        BY <1>2, <2>5
      <4>2. index[k] + ValueWords(k) <= index[i]
        BY <1>1, <1>9, <4>1, IndexOrder
      <4>3. index[i] + ValueWords(i) <= index[l]
        BY <1>1, <1>9, <4>1, IndexOrder
      <4>. QED BY <4>2, <4>3
    <3>2. index'[k] = index[k] /\ index'[l] = index[l] + shift /\ ValueWords(k)' = ValueWords(k)
      BY <1>2, <2>1, <2>2, <2>3, <2>4, <2>5
    <3>3. PICK x \in Nat, y \in Nat, z \in Nat, s \in Nat, t \in Nat :
             x = index[k] /\ y = index[i] /\ z = index[l] /\ s = ValueWords(k) /\ t = ValueWords(i)
      BY <1>2, <2>0
    <3>4. t + shift >= 1 /\ x + s <= y /\ y + t <= z
      BY <1>6, <3>1, <3>3
    <3>5. shift \in Int
      BY <1>1
    <3>6. x + s <= z + shift
      BY <3>4, <3>5
    <3>. QED BY <3>2, <3>3, <3>6
  <2>6. CASE l <= i
    BY <1>2, <1>9, <2>0, <2>1, <2>2, <2>3, <2>4, <2>6
  <2>7. CASE k = i
    BY <1>1, <1>2, <1>9, <2>0, <2>1, <2>2, <2>3, <2>4, <2>7
  <2>8. CASE k > i
    <3>1. index'[k] = index[k] + shift /\ index'[l] = index[l] + shift /\ ValueWords(k)' = ValueWords(k)
      BY <1>2, <1>9, <2>2, <2>3, <2>4, <2>8
    <3>2. PICK x \in Nat, z \in Nat, s \in Nat : x = index[k] /\ z = index[l] /\ s = ValueWords(k)
      BY <2>0
    <3>3. x + s <= z /\ shift \in Int
      BY <1>1, <2>0, <3>2
    <3>4. (x + shift) + s <= z + shift
      BY <3>3
    <3>. QED BY <3>1, <3>2, <3>4
  <2>. QED BY <1>2, <1>9, <2>1, <2>5, <2>6, <2>7, <2>8
<1>10. index'[TagCount + 1] = free'
  <2>1. TagCount + 1 \in 1 .. TagCount + 1 /\ TagCount + 1 > i
    BY <1>2
  <2>2. index'[TagCount + 1] = index[TagCount + 1] + shift
    BY <1>3, <2>1 DEF EditedIndex
  <2>. QED BY <1>2, <1>5, <2>2
<1>11. tbuf' \in Seq(TagSet)
  BY <1>1, <1>5 DEF IndexInv
<1>. QED BY <1>2, <1>3, <1>3b, <1>4, <1>5, <1>7, <1>8, <1>9, <1>10, <1>11 DEF IndexInv, TagCount

\* The messages and their values stand in order.
LEMMA MessageOrder ==
    ASSUME NEW at, NEW first, MessageParts(at, first), MessageCount \in Nat, TagCount \in Nat,
           NEW k \in 1 .. MessageCount + 1, NEW l \in 1 .. MessageCount + 1, k <= l
    PROVE  /\ at[k] \in Nat /\ at[l] \in Nat /\ at[k] <= at[l] /\ (k < l => at[k] + 3 <= at[l])
           /\ first[k] \in 0 .. TagCount /\ first[l] \in 0 .. TagCount /\ first[k] <= first[l]
<1>1. /\ at \in [1 .. MessageCount + 1 -> Nat]
      /\ first \in [1 .. MessageCount + 1 -> 0 .. TagCount]
  BY DEF MessageParts
<1>2. CASE k < l
  <2>1. at[k] + 3 <= at[l] /\ first[k] <= first[l]
    BY <1>2 DEF MessageParts
  <2>. QED BY <1>1, <2>1
<1>3. CASE k = l
  BY <1>1, <1>3
<1>. QED BY <1>2, <1>3

\* What an edit has to do with its message.
LEMMA EditFacts ==
    ASSUME NEW at, NEW first, NEW i \in DOMAIN tbuf, NEW m, NEW w, NEW shift,
           EditOf(at, first, i, m, w, shift)
    PROVE  /\ IndexInv /\ MessageParts(at, first) /\ MessagePlaces(at, first) /\ Apart(at, first)
           /\ MessageCount \in Nat \ {0} /\ TagCount \in Nat /\ i \in 1 .. TagCount
           /\ DOMAIN tbuf = 1 .. TagCount
           /\ shift \in Int /\ ValueWords(i) \in Nat \ {0} /\ ValueWords(i) + shift >= 1
           /\ index[i] \in Nat /\ free \in Nat /\ free' = free + shift
           /\ m \in 1 .. MessageCount /\ m + 1 \in 1 .. MessageCount + 1
           /\ first[m] < i /\ i <= first[m + 1]
           /\ at[m] \in Nat /\ at[m + 1] \in Nat
           /\ at[m] + 3 <= index[i] /\ index[i] + ValueWords(i) <= at[m + 1]
           /\ EditedIndex(i, shift)
<1>w. Len(w) = ValueWords(i) + shift
  BY DEF EditOf
<1>1. /\ IndexInv /\ InMessage(at, first, i, m) /\ MessageCount \in Nat \ {0} /\ free \in Nat
      /\ shift \in Int
  BY DEF EditOf
<1>2. MessageParts(at, first) /\ MessagePlaces(at, first) /\ Apart(at, first)
  BY <1>1 DEF InMessage, Layout
<1>3. /\ TagCount \in Nat /\ i \in 1 .. TagCount /\ DOMAIN tbuf = 1 .. TagCount
      /\ ValueWords(i) \in Nat \ {0} /\ index[i] \in Nat
  BY <1>1, IndexFacts
<1>4. ValueWords(i) + shift >= 1
  <2>1. Len(w) \in Nat \ {0}
    BY SeqOf DEF EditOf, Shaped
  <2>. QED BY <1>w, <2>1
<1>5. first[m] < i /\ i <= first[m + 1] /\ m \in 1 .. MessageCount
  BY <1>1 DEF InMessage
<1>6. m + 1 \in 1 .. MessageCount + 1
  BY <1>1, <1>5
<1>7. /\ at[m] \in Nat /\ at[m + 1] \in Nat
      /\ at[m] + 3 <= index[i] /\ index[i] + ValueWords(i) <= at[m + 1]
  BY <1>1, MessageFacts
<1>8. EditedIndex(i, shift)
  BY EditedIndexIs
<1>9. free' = free + shift
  BY <1>8 DEF EditedIndex
<1>. QED BY <1>1, <1>2, <1>3, <1>4, <1>5, <1>6, <1>7, <1>8, <1>9

\* The places of the messages.
LEMMA MovedAtIs ==
    ASSUME NEW at, NEW first, NEW i \in DOMAIN tbuf, NEW m, NEW w, NEW shift,
           EditOf(at, first, i, m, w, shift), NEW a, MovedPlaces(a, at, m, shift), NEW l \in 1 .. MessageCount + 1
    PROVE  /\ a[l] = IF l > m THEN at[l] + shift ELSE at[l]
           /\ a[l] \in Nat
           /\ l > m => at[l] \in Nat /\ at[l] >= at[m + 1] /\ at[l] + shift > index[i]
           /\ l <= m => at[l] \in Nat /\ at[l] <= at[m]
<1>1. /\ MessageParts(at, first) /\ MessageCount \in Nat /\ TagCount \in Nat
      /\ shift \in Int /\ ValueWords(i) \in Nat /\ ValueWords(i) + shift >= 1 /\ index[i] \in Nat
      /\ m \in 1 .. MessageCount /\ m + 1 \in 1 .. MessageCount + 1
      /\ index[i] + ValueWords(i) <= at[m + 1]
  BY EditFacts
<1>2. a[l] = IF l > m THEN at[l] + shift ELSE at[l]
  BY DEF MovedPlaces
<1>3. CASE l > m
  <2>1. at[l] \in Nat /\ at[m + 1] \in Nat /\ at[m + 1] <= at[l]
    <3>1. m + 1 <= l
      BY <1>1, <1>3
    <3>. QED BY <1>1, <3>1, MessageOrder
  <2>2. at[l] + shift > index[i]
    BY <1>1, <2>1
  <2>. QED BY <1>1, <1>2, <1>3, <2>1, <2>2
<1>4. CASE l <= m
  <2>1. m \in 1 .. MessageCount + 1
    BY <1>1
  <2>2. at[l] \in Nat /\ at[l] <= at[m]
    BY <1>1, <1>4, <2>1, MessageOrder
  <2>3. ~(l > m)
    BY <1>1, <1>4
  <2>. QED BY <1>2, <1>4, <2>2, <2>3
<1>. QED BY <1>1, <1>3, <1>4

\* A value that is set moves the messages behind its own.
LEMMA EditParts ==
    ASSUME NEW at, NEW first, NEW i \in DOMAIN tbuf, NEW m, NEW w, NEW shift,
           EditOf(at, first, i, m, w, shift), NEW a, MovedPlaces(a, at, m, shift)
    PROVE  MessageParts(a, first)'
<1>. DEFINE N == MessageCount
<1>1. /\ MessageParts(at, first) /\ N \in Nat \ {0} /\ TagCount \in Nat
      /\ shift \in Int /\ index[i] \in Nat /\ free \in Nat /\ free' = free + shift
      /\ m \in 1 .. N /\ at[m] \in Nat /\ at[m] + 3 <= index[i]
      /\ EditedIndex(i, shift)
  BY EditFacts
<1>2. MessageCount' = N /\ TagCount' = TagCount
  BY <1>1 DEF EditedIndex
<1>3. ASSUME NEW l \in 1 .. N + 1 PROVE a[l] = IF l > m THEN at[l] + shift ELSE at[l]
  BY MovedAtIs
<1>4. ASSUME NEW l \in 1 .. N + 1 PROVE a[l] \in Nat
  BY MovedAtIs
<1>5. a \in [1 .. N + 1 -> Nat]
  <2>1. a = [l \in 1 .. N + 1 |-> a[l]]
    BY DEF MovedPlaces
  <2>. QED BY <1>4, <2>1
<1>6. a[1] = 0
  <2>1. 1 \in 1 .. N + 1 /\ ~(1 > m) /\ at[1] = 0
    BY <1>1 DEF MessageParts
  <2>. QED BY <1>3, <2>1
<1>7. a[N + 1] = free'
  <2>1. N + 1 \in 1 .. N + 1 /\ N + 1 > m /\ at[N + 1] = free
    BY <1>1 DEF MessageParts
  <2>. QED BY <1>1, <1>3, <2>1
<1>8. ASSUME NEW k \in 1 .. N + 1, NEW l \in 1 .. N + 1, k < l
      PROVE  a[k] + 3 <= a[l] /\ first[k] <= first[l]
  <2>1. at[k] \in Nat /\ at[l] \in Nat /\ at[k] + 3 <= at[l] /\ first[k] <= first[l]
    <3>1. k <= l
      BY <1>8
    <3>. QED BY <1>1, <1>8, <3>1, MessageOrder
  <2>2. CASE l <= m
    <3>1. ~(l > m) /\ ~(k > m)
      BY <1>1, <1>8, <2>2
    <3>. QED BY <1>3, <2>1, <3>1
  <2>3. CASE k > m
    <3>1. l > m
      BY <1>1, <1>8, <2>3
    <3>2. a[k] = at[k] + shift /\ a[l] = at[l] + shift
      BY <1>3, <2>3, <3>1
    <3>. QED BY <1>1, <2>1, <3>2
  <2>4. CASE k <= m /\ l > m
    <3>1. ~(k > m)
      BY <1>1, <2>4
    <3>2. at[k] <= at[m] /\ at[l] + shift > index[i]
      BY <2>4, MovedAtIs
    <3>3. a[k] = at[k] /\ a[l] = at[l] + shift
      BY <1>3, <2>4, <3>1
    <3>. QED BY <1>1, <2>1, <3>2, <3>3
  <2>. QED BY <1>1, <2>2, <2>3, <2>4
<1>9. \A l \in 1 .. N : first[l + 1] = first[l] + ValueCount(l)'
  <2>1. parts' = parts
    BY DEF EditOf
  <2>2. \A l \in 1 .. N : ValueCount(l)' = ValueCount(l)
    BY <2>1 DEF ValueCount
  <2>. QED BY <1>1, <2>2 DEF MessageParts
<1>10. /\ first \in [1 .. N + 1 -> 0 .. TagCount] /\ first[1] = 0 /\ first[N + 1] = TagCount
  BY <1>1 DEF MessageParts
<1>. QED BY <1>2, <1>5, <1>6, <1>7, <1>8, <1>9, <1>10 DEF MessageParts

\* The messages have their parts at the new places.
LEMMA EditPlaces ==
    ASSUME NEW at, NEW first, NEW i \in DOMAIN tbuf, NEW m, NEW w, NEW shift,
           EditOf(at, first, i, m, w, shift), NEW a, MovedPlaces(a, at, m, shift)
    PROVE  MessagePlaces(a, first)'
<1>. DEFINE N == MessageCount
<1>1. /\ MessageParts(at, first) /\ MessagePlaces(at, first) /\ N \in Nat \ {0} /\ TagCount \in Nat
      /\ i \in 1 .. TagCount /\ first[m] < i /\ i <= first[m + 1]
      /\ shift \in Int /\ index[i] \in Nat /\ free \in Nat
      /\ m \in 1 .. N /\ m + 1 \in 1 .. N + 1 /\ at[m] \in Nat /\ at[m] + 3 <= index[i]
      /\ at[m + 1] \in Nat /\ index[i] + ValueWords(i) <= at[m + 1] /\ ValueWords(i) \in Nat
      /\ EditedIndex(i, shift) /\ IndexInv
  BY EditFacts
<1>2. MessageCount' = N /\ TagCount' = TagCount /\ tbuf' = tbuf /\ parts' = parts
  BY <1>1 DEF EditedIndex, EditOf
<1>3. ASSUME NEW l \in 1 .. N + 1 PROVE a[l] = IF l > m THEN at[l] + shift ELSE at[l]
  BY DEF MovedPlaces
<1>a. MovedAfter(i, shift)
  BY EditedWords
<1>b. KeptBefore(i, at[m])
  BY EditedWords
<1>c. first \in [1 .. N + 1 -> 0 .. TagCount] /\ at[N + 1] = free
  BY <1>1 DEF MessageParts
<1>. SUFFICES ASSUME NEW r \in 1 .. N
              PROVE  /\ buf'[a[r] + 1] = <<"addr">> /\ buf'[a[r] + 2] = <<"types", parts[r]>>
                     /\ \A k \in 1 .. ValueCount(r)' : tbuf'[first[r] + k] = Required(parts[r])[k]
                     /\ first[r + 1] = first[r] => a[r + 1] = a[r] + 3
                     /\ first[r + 1] > first[r] => index'[first[r] + 1] = a[r] + 3
                     /\ \A k \in first[r] + 1 .. first[r + 1] :
                           index'[k] + ValueWords(k)'
                           = IF k < first[r + 1] THEN index'[k + 1] ELSE a[r + 1]
  BY <1>2 DEF MessagePlaces
<1>4. r \in 1 .. N + 1 /\ r + 1 \in 1 .. N + 1 /\ r < r + 1 /\ r <= r + 1
  BY <1>1
<1>5. at[r] \in Nat /\ at[r + 1] \in Nat /\ at[r] + 3 <= at[r + 1]
      /\ first[r] \in 0 .. TagCount /\ first[r + 1] \in 0 .. TagCount /\ first[r] <= first[r + 1]
  BY <1>1, <1>4, MessageOrder
<1>6. /\ buf[at[r] + 1] = <<"addr">> /\ buf[at[r] + 2] = <<"types", parts[r]>>
      /\ \A k \in 1 .. ValueCount(r) : tbuf[first[r] + k] = Required(parts[r])[k]
      /\ first[r + 1] = first[r] => at[r + 1] = at[r] + 3
      /\ first[r + 1] > first[r] => index[first[r] + 1] = at[r] + 3
  BY <1>1 DEF MessagePlaces
<1>7. ASSUME NEW k \in first[r] + 1 .. first[r + 1]
      PROVE  index[k] + ValueWords(k) = IF k < first[r + 1] THEN index[k + 1] ELSE at[r + 1]
  BY <1>1 DEF MessagePlaces
<1>8. a[r] = IF r > m THEN at[r] + shift ELSE at[r]
  BY <1>3, <1>4
<1>9. a[r + 1] = IF r + 1 > m THEN at[r + 1] + shift ELSE at[r + 1]
  BY <1>3, <1>4
<1>10. r > m => at[r] >= at[m + 1] /\ first[r] >= i
  <2>. SUFFICES ASSUME r > m PROVE at[r] >= at[m + 1] /\ first[r] >= i
    OBVIOUS
  <2>1. m + 1 <= r
    BY <1>1
  <2>2. at[m + 1] <= at[r] /\ first[m + 1] <= first[r] /\ first[m + 1] \in 0 .. TagCount
    BY <1>1, <1>4, <2>1, MessageOrder
  <2>. QED BY <1>1, <1>5, <2>2
<1>11. r < m => at[r + 1] <= at[m] /\ first[r + 1] < i
  <2>. SUFFICES ASSUME r < m PROVE at[r + 1] <= at[m] /\ first[r + 1] < i
    OBVIOUS
  <2>1. r + 1 <= m /\ m \in 1 .. N + 1
    BY <1>1
  <2>2. at[r + 1] <= at[m] /\ first[r + 1] <= first[m] /\ first[m] \in 0 .. TagCount
    BY <1>1, <1>4, <2>1, MessageOrder
  <2>. QED BY <1>1, <1>5, <2>2
<1>12. ASSUME NEW j \in 1 .. 2 PROVE buf'[a[r] + j] = buf[at[r] + j]
  <2>1. PICK q \in Nat : q = at[r] + j
    BY <1>5
  <2>2. CASE r > m
    <3>1. q < free
      <4>1. at[r + 1] <= at[N + 1]
        <5>1. N + 1 \in 1 .. N + 1 /\ r + 1 <= N + 1
          BY <1>1
        <5>. QED BY <1>1, <1>4, <5>1, MessageOrder
      <4>2. q <= at[r] + 2
        BY <1>5, <2>1
      <4>3. PICK x \in Nat, y \in Nat : x = at[r] /\ y = at[r + 1]
        BY <1>5
      <4>4. free \in Nat
        BY <1>1
      <4>5. q <= x + 2 /\ x + 3 <= y /\ y <= free
        BY <1>5, <1>c, <4>1, <4>2, <4>3
      <4>. QED BY <4>4, <4>5
    <3>2. q >= index[i] + ValueWords(i)
      BY <1>1, <1>5, <1>10, <2>1, <2>2
    <3>3. buf'[q + shift] = buf[q]
      BY <1>a, <3>1, <3>2 DEF MovedAfter
    <3>4. a[r] + j = q + shift
      BY <1>1, <1>5, <1>8, <2>1, <2>2
    <3>. QED BY <2>1, <3>3, <3>4
  <2>3. CASE r <= m
    <3>1. q < index[i] /\ q # at[m]
      <4>1. CASE r = m
        BY <1>1, <1>5, <2>1, <4>1
      <4>2. CASE r < m
        BY <1>1, <1>5, <1>11, <2>1, <4>2
      <4>. QED BY <1>1, <2>3, <4>1, <4>2
    <3>2. buf'[q] = buf[q]
      BY <1>b, <3>1 DEF KeptBefore
    <3>3. a[r] = at[r]
      BY <1>1, <1>8, <2>3
    <3>. QED BY <2>1, <3>2, <3>3
  <2>. QED BY <1>1, <2>2, <2>3
<1>13. buf'[a[r] + 1] = <<"addr">> /\ buf'[a[r] + 2] = <<"types", parts[r]>>
  <2>1. 1 \in 1 .. 2 /\ 2 \in 1 .. 2
    OBVIOUS
  <2>. QED BY <1>6, <1>12, <2>1
<1>14. \A k \in 1 .. ValueCount(r)' : tbuf'[first[r] + k] = Required(parts[r])[k]
  <2>1. ValueCount(r)' = ValueCount(r)
    BY <1>2 DEF ValueCount
  <2>. QED BY <1>2, <1>6, <2>1
<1>15. ASSUME first[r + 1] = first[r] PROVE a[r + 1] = a[r] + 3
  <2>1. r # m
    BY <1>1, <1>5, <1>15
  <2>2. r + 1 > m <=> r > m
    BY <1>1, <2>1
  <2>3. at[r + 1] = at[r] + 3
    BY <1>6, <1>15
  <2>. QED BY <1>1, <1>5, <1>8, <1>9, <2>2, <2>3
<1>16. ASSUME first[r + 1] > first[r] PROVE index'[first[r] + 1] = a[r] + 3
  <2>1. PICK k \in 1 .. TagCount : k = first[r] + 1
    BY <1>1, <1>5, <1>16
  <2>2. index[k] = at[r] + 3
    BY <1>6, <1>16, <2>1
  <2>3. index'[k] = IF k > i THEN index[k] + shift ELSE index[k]
    BY <1>1, <2>1 DEF EditedIndex
  <2>4. k > i <=> r > m
    <3>1. r > m => k > i
      BY <1>1, <1>5, <1>10, <2>1
    <3>2. r < m => ~(k > i)
      BY <1>1, <1>5, <1>11, <1>16, <2>1
    <3>3. r = m => ~(k > i)
      BY <1>1, <1>5, <2>1
    <3>. QED BY <1>1, <3>1, <3>2, <3>3
  <2>. QED BY <1>1, <1>5, <1>8, <2>1, <2>2, <2>3, <2>4
<1>17. ASSUME NEW k \in first[r] + 1 .. first[r + 1]
       PROVE  index'[k] + ValueWords(k)' = IF k < first[r + 1] THEN index'[k + 1] ELSE a[r + 1]
  <2>1. k \in 1 .. TagCount /\ k \in 1 .. TagCount + 1 /\ k + 1 \in 1 .. TagCount + 1 /\ k < k + 1
    BY <1>1, <1>5
  <2>2. index'[k] = IF k > i THEN index[k] + shift ELSE index[k]
    BY <1>1, <2>1 DEF EditedIndex
  <2>3. index'[k + 1] = IF k + 1 > i THEN index[k + 1] + shift ELSE index[k + 1]
    BY <1>1, <2>1 DEF EditedIndex
  <2>4. ValueWords(k)' = IF k = i THEN ValueWords(k) + shift ELSE ValueWords(k)
    BY <1>1, <2>1 DEF EditedIndex
  <2>5. ValueWords(k) \in Nat /\ index[k] \in Nat /\ index[k + 1] \in Nat
    BY <1>1, <2>1, IndexOrder
  <2>6. index'[k] + ValueWords(k)' = IF k >= i THEN index[k] + ValueWords(k) + shift
                                     ELSE index[k] + ValueWords(k)
    BY <1>1, <2>1, <2>2, <2>4, <2>5
  <2>7. CASE k < first[r + 1]
    <3>1. index[k] + ValueWords(k) = index[k + 1]
      BY <1>7, <2>7
    <3>2. index'[k] + ValueWords(k)' = index'[k + 1]
      BY <1>1, <2>1, <2>3, <2>5, <2>6, <3>1
    <3>. QED BY <2>7, <3>2
  <2>8. CASE ~(k < first[r + 1])
    <3>1. index[k] + ValueWords(k) = at[r + 1] /\ k = first[r + 1]
      BY <1>5, <1>7, <2>8
    <3>2. k >= i <=> r + 1 > m
      <4>1. r < m => ~(k >= i)
        BY <1>1, <1>5, <1>11, <2>1, <3>1
      <4>2. r = m => k >= i
        BY <1>1, <1>5, <3>1
      <4>3. r > m => k >= i
        BY <1>1, <1>5, <1>10, <2>1, <3>1
      <4>. QED BY <1>1, <4>1, <4>2, <4>3
    <3>3. index'[k] + ValueWords(k)' = a[r + 1]
      BY <1>1, <1>5, <1>9, <2>5, <2>6, <3>1, <3>2
    <3>. QED BY <2>8, <3>3
  <2>. QED BY <2>7, <2>8
<1>. QED BY <1>13, <1>14, <1>15, <1>16, <1>17

\* The values of other messages stay outside of a message.
LEMMA EditApart ==
    ASSUME NEW at, NEW first, NEW i \in DOMAIN tbuf, NEW m, NEW w, NEW shift,
           EditOf(at, first, i, m, w, shift), NEW a, MovedPlaces(a, at, m, shift)
    PROVE  Apart(a, first)'
<1>. DEFINE N == MessageCount
<1>1. /\ MessageParts(at, first) /\ Apart(at, first) /\ N \in Nat \ {0} /\ TagCount \in Nat
      /\ i \in 1 .. TagCount /\ first[m] < i /\ i <= first[m + 1]
      /\ shift \in Int /\ index[i] \in Nat
      /\ m \in 1 .. N /\ m + 1 \in 1 .. N + 1 /\ DOMAIN tbuf = 1 .. TagCount
      /\ ValueWords(i) \in Nat /\ ValueWords(i) + shift >= 1
      /\ EditedIndex(i, shift) /\ IndexInv
  BY EditFacts
<1>1a. at[m] \in Nat /\ at[m] + 3 <= index[i] /\ at[m + 1] \in Nat /\ index[i] + ValueWords(i) <= at[m + 1]
  BY EditFacts
<1>2. MessageCount' = N /\ tbuf' = tbuf
  BY <1>1 DEF EditedIndex
<1>. SUFFICES ASSUME NEW r \in 1 .. N + 1, NEW k \in 1 .. TagCount
              PROVE  /\ k <= first[r] => index'[k] + ValueWords(k)' <= a[r]
                     /\ k > first[r] => index'[k] >= a[r] + 3
  BY <1>1, <1>2 DEF Apart
<1>3. a[r] = IF r > m THEN at[r] + shift ELSE at[r]
  BY DEF MovedPlaces
<1>4. k \in 1 .. TagCount + 1 /\ k + 1 \in 1 .. TagCount + 1 /\ k < k + 1 /\ k \in DOMAIN tbuf
  BY <1>1
<1>5. index'[k] = IF k > i THEN index[k] + shift ELSE index[k]
  BY <1>1, <1>4 DEF EditedIndex
<1>6. ValueWords(k)' = IF k = i THEN ValueWords(k) + shift ELSE ValueWords(k)
  BY <1>1 DEF EditedIndex
<1>7. ValueWords(k) \in Nat /\ index[k] \in Nat
  BY <1>1, <1>4, IndexOrder
<1>8. at[r] \in Nat /\ first[r] \in 0 .. TagCount
  <2>1. r <= r
    BY <1>1
  <2>. QED BY <1>1, <2>1, MessageOrder
<1>9. k <= first[r] => index[k] + ValueWords(k) <= at[r]
  BY <1>1, <1>4 DEF Apart
<1>10. k > first[r] => index[k] >= at[r] + 3
  BY <1>1, <1>4 DEF Apart
<1>11. r > m => at[r] >= at[m + 1] /\ first[r] >= i
  <2>. SUFFICES ASSUME r > m PROVE at[r] >= at[m + 1] /\ first[r] >= i
    OBVIOUS
  <2>1. m + 1 <= r
    BY <1>1
  <2>2. at[m + 1] <= at[r] /\ first[m + 1] <= first[r] /\ first[m + 1] \in 0 .. TagCount
    BY <1>1, <2>1, MessageOrder
  <2>. QED BY <1>1, <1>8, <2>2
<1>12. r <= m => at[r] <= at[m] /\ first[r] < i
  <2>. SUFFICES ASSUME r <= m PROVE at[r] <= at[m] /\ first[r] < i
    OBVIOUS
  <2>1. m \in 1 .. N + 1
    BY <1>1
  <2>2. at[r] <= at[m] /\ first[r] <= first[m] /\ first[m] \in 0 .. TagCount
    BY <1>1, <2>1, MessageOrder
  <2>. QED BY <1>1, <1>8, <2>2
<1>13. k < i => index[k] + ValueWords(k) <= index[i]
  <2>1. i \in 1 .. TagCount + 1
    BY <1>1
  <2>. QED BY <1>1, <1>4, <2>1, IndexOrder
<1>14. CASE r > m
  <2>1. a[r] = at[r] + shift
    BY <1>3, <1>14
  <2>2. CASE k < i
    <3>1. index'[k] = index[k] /\ ValueWords(k)' = ValueWords(k) /\ ~(k > first[r])
      BY <1>1, <1>5, <1>6, <1>8, <1>11, <1>14, <2>2
    <3>3. PICK x \in Nat, y \in Nat, z \in Nat, s \in Nat, t \in Nat :
             x = index[k] /\ y = index[i] /\ z = at[r] /\ s = ValueWords(k) /\ t = ValueWords(i)
      BY <1>1, <1>7, <1>8
    <3>2. x + s <= y
      BY <1>13, <2>2, <3>3
    <3>2a. z >= y + t
      <4>1. PICK u \in Nat : u = at[m + 1]
        BY <1>1a
      <4>2. y + t <= u
        BY <1>1a, <3>3, <4>1
      <4>3. z >= u
        BY <1>11, <1>14, <3>3, <4>1
      <4>. QED BY <4>2, <4>3
    <3>2b. t + shift >= 1
      BY <1>1, <3>3
    <3>4. t + shift >= 1 /\ x + s <= y /\ z >= y + t
      BY <3>2, <3>2a, <3>2b
    <3>5. shift \in Int
      BY <1>1
    <3>6. x + s <= z + shift
      BY <3>4, <3>5
    <3>. QED BY <2>1, <3>1, <3>3, <3>6
  <2>3. CASE k = i
    <3>1. index'[k] + ValueWords(k)' = index[k] + ValueWords(k) + shift /\ ~(k > first[r])
      BY <1>1, <1>5, <1>6, <1>7, <1>8, <1>11, <1>14, <2>3
    <3>2. PICK x \in Nat, z \in Nat, s \in Nat : x = index[k] /\ z = at[r] /\ s = ValueWords(k)
      BY <1>7, <1>8
    <3>3. k <= first[r]
      BY <1>8, <3>1
    <3>4. x + s <= z /\ shift \in Int
      BY <1>1, <1>9, <3>2, <3>3
    <3>5. x + s + shift <= z + shift
      BY <3>4
    <3>. QED BY <2>1, <3>1, <3>2, <3>5
  <2>4. CASE k > i
    <3>1. index'[k] = index[k] + shift /\ ValueWords(k)' = ValueWords(k)
      BY <1>1, <1>5, <1>6, <2>4
    <3>2. k <= first[r] => (index[k] + shift) + ValueWords(k) <= at[r] + shift
      <4>1. PICK x \in Nat, z \in Nat, s \in Nat : x = index[k] /\ z = at[r] /\ s = ValueWords(k)
        BY <1>7, <1>8
      <4>2. (k <= first[r] => x + s <= z) /\ shift \in Int
        BY <1>1, <1>9, <4>1
      <4>3. x + s <= z => (x + shift) + s <= z + shift
        BY <4>2
      <4>. QED BY <4>1, <4>2, <4>3
    <3>3. k > first[r] => index[k] + shift >= (at[r] + shift) + 3
      <4>1. PICK x \in Nat, z \in Nat : x = index[k] /\ z = at[r]
        BY <1>7, <1>8
      <4>2. shift \in Int
        BY <1>1
      <4>3. x >= z + 3 => x + shift >= (z + shift) + 3
        BY <4>2
      <4>. QED BY <1>10, <4>1, <4>3
    <3>. QED BY <2>1, <3>1, <3>2, <3>3
  <2>. QED BY <1>1, <2>2, <2>3, <2>4
<1>15. CASE r <= m
  <2>1. a[r] = at[r] /\ at[r] <= at[m] /\ first[r] < i
    BY <1>1, <1>3, <1>12, <1>15
  <2>2. CASE k <= i
    <3>1. index'[k] = index[k]
      BY <1>1, <1>5, <2>2
    <3>2. k < i => ValueWords(k)' = ValueWords(k)
      BY <1>6
    <3>. QED BY <1>1, <1>8, <1>9, <1>10, <2>1, <2>2, <3>1, <3>2
  <2>3. CASE k > i
    <3>1. index'[k] = index[k] + shift
      BY <1>5, <2>3
    <3>2. index[i] + ValueWords(i) <= index[k]
      <4>1. i \in 1 .. TagCount + 1
        BY <1>1
      <4>. QED BY <1>1, <1>4, <2>3, <4>1, IndexOrder
    <3>5. PICK x \in Nat, y \in Nat, z \in Nat, u \in Nat, t \in Nat :
             x = index[k] /\ y = index[i] /\ z = at[r] /\ u = at[m] /\ t = ValueWords(i)
      BY <1>1, <1>1a, <1>7, <1>8
    <3>6. t + shift >= 1 /\ y + t <= x /\ u + 3 <= y /\ z <= u /\ shift \in Int
      BY <1>1, <1>1a, <2>1, <3>2, <3>5
    <3>7. x + shift >= z + 3
      BY <3>6
    <3>3. index[k] + shift >= at[r] + 3
      BY <3>5, <3>7
    <3>4. ~(k <= first[r])
      BY <1>1, <1>8, <2>1, <2>3
    <3>. QED BY <2>1, <3>1, <3>3, <3>4
  <2>. QED BY <1>1, <2>2, <2>3
<1>. QED BY <1>1, <1>14, <1>15

\* The length words fit the new places.
LEMMA EditLengths ==
    ASSUME NEW at, NEW first, NEW i \in DOMAIN tbuf, NEW m, NEW w, NEW shift,
           EditOf(at, first, i, m, w, shift), NEW a, MovedPlaces(a, at, m, shift),
           ~build.lone, LengthWordsRight(at)
    PROVE  LengthWordsRight(a)'
<1>. DEFINE N == MessageCount
<1>1. /\ MessageParts(at, first) /\ N \in Nat \ {0} /\ TagCount \in Nat
      /\ shift \in Int /\ index[i] \in Nat /\ free \in Nat
      /\ m \in 1 .. N /\ m + 1 \in 1 .. N + 1 /\ at[m] \in Nat /\ at[m] + 3 <= index[i]
      /\ at[m + 1] \in Nat /\ index[i] + ValueWords(i) <= at[m + 1] /\ ValueWords(i) \in Nat
      /\ EditedIndex(i, shift)
  BY EditFacts
<1>2. MessageCount' = N
  BY <1>1 DEF EditedIndex
<1>3. ASSUME NEW l \in 1 .. N + 1 PROVE a[l] = IF l > m THEN at[l] + shift ELSE at[l]
  BY DEF MovedPlaces
<1>a. MovedAfter(i, shift)
  BY EditedWords
<1>b. KeptBefore(i, at[m])
  BY EditedWords
<1>c. buf'[at[m]] = <<"len", at[m + 1] + shift - at[m] - 1>>
  BY DEF EditOf, Edited
<1>d. at[N + 1] = free
  BY <1>1 DEF MessageParts
<1>4. ASSUME NEW r \in 1 .. N PROVE buf'[a[r]] = <<"len", a[r + 1] - a[r] - 1>>
  <2>1. r \in 1 .. N + 1 /\ r + 1 \in 1 .. N + 1 /\ r <= r + 1 /\ r < r + 1
    BY <1>1
  <2>2. at[r] \in Nat /\ at[r + 1] \in Nat /\ at[r] + 3 <= at[r + 1]
    BY <1>1, <2>1, MessageOrder
  <2>3. a[r] = IF r > m THEN at[r] + shift ELSE at[r]
    BY <1>3, <2>1
  <2>4. a[r + 1] = IF r + 1 > m THEN at[r + 1] + shift ELSE at[r + 1]
    BY <1>3, <2>1
  <2>5. buf[at[r]] = <<"len", at[r + 1] - at[r] - 1>>
    BY DEF LengthWordsRight
  <2>6. CASE r = m
    <3>1. a[r] = at[m] /\ a[r + 1] = at[m + 1] + shift
      BY <1>1, <2>3, <2>4, <2>6
    <3>2. a[r + 1] - a[r] - 1 = at[m + 1] + shift - at[m] - 1
      <4>1. PICK x \in Nat, y \in Nat : x = at[m] /\ y = at[m + 1]
        BY <1>1
      <4>2. a[r] = x /\ a[r + 1] = y + shift /\ shift \in Int
        BY <1>1, <3>1, <4>1
      <4>3. (y + shift) - x - 1 = y + shift - x - 1
        BY <4>2
      <4>. QED BY <4>1, <4>2, <4>3
    <3>3. buf'[a[r]] = buf'[at[m]]
      BY <3>1
    <3>. QED BY <1>c, <3>2, <3>3
  <2>7. CASE r < m
    <3>1. a[r] = at[r] /\ a[r + 1] = at[r + 1]
      BY <1>1, <2>3, <2>4, <2>7
    <3>2. at[r + 1] <= at[m]
      <4>1. r + 1 <= m /\ m \in 1 .. N + 1
        BY <1>1, <2>7
      <4>. QED BY <1>1, <2>1, <4>1, MessageOrder
    <3>3. at[r] < index[i] /\ at[r] # at[m]
      BY <1>1, <2>2, <3>2
    <3>4. buf'[at[r]] = buf[at[r]]
      BY <1>b, <2>2, <3>3 DEF KeptBefore
    <3>. QED BY <2>5, <3>1, <3>4
  <2>8. CASE r > m
    <3>1. a[r] = at[r] + shift /\ a[r + 1] = at[r + 1] + shift
      BY <1>1, <2>3, <2>4, <2>8
    <3>2. at[m + 1] <= at[r]
      <4>1. m + 1 <= r
        BY <1>1, <2>8
      <4>. QED BY <1>1, <2>1, <4>1, MessageOrder
    <3>3. at[r + 1] <= at[N + 1]
      <4>1. r + 1 <= N + 1 /\ N + 1 \in 1 .. N + 1
        BY <1>1
      <4>. QED BY <1>1, <2>1, <4>1, MessageOrder
    <3>4. at[r] >= index[i] + ValueWords(i) /\ at[r] < free
      BY <1>1, <1>d, <2>2, <3>2, <3>3
    <3>5. buf'[at[r] + shift] = buf[at[r]]
      BY <1>a, <2>2, <3>4 DEF MovedAfter
    <3>6. (at[r + 1] + shift) - (at[r] + shift) - 1 = at[r + 1] - at[r] - 1
      BY <1>1, <2>2
    <3>. QED BY <2>5, <3>1, <3>5, <3>6
  <2>. QED BY <1>1, <2>6, <2>7, <2>8
<1>. QED BY <1>2, <1>4 DEF LengthWordsRight

\* A value that is set leaves the layout right.
LEMMA EditLayout ==
    ASSUME NEW at, NEW first, NEW i \in DOMAIN tbuf, NEW m, NEW w, NEW shift,
           EditOf(at, first, i, m, w, shift), NEW a, MovedPlaces(a, at, m, shift),
           build.lone \in BOOLEAN, build'.lone = build.lone, ~build.lone => LengthWordsRight(at)
    PROVE  IndexInv' /\ Layout(a, first)'
<1>1. IndexInv'
  BY EditIndex
<1>2. MessageParts(a, first)'
  BY EditParts
<1>3. MessagePlaces(a, first)'
  BY EditPlaces
<1>4. Apart(a, first)'
  BY EditApart
<1>5. ASSUME ~build.lone PROVE LengthWordsRight(a)'
  BY <1>5, EditLengths
<1>. QED BY <1>1, <1>2, <1>3, <1>4, <1>5 DEF Layout

\* (setf value) of any kind is such an edit.
LEMMA SetEffect ==
    ASSUME NEW at, NEW first, NEW i \in DOMAIN tbuf, NEW m, NEW last,
           MayEdit(at, first, i, m, last), parts' = parts,
           NEW id, NEW v \in Values(tbuf[i], id), SetValue_(i, v, last)
    PROVE  \E w, shift : EditOf(at, first, i, m, w, shift) /\ Lengths(last)
<1>1. PICK w : w = Encoded(tbuf[i], v)
  OBVIOUS
<1>2. /\ IndexInv /\ free \in Nat /\ free <= Cap /\ MessageCount \in Nat \ {0}
      /\ InMessage(at, first, i, m)
  BY OscAssumption DEF MayEdit
<1>3. ValueWords(i) \in Nat \ {0} /\ tbuf[i] \in TagSet
  BY <1>2, IndexFacts
<1>4. Shaped(tbuf[i], w)
  BY <1>1, <1>3, EncodedShaped
<1>5. Len(w) \in Nat
  BY <1>4, SeqOf DEF Shaped
<1>6. PICK shift \in Int : shift = Len(w) - ValueWords(i)
  BY <1>3, <1>5
<1>7. Edited(at, m, i, w, shift) /\ Lengths(last) /\ free' + Reserved <= Cap
  <2>1. CASE tbuf[i] = "i"
    <3>1. PICK u : u = Encoded("i", v)
      OBVIOUS
    <3>2. v \in Values("i", id)
      BY <2>1
    <3>3. /\ Len(u) - ValueWords(i) = 0
          /\ Edited(at, m, i, u, 0) /\ Lengths(last) /\ free' + Reserved <= Cap
      BY <2>1, <3>1, <3>2, SetNumber
    <3>4. u = w
      BY <1>1, <2>1, <3>1
    <3>5. shift = 0
      BY <1>6, <3>3, <3>4
    <3>. QED BY <3>3, <3>4, <3>5
  <2>2. CASE tbuf[i] # "i"
    <3>1. /\ Edited(at, m, i, w, Len(w) - ValueWords(i)) /\ Lengths(last)
          /\ free' + Reserved <= Cap
      BY <1>1, <2>2, SetWords
    <3>. QED BY <1>6, <3>1
  <2>. QED BY <2>1, <2>2
<1>8. Len(w) = ValueWords(i) + shift
  BY <1>3, <1>5, <1>6
<1>9. EditOf(at, first, i, m, w, shift)
  BY <1>2, <1>4, <1>7, <1>8 DEF EditOf
<1>. QED BY <1>7, <1>9

\* The last word before the free memory.
LEMMA LastWord ==
    ASSUME NEW c \in Nat, NEW f \in 1 .. c
    PROVE  f - 1 \in 0 .. c /\ f - 1 + Reserved \in Nat
BY DEF Reserved

\* What every edit leaves true of the output stream.
LEMMA EditOutput ==
    ASSUME NEW at, NEW first, NEW i \in DOMAIN tbuf, NEW m, NEW w, NEW shift,
           EditOf(at, first, i, m, w, shift), NEW last, Lengths(last), OutputInv
    PROVE  /\ IsBuffer(buf') /\ parts' \in Seq(Tags) /\ single' = single /\ single' \in BOOLEAN
           /\ free' \in 1 .. Cap /\ free' + Reserved <= Cap /\ length' \in 0 .. Cap
           /\ bundleLen' \in Nat
<1>1. /\ shift \in Int /\ ValueWords(i) \in Nat /\ ValueWords(i) + shift >= 1
      /\ index[i] \in Nat /\ free \in Nat /\ free' = free + shift /\ IndexInv
  BY EditFacts
<1>2. index[i] + ValueWords(i) <= free
  BY <1>1, IndexFacts
<1>3. IsBuffer(buf') /\ single' = single /\ parts' = parts /\ free' + Reserved <= Cap
  BY DEF EditOf, Edited
<1>4. Cap \in Nat /\ Reserved \in Nat
  BY OscAssumption DEF Reserved
<1>5. free' \in 1 .. Cap
  BY <1>1, <1>2, <1>3, <1>4
<1>6. length \in 0 .. Cap /\ bundleLen \in Nat /\ single \in BOOLEAN /\ parts \in Seq(Tags)
  BY DEF OutputInv
<1>7. free' - 1 \in 0 .. Cap /\ free' - 1 + Reserved \in Nat
  BY <1>4, <1>5, LastWord
<1>8. length' \in {length, free' - 1} /\ bundleLen' \in {bundleLen, free' - 1 + Reserved}
  BY DEF Lengths
<1>. QED BY <1>3, <1>5, <1>6, <1>7, <1>8

\* The output stream, while there is a message in it.
LEMMA BegunFacts ==
    ASSUME OutputInv, NEW at, NEW first, BegunInv(at, first)
    PROVE  /\ IndexInv /\ IsBuffer(buf) /\ single \in BOOLEAN /\ free \in Nat /\ free <= Cap
           /\ length \in Nat /\ MessageCount \in 1 .. MaxMessages /\ MessageCount \in Nat
           /\ build.lone \in BOOLEAN /\ Layout(at, first) /\ (~build.lone => LengthWordsRight(at))
           /\ (single => MessageCount = 1)
<1>1. MaxMessages \in Nat /\ Cap \in Nat
  BY OscAssumption
<1>2. IndexInv /\ IsBuffer(buf) /\ single \in BOOLEAN /\ free \in 1 .. Cap /\ length \in 0 .. Cap
  BY DEF OutputInv
<1>3. Layout(at, first) /\ build.lone \in BOOLEAN /\ MessageCount \in 1 .. MaxMessages
      /\ (single => MessageCount = 1)
  BY DEF BegunInv
<1>4. ~build.lone => LengthWordsRight(at)
  BY <1>3 DEF Layout
<1>. QED BY <1>1, <1>2, <1>3, <1>4

\* bundle sets the next value of its last message.
LEMMA BundleValueOutput ==
    ASSUME OutputInv, build.at = "values", build.next <= TagCount,
           NEW v \in Values(tbuf[build.next], build.next), BundleValue(v)
    PROVE  OutputInv'
<1>1. PICK at, first : BegunInv(at, first)
  BY DEF OutputInv
<1>2. /\ IndexInv /\ IsBuffer(buf) /\ single \in BOOLEAN /\ free \in Nat /\ free <= Cap
      /\ length \in Nat /\ MessageCount \in 1 .. MaxMessages /\ MessageCount \in Nat
      /\ build.lone \in BOOLEAN /\ Layout(at, first) /\ (~build.lone => LengthWordsRight(at))
      /\ (single => MessageCount = 1)
  BY <1>1, BegunFacts
<1>3. ValuesInv(at, first)
  BY <1>1 DEF BegunInv
<1>4. PICK i : i = build.next
  OBVIOUS
<1>5. /\ first \in [1 .. MessageCount + 1 -> 0 .. TagCount] /\ MessageParts(at, first)
  BY <1>2 DEF Layout, MessageParts
<1>6. TagCount \in Nat /\ DOMAIN tbuf = 1 .. TagCount
  BY <1>2, LenProperties DEF IndexInv, TagCount
<1>7. first[MessageCount] \in 0 .. TagCount
  BY <1>2, <1>5
<1>8. i \in DOMAIN tbuf /\ i > first[MessageCount] /\ i \in Nat
  BY <1>3, <1>4, <1>6, <1>7 DEF ValuesInv
<1>9. PICK m \in 1 .. MessageCount : InMessage(at, first, i, m)
  <2>1. parts \in Seq(Tags) /\ MessageCount >= 1
    BY <1>2 DEF OutputInv
  <2>. QED BY <1>2, <1>8, <2>1, MessageFound
<1>10. build.lone = single
  BY <1>3 DEF ValuesInv
<1>11. MayEdit(at, first, i, m, TRUE)
  BY <1>2, <1>8, <1>9, <1>10 DEF MayEdit
<1>12. SetValue_(i, v, TRUE) /\ parts' = parts /\ v \in Values(tbuf[i], i)
       /\ build' = [build EXCEPT !.next = @ + 1] /\ sets' = sets
  BY <1>4 DEF BundleValue
<1>13. PICK w, shift : EditOf(at, first, i, m, w, shift) /\ Lengths(TRUE)
  BY <1>8, <1>11, <1>12, SetEffect
<1>14. PICK a : MovedPlaces(a, at, m, shift)
  BY DEF MovedPlaces
<1>15. /\ build = [at |-> "values", next |-> build.next, more |-> build.more,
                  offset |-> build.offset, lone |-> build.lone]
  BY <1>3 DEF ValuesInv
<1>16. build' = [at |-> "values", next |-> build.next + 1, more |-> build.more,
                 offset |-> build.offset, lone |-> build.lone]
  BY <1>12, <1>15
<1>17. /\ build'.at = "values" /\ build'.next = i + 1 /\ build'.more = build.more
       /\ build'.offset = build.offset /\ build'.lone = build.lone
       /\ build' = [at |-> "values", next |-> build'.next, more |-> build'.more,
                    offset |-> build'.offset, lone |-> build'.lone]
  BY <1>4, <1>16
<1>18. IndexInv' /\ Layout(a, first)'
  BY <1>2, <1>8, <1>13, <1>14, <1>17, EditLayout
<1>19. /\ IsBuffer(buf') /\ parts' \in Seq(Tags) /\ single' = single /\ single' \in BOOLEAN
       /\ free' \in 1 .. Cap /\ free' + Reserved <= Cap /\ length' \in 0 .. Cap
       /\ bundleLen' \in Nat
  BY <1>8, <1>13, EditOutput
<1>20. EditedIndex(i, shift) /\ shift \in Int /\ free' = free + shift
  BY <1>8, <1>13, EditFacts
<1>21. MessageCount' = MessageCount /\ TagCount' = TagCount
  BY <1>20 DEF EditedIndex
<1>22. m = MessageCount
  <2>. SUFFICES ASSUME m < MessageCount PROVE FALSE
    BY <1>2
  <2>1. m + 1 \in 1 .. MessageCount + 1 /\ MessageCount \in 1 .. MessageCount + 1 /\ m + 1 <= MessageCount
    BY <1>2
  <2>2. first[m + 1] <= first[MessageCount] /\ first[m + 1] \in 0 .. TagCount
    BY <1>2, <1>5, <1>6, <2>1, MessageOrder
  <2>3. i <= first[m + 1]
    BY <1>9 DEF InMessage
  <2>. QED BY <1>7, <1>8, <2>2, <2>3
<1>23. a[MessageCount] = at[MessageCount]
  <2>1. MessageCount \in 1 .. MessageCount + 1 /\ ~(MessageCount > m)
    BY <1>2, <1>22
  <2>. QED BY <1>14, <2>1 DEF MovedPlaces
<1>24. shift >= 0
  <2>1. written[i] = Unset
    <3>1. i \in build.next .. TagCount
      BY <1>4, <1>6, <1>8
    <3>. QED BY <1>3, <3>1 DEF ValuesInv
  <2>2. ValueWords(i) = 1
    <3>1. Len(Unset) = 1
      BY UnsetShaped DEF TagSet
    <3>. QED BY <2>1, <3>1 DEF ValueWords
  <2>3. ValueWords(i) + shift >= 1
    BY <1>8, <1>13, EditFacts
  <2>. QED BY <1>20, <2>2, <2>3
<1>25. ASSUME NEW k \in build'.next .. TagCount PROVE written'[k] = Unset
  <2>1. k \in build.next .. TagCount /\ k # i /\ k \in 1 .. TagCount
    BY <1>4, <1>6, <1>8, <1>17
  <2>2. written[k] = Unset
    BY <1>3, <2>1 DEF ValuesInv
  <2>3. written'[k] = written[k]
    BY <1>8, <1>13, <2>1, EditedIndexIs
  <2>. QED BY <2>2, <2>3
<1>26. ASSUME NEW p \in free' .. Cap PROVE buf'[p] = Zero
  <2>1. p \in free .. Cap /\ p \in 0 .. Cap /\ p >= free /\ p >= free + shift
    BY <1>2, <1>20, <1>24
  <2>2. buf[p] = Zero
    BY <1>3, <2>1 DEF ValuesInv
  <2>3. buf'[p] = buf[p]
    BY <1>13, <2>1 DEF EditOf, Edited
  <2>. QED BY <2>2, <2>3
<1>27. length' = free' - 1 \/ (MessageCount' > 1 /\ length' = build'.offset)
  <2>1. length = free - 1 \/ (MessageCount > 1 /\ length = build.offset)
    BY <1>3 DEF ValuesInv
  <2>. QED BY <1>13, <1>17, <1>21, <2>1 DEF Lengths
<1>28. build'.next \in first[MessageCount'] + 1 .. TagCount' + 1
  BY <1>4, <1>6, <1>7, <1>8, <1>17, <1>21
<1>29. ValuesInv(a, first)'
  <2>1. build'.lone = single'
    BY <1>10, <1>17, <1>19
  <2>2. build'.more \in Nat /\ MessageCount' + build'.more <= MaxMessages /\ (single' => build'.more = 0)
    BY <1>3, <1>17, <1>19, <1>21 DEF ValuesInv
  <2>3. build'.offset = IF MessageCount' = 1 THEN 0 ELSE a[MessageCount'] - 1
    BY <1>3, <1>17, <1>21, <1>23 DEF ValuesInv
  <2>. QED BY <1>17, <1>21, <1>25, <1>26, <1>27, <1>28, <2>1, <2>2, <2>3 DEF ValuesInv
<1>30. BegunInv(a, first)'
  BY <1>2, <1>17, <1>18, <1>19, <1>21, <1>29 DEF BegunInv
<1>31. sets' \in 0 .. MaxSets
  BY <1>12 DEF OutputInv
<1>. QED BY <1>17, <1>18, <1>19, <1>30, <1>31 DEF OutputInv, Begun

\* (setf value) at any time after start-message or bundle.
LEMMA SetValueOutput ==
    ASSUME OutputInv, NEW i \in DOMAIN tbuf, NEW id, NEW v \in Values(tbuf[i], id), SetValue(i, v)
    PROVE  OutputInv'
<1>0. build.at = "ready" /\ sets < MaxSets /\ SetValue_(i, v, FALSE) /\ sets' = sets + 1
      /\ build' = build /\ parts' = parts
  BY DEF SetValue
<1>1. PICK at, first : BegunInv(at, first)
  BY <1>0 DEF OutputInv
<1>2. /\ IndexInv /\ IsBuffer(buf) /\ single \in BOOLEAN /\ free \in Nat /\ free <= Cap
      /\ length \in Nat /\ MessageCount \in 1 .. MaxMessages /\ MessageCount \in Nat
      /\ build.lone \in BOOLEAN /\ Layout(at, first) /\ (~build.lone => LengthWordsRight(at))
      /\ (single => MessageCount = 1)
  BY <1>1, BegunFacts
<1>3. ReadyInv
  BY <1>0, <1>1 DEF BegunInv
<1>4. PICK m \in 1 .. MessageCount : InMessage(at, first, i, m)
  <2>1. MessageCount >= 1
    BY <1>2
  <2>. QED BY <1>2, <2>1, MessageFound
<1>5. length = free - 1 /\ (build.lone => single) /\ (build.bundle => bundleLen = length + Reserved)
  BY <1>3 DEF ReadyInv
<1>6. MayEdit(at, first, i, m, FALSE)
  BY <1>2, <1>4, <1>5 DEF MayEdit
<1>7. PICK w, shift : EditOf(at, first, i, m, w, shift) /\ Lengths(FALSE)
  BY <1>0, <1>6, SetEffect
<1>8. PICK a : MovedPlaces(a, at, m, shift)
  BY DEF MovedPlaces
<1>9. build.lone \in BOOLEAN /\ build'.lone = build.lone
  BY <1>0, <1>2
<1>10. IndexInv' /\ Layout(a, first)'
  BY <1>2, <1>7, <1>8, <1>9, EditLayout
<1>11. /\ IsBuffer(buf') /\ parts' \in Seq(Tags) /\ single' = single /\ single' \in BOOLEAN
       /\ free' \in 1 .. Cap /\ free' + Reserved <= Cap /\ length' \in 0 .. Cap
       /\ bundleLen' \in Nat
  BY <1>7, EditOutput
<1>12. EditedIndex(i, shift)
  BY <1>7, EditFacts
<1>13. MessageCount' = MessageCount /\ TagCount' = TagCount
  BY <1>12 DEF EditedIndex
<1>14. length' = free' - 1 /\ (build.bundle => bundleLen' = length' + Reserved)
  BY <1>5, <1>7 DEF Lengths
<1>15. ReadyInv'
  BY <1>0, <1>3, <1>5, <1>11, <1>14 DEF ReadyInv
<1>16. BegunInv(a, first)'
  BY <1>0, <1>2, <1>10, <1>11, <1>13, <1>15 DEF BegunInv
<1>17. sets' \in 0 .. MaxSets
  <2>1. MaxSets \in Nat /\ sets \in 0 .. MaxSets
    BY OscAssumption DEF OutputInv
  <2>. QED BY <1>0, <2>1
<1>18. build'.at = "ready"
  BY <1>0
<1>. QED BY <1>10, <1>11, <1>16, <1>17, <1>18 DEF OutputInv, Begun
-----------------------------------------------------------------------------
(* The first message of a buffer *)

StartBuf(types, size) ==
    [p \in 0 .. Cap |-> CASE p = 0 -> <<"len", size>>
                          [] p = 1 -> <<"addr">>
                          [] p = 2 -> <<"types", types>>
                          [] OTHER -> Zero]

Started(types, tags, n) ==
    /\ types \in Tags /\ tags = Required(types) /\ tags \in Seq(TagSet)
    /\ n \in Nat /\ Len(tags) = n /\ n + 3 + Reserved <= Cap
    /\ buf' = StartBuf(types, 2 + n)
    /\ tbuf' = tags /\ free' = n + 3 /\ length' = n + 2
    /\ index' = [k \in 1 .. n + 1 |-> 2 + k]
    /\ written' = [k \in 1 .. n |-> Unset]
    /\ parts' = << types >>

\* What osc_start_message does.
LEMMA StartIs ==
    ASSUME NEW types \in TypeTags, OscStartMessage(types)
    PROVE  \E tags, n : Started(types, tags, n)
<1>1. types \in Tags
  BY OscAssumption DEF Tags
<1>2. PICK tags : tags = Required(types)
  OBVIOUS
<1>3. PICK n : n = Len(tags)
  OBVIOUS
<1>4. tags \in Seq(TagSet) /\ n \in Nat
  BY <1>1, <1>2, <1>3, RequiredTyped
<1>5. /\ buf' = StartBuf(types, 2 + n)
      /\ tbuf' = tags /\ free' = 3 + n /\ length' = 2 + n
      /\ index' = [k \in 1 .. n + 1 |-> 2 + k]
      /\ written' = [k \in 1 .. n |-> Unset]
      /\ parts' = << types >> /\ free' + Reserved <= Cap
  BY <1>2, <1>3 DEF OscStartMessage, Room, StartBuf
<1>6. 3 + n = n + 3 /\ 2 + n = n + 2
  BY <1>4
<1>7. n + 3 + Reserved <= Cap
  BY <1>5, <1>6
<1>8. Len(tags) = n
  BY <1>3
<1>. QED BY <1>1, <1>2, <1>4, <1>5, <1>6, <1>7, <1>8 DEF Started

\* The index of the first message.
LEMMA StartCounts ==
    ASSUME NEW types, NEW tags, NEW n, Started(types, tags, n)
    PROVE  /\ n \in Nat /\ TagCount' = n /\ MessageCount' = 1 /\ DOMAIN tbuf' = 1 .. n
           /\ DOMAIN index' = 1 .. n + 1 /\ IsSeq(written') /\ Len(written') = n
           /\ \A k \in 1 .. n : written'[k] = Unset /\ ValueWords(k)' = 1 /\ tbuf'[k] \in TagSet
           /\ \A k \in 1 .. n + 1 : index'[k] = k + 2
           /\ ValueCount(1)' = n /\ parts'[1] = types /\ parts' \in Seq(Tags)
           /\ Cap \in Nat /\ free' \in 1 .. Cap /\ length' \in 0 .. Cap /\ free' + Reserved <= Cap
           /\ length' = free' - 1
           /\ Required(types) = tbuf' /\ free' = n + 3
<1>1. n \in Nat /\ tbuf' \in Seq(TagSet) /\ Len(tbuf') = n
  BY DEF Started
<1>2. TagCount' = n /\ DOMAIN tbuf' = 1 .. n
  BY <1>1, LenProperties DEF TagCount
<1>3. \A k \in 1 .. n : tbuf'[k] \in TagSet
  BY <1>1
<1>4. parts' = << types >> /\ types \in Tags
  BY DEF Started
<1>5. parts'[1] = types /\ parts' \in Seq(Tags) /\ MessageCount' = 1
  <2>1. Len(parts') = 1
    BY <1>4
  <2>. QED BY <1>4, <2>1 DEF MessageCount
<1>6. Required(types) = tbuf' /\ ValueCount(1)' = n
  <2>1. Required(types) = tbuf'
    BY DEF Started
  <2>. QED BY <1>1, <1>5, <2>1 DEF ValueCount
<1>7. written' = [k \in 1 .. n |-> Unset]
  BY DEF Started
<1>8. \A k \in 1 .. n : written'[k] = Unset
  BY <1>7
<1>9. IsSeq(written') /\ Len(written') = n
  <2>1. written' = [k \in 1 .. n |-> written'[k]]
    BY <1>7
  <2>. QED BY <1>1, <2>1, IsSeqOf
<1>10. ASSUME NEW k \in 1 .. n PROVE ValueWords(k)' = 1
  <2>1. written'[k] = Unset
    BY <1>8
  <2>2. Len(Unset) = 1
    BY UnsetShaped DEF TagSet
  <2>. QED BY <2>1, <2>2 DEF ValueWords
<1>11. index' = [k \in 1 .. n + 1 |-> 2 + k]
  BY DEF Started
<1>12. DOMAIN index' = 1 .. n + 1 /\ \A k \in 1 .. n + 1 : index'[k] = k + 2
  BY <1>1, <1>11
<1>13. free' = n + 3 /\ length' = n + 2 /\ n + 3 + Reserved <= Cap
  BY DEF Started
<1>14. Cap \in Nat
  BY OscAssumption
<1>15. n + 3 \in 1 .. Cap /\ n + 2 \in 0 .. Cap /\ n + 2 = (n + 3) - 1
  BY <1>1, <1>13, <1>14 DEF Reserved
<1>. QED BY <1>1, <1>2, <1>3, <1>5, <1>6, <1>8, <1>9, <1>10, <1>12, <1>13, <1>14, <1>15

\* The words of the first message.
LEMMA StartWords ==
    ASSUME NEW types, NEW tags, NEW n, Started(types, tags, n)
    PROVE  /\ IsBuffer(buf') /\ buf'[0] = <<"len", n + 2>>
           /\ buf'[1] = <<"addr">> /\ buf'[2] = <<"types", types>>
           /\ \A p \in 3 .. Cap : buf'[p] = Zero
<1>1. n \in Nat /\ Cap \in Nat /\ n + 3 + Reserved <= Cap
  BY OscAssumption DEF Started
<1>2. 0 \in 0 .. Cap /\ 1 \in 0 .. Cap /\ 2 \in 0 .. Cap /\ 3 .. Cap \subseteq 0 .. Cap
  BY <1>1 DEF Reserved
<1>3. buf' = [p \in 0 .. Cap |-> CASE p = 0 -> <<"len", 2 + n>>
                                   [] p = 1 -> <<"addr">>
                                   [] p = 2 -> <<"types", types>>
                                   [] OTHER -> Zero]
  BY DEF Started, StartBuf
<1>4. buf'[0] = <<"len", n + 2>> /\ buf'[1] = <<"addr">> /\ buf'[2] = <<"types", types>>
  <2>1. 2 + n = n + 2
    BY <1>1
  <2>2. buf'[0] = <<"len", 2 + n>> /\ buf'[1] = <<"addr">> /\ buf'[2] = <<"types", types>>
    BY <1>2, <1>3
  <2>. QED BY <2>1, <2>2
<1>5. ASSUME NEW p \in 3 .. Cap PROVE buf'[p] = Zero
  BY <1>2, <1>3
<1>6. buf' = [p \in 0 .. Cap |-> buf'[p]]
  BY <1>3
<1>7. ASSUME NEW p \in 0 .. Cap, buf'[p][1] = "len" PROVE buf'[p][2] \in Nat
  <2>1. CASE p = 0
    <3>1. <<"len", n + 2>>[2] \in Nat
      BY <1>1
    <3>. QED BY <1>4, <2>1, <3>1
  <2>2. CASE p = 1
    BY <1>4, <1>7, <2>2
  <2>3. CASE p = 2
    BY <1>4, <1>7, <2>3
  <2>4. CASE p \in 3 .. Cap
    BY <1>5, <1>7, <2>4 DEF Zero
  <2>5. p = 0 \/ p = 1 \/ p = 2 \/ p \in 3 .. Cap
    BY <1>1
  <2>. QED BY <2>1, <2>2, <2>3, <2>4, <2>5
<1>. QED BY <1>4, <1>5, <1>6, <1>7 DEF IsBuffer

\* The first message has its values at the index.
LEMMA StartIndex ==
    ASSUME NEW types, NEW tags, NEW n, Started(types, tags, n)
    PROVE  IndexInv'
<1>1. /\ n \in Nat /\ TagCount' = n /\ DOMAIN tbuf' = 1 .. n
      /\ DOMAIN index' = 1 .. n + 1 /\ IsSeq(written') /\ Len(written') = n
      /\ \A k \in 1 .. n : written'[k] = Unset /\ ValueWords(k)' = 1 /\ tbuf'[k] \in TagSet
      /\ \A k \in 1 .. n + 1 : index'[k] = k + 2
      /\ free' = n + 3 /\ Cap \in Nat /\ free' \in 1 .. Cap
  BY StartCounts
<1>2. tbuf' \in Seq(TagSet)
  BY DEF Started
<1>3. index' \in Seq(Nat) /\ Len(index') = n + 1
  <2>1. index' = [k \in 1 .. n + 1 |-> 2 + k]
    BY DEF Started
  <2>2. \A k \in 1 .. n + 1 : 2 + k \in Nat
    BY <1>1
  <2>3. n + 1 \in Nat
    BY <1>1
  <2>4. [k \in 1 .. n + 1 |-> 2 + k] \in Seq(Nat)
    BY <2>2, <2>3, IsASeq
  <2>5. DOMAIN index' = 1 .. Len(index') /\ Len(index') \in Nat
    BY <2>1, <2>4, LenProperties
  <2>. QED BY <1>1, <2>1, <2>3, <2>4, <2>5
<1>4. ASSUME NEW k \in DOMAIN tbuf' PROVE Shaped(tbuf'[k], written'[k])
  <2>1. tbuf'[k] \in TagSet /\ written'[k] = Unset
    BY <1>1
  <2>. QED BY <2>1, UnsetShaped
<1>5. ASSUME NEW k \in DOMAIN tbuf' PROVE HasWords(buf', index'[k], written'[k])
  <2>1. written'[k] = Unset /\ index'[k] = k + 2 /\ k + 2 \in 3 .. Cap
    BY <1>1
  <2>2. Len(Unset) = 1 /\ Unset[1] = Zero
    <3>1. Len(Unset) = 1
      BY UnsetShaped DEF TagSet
    <3>. QED BY <3>1 DEF Unset
  <2>3. buf'[k + 2] = Zero
    BY <2>1, StartWords
  <2>4. ASSUME NEW j \in 1 .. Len(Unset) PROVE buf'[(k + 2) + j - 1] = Unset[j]
    <3>1. j = 1 /\ (k + 2) + j - 1 = k + 2
      BY <2>1, <2>2
    <3>. QED BY <2>2, <2>3, <3>1
  <2>5. HasWords(buf', k + 2, Unset)
    BY <2>4 DEF HasWords
  <2>. QED BY <2>1, <2>5
<1>6. ASSUME NEW k \in DOMAIN index', NEW l \in DOMAIN index', k < l
      PROVE  index'[k] + ValueWords(k)' <= index'[l]
  <2>1. k \in 1 .. n + 1 /\ l \in 1 .. n + 1 /\ k \in 1 .. n
    BY <1>1, <1>6
  <2>2. index'[k] = k + 2 /\ index'[l] = l + 2 /\ ValueWords(k)' = 1
    BY <1>1, <2>1
  <2>3. (k + 2) + 1 <= l + 2
    BY <1>1, <1>6, <2>1
  <2>. QED BY <2>2, <2>3
<1>7. index'[n + 1] = free'
  <2>1. n + 1 \in 1 .. n + 1 /\ (n + 1) + 2 = n + 3
    BY <1>1
  <2>2. index'[n + 1] = (n + 1) + 2
    BY <1>1, <2>1
  <2>. QED BY <1>1, <2>1, <2>2
<1>. QED BY <1>1, <1>2, <1>3, <1>4, <1>5, <1>6, <1>7 DEF IndexInv

\* The places of the message and of the end of it.
Ends(f, c) == f = [m \in 1 .. 2 |-> IF m = 1 THEN 0 ELSE c]

\* The first message is all that is in the buffer.
LEMMA StartLayout ==
    ASSUME NEW types, NEW tags, NEW n, Started(types, tags, n),
           NEW at, Ends(at, n + 3), NEW first, Ends(first, n)
    PROVE  Layout(at, first)'
<1>1. /\ n \in Nat /\ TagCount' = n /\ MessageCount' = 1 /\ DOMAIN tbuf' = 1 .. n
      /\ \A k \in 1 .. n : ValueWords(k)' = 1
      /\ \A k \in 1 .. n + 1 : index'[k] = k + 2
      /\ ValueCount(1)' = n /\ parts'[1] = types
      /\ Required(types) = tbuf' /\ free' = n + 3
  BY StartCounts
<1>2. /\ buf'[0] = <<"len", n + 2>>
      /\ buf'[1] = <<"addr">> /\ buf'[2] = <<"types", types>>
  BY StartWords
<1>3. at[1] = 0 /\ at[2] = n + 3 /\ first[1] = 0 /\ first[2] = n
  BY DEF Ends
<1>4. at \in [1 .. 2 -> Nat] /\ first \in [1 .. 2 -> 0 .. n]
  BY <1>1 DEF Ends
<1>5. MessageCount' + 1 = 2
  BY <1>1
<1>6. MessageParts(at, first)'
  <2>1. ASSUME NEW m \in 1 .. 2, NEW l \in 1 .. 2, m < l PROVE at[m] + 3 <= at[l] /\ first[m] <= first[l]
    <3>1. m = 1 /\ l = 2
      BY <2>1
    <3>. QED BY <1>1, <1>3, <3>1
  <2>2. ASSUME NEW m \in 1 .. 1 PROVE first[m + 1] = first[m] + ValueCount(m)'
    <3>1. m = 1
      OBVIOUS
    <3>. QED BY <1>1, <1>3, <3>1
  <2>. QED BY <1>1, <1>3, <1>4, <1>5, <2>1, <2>2 DEF MessageParts
<1>7. MessagePlaces(at, first)'
  <2>1. ASSUME NEW m \in 1 .. 1
        PROVE  /\ buf'[at[m] + 1] = <<"addr">> /\ buf'[at[m] + 2] = <<"types", parts'[m]>>
               /\ \A k \in 1 .. ValueCount(m)' : tbuf'[first[m] + k] = Required(parts'[m])[k]
               /\ first[m + 1] = first[m] => at[m + 1] = at[m] + 3
               /\ first[m + 1] > first[m] => index'[first[m] + 1] = at[m] + 3
               /\ \A k \in first[m] + 1 .. first[m + 1] :
                    index'[k] + ValueWords(k)' = IF k < first[m + 1] THEN index'[k + 1] ELSE at[m + 1]
    <3>0. m = 1 /\ 1 + 1 = 2 /\ 0 + 1 = 1 /\ 0 + 2 = 2 /\ 0 + 3 = 3
      OBVIOUS
    <3>1. buf'[at[m] + 1] = <<"addr">> /\ buf'[at[m] + 2] = <<"types", parts'[m]>>
      BY <1>1, <1>2, <1>3, <3>0
    <3>2. ASSUME NEW k \in 1 .. n PROVE tbuf'[first[m] + k] = Required(parts'[m])[k]
      <4>1. first[m] + k = k
        BY <1>3, <3>0
      <4>. QED BY <1>1, <3>0, <4>1
    <3>3. first[m + 1] = first[m] => at[m + 1] = at[m] + 3
      BY <1>1, <1>3, <3>0
    <3>4. first[m + 1] > first[m] => index'[first[m] + 1] = at[m] + 3
      <4>1. 1 \in 1 .. n + 1
        BY <1>1
      <4>2. index'[1] = 3
        BY <1>1, <4>1
      <4>. QED BY <1>3, <3>0, <4>2
    <3>5. ASSUME NEW k \in 1 .. n
          PROVE index'[k] + ValueWords(k)' = IF k < n THEN index'[k + 1] ELSE n + 3
      <4>1. k \in 1 .. n + 1 /\ k + 1 \in 1 .. n + 1
        BY <1>1
      <4>2. index'[k] = k + 2 /\ index'[k + 1] = (k + 1) + 2 /\ ValueWords(k)' = 1
        BY <1>1, <4>1
      <4>3. (k + 2) + 1 = (k + 1) + 2 /\ (~(k < n) => (k + 2) + 1 = n + 3)
        BY <1>1
      <4>. QED BY <4>2, <4>3
    <3>6. first[m] + 1 = 1 /\ first[m + 1] = n /\ at[m + 1] = n + 3
      BY <1>3, <3>0
    <3>. QED BY <1>1, <3>0, <3>1, <3>2, <3>3, <3>4, <3>5, <3>6
  <2>. QED BY <1>1, <2>1 DEF MessagePlaces
<1>8. Apart(at, first)'
  <2>1. ASSUME NEW m \in 1 .. 2, NEW k \in 1 .. n
        PROVE  /\ k <= first[m] => index'[k] + ValueWords(k)' <= at[m]
               /\ k > first[m] => index'[k] >= at[m] + 3
    <3>1. k \in 1 .. n + 1
      BY <1>1
    <3>2. index'[k] = k + 2 /\ ValueWords(k)' = 1
      BY <1>1, <3>1
    <3>3. CASE m = 1
      BY <1>1, <1>3, <3>2, <3>3
    <3>4. CASE m = 2
      BY <1>1, <1>3, <3>2, <3>4
    <3>. QED BY <3>3, <3>4
  <2>. QED BY <1>1, <1>5, <2>1 DEF Apart
<1>9. LengthWordsRight(at)'
  <2>1. ASSUME NEW m \in 1 .. 1 PROVE buf'[at[m]] = <<"len", at[m + 1] - at[m] - 1>>
    <3>1. m = 1 /\ m + 1 = 2
      OBVIOUS
    <3>2. (n + 3) - 0 - 1 = n + 2
      BY <1>1
    <3>. QED BY <1>2, <1>3, <3>1, <3>2
  <2>. QED BY <1>1, <2>1 DEF LengthWordsRight
<1>. QED BY <1>6, <1>7, <1>8, <1>9 DEF Layout

\* start-message and bundle begin with one message.
LEMMA StartOutput ==
    ASSUME OutputInv, NEW types \in TypeTags, NEW simple \in BOOLEAN, NEW more \in 0 .. MaxMessages - 1,
           StartMessage(types, simple) \/ StartBundle(types, more)
    PROVE  OutputInv'
<1>1. OscStartMessage(types) /\ sets' = sets
  BY DEF StartMessage, StartBundle
<1>2. PICK tags, n : Started(types, tags, n)
  BY <1>1, StartIs
<1>3. PICK at : Ends(at, n + 3)
  BY DEF Ends
<1>4. PICK first : Ends(first, n)
  BY DEF Ends
<1>5. IndexInv' /\ Layout(at, first)'
  BY <1>2, <1>3, <1>4, StartIndex, StartLayout
<1>6. /\ n \in Nat /\ TagCount' = n /\ MessageCount' = 1
      /\ \A k \in 1 .. n : written'[k] = Unset
      /\ parts' \in Seq(Tags) /\ free' = n + 3
      /\ Cap \in Nat /\ free' \in 1 .. Cap /\ length' \in 0 .. Cap /\ free' + Reserved <= Cap
      /\ length' = free' - 1
  BY <1>2, StartCounts
<1>7. IsBuffer(buf') /\ \A p \in 3 .. Cap : buf'[p] = Zero
  BY <1>2, StartWords
<1>8. MaxMessages \in Nat \ {0} /\ 1 \in 1 .. MaxMessages
  BY OscAssumption
<1>9. bundleLen \in Nat /\ sets \in 0 .. MaxSets
  BY DEF OutputInv
<1>10. length' + Reserved \in Nat
  BY <1>6 DEF Reserved
<1>11. CASE StartMessage(types, simple)
  <2>1. /\ build' = [at |-> "ready", bundle |-> simple, lone |-> FALSE] /\ single' = TRUE
        /\ bundleLen' = IF simple THEN length' + Reserved ELSE bundleLen
    BY <1>11 DEF StartMessage
  <2>2. build'.at = "ready" /\ build'.bundle = simple /\ build'.lone = FALSE
    BY <2>1
  <2>3. bundleLen' \in Nat
    BY <1>9, <1>10, <2>1
  <2>4. ReadyInv'
    BY <1>6, <2>1, <2>2 DEF ReadyInv
  <2>5. BegunInv(at, first)'
    BY <1>5, <1>6, <1>8, <2>1, <2>2, <2>4 DEF BegunInv
  <2>. QED BY <1>1, <1>5, <1>6, <1>7, <1>9, <2>1, <2>2, <2>3, <2>5 DEF OutputInv, Begun
<1>12. CASE StartBundle(types, more)
  <2>1. /\ build' = [at |-> "values", next |-> 1, more |-> more, offset |-> 0, lone |-> more = 0]
        /\ single' = (more = 0) /\ bundleLen' = bundleLen
    BY <1>12 DEF StartBundle
  <2>2. /\ build'.at = "values" /\ build'.next = 1 /\ build'.more = more /\ build'.offset = 0
        /\ build'.lone = (more = 0)
    BY <2>1
  <2>3. ValuesInv(at, first)'
    <3>1. build'.next \in first[MessageCount'] + 1 .. TagCount' + 1
      <4>1. first[1] = 0
        BY <1>4 DEF Ends
      <4>2. 1 \in 0 + 1 .. n + 1
        BY <1>6
      <4>. QED BY <1>6, <2>2, <4>1, <4>2
    <3>2. more \in Nat /\ 1 + more <= MaxMessages
      BY <1>8
    <3>3. ASSUME NEW k \in build'.next .. TagCount' PROVE written'[k] = Unset
      BY <1>6, <2>2
    <3>4. ASSUME NEW p \in free' .. Cap PROVE buf'[p] = Zero
      <4>1. p \in 3 .. Cap
        BY <1>6
      <4>. QED BY <1>7, <4>1
    <3>5. build' = [at |-> "values", next |-> build'.next, more |-> build'.more,
                    offset |-> build'.offset, lone |-> build'.lone]
      BY <2>1
    <3>. QED BY <1>6, <2>1, <2>2, <3>1, <3>2, <3>3, <3>4, <3>5 DEF ValuesInv
  <2>4. BegunInv(at, first)'
    BY <1>5, <1>6, <1>8, <2>1, <2>2, <2>3 DEF BegunInv
  <2>. QED BY <1>1, <1>5, <1>6, <1>7, <1>9, <2>1, <2>2, <2>4 DEF OutputInv, Begun
<1>. QED BY <1>11, <1>12
-----------------------------------------------------------------------------
(* One more message of a bundle *)

\* The end of a message writes what its length word has already.
LEMMA AppendedIs ==
    ASSUME OutputInv, build.at = "values", NEW at, NEW first, BegunInv(at, first)
    PROVE  Appended.buf = buf /\ Appended.length = free - 1
<1>1. /\ IndexInv /\ IsBuffer(buf) /\ free \in Nat /\ free <= Cap /\ length \in Nat
      /\ MessageCount \in 1 .. MaxMessages /\ MessageCount \in Nat
      /\ Layout(at, first) /\ (~build.lone => LengthWordsRight(at))
      /\ (single => MessageCount = 1)
  BY BegunFacts
<1>2. ValuesInv(at, first)
  BY DEF BegunInv
<1>3. /\ build.lone = single
      /\ build.offset = IF MessageCount = 1 THEN 0 ELSE at[MessageCount] - 1
      /\ length = free - 1 \/ (MessageCount > 1 /\ length = build.offset)
  BY <1>2 DEF ValuesInv
<1>4. CASE MessageCount = 1
  <2>1. build.offset = 0 /\ length = free - 1
    BY <1>3, <1>4
  <2>. QED BY <2>1 DEF Appended
<1>5. CASE MessageCount > 1
  <2>1. MessageParts(at, first) /\ TagCount \in Nat
    <3>1. TagCount \in Nat
      BY <1>1, LenProperties DEF IndexInv, TagCount
    <3>. QED BY <1>1, <3>1 DEF Layout
  <2>2. 1 \in 1 .. MessageCount + 1 /\ MessageCount \in 1 .. MessageCount + 1 /\ 1 < MessageCount
        /\ MessageCount \in 1 .. MessageCount
    BY <1>1, <1>5
  <2>3. at[1] + 3 <= at[MessageCount] /\ at[MessageCount] \in Nat
    BY <1>1, <2>1, <2>2, MessageOrder
  <2>4. at[1] = 0 /\ at[MessageCount + 1] = free
    BY <2>1 DEF MessageParts
  <2>5. build.offset = at[MessageCount] - 1
    BY <1>3, <1>5
  <2>6. build.offset # 0 /\ build.offset + 1 = at[MessageCount]
    BY <2>3, <2>4, <2>5
  <2>7. CASE length = build.offset
    BY <2>6, <2>7 DEF Appended
  <2>8. CASE length # build.offset
    <3>1. length = free - 1
      BY <1>3, <2>8
    <3>2. ~build.lone
      BY <1>1, <1>3, <1>5
    <3>3. buf[at[MessageCount]] = <<"len", at[MessageCount + 1] - at[MessageCount] - 1>>
      BY <1>1, <2>2, <3>2 DEF LengthWordsRight
    <3>4. length - build.offset - 1 = at[MessageCount + 1] - at[MessageCount] - 1
      BY <1>1, <2>3, <2>4, <2>5, <3>1
    <3>5. Appended = [buf |-> [buf EXCEPT ![build.offset + 1] = <<"len", length - build.offset - 1>>],
                      length |-> length]
      BY <2>6, <2>8 DEF Appended
    <3>6. Appended.buf = [buf EXCEPT ![at[MessageCount]] = buf[at[MessageCount]]]
      BY <2>6, <3>3, <3>4, <3>5
    <3>7. buf = [p \in 0 .. Cap |-> buf[p]]
      BY <1>1 DEF IsBuffer
    <3>8. [buf EXCEPT ![at[MessageCount]] = buf[at[MessageCount]]] = buf
      BY <3>7
    <3>. QED BY <3>1, <3>5, <3>6, <3>8
  <2>. QED BY <2>7, <2>8
<1>. QED BY <1>1, <1>4, <1>5

AppendedBuf(types, n) ==
    [buf EXCEPT ![free] = <<"len", n + 2>>, ![free + 1] = <<"addr">>, ![free + 2] = <<"types", types>>]
AppendedIndex(n) == SubSeq(index, 1, Len(tbuf)) \o [k \in 1 .. n + 1 |-> (free + 3) + k - 1]

Appending(types, tags, n) ==
    /\ IndexInv /\ IsBuffer(buf) /\ free \in Nat /\ parts \in Seq(Tags)
    /\ types \in Tags /\ tags = Required(types) /\ tags \in Seq(TagSet)
    /\ n \in Nat /\ Len(tags) = n /\ free + n + 3 + Reserved <= Cap
    /\ \A p \in free .. Cap : buf[p] = Zero
    /\ buf' = AppendedBuf(types, n) /\ tbuf' = tbuf \o tags /\ index' = AppendedIndex(n)
    /\ free' = free + n + 3
    /\ written' = written \o [k \in 1 .. n |-> Unset]
    /\ parts' = Append(parts, types)

\* What osc_bundle_append_message does, after the end of the message before.
LEMMA AppendIs ==
    ASSUME OutputInv, NEW at, NEW first, BegunInv(at, first), NEW types \in TypeTags, AppendMessage(types)
    PROVE  /\ \E tags, n : Appending(types, tags, n)
           /\ length' = free - 1 /\ build' = [build EXCEPT !.more = @ - 1, !.offset = free - 1]
<1>0. build.at = "values"
  BY DEF AppendMessage
<1>1. Appended.buf = buf /\ Appended.length = free - 1
  BY <1>0, AppendedIs
<1>2. /\ IndexInv /\ IsBuffer(buf) /\ free \in Nat /\ free <= Cap
  BY BegunFacts
<1>3. parts \in Seq(Tags)
  BY DEF OutputInv
<1>4. \A p \in free .. Cap : buf[p] = Zero
  BY <1>0 DEF BegunInv, ValuesInv
<1>5. types \in Tags
  BY OscAssumption DEF Tags
<1>6. PICK tags : tags = Required(types)
  OBVIOUS
<1>7. PICK n : n = Len(tags)
  OBVIOUS
<1>8. tags \in Seq(TagSet) /\ n \in Nat
  BY <1>5, <1>6, <1>7, RequiredTyped
<1>9. PICK places : places = Places(buf, tags, free + 3, "host")
  OBVIOUS
<1>10. PICK indexed : indexed = IndexOscValues(types, free + 3)
  OBVIOUS
<1>11. /\ places \in [1 .. n + 1 -> Nat]
       /\ places[n + 1] <= Cap =>
             (free + 3) + n <= Cap /\ places = [k \in 1 .. n + 1 |-> (free + 3) + k - 1]
  <2>1. \A p \in free + 3 .. Cap : buf[p] = Zero
    BY <1>2, <1>4
  <2>2. free + 3 \in Nat
    BY <1>2
  <2>3. ZeroFrom(buf, free + 3)
    BY <2>1 DEF ZeroFrom
  <2>4. OneWordEach(Places(buf, tags, free + 3, "host"), Len(tags), free + 3)
    BY <1>8, <2>2, <2>3, PlacesZero
  <2>5. OneWordEach(places, n, free + 3)
    BY <1>7, <1>9, <2>4
  <2>. QED BY <2>5 DEF OneWordEach
<1>12. Len(places) = n + 1
  <2>1. places = [k \in 1 .. n + 1 |-> places[k]]
    BY <1>11
  <2>2. n + 1 \in Nat
    BY <1>8
  <2>. QED BY <2>1, <2>2, IsSeqOf
<1>13. /\ indexed.tbuf = tbuf \o tags /\ indexed.free = places[n + 1]
       /\ indexed.index = SubSeq(index, 1, Len(tbuf)) \o places
  BY <1>6, <1>9, <1>10, <1>12 DEF IndexOscValues
<1>14. (free - 1) + 2 = free + 1 /\ (free - 1) + 2 + 2 = free + 3 /\ (free - 1) + 1 = free
       /\ (free - 1) + 2 + 1 = free + 2
  BY <1>2
<1>15. /\ buf' = [buf EXCEPT ![free] = <<"len", indexed.free - (free + 1)>>,
                            ![free + 1] = <<"addr">>, ![free + 2] = <<"types", types>>]
       /\ tbuf' = indexed.tbuf /\ index' = indexed.index /\ free' = indexed.free
       /\ length' = free - 1 /\ Room
       /\ written' = written \o [k \in 1 .. Len(Required(types)) |-> Unset]
       /\ parts' = Append(parts, types)
       /\ build' = [build EXCEPT !.more = @ - 1, !.offset = free - 1]
  BY <1>1, <1>10, <1>14 DEF AppendMessage
<1>16. free' = places[n + 1] /\ free' \in Nat
  <2>1. n + 1 \in 1 .. n + 1
    BY <1>8
  <2>. QED BY <1>11, <1>13, <1>15, <2>1
<1>17. free' <= Cap
  <2>1. free' + Reserved <= Cap
    BY <1>15 DEF Room
  <2>2. Cap \in Nat
    BY OscAssumption
  <2>. QED BY <1>16, <2>1, <2>2 DEF Reserved
<1>18. places = [k \in 1 .. n + 1 |-> (free + 3) + k - 1]
  BY <1>11, <1>16, <1>17
<1>19. free' = free + n + 3
  <2>1. n + 1 \in 1 .. n + 1 /\ (free + 3) + (n + 1) - 1 = free + n + 3
    BY <1>2, <1>8
  <2>2. places[n + 1] = (free + 3) + (n + 1) - 1
    BY <1>18, <2>1
  <2>. QED BY <1>16, <2>1, <2>2
<1>20. indexed.free - (free + 1) = n + 2
  <2>1. indexed.free = free + n + 3
    BY <1>15, <1>19
  <2>2. (free + n + 3) - (free + 1) = n + 2
    BY <1>2, <1>8
  <2>. QED BY <2>1, <2>2
<1>21. buf' = AppendedBuf(types, n)
  BY <1>15, <1>20 DEF AppendedBuf
<1>22. index' = AppendedIndex(n)
  BY <1>13, <1>15, <1>18 DEF AppendedIndex
<1>23. written' = written \o [k \in 1 .. n |-> Unset]
  BY <1>6, <1>7, <1>15
<1>24. free + n + 3 + Reserved <= Cap
  BY <1>15, <1>19 DEF Room
<1>25. tbuf' = tbuf \o tags /\ parts' = Append(parts, types)
  BY <1>13, <1>15
<1>26. Len(tags) = n
  BY <1>7
<1>27. Appending(types, tags, n)
  BY <1>2, <1>3, <1>4, <1>5, <1>6, <1>8, <1>19, <1>21, <1>22, <1>23, <1>24, <1>25, <1>26 DEF Appending
<1>. QED BY <1>15, <1>27

\* What is appended comes after what was there.
Longer(s, t, c, n) ==
    /\ \A k \in 1 .. c : s[k] = t[k]
    /\ DOMAIN s = 1 .. c + n

\* The type tags of the appended message follow the others.
LEMMA AppendTags ==
    ASSUME NEW types, NEW tags, NEW n, Appending(types, tags, n)
    PROVE  /\ n \in Nat /\ TagCount \in Nat /\ TagCount' = TagCount + n
           /\ tbuf' \in Seq(TagSet) /\ Longer(tbuf', tbuf, TagCount, n)
           /\ \A k \in 1 .. n : tbuf'[TagCount + k] = tags[k]
<1>1. /\ tbuf \in Seq(TagSet) /\ tags \in Seq(TagSet) /\ n \in Nat /\ Len(tags) = n
      /\ tbuf' = tbuf \o tags
  BY DEF Appending, IndexInv
<1>2. TagCount \in Nat /\ Len(tbuf) = TagCount /\ DOMAIN tbuf = 1 .. TagCount
  BY <1>1, LenProperties DEF TagCount
<1>3. /\ tbuf \o tags \in Seq(TagSet) /\ Len(tbuf \o tags) = Len(tbuf) + Len(tags)
      /\ \A k \in 1 .. Len(tbuf) + Len(tags) :
            (tbuf \o tags)[k] = IF k <= Len(tbuf) THEN tbuf[k] ELSE tags[k - Len(tbuf)]
  BY <1>1, ConcatProperties
<1>4. TagCount' = TagCount + n
  BY <1>1, <1>2, <1>3 DEF TagCount
<1>5. tbuf' \in Seq(TagSet) /\ DOMAIN tbuf' = 1 .. TagCount + n
  <2>1. tbuf' \in Seq(TagSet) /\ Len(tbuf') = TagCount + n
    BY <1>1, <1>2, <1>3
  <2>. QED BY <2>1, LenProperties
<1>6. \A k \in 1 .. TagCount + n : tbuf'[k] = IF k <= TagCount THEN tbuf[k] ELSE tags[k - TagCount]
  BY <1>1, <1>2, <1>3
<1>7. ASSUME NEW k \in 1 .. TagCount PROVE tbuf'[k] = tbuf[k]
  <2>1. k \in 1 .. TagCount + n /\ k <= TagCount
    BY <1>1, <1>2
  <2>. QED BY <1>6, <2>1
<1>8. ASSUME NEW k \in 1 .. n PROVE tbuf'[TagCount + k] = tags[k]
  <2>1. TagCount + k \in 1 .. TagCount + n /\ ~(TagCount + k <= TagCount) /\ (TagCount + k) - TagCount = k
    BY <1>1, <1>2
  <2>. QED BY <1>6, <2>1
<1>. QED BY <1>1, <1>2, <1>4, <1>5, <1>7, <1>8 DEF Longer

\* The values of the appended message are not written yet.
LEMMA AppendWritten ==
    ASSUME NEW types, NEW tags, NEW n, Appending(types, tags, n)
    PROVE  /\ IsSeq(written') /\ Len(written') = TagCount + n /\ Longer(written', written, TagCount, n)
           /\ \A k \in 1 .. n : written'[TagCount + k] = Unset
<1>1. /\ n \in Nat /\ TagCount \in Nat
  BY AppendTags
<1>2. PICK u : u = [k \in 1 .. n |-> Unset]
  OBVIOUS
<1>3. IsSeq(written) /\ Len(written) = TagCount /\ written' = written \o u
  BY <1>2 DEF Appending, IndexInv
<1>4. u = [k \in 1 .. n |-> u[k]] /\ \A k \in 1 .. n : u[k] = Unset
  BY <1>2
<1>5. IsSeq(u) /\ Len(u) = n
  BY <1>1, <1>4, IsSeqOf
<1>6. /\ IsSeq(written') /\ Len(written') = Len(written) + Len(u)
      /\ \A k \in 1 .. Len(written) : written'[k] = written[k]
      /\ \A k \in 1 .. Len(u) : written'[Len(written) + k] = u[k]
  <2>1. PICK w : w = written'
    OBVIOUS
  <2>2. w = written \o u
    BY <1>3, <2>1
  <2>0. IsSeq(written) /\ IsSeq(u)
    BY <1>3, <1>5
  <2>3. IsSeq(w) /\ Len(w) = Len(written) + Len(u)
    BY <2>0, <2>2, IsSeqConcat
  <2>4. \A k \in 1 .. Len(written) : w[k] = written[k]
    BY <2>0, <2>2, IsSeqConcat
  <2>5. \A k \in 1 .. Len(u) : w[Len(written) + k] = u[k]
    BY <2>0, <2>2, IsSeqConcat
  <2>. QED BY <2>1, <2>3, <2>4, <2>5
<1>7. Len(written') = TagCount + n /\ DOMAIN written' = 1 .. TagCount + n
  <2>1. Len(written') = TagCount + n
    BY <1>3, <1>5, <1>6
  <2>. QED BY <1>6, <2>1, SeqOf
<1>8. \A k \in 1 .. TagCount : written'[k] = written[k]
  BY <1>3, <1>6
<1>9. \A k \in 1 .. n : written'[TagCount + k] = Unset
  BY <1>3, <1>4, <1>5, <1>6
<1>. QED BY <1>6, <1>7, <1>8, <1>9 DEF Longer

\* The index of the appended message follows the others.
LEMMA AppendIndexIs ==
    ASSUME NEW types, NEW tags, NEW n, Appending(types, tags, n)
    PROVE  /\ index' \in Seq(Nat) /\ Len(index') = TagCount + n + 1
           /\ Longer(index', index, TagCount, n + 1)
           /\ \A k \in 1 .. n + 1 : index'[TagCount + k] = free + k + 2
<1>1. /\ n \in Nat /\ TagCount \in Nat /\ free \in Nat
  BY AppendTags DEF Appending
<1>2. PICK t : t = [k \in 1 .. n + 1 |-> (free + 3) + k - 1]
  OBVIOUS
<1>3. PICK s : s = SubSeq(index, 1, TagCount)
  OBVIOUS
<1>4. index \in Seq(Nat) /\ Len(index) = TagCount + 1 /\ index' = s \o t
  <2>1. IndexInv /\ index' = AppendedIndex(n)
    BY DEF Appending
  <2>2. index' = s \o t
    BY <1>2, <1>3, <2>1 DEF AppendedIndex, TagCount
  <2>. QED BY <2>1, <2>2 DEF IndexInv
<1>5. s \in Seq(Nat) /\ Len(s) = TagCount /\ \A k \in 1 .. TagCount : s[k] = index[k]
  <2>1. 1 \in 1 .. TagCount + 1 /\ TagCount \in 0 .. Len(index)
    BY <1>1, <1>4
  <2>. QED BY <1>1, <1>3, <1>4, <2>1, SubSeqProperties
<1>6. t \in Seq(Nat) /\ Len(t) = n + 1 /\ \A k \in 1 .. n + 1 : t[k] = free + k + 2
  <2>1. n + 1 \in Nat /\ \A k \in 1 .. n + 1 : (free + 3) + k - 1 \in Nat /\ (free + 3) + k - 1 = free + k + 2
    BY <1>1
  <2>2. t \in Seq(Nat)
    BY <1>2, <2>1, IsASeq
  <2>3. t = [k \in 1 .. n + 1 |-> t[k]]
    BY <1>2
  <2>4. Len(t) = n + 1
    BY <2>1, <2>3, IsSeqOf
  <2>5. \A k \in 1 .. n + 1 : t[k] = free + k + 2
    BY <1>2, <2>1
  <2>. QED BY <2>2, <2>4, <2>5
<1>7. /\ s \o t \in Seq(Nat) /\ Len(s \o t) = Len(s) + Len(t)
      /\ \A k \in 1 .. Len(s) + Len(t) :
            (s \o t)[k] = IF k <= Len(s) THEN s[k] ELSE t[k - Len(s)]
  BY <1>5, <1>6, ConcatProperties
<1>8. index' \in Seq(Nat) /\ Len(index') = TagCount + (n + 1)
  BY <1>4, <1>5, <1>6, <1>7
<1>9. DOMAIN index' = 1 .. TagCount + (n + 1)
  BY <1>8, LenProperties
<1>10. \A k \in 1 .. TagCount + (n + 1) : index'[k] = IF k <= TagCount THEN s[k] ELSE t[k - TagCount]
  BY <1>4, <1>5, <1>6, <1>7
<1>11. ASSUME NEW k \in 1 .. TagCount PROVE index'[k] = index[k]
  <2>1. k \in 1 .. TagCount + (n + 1) /\ k <= TagCount
    BY <1>1
  <2>. QED BY <1>5, <1>10, <2>1
<1>12. ASSUME NEW k \in 1 .. n + 1 PROVE index'[TagCount + k] = free + k + 2
  <2>1. TagCount + k \in 1 .. TagCount + (n + 1) /\ ~(TagCount + k <= TagCount) /\ (TagCount + k) - TagCount = k
    BY <1>1
  <2>. QED BY <1>6, <1>10, <2>1
<1>13. TagCount + (n + 1) = TagCount + n + 1
  BY <1>1
<1>. QED BY <1>8, <1>9, <1>11, <1>12, <1>13 DEF Longer

\* The appended message is the last one.
LEMMA AppendParts ==
    ASSUME NEW types, NEW tags, NEW n, Appending(types, tags, n)
    PROVE  /\ MessageCount \in Nat /\ MessageCount' = MessageCount + 1 /\ parts' \in Seq(Tags)
           /\ \A m \in 1 .. MessageCount : parts'[m] = parts[m] /\ ValueCount(m)' = ValueCount(m)
           /\ parts'[MessageCount + 1] = types
           /\ \A m \in {MessageCount + 1} : ValueCount(m)' = n
           /\ Required(types) = tags
<1>1. /\ parts \in Seq(Tags) /\ types \in Tags /\ parts' = Append(parts, types)
      /\ Required(types) = tags /\ Len(tags) = n
  BY DEF Appending
<1>2. MessageCount \in Nat /\ Len(parts) = MessageCount
  BY <1>1, LenProperties DEF MessageCount
<1>3. /\ Append(parts, types) \in Seq(Tags) /\ Len(Append(parts, types)) = Len(parts) + 1
      /\ \A k \in 1 .. Len(parts) : Append(parts, types)[k] = parts[k]
      /\ Append(parts, types)[Len(parts) + 1] = types
  BY <1>1, AppendProperties
<1>4. MessageCount' = MessageCount + 1
  BY <1>1, <1>2, <1>3 DEF MessageCount
<1>5. \A m \in 1 .. MessageCount : parts'[m] = parts[m]
  BY <1>1, <1>2, <1>3
<1>6. parts'[MessageCount + 1] = types
  BY <1>1, <1>2, <1>3
<1>7. ASSUME NEW m \in 1 .. MessageCount PROVE ValueCount(m)' = ValueCount(m)
  BY <1>5 DEF ValueCount
<1>8. ASSUME NEW m \in {MessageCount + 1} PROVE ValueCount(m)' = n
  BY <1>1, <1>6 DEF ValueCount
<1>. QED BY <1>1, <1>2, <1>3, <1>4, <1>5, <1>6, <1>7, <1>8

\* The words of the appended message stand behind the others.
LEMMA AppendWords ==
    ASSUME NEW types, NEW tags, NEW n, Appending(types, tags, n)
    PROVE  /\ IsBuffer(buf') /\ free \in Nat /\ free + n + 8 <= Cap /\ Cap \in Nat
           /\ buf'[free] = <<"len", n + 2>> /\ buf'[free + 1] = <<"addr">>
           /\ buf'[free + 2] = <<"types", types>>
           /\ \A p \in Nat : p < free => buf'[p] = buf[p]
           /\ ZeroFrom(buf', free + 3)
<1>1. /\ n \in Nat /\ free \in Nat /\ Cap \in Nat /\ free + n + 8 <= Cap
  <2>1. n \in Nat /\ free \in Nat /\ Cap \in Nat /\ free + n + 3 + Reserved <= Cap
    BY OscAssumption DEF Appending
  <2>. QED BY <2>1 DEF Reserved
<1>2. /\ IsBuffer(buf) /\ \A p \in free .. Cap : buf[p] = Zero
      /\ buf' = [buf EXCEPT ![free] = <<"len", n + 2>>, ![free + 1] = <<"addr">>, ![free + 2] = <<"types", types>>]
  BY DEF Appending, AppendedBuf
<1>3. buf = [p \in 0 .. Cap |-> buf[p]] /\ \A p \in 0 .. Cap : buf[p][1] = "len" => buf[p][2] \in Nat
  BY <1>2 DEF IsBuffer
<1>4. DOMAIN buf = 0 .. Cap /\ free \in 0 .. Cap /\ free + 1 \in 0 .. Cap /\ free + 2 \in 0 .. Cap
      /\ free # free + 1 /\ free # free + 2 /\ free + 1 # free + 2
  BY <1>1, <1>3
<1>5. buf'[free] = <<"len", n + 2>> /\ buf'[free + 1] = <<"addr">> /\ buf'[free + 2] = <<"types", types>>
  BY <1>2, <1>4
<1>6. \A p \in 0 .. Cap : p # free /\ p # free + 1 /\ p # free + 2 => buf'[p] = buf[p]
  BY <1>2, <1>4
<1>7. buf' = [p \in 0 .. Cap |-> buf'[p]]
  BY <1>2, <1>3
<1>8. ASSUME NEW p \in Nat, p < free PROVE buf'[p] = buf[p]
  <2>1. p \in 0 .. Cap /\ p # free /\ p # free + 1 /\ p # free + 2
    BY <1>1, <1>8
  <2>. QED BY <1>6, <2>1
<1>9. ASSUME NEW p \in free + 3 .. Cap PROVE buf'[p] = Zero
  <2>1. p \in 0 .. Cap /\ p # free /\ p # free + 1 /\ p # free + 2 /\ p \in free .. Cap
    BY <1>1
  <2>. QED BY <1>2, <1>6, <2>1
<1>10. ASSUME NEW p \in 0 .. Cap, buf'[p][1] = "len" PROVE buf'[p][2] \in Nat
  <2>1. CASE p = free
    <3>1. <<"len", n + 2>>[2] \in Nat
      BY <1>1
    <3>. QED BY <1>5, <2>1, <3>1
  <2>2. CASE p = free + 1
    BY <1>5, <1>10, <2>2
  <2>3. CASE p = free + 2
    BY <1>5, <1>10, <2>3
  <2>4. CASE p # free /\ p # free + 1 /\ p # free + 2
    BY <1>3, <1>6, <1>10, <2>4
  <2>. QED BY <2>1, <2>2, <2>3, <2>4
<1>. QED BY <1>1, <1>5, <1>7, <1>8, <1>9, <1>10 DEF IsBuffer, ZeroFrom

\* The values that were there, and the new ones, one word each.
LEMMA AppendValues ==
    ASSUME NEW types, NEW tags, NEW n, Appending(types, tags, n)
    PROVE  /\ n \in Nat /\ TagCount \in Nat /\ TagCount' = TagCount + n
           /\ free \in Nat /\ free' = free + n + 3
           /\ \A k \in 1 .. TagCount :
                 /\ index'[k] = index[k] /\ ValueWords(k)' = ValueWords(k)
                 /\ ValueWords(k) \in Nat \ {0} /\ index[k] \in Nat
                 /\ index[k] + ValueWords(k) <= free
           /\ \A k \in TagCount + 1 .. TagCount + n :
                 /\ index'[k] = free + (k - TagCount) + 2 /\ ValueWords(k)' = 1
                 /\ written'[k] = Unset
           /\ \A k \in {TagCount + n + 1} : index'[k] = free'
<1>1. n \in Nat /\ TagCount \in Nat /\ TagCount' = TagCount + n
  BY AppendTags
<1>2. free \in Nat /\ free' = free + n + 3 /\ IndexInv
  BY DEF Appending
<1>3. /\ \A k \in 1 .. TagCount : index'[k] = index[k]
      /\ \A k \in 1 .. n + 1 : index'[TagCount + k] = free + k + 2
  BY AppendIndexIs DEF Longer
<1>4. /\ \A k \in 1 .. TagCount : written'[k] = written[k]
      /\ \A k \in 1 .. n : written'[TagCount + k] = Unset
  BY AppendWritten DEF Longer
<1>5. ASSUME NEW k \in 1 .. TagCount
      PROVE  /\ index'[k] = index[k] /\ ValueWords(k)' = ValueWords(k)
             /\ ValueWords(k) \in Nat \ {0} /\ index[k] \in Nat
             /\ index[k] + ValueWords(k) <= free
  <2>1. k \in DOMAIN tbuf
    BY <1>2, LenProperties DEF IndexInv, TagCount
  <2>2. ValueWords(k) \in Nat \ {0} /\ index[k] \in Nat /\ index[k] + ValueWords(k) <= free
    BY <1>2, <2>1, IndexFacts
  <2>3. ValueWords(k)' = ValueWords(k)
    BY <1>4 DEF ValueWords
  <2>. QED BY <1>3, <2>2, <2>3
<1>6. ASSUME NEW k \in TagCount + 1 .. TagCount + n
      PROVE  /\ index'[k] = free + (k - TagCount) + 2 /\ ValueWords(k)' = 1
             /\ written'[k] = Unset
  <2>1. k - TagCount \in 1 .. n /\ k - TagCount \in 1 .. n + 1 /\ TagCount + (k - TagCount) = k
    BY <1>1
  <2>2. index'[k] = free + (k - TagCount) + 2 /\ written'[k] = Unset
    BY <1>3, <1>4, <2>1
  <2>3. Len(Unset) = 1
    BY UnsetShaped DEF TagSet
  <2>. QED BY <2>2, <2>3 DEF ValueWords
<1>7. ASSUME NEW k \in {TagCount + n + 1} PROVE index'[k] = free'
  <2>1. n + 1 \in 1 .. n + 1 /\ TagCount + (n + 1) = k /\ free + (n + 1) + 2 = free + n + 3
    BY <1>1, <1>2
  <2>. QED BY <1>2, <1>3, <2>1
<1>. QED BY <1>1, <1>2, <1>5, <1>6, <1>7

\* The appended message leaves the index and the values right.
LEMMA AppendIndex ==
    ASSUME NEW types, NEW tags, NEW n, Appending(types, tags, n)
    PROVE  IndexInv'
<1>1. /\ n \in Nat /\ TagCount \in Nat /\ TagCount' = TagCount + n
      /\ free \in Nat /\ free' = free + n + 3
      /\ \A k \in 1 .. TagCount :
            /\ index'[k] = index[k] /\ ValueWords(k)' = ValueWords(k)
            /\ ValueWords(k) \in Nat \ {0} /\ index[k] \in Nat
            /\ index[k] + ValueWords(k) <= free
      /\ \A k \in TagCount + 1 .. TagCount + n :
            /\ index'[k] = free + (k - TagCount) + 2 /\ ValueWords(k)' = 1
            /\ written'[k] = Unset
      /\ \A k \in {TagCount + n + 1} : index'[k] = free'
  BY AppendValues
<1>2. tbuf' \in Seq(TagSet) /\ DOMAIN tbuf' = 1 .. TagCount + n
      /\ \A k \in 1 .. TagCount : tbuf'[k] = tbuf[k]
  BY AppendTags DEF Longer
<1>3. IsSeq(written') /\ Len(written') = TagCount + n /\ \A k \in 1 .. TagCount : written'[k] = written[k]
  BY AppendWritten DEF Longer
<1>4. index' \in Seq(Nat) /\ Len(index') = TagCount + n + 1 /\ DOMAIN index' = 1 .. TagCount + (n + 1)
  BY AppendIndexIs DEF Longer
<1>5. /\ free + n + 8 <= Cap /\ Cap \in Nat
      /\ \A p \in Nat : p < free => buf'[p] = buf[p]
      /\ ZeroFrom(buf', free + 3)
  BY AppendWords
<1>6. IndexInv /\ DOMAIN tbuf = 1 .. TagCount
  <2>1. IndexInv
    BY DEF Appending
  <2>. QED BY <2>1, LenProperties DEF IndexInv, TagCount
<1>7. ASSUME NEW k \in 1 .. TagCount + n PROVE k \in 1 .. TagCount \/ k \in TagCount + 1 .. TagCount + n
  BY <1>1
<1>8. ASSUME NEW k \in DOMAIN tbuf' PROVE Shaped(tbuf'[k], written'[k])
  <2>1. CASE k \in 1 .. TagCount
    <3>1. Shaped(tbuf[k], written[k])
      BY <1>6, <2>1 DEF IndexInv
    <3>. QED BY <1>2, <1>3, <2>1, <3>1
  <2>2. CASE k \in TagCount + 1 .. TagCount + n
    <3>1. tbuf'[k] \in TagSet /\ written'[k] = Unset
      BY <1>1, <1>2, <2>2
    <3>. QED BY <3>1, UnsetShaped
  <2>. QED BY <1>2, <1>7, <2>1, <2>2
<1>9. ASSUME NEW k \in DOMAIN tbuf' PROVE HasWords(buf', index'[k], written'[k])
  <2>1. CASE k \in 1 .. TagCount
    <3>1. HasWords(buf, index[k], written[k])
      BY <1>6, <2>1 DEF IndexInv
    <3>2. ValueWords(k) \in Nat /\ index[k] \in Nat /\ index[k] + ValueWords(k) <= free
      BY <1>1, <2>1
    <3>3. ASSUME NEW j \in 1 .. ValueWords(k) PROVE buf'[index[k] + j - 1] = written[k][j]
      <4>1. index[k] + j - 1 \in Nat /\ index[k] + j - 1 < free
        BY <1>1, <3>2
      <4>2. buf[index[k] + j - 1] = written[k][j]
        BY <3>1 DEF HasWords, ValueWords
      <4>. QED BY <1>5, <4>1, <4>2
    <3>4. HasWords(buf', index[k], written[k])
      BY <3>3 DEF HasWords, ValueWords
    <3>. QED BY <1>1, <1>3, <2>1, <3>4
  <2>2. CASE k \in TagCount + 1 .. TagCount + n
    <3>1. PICK p : p = index'[k]
      OBVIOUS
    <3>2. p = free + (k - TagCount) + 2 /\ written'[k] = Unset
      BY <1>1, <2>2, <3>1
    <3>3. p \in free + 3 .. Cap /\ p \in Nat
      BY <1>1, <1>5, <2>2, <3>2
    <3>4. buf'[p] = Zero
      BY <1>5, <3>3 DEF ZeroFrom
    <3>5. Len(Unset) = 1 /\ Unset[1] = Zero
      <4>1. Len(Unset) = 1
        BY UnsetShaped DEF TagSet
      <4>. QED BY <4>1 DEF Unset
    <3>6. ASSUME NEW j \in 1 .. Len(Unset) PROVE buf'[p + j - 1] = Unset[j]
      <4>1. j = 1 /\ p + j - 1 = p
        BY <3>3, <3>5
      <4>. QED BY <3>4, <3>5, <4>1
    <3>7. HasWords(buf', p, Unset)
      BY <3>6 DEF HasWords
    <3>. QED BY <3>1, <3>2, <3>7
  <2>. QED BY <1>2, <1>7, <2>1, <2>2
<1>10. ASSUME NEW k \in DOMAIN index', NEW l \in DOMAIN index', k < l
       PROVE  index'[k] + ValueWords(k)' <= index'[l]
  <2>1. k \in 1 .. TagCount + n /\ l \in 1 .. TagCount + n + 1
    BY <1>1, <1>4, <1>10
  <2>2. l > TagCount => index'[l] = free + (l - TagCount) + 2
    <3>1. CASE l \in TagCount + 1 .. TagCount + n
      BY <1>1, <3>1
    <3>2. CASE l = TagCount + n + 1
      BY <1>1, <3>2
    <3>. QED BY <1>1, <2>1, <3>1, <3>2
  <2>3. CASE k \in 1 .. TagCount /\ l <= TagCount
    <3>1. l \in 1 .. TagCount
      BY <1>1, <2>1, <2>3
    <3>2. k \in 1 .. TagCount + 1 /\ l \in 1 .. TagCount + 1
      BY <1>1, <2>3, <3>1
    <3>3. index[k] + ValueWords(k) <= index[l]
      BY <1>6, <1>10, <3>2, IndexOrder
    <3>4. index'[k] = index[k] /\ ValueWords(k)' = ValueWords(k) /\ index'[l] = index[l]
      BY <1>1, <2>3, <3>1
    <3>. QED BY <3>3, <3>4
  <2>4. CASE k \in 1 .. TagCount /\ l > TagCount
    <3>1. /\ index'[k] = index[k] /\ ValueWords(k)' = ValueWords(k)
          /\ ValueWords(k) \in Nat /\ index[k] \in Nat /\ index[k] + ValueWords(k) <= free
      BY <1>1, <2>4
    <3>2. free <= free + (l - TagCount) + 2
      BY <1>1, <2>1, <2>4
    <3>3. index[k] + ValueWords(k) <= free + (l - TagCount) + 2
      BY <1>1, <2>1, <2>4, <3>1, <3>2
    <3>. QED BY <2>2, <2>4, <3>1, <3>3
  <2>5. CASE k \in TagCount + 1 .. TagCount + n
    <3>1. index'[k] = free + (k - TagCount) + 2 /\ ValueWords(k)' = 1
      BY <1>1, <2>5
    <3>2. l > TagCount
      BY <1>1, <1>10, <2>1, <2>5
    <3>3. (free + (k - TagCount) + 2) + 1 <= free + (l - TagCount) + 2
      BY <1>1, <1>10, <2>1
    <3>. QED BY <2>2, <3>1, <3>2, <3>3
  <2>. QED BY <1>1, <1>7, <2>1, <2>3, <2>4, <2>5
<1>11. index'[Len(index')] = free'
  BY <1>1, <1>4
<1>12. Len(index') = TagCount' + 1 /\ Len(written') = TagCount'
  BY <1>1, <1>3, <1>4
<1>. QED BY <1>2, <1>3, <1>4, <1>8, <1>9, <1>10, <1>11, <1>12 DEF IndexInv

\* The places and the values of the messages, with the end of the new one.
Extends(a, at, e) ==
    a = [l \in 1 .. MessageCount + 2 |-> IF l = MessageCount + 2 THEN e ELSE at[l]]

\* What a layout says of the messages before an end, without the buffer.
LEMMA ExtendedIs ==
    ASSUME NEW types, NEW tags, NEW n, Appending(types, tags, n),
           NEW at, NEW first, MessageParts(at, first),
           NEW a, Extends(a, at, free + n + 3), NEW f, Extends(f, first, TagCount + n)
    PROVE  /\ MessageCount \in Nat /\ MessageCount' = MessageCount + 1
           /\ \A m \in 1 .. MessageCount + 1 :
                 /\ a[m] = at[m] /\ at[m] \in Nat /\ at[m] <= free
                 /\ f[m] = first[m] /\ first[m] \in 0 .. TagCount
           /\ a[MessageCount + 1] = free /\ f[MessageCount + 1] = TagCount
           /\ a[MessageCount + 2] = free + n + 3 /\ f[MessageCount + 2] = TagCount + n
           /\ DOMAIN a = 1 .. MessageCount + 2 /\ DOMAIN f = 1 .. MessageCount + 2
<1>1. MessageCount \in Nat /\ MessageCount' = MessageCount + 1
  BY AppendParts
<1>2. TagCount \in Nat
  BY AppendTags
<1>3. at[MessageCount + 1] = free /\ first[MessageCount + 1] = TagCount
  BY DEF MessageParts
<1>4. ASSUME NEW m \in 1 .. MessageCount + 1
      PROVE  /\ a[m] = at[m] /\ at[m] \in Nat /\ at[m] <= free
             /\ f[m] = first[m] /\ first[m] \in 0 .. TagCount
  <2>1. MessageCount + 1 \in 1 .. MessageCount + 1 /\ m <= MessageCount + 1
        /\ m \in 1 .. MessageCount + 2 /\ m # MessageCount + 2
    BY <1>1
  <2>2. at[m] \in Nat /\ at[m] <= at[MessageCount + 1] /\ first[m] \in 0 .. TagCount
    BY <1>1, <1>2, <2>1, MessageOrder
  <2>3. a[m] = at[m] /\ f[m] = first[m]
    BY <2>1 DEF Extends
  <2>. QED BY <1>3, <2>2, <2>3
<1>5. MessageCount + 1 \in 1 .. MessageCount + 1 /\ MessageCount + 2 \in 1 .. MessageCount + 2
  BY <1>1
<1>6. a[MessageCount + 1] = free /\ f[MessageCount + 1] = TagCount
  BY <1>3, <1>4, <1>5
<1>7. /\ a[MessageCount + 2] = free + n + 3 /\ f[MessageCount + 2] = TagCount + n
      /\ DOMAIN a = 1 .. MessageCount + 2 /\ DOMAIN f = 1 .. MessageCount + 2
  BY <1>5 DEF Extends
<1>. QED BY <1>1, <1>4, <1>6, <1>7

\* The appended message is from the old free memory to the new one.
LEMMA AppendMessageParts ==
    ASSUME NEW types, NEW tags, NEW n, Appending(types, tags, n),
           NEW at, NEW first, MessageParts(at, first),
           NEW a, Extends(a, at, free + n + 3), NEW f, Extends(f, first, TagCount + n)
    PROVE  MessageParts(a, f)'
<1>1. /\ MessageCount \in Nat /\ MessageCount' = MessageCount + 1
      /\ \A m \in 1 .. MessageCount + 1 :
            /\ a[m] = at[m] /\ at[m] \in Nat /\ at[m] <= free
            /\ f[m] = first[m] /\ first[m] \in 0 .. TagCount
      /\ a[MessageCount + 1] = free /\ f[MessageCount + 1] = TagCount
      /\ a[MessageCount + 2] = free + n + 3 /\ f[MessageCount + 2] = TagCount + n
      /\ DOMAIN a = 1 .. MessageCount + 2 /\ DOMAIN f = 1 .. MessageCount + 2
  BY ExtendedIs
<1>2. /\ n \in Nat /\ TagCount \in Nat /\ TagCount' = TagCount + n
      /\ free \in Nat /\ free' = free + n + 3
  BY AppendValues
<1>3. \A m \in 1 .. MessageCount : ValueCount(m)' = ValueCount(m)
  BY AppendParts
<1>4. \A m \in {MessageCount + 1} : ValueCount(m)' = n
  BY AppendParts
<1>5. MessageCount' + 1 = MessageCount + 2
  BY <1>1
<1>6. a \in [1 .. MessageCount + 2 -> Nat] /\ f \in [1 .. MessageCount + 2 -> 0 .. TagCount + n]
  <2>1. ASSUME NEW m \in 1 .. MessageCount + 2 PROVE a[m] \in Nat /\ f[m] \in 0 .. TagCount + n
    <3>1. CASE m = MessageCount + 2
      BY <1>1, <1>2, <3>1
    <3>2. CASE m \in 1 .. MessageCount + 1
      BY <1>1, <1>2, <3>2
    <3>. QED BY <1>1, <3>1, <3>2
  <2>2. a = [l \in 1 .. MessageCount + 2 |-> a[l]] /\ f = [l \in 1 .. MessageCount + 2 |-> f[l]]
    BY DEF Extends
  <2>. QED BY <2>1, <2>2
<1>7. a[1] = 0 /\ f[1] = 0
  <2>1. at[1] = 0 /\ first[1] = 0
    BY DEF MessageParts
  <2>2. 1 \in 1 .. MessageCount + 1
    BY <1>1
  <2>. QED BY <1>1, <2>1, <2>2
<1>8. ASSUME NEW m \in 1 .. MessageCount + 2, NEW l \in 1 .. MessageCount + 2, m < l
      PROVE  a[m] + 3 <= a[l] /\ f[m] <= f[l]
  <2>1. m \in 1 .. MessageCount + 1
    BY <1>1, <1>8
  <2>2. CASE l = MessageCount + 2
    <3>1. a[m] = at[m] /\ at[m] \in Nat /\ at[m] <= free /\ f[m] = first[m] /\ first[m] \in 0 .. TagCount
      BY <1>1, <2>1
    <3>2. at[m] + 3 <= free + n + 3 /\ first[m] <= TagCount + n
      BY <1>2, <3>1
    <3>. QED BY <1>1, <2>2, <3>1, <3>2
  <2>3. CASE l # MessageCount + 2
    <3>1. l \in 1 .. MessageCount + 1 /\ m <= l
      BY <1>1, <1>8, <2>3
    <3>2. at[m] + 3 <= at[l] /\ first[m] <= first[l]
      BY <1>1, <1>2, <1>8, <2>1, <3>1, MessageOrder
    <3>. QED BY <1>1, <2>1, <3>1, <3>2
  <2>. QED BY <2>2, <2>3
<1>9. ASSUME NEW m \in 1 .. MessageCount + 1 PROVE f[m + 1] = f[m] + ValueCount(m)'
  <2>1. CASE m = MessageCount + 1
    <3>1. m + 1 = MessageCount + 2 /\ ValueCount(m)' = n
      BY <1>1, <1>4, <2>1
    <3>. QED BY <1>1, <2>1, <3>1
  <2>2. CASE m \in 1 .. MessageCount
    <3>1. first[m + 1] = first[m] + ValueCount(m)
      BY <2>2 DEF MessageParts
    <3>2. m + 1 \in 1 .. MessageCount + 1
      BY <1>1, <2>2
    <3>3. f[m + 1] = first[m + 1] /\ f[m] = first[m]
      BY <1>1, <3>2
    <3>. QED BY <1>3, <2>2, <3>1, <3>3
  <2>. QED BY <1>1, <2>1, <2>2
<1>. QED BY <1>1, <1>2, <1>5, <1>6, <1>7, <1>8, <1>9 DEF MessageParts

\* The appended message has its parts at its places.
LEMMA AppendPlaces ==
    ASSUME NEW types, NEW tags, NEW n, Appending(types, tags, n),
           NEW at, NEW first, MessageParts(at, first), MessagePlaces(at, first),
           NEW a, Extends(a, at, free + n + 3), NEW f, Extends(f, first, TagCount + n)
    PROVE  MessagePlaces(a, f)'
<1>1. /\ MessageCount \in Nat /\ MessageCount' = MessageCount + 1
      /\ \A m \in 1 .. MessageCount + 1 :
            /\ a[m] = at[m] /\ at[m] \in Nat /\ at[m] <= free
            /\ f[m] = first[m] /\ first[m] \in 0 .. TagCount
      /\ a[MessageCount + 1] = free /\ f[MessageCount + 1] = TagCount
      /\ a[MessageCount + 2] = free + n + 3 /\ f[MessageCount + 2] = TagCount + n
  BY ExtendedIs
<1>2. /\ n \in Nat /\ TagCount \in Nat /\ TagCount' = TagCount + n
      /\ free \in Nat /\ free' = free + n + 3
      /\ \A k \in 1 .. TagCount : index'[k] = index[k] /\ ValueWords(k)' = ValueWords(k)
      /\ \A k \in TagCount + 1 .. TagCount + n :
            index'[k] = free + (k - TagCount) + 2 /\ ValueWords(k)' = 1
  BY AppendValues
<1>3. /\ \A m \in 1 .. MessageCount : parts'[m] = parts[m] /\ ValueCount(m)' = ValueCount(m)
      /\ parts'[MessageCount + 1] = types /\ Required(types) = tags
  BY AppendParts
<1>4. \A m \in {MessageCount + 1} : ValueCount(m)' = n
  BY AppendParts
<1>5. /\ \A k \in 1 .. TagCount : tbuf'[k] = tbuf[k]
      /\ \A k \in 1 .. n : tbuf'[TagCount + k] = tags[k]
  BY AppendTags DEF Longer
<1>6. /\ buf'[free + 1] = <<"addr">> /\ buf'[free + 2] = <<"types", types>>
      /\ \A p \in Nat : p < free => buf'[p] = buf[p]
  BY AppendWords
<1>7. ASSUME NEW m \in 1 .. MessageCount
      PROVE  /\ buf'[a[m] + 1] = <<"addr">> /\ buf'[a[m] + 2] = <<"types", parts'[m]>>
             /\ \A k \in 1 .. ValueCount(m)' : tbuf'[f[m] + k] = Required(parts'[m])[k]
             /\ f[m + 1] = f[m] => a[m + 1] = a[m] + 3
             /\ f[m + 1] > f[m] => index'[f[m] + 1] = a[m] + 3
             /\ \A k \in f[m] + 1 .. f[m + 1] :
                   index'[k] + ValueWords(k)' = IF k < f[m + 1] THEN index'[k + 1] ELSE a[m + 1]
  <2>1. m \in 1 .. MessageCount + 1 /\ m + 1 \in 1 .. MessageCount + 1 /\ m < m + 1 /\ m <= m + 1
    BY <1>1
  <2>2. /\ a[m] = at[m] /\ at[m] \in Nat /\ f[m] = first[m] /\ first[m] \in 0 .. TagCount
        /\ a[m + 1] = at[m + 1] /\ at[m + 1] \in Nat /\ at[m + 1] <= free
        /\ f[m + 1] = first[m + 1] /\ first[m + 1] \in 0 .. TagCount
    BY <1>1, <2>1
  <2>3. at[m] + 3 <= at[m + 1]
    BY <1>1, <1>2, <2>1, MessageOrder
  <2>4. /\ buf[at[m] + 1] = <<"addr">> /\ buf[at[m] + 2] = <<"types", parts[m]>>
        /\ \A k \in 1 .. ValueCount(m) : tbuf[first[m] + k] = Required(parts[m])[k]
        /\ first[m + 1] = first[m] => at[m + 1] = at[m] + 3
        /\ first[m + 1] > first[m] => index[first[m] + 1] = at[m] + 3
        /\ \A k \in first[m] + 1 .. first[m + 1] :
              index[k] + ValueWords(k) = IF k < first[m + 1] THEN index[k + 1] ELSE at[m + 1]
    BY DEF MessagePlaces
  <2>5. first[m + 1] = first[m] + ValueCount(m)
    BY DEF MessageParts
  <2>6. at[m] + 1 \in Nat /\ at[m] + 2 \in Nat /\ at[m] + 1 < free /\ at[m] + 2 < free
    BY <1>2, <2>2, <2>3
  <2>7. buf'[a[m] + 1] = <<"addr">> /\ buf'[a[m] + 2] = <<"types", parts'[m]>>
    BY <1>3, <1>6, <2>2, <2>4, <2>6
  <2>8. ASSUME NEW k \in 1 .. ValueCount(m)' PROVE tbuf'[f[m] + k] = Required(parts'[m])[k]
    <3>1. k \in 1 .. ValueCount(m)
      BY <1>3
    <3>0. ValueCount(m) \in Nat
      <4>1. parts \in Seq(Tags)
        BY DEF Appending
      <4>2. parts[m] \in Tags
        BY <1>1, <4>1, LenProperties DEF MessageCount
      <4>. QED BY <4>2, RequiredTyped DEF ValueCount
    <3>2. first[m] + k \in 1 .. TagCount
      BY <1>2, <2>2, <2>5, <3>0, <3>1
    <3>. QED BY <1>3, <1>5, <2>2, <2>4, <3>1, <3>2
  <2>9. f[m + 1] = f[m] => a[m + 1] = a[m] + 3
    BY <2>2, <2>4
  <2>10. ASSUME f[m + 1] > f[m] PROVE index'[f[m] + 1] = a[m] + 3
    <3>1. first[m] + 1 \in 1 .. TagCount /\ first[m + 1] > first[m]
      BY <1>2, <2>2, <2>10
    <3>. QED BY <1>2, <2>2, <2>4, <3>1
  <2>11. ASSUME NEW k \in f[m] + 1 .. f[m + 1]
         PROVE  index'[k] + ValueWords(k)' = IF k < f[m + 1] THEN index'[k + 1] ELSE a[m + 1]
    <3>1. k \in first[m] + 1 .. first[m + 1] /\ k \in 1 .. TagCount
          /\ (k < first[m + 1] => k + 1 \in 1 .. TagCount)
      BY <1>2, <2>2
    <3>2. index[k] + ValueWords(k) = IF k < first[m + 1] THEN index[k + 1] ELSE at[m + 1]
      BY <2>4, <3>1
    <3>. QED BY <1>2, <2>2, <3>1, <3>2
  <2>. QED BY <2>7, <2>8, <2>9, <2>10, <2>11
<1>8. ASSUME NEW m \in {MessageCount + 1}
      PROVE  /\ buf'[a[m] + 1] = <<"addr">> /\ buf'[a[m] + 2] = <<"types", parts'[m]>>
             /\ \A k \in 1 .. ValueCount(m)' : tbuf'[f[m] + k] = Required(parts'[m])[k]
             /\ f[m + 1] = f[m] => a[m + 1] = a[m] + 3
             /\ f[m + 1] > f[m] => index'[f[m] + 1] = a[m] + 3
             /\ \A k \in f[m] + 1 .. f[m + 1] :
                   index'[k] + ValueWords(k)' = IF k < f[m + 1] THEN index'[k + 1] ELSE a[m + 1]
  <2>1. m = MessageCount + 1 /\ m + 1 = MessageCount + 2
    BY <1>1
  <2>2. a[m] = free /\ a[m + 1] = free + n + 3 /\ f[m] = TagCount /\ f[m + 1] = TagCount + n
    BY <1>1, <2>1
  <2>3. buf'[a[m] + 1] = <<"addr">> /\ buf'[a[m] + 2] = <<"types", parts'[m]>>
    BY <1>3, <1>6, <2>1, <2>2
  <2>4. \A k \in 1 .. ValueCount(m)' : tbuf'[f[m] + k] = Required(parts'[m])[k]
    BY <1>3, <1>4, <1>5, <2>1, <2>2
  <2>5. f[m + 1] = f[m] => a[m + 1] = a[m] + 3
    BY <1>2, <2>2
  <2>6. ASSUME f[m + 1] > f[m] PROVE index'[f[m] + 1] = a[m] + 3
    <3>1. TagCount + 1 \in TagCount + 1 .. TagCount + n /\ free + ((TagCount + 1) - TagCount) + 2 = free + 3
      BY <1>2, <2>2, <2>6
    <3>2. index'[TagCount + 1] = free + ((TagCount + 1) - TagCount) + 2
      BY <1>2, <3>1
    <3>. QED BY <2>2, <3>1, <3>2
  <2>7. ASSUME NEW k \in TagCount + 1 .. TagCount + n
        PROVE  index'[k] + ValueWords(k)' = IF k < TagCount + n THEN index'[k + 1] ELSE free + n + 3
    <3>1. index'[k] = free + (k - TagCount) + 2 /\ ValueWords(k)' = 1
      BY <1>2
    <3>2. CASE k < TagCount + n
      <4>1. k + 1 \in TagCount + 1 .. TagCount + n
        BY <1>2, <3>2
      <4>2. index'[k + 1] = free + ((k + 1) - TagCount) + 2
        BY <1>2, <4>1
      <4>3. (free + (k - TagCount) + 2) + 1 = free + ((k + 1) - TagCount) + 2
        BY <1>2
      <4>. QED BY <3>1, <3>2, <4>2, <4>3
    <3>3. CASE ~(k < TagCount + n)
      <4>1. (free + (k - TagCount) + 2) + 1 = free + n + 3
        BY <1>2, <3>3
      <4>. QED BY <3>1, <3>3, <4>1
    <3>. QED BY <3>2, <3>3
  <2>. QED BY <2>2, <2>3, <2>4, <2>5, <2>6, <2>7
<1>9. \A m \in 1 .. MessageCount' : m \in 1 .. MessageCount \/ m \in {MessageCount + 1}
  BY <1>1
<1>. QED BY <1>7, <1>8, <1>9 DEF MessagePlaces

\* The values of the appended message are apart from the others.
LEMMA AppendApart ==
    ASSUME NEW types, NEW tags, NEW n, Appending(types, tags, n),
           NEW at, NEW first, MessageParts(at, first), Apart(at, first),
           NEW a, Extends(a, at, free + n + 3), NEW f, Extends(f, first, TagCount + n)
    PROVE  Apart(a, f)'
<1>1. /\ MessageCount \in Nat /\ MessageCount' = MessageCount + 1
      /\ \A m \in 1 .. MessageCount + 1 :
            /\ a[m] = at[m] /\ at[m] \in Nat /\ at[m] <= free
            /\ f[m] = first[m] /\ first[m] \in 0 .. TagCount
      /\ a[MessageCount + 2] = free + n + 3 /\ f[MessageCount + 2] = TagCount + n
  BY ExtendedIs
<1>2. /\ n \in Nat /\ TagCount \in Nat
      /\ free \in Nat
      /\ \A k \in 1 .. TagCount :
            /\ index'[k] = index[k] /\ ValueWords(k)' = ValueWords(k)
            /\ ValueWords(k) \in Nat \ {0} /\ index[k] \in Nat
            /\ index[k] + ValueWords(k) <= free
      /\ \A k \in TagCount + 1 .. TagCount + n :
            index'[k] = free + (k - TagCount) + 2 /\ ValueWords(k)' = 1
  BY AppendValues
<1>3. DOMAIN tbuf' = 1 .. TagCount + n
  BY AppendTags DEF Longer
<1>4. DOMAIN tbuf = 1 .. TagCount
  BY LenProperties DEF Appending, IndexInv, TagCount
<1>5. ASSUME NEW m \in 1 .. MessageCount + 2, NEW k \in 1 .. TagCount + n
      PROVE  /\ k <= f[m] => index'[k] + ValueWords(k)' <= a[m]
             /\ k > f[m] => index'[k] >= a[m] + 3
  <2>1. CASE m \in 1 .. MessageCount + 1 /\ k \in 1 .. TagCount
    <3>1. a[m] = at[m] /\ f[m] = first[m]
      BY <1>1, <2>1
    <3>2. index'[k] = index[k] /\ ValueWords(k)' = ValueWords(k)
      BY <1>2, <2>1
    <3>3. /\ k <= first[m] => index[k] + ValueWords(k) <= at[m]
          /\ k > first[m] => index[k] >= at[m] + 3
      BY <1>4, <2>1 DEF Apart
    <3>. QED BY <3>1, <3>2, <3>3
  <2>2. CASE m \in 1 .. MessageCount + 1 /\ k \in TagCount + 1 .. TagCount + n
    <3>1. a[m] = at[m] /\ at[m] \in Nat /\ at[m] <= free /\ f[m] = first[m] /\ first[m] \in 0 .. TagCount
      BY <1>1, <2>2
    <3>2. index'[k] = free + (k - TagCount) + 2
      BY <1>2, <2>2
    <3>3. ~(k <= first[m]) /\ free + (k - TagCount) + 2 >= at[m] + 3
      BY <1>2, <2>2, <3>1
    <3>. QED BY <3>1, <3>2, <3>3
  <2>3. CASE m = MessageCount + 2 /\ k \in 1 .. TagCount
    <3>1. /\ index'[k] = index[k] /\ ValueWords(k)' = ValueWords(k)
          /\ ValueWords(k) \in Nat /\ index[k] \in Nat /\ index[k] + ValueWords(k) <= free
      BY <1>2, <2>3
    <3>2. ~(k > TagCount + n) /\ index[k] + ValueWords(k) <= free + n + 3
      BY <1>2, <2>3, <3>1
    <3>. QED BY <1>1, <2>3, <3>1, <3>2
  <2>4. CASE m = MessageCount + 2 /\ k \in TagCount + 1 .. TagCount + n
    <3>1. index'[k] = free + (k - TagCount) + 2 /\ ValueWords(k)' = 1
      BY <1>2, <2>4
    <3>2. ~(k > TagCount + n) /\ (free + (k - TagCount) + 2) + 1 <= free + n + 3
      BY <1>2, <2>4
    <3>. QED BY <1>1, <2>4, <3>1, <3>2
  <2>5. (m = MessageCount + 2 \/ m \in 1 .. MessageCount + 1)
        /\ (k \in 1 .. TagCount \/ k \in TagCount + 1 .. TagCount + n)
    BY <1>1, <1>2
  <2>. QED BY <2>1, <2>2, <2>3, <2>4, <2>5
<1>6. MessageCount' + 1 = MessageCount + 2
  BY <1>1
<1>. QED BY <1>3, <1>5, <1>6 DEF Apart

\* The length words are right, with the one of the appended message.
LEMMA AppendLengths ==
    ASSUME NEW types, NEW tags, NEW n, Appending(types, tags, n),
           NEW at, NEW first, MessageParts(at, first), LengthWordsRight(at),
           NEW a, Extends(a, at, free + n + 3), NEW f, Extends(f, first, TagCount + n)
    PROVE  LengthWordsRight(a)'
<1>1. /\ MessageCount \in Nat /\ MessageCount' = MessageCount + 1
      /\ \A m \in 1 .. MessageCount + 1 : a[m] = at[m] /\ at[m] \in Nat /\ at[m] <= free
      /\ a[MessageCount + 1] = free /\ a[MessageCount + 2] = free + n + 3
  BY ExtendedIs
<1>2. n \in Nat /\ TagCount \in Nat /\ free \in Nat
  BY AppendValues
<1>3. buf'[free] = <<"len", n + 2>> /\ \A p \in Nat : p < free => buf'[p] = buf[p]
  BY AppendWords
<1>4. ASSUME NEW m \in 1 .. MessageCount PROVE buf'[a[m]] = <<"len", a[m + 1] - a[m] - 1>>
  <2>1. m \in 1 .. MessageCount + 1 /\ m + 1 \in 1 .. MessageCount + 1 /\ m < m + 1 /\ m <= m + 1
    BY <1>1
  <2>2. at[m] + 3 <= at[m + 1] /\ at[m] \in Nat /\ at[m + 1] \in Nat
    BY <1>1, <1>2, <2>1, MessageOrder
  <2>3. a[m] = at[m] /\ a[m + 1] = at[m + 1] /\ at[m + 1] <= free
    BY <1>1, <2>1
  <2>4. at[m] < free
    BY <1>2, <2>2, <2>3
  <2>5. buf[at[m]] = <<"len", at[m + 1] - at[m] - 1>>
    BY DEF LengthWordsRight
  <2>6. buf'[at[m]] = buf[at[m]]
    BY <1>3, <2>2, <2>4
  <2>. QED BY <2>3, <2>5, <2>6
<1>5. ASSUME NEW m \in {MessageCount + 1} PROVE buf'[a[m]] = <<"len", a[m + 1] - a[m] - 1>>
  <2>1. m = MessageCount + 1 /\ m + 1 = MessageCount + 2
    BY <1>1
  <2>2. (free + n + 3) - free - 1 = n + 2
    BY <1>2
  <2>. QED BY <1>1, <1>3, <2>1, <2>2
<1>6. \A m \in 1 .. MessageCount' : m \in 1 .. MessageCount \/ m \in {MessageCount + 1}
  BY <1>1
<1>. QED BY <1>4, <1>5, <1>6 DEF LengthWordsRight

\* osc_bundle_append_message keeps the invariant of the output stream.
LEMMA AppendOutput ==
    ASSUME OutputInv, NEW types \in TypeTags, AppendMessage(types)
    PROVE  OutputInv'
<1>0. build.at = "values" /\ build.next > Len(tbuf) /\ build.more > 0
      /\ bundleLen' = bundleLen /\ single' = single /\ sets' = sets
  BY DEF AppendMessage
<1>1. PICK at, first : BegunInv(at, first)
  BY <1>0 DEF OutputInv
<1>2. PICK tags, n : Appending(types, tags, n)
  BY <1>1, AppendIs
<1>3. length' = free - 1 /\ build' = [build EXCEPT !.more = @ - 1, !.offset = free - 1]
  BY <1>1, AppendIs
<1>4. /\ single \in BOOLEAN /\ MessageCount \in 1 .. MaxMessages /\ MessageCount \in Nat
      /\ build.lone \in BOOLEAN /\ Layout(at, first) /\ (~build.lone => LengthWordsRight(at))
  BY <1>1, BegunFacts
<1>5. ValuesInv(at, first)
  BY <1>0, <1>1 DEF BegunInv
<1>6. /\ build = [at |-> "values", next |-> build.next, more |-> build.more,
                  offset |-> build.offset, lone |-> build.lone]
      /\ build.lone = single /\ build.more \in Nat /\ MessageCount + build.more <= MaxMessages
      /\ single => build.more = 0
      /\ build.next \in first[MessageCount] + 1 .. TagCount + 1
  BY <1>5 DEF ValuesInv
<1>7. ~single /\ ~build.lone
  BY <1>0, <1>6
<1>8. PICK a : Extends(a, at, free + n + 3)
  BY DEF Extends
<1>9. PICK f : Extends(f, first, TagCount + n)
  BY DEF Extends
<1>10. MessageParts(at, first) /\ MessagePlaces(at, first) /\ Apart(at, first) /\ LengthWordsRight(at)
  BY <1>4, <1>7 DEF Layout
<1>11. IndexInv' /\ Layout(a, f)'
  <2>1. MessageParts(a, f)'
    BY <1>2, <1>8, <1>9, <1>10, AppendMessageParts
  <2>2. MessagePlaces(a, f)'
    BY <1>2, <1>8, <1>9, <1>10, AppendPlaces
  <2>3. Apart(a, f)'
    BY <1>2, <1>8, <1>9, <1>10, AppendApart
  <2>4. LengthWordsRight(a)'
    BY <1>2, <1>8, <1>9, <1>10, AppendLengths
  <2>5. IndexInv'
    BY <1>2, AppendIndex
  <2>. QED BY <2>1, <2>2, <2>3, <2>4, <2>5 DEF Layout
<1>12. /\ MessageCount' = MessageCount + 1
       /\ f[MessageCount + 1] = TagCount /\ a[MessageCount + 1] = free
  BY <1>2, <1>8, <1>9, <1>10, ExtendedIs
<1>13. /\ n \in Nat /\ TagCount \in Nat /\ TagCount' = TagCount + n
       /\ free \in Nat /\ free' = free + n + 3
       /\ \A k \in TagCount + 1 .. TagCount + n : written'[k] = Unset
  BY <1>2, AppendValues
<1>14. IsBuffer(buf') /\ free + n + 8 <= Cap /\ Cap \in Nat /\ ZeroFrom(buf', free + 3)
  BY <1>2, AppendWords
<1>15. parts' \in Seq(Tags)
  BY <1>2, AppendParts
<1>16. free' \in 1 .. Cap /\ free' + Reserved <= Cap
  BY <1>13, <1>14 DEF Reserved
<1>17. free \in 1 .. Cap /\ bundleLen \in Nat /\ sets \in 0 .. MaxSets
  BY DEF OutputInv
<1>18. length' \in 0 .. Cap
  BY <1>3, <1>14, <1>17, LastWord
<1>19. build.next = TagCount + 1
  <2>1. MessageCount \in 1 .. MessageCount + 1
    BY <1>4
  <2>2. first[MessageCount] \in 0 .. TagCount
    BY <1>4, <1>10, <1>13, <2>1, MessageOrder
  <2>3. build.next > TagCount
    BY <1>0 DEF TagCount
  <2>. QED BY <1>6, <1>13, <2>2, <2>3
<1>20. /\ build'.at = "values" /\ build'.next = TagCount + 1 /\ build'.more = build.more - 1
       /\ build'.offset = free - 1 /\ build'.lone = build.lone
       /\ build' = [at |-> "values", next |-> build'.next, more |-> build'.more,
                    offset |-> build'.offset, lone |-> build'.lone]
  <2>1. build' = [at |-> "values", next |-> build.next, more |-> build.more - 1,
                  offset |-> free - 1, lone |-> build.lone]
    <3>1. PICK next, more, offset, lone :
            /\ next = build.next /\ more = build.more /\ offset = build.offset /\ lone = build.lone
      OBVIOUS
    <3>2. build = [at |-> "values", next |-> next, more |-> more, offset |-> offset, lone |-> lone]
      BY <1>6, <3>1
    <3>3. build' = [build EXCEPT !.more = more - 1, !.offset = free - 1]
      BY <1>3, <3>1
    <3>4. build' = [at |-> "values", next |-> next, more |-> more - 1, offset |-> free - 1, lone |-> lone]
      BY <3>2, <3>3
    <3>. QED BY <3>1, <3>4
  <2>. QED BY <1>19, <2>1
<1>21. MaxMessages \in Nat
  BY OscAssumption
<1>22. build'.more \in Nat /\ MessageCount' + build'.more <= MaxMessages /\ MessageCount' \in 1 .. MaxMessages
  <2>1. build.more - 1 \in Nat /\ (MessageCount + 1) + (build.more - 1) <= MaxMessages
        /\ MessageCount + 1 \in 1 .. MaxMessages
    BY <1>0, <1>4, <1>6, <1>21
  <2>. QED BY <1>12, <1>20, <2>1
<1>23. ValuesInv(a, f)'
  <2>1. build'.next \in f[MessageCount'] + 1 .. TagCount' + 1
    <3>1. TagCount + 1 \in TagCount + 1 .. (TagCount + n) + 1
      BY <1>13
    <3>. QED BY <1>12, <1>13, <1>20, <3>1
  <2>2. build'.offset = IF MessageCount' = 1 THEN 0 ELSE a[MessageCount'] - 1
    BY <1>4, <1>12, <1>20
  <2>3. length' = free' - 1 \/ (MessageCount' > 1 /\ length' = build'.offset)
    BY <1>3, <1>4, <1>12, <1>20
  <2>4. ASSUME NEW k \in build'.next .. TagCount' PROVE written'[k] = Unset
    BY <1>13, <1>20
  <2>5. ASSUME NEW p \in free' .. Cap PROVE buf'[p] = Zero
    <3>1. p \in free + 3 .. Cap
      BY <1>13
    <3>. QED BY <1>14, <3>1 DEF ZeroFrom
  <2>6. build'.lone = single' /\ (single' => build'.more = 0)
    BY <1>0, <1>6, <1>7, <1>20
  <2>. QED BY <1>20, <1>22, <2>1, <2>2, <2>3, <2>4, <2>5, <2>6 DEF ValuesInv
<1>24. BegunInv(a, f)'
  BY <1>0, <1>4, <1>7, <1>11, <1>16, <1>20, <1>22, <1>23 DEF BegunInv
<1>. QED BY <1>0, <1>4, <1>11, <1>14, <1>15, <1>16, <1>17, <1>18, <1>20, <1>24 DEF OutputInv, Begun

\* The end of bundle sets the lengths.
LEMMA FinishOutput ==
    ASSUME OutputInv, FinishBundle
    PROVE  OutputInv'
<1>0. /\ build.at = "values" /\ buf' = Appended.buf /\ length' = Appended.length
      /\ bundleLen' = Appended.length + Reserved
      /\ build' = [at |-> "ready", bundle |-> TRUE, lone |-> build.lone]
      /\ index' = index /\ free' = free /\ tbuf' = tbuf /\ single' = single /\ sets' = sets
      /\ written' = written /\ parts' = parts
  BY DEF FinishBundle
<1>1. PICK at, first : BegunInv(at, first)
  BY <1>0 DEF OutputInv
<1>2. buf' = buf /\ length' = free - 1 /\ bundleLen' = (free - 1) + Reserved
  BY <1>0, <1>1, AppendedIs
<1>3. Layout(at, first) /\ build.lone \in BOOLEAN /\ MessageCount \in 1 .. MaxMessages
      /\ free + Reserved <= Cap /\ (single => MessageCount = 1)
  BY <1>1 DEF BegunInv
<1>4. build.lone = single
  BY <1>0, <1>1 DEF BegunInv, ValuesInv
<1>5. free \in 1 .. Cap /\ Cap \in Nat
  BY OscAssumption DEF OutputInv
<1>6. free - 1 \in 0 .. Cap /\ (free - 1) + Reserved \in Nat
  BY <1>5, LastWord
<1>7. build'.at = "ready" /\ build'.lone = build.lone /\ build'.bundle = TRUE
  BY <1>0
<1>8. TagCount' = TagCount /\ MessageCount' = MessageCount
  BY <1>0 DEF TagCount, MessageCount
<1>9. \A k : ValueWords(k)' = ValueWords(k) /\ ValueCount(k)' = ValueCount(k)
  BY <1>0 DEF ValueWords, ValueCount
<1>10. IndexInv'
  <2>1. IndexInv
    BY DEF OutputInv
  <2>. QED BY <1>0, <1>2, <1>8, <1>9, <2>1 DEF IndexInv
<1>11. Layout(at, first)'
  <2>1. MessageParts(at, first)' /\ MessagePlaces(at, first)' /\ Apart(at, first)'
    BY <1>0, <1>2, <1>3, <1>8, <1>9 DEF Layout, MessageParts, MessagePlaces, Apart
  <2>2. ~build'.lone => LengthWordsRight(at)'
    BY <1>2, <1>3, <1>7, <1>8 DEF Layout, LengthWordsRight
  <2>. QED BY <2>1, <2>2 DEF Layout
<1>12. ReadyInv'
  BY <1>0, <1>2, <1>4, <1>7 DEF ReadyInv
<1>13. BegunInv(at, first)'
  BY <1>0, <1>3, <1>7, <1>8, <1>11, <1>12 DEF BegunInv
<1>14. IsBuffer(buf) /\ parts \in Seq(Tags) /\ single \in BOOLEAN /\ sets \in 0 .. MaxSets
  BY DEF OutputInv
<1>. QED BY <1>0, <1>2, <1>5, <1>6, <1>7, <1>10, <1>13, <1>14 DEF OutputInv, Begun

\* The actions that read the output stream only.
LEMMA KeepsOutput ==
    ASSUME OutputInv, UNCHANGED <<output, build, sets, written, parts>>
    PROVE  OutputInv'
<1>0. /\ buf' = buf /\ index' = index /\ free' = free /\ tbuf' = tbuf /\ length' = length
      /\ bundleLen' = bundleLen /\ single' = single /\ build' = build /\ sets' = sets
      /\ written' = written /\ parts' = parts
  BY DEF output
<1>1. TagCount' = TagCount /\ MessageCount' = MessageCount
  BY <1>0 DEF TagCount, MessageCount
<1>2. \A k : ValueWords(k)' = ValueWords(k) /\ ValueCount(k)' = ValueCount(k)
  BY <1>0 DEF ValueWords, ValueCount
<1>3. IndexInv'
  <2>1. IndexInv
    BY DEF OutputInv
  <2>. QED BY <1>0, <1>1, <1>2, <2>1 DEF IndexInv
<1>4. ASSUME NEW at, NEW first, BegunInv(at, first) PROVE BegunInv(at, first)'
  <2>1. Layout(at, first)
    BY <1>4 DEF BegunInv
  <2>2. MessageParts(at, first)' /\ MessagePlaces(at, first)' /\ Apart(at, first)'
    <3>1. MessageParts(at, first)'
      BY <1>0, <1>1, <1>2, <2>1 DEF Layout, MessageParts
    <3>2. MessagePlaces(at, first)'
      BY <1>0, <1>1, <1>2, <2>1 DEF Layout, MessagePlaces
    <3>3. Apart(at, first)'
      BY <1>0, <1>1, <1>2, <2>1 DEF Layout, Apart
    <3>. QED BY <3>1, <3>2, <3>3
  <2>3. ~build'.lone => LengthWordsRight(at)'
    BY <1>0, <1>1, <2>1 DEF Layout, LengthWordsRight
  <2>4. Layout(at, first)'
    BY <2>2, <2>3 DEF Layout
  <2>5. build.at = "values" => ValuesInv(at, first)'
    BY <1>0, <1>1, <1>4 DEF BegunInv, ValuesInv
  <2>6. build.at = "ready" => ReadyInv'
    BY <1>0, <1>4 DEF BegunInv, ReadyInv
  <2>. QED BY <1>0, <1>1, <1>4, <2>4, <2>5, <2>6 DEF BegunInv
<1>5. build.at # "idle" => Begun /\ \E at, first : BegunInv(at, first)'
  BY <1>4 DEF OutputInv
<1>. QED BY <1>0, <1>3, <1>5 DEF OutputInv, Begun
-----------------------------------------------------------------------------
(* The packet *)

\* Message m of the buffer, with the values that were written.
SentMessage(first, m) ==
    [tags |-> Required(parts[m]), values |-> SubSeq(written, first[m] + 1, first[m + 1])]

\* Each message has the values between its own first one and the next.
LEMMA MessagesAre ==
    ASSUME parts \in Seq(Tags), NEW at, NEW first, MessageParts(at, first)
    PROVE  Messages = [m \in 1 .. MessageCount |-> SentMessage(first, m)]
<1>. DEFINE n == Len(parts)
            F(g) == [m \in 0 .. n |-> IF m = 0 THEN 0 ELSE g[m - 1] + Len(Required(parts[m]))]
            f == [m \in 0 .. n |-> first[m + 1]]
<1>1. n \in Nat /\ MessageCount = n /\ DOMAIN parts = 1 .. n
  BY LenProperties DEF MessageCount
<1>2. /\ first[1] = 0
      /\ \A m \in 1 .. n : first[m + 1] = first[m] + Len(Required(parts[m]))
  BY <1>1 DEF MessageParts, ValueCount
<1>3. f = F(f)
  <2>1. ASSUME NEW m \in 0 .. n PROVE f[m] = F(f)[m]
    <3>1. CASE m = 0
      BY <1>2, <3>1
    <3>2. CASE m # 0
      <4>1. m \in 1 .. n /\ m - 1 \in 0 .. n /\ (m - 1) + 1 = m
        BY <1>1, <3>2
      <4>2. f[m - 1] = first[m] /\ f[m] = first[m + 1]
        BY <4>1
      <4>3. F(f)[m] = f[m - 1] + Len(Required(parts[m]))
        BY <3>2
      <4>. QED BY <1>2, <4>1, <4>2, <4>3
    <3>. QED BY <3>1, <3>2
  <2>. QED BY <2>1
<1>4. PICK c : c = (CHOOSE g : g = F(g))
  OBVIOUS
<1>5. c = F(c)
  <2>1. \E g : g = F(g)
    BY <1>3
  <2>. QED BY <2>1, <1>4
<1>. DEFINE T == {m \in 0 .. n : c[m] = f[m]}
<1>6. 0 \in T
  BY <1>1, <1>2, <1>5
<1>7. ASSUME NEW m \in 0 .. n - 1, m \in T PROVE m + 1 \in T
  <2>1. m + 1 \in 0 .. n /\ m + 1 \in 1 .. n /\ m + 1 # 0 /\ (m + 1) - 1 = m /\ m \in 0 .. n
    BY <1>1
  <2>2. c[m + 1] = c[m] + Len(Required(parts[m + 1]))
    BY <1>5, <2>1
  <2>3. f[m] = first[m + 1] /\ f[m + 1] = first[(m + 1) + 1]
    BY <2>1
  <2>. QED BY <1>2, <1>7, <2>1, <2>2, <2>3
<1>8. 0 .. n \subseteq T
  <2>. HIDE DEF T
  <2>. QED BY <1>1, <1>6, <1>7, UpTo
<1>. DEFINE R(g) == [m \in DOMAIN parts |->
                       [tags |-> Required(parts[m]), values |-> SubSeq(written, g[m - 1] + 1, g[m])]]
<1>9. Messages = R(c)
  <2>1. Messages = R(CHOOSE g : g = F(g))
    BY Zenon DEF Messages
  <2>. HIDE DEF R, F
  <2>. QED BY <2>1, <1>4
<1>10. ASSUME NEW m \in 1 .. n PROVE c[m - 1] = first[m] /\ c[m] = first[m + 1]
  <2>1. m - 1 \in 0 .. n /\ m \in 0 .. n /\ (m - 1) + 1 = m
    BY <1>1
  <2>2. c[m - 1] = f[m - 1] /\ c[m] = f[m]
    BY <1>8, <2>1
  <2>. QED BY <2>1, <2>2
<1>11. R(c) = [m \in 1 .. n |-> SentMessage(first, m)]
  <2>. HIDE DEF F, f, T
  <2>. QED BY <1>1, <1>10 DEF SentMessage
<1>. QED BY <1>1, <1>9, <1>11

\* The words from 1 on are at the distance s in the packet.
Copied(b, s) == \A q \in Nat : q >= 1 /\ q < free => b[q + s] = buf[q]

\* Message m, its values after the first c ones, between the places x and y.
Laid(m, n, c, x, y) ==
    /\ m \in 1 .. MessageCount /\ parts[m] \in Tags
    /\ n \in Nat /\ n = Len(Required(parts[m])) /\ c \in Nat /\ c + n <= TagCount
    /\ x \in Nat /\ y \in Nat /\ x + 3 <= y /\ y <= free
    /\ buf[x + 1] = <<"addr">> /\ buf[x + 2] = <<"types", parts[m]>>
    /\ \A k \in 1 .. n : tbuf[c + k] = Required(parts[m])[k]
    /\ n = 0 => y = x + 3
    /\ n > 0 => index[c + 1] = x + 3
    /\ \A k \in 1 .. n : index[c + k] + ValueWords(c + k) = IF k < n THEN index[c + k + 1] ELSE y
    /\ \A k \in 1 .. n : index[c + k] + ValueWords(c + k) <= y /\ index[c + k] >= x + 3

\* A message of the buffer is laid out between its two places.
LEMMA LaidIs ==
    ASSUME OutputInv, NEW at, NEW first, BegunInv(at, first), NEW m \in 1 .. MessageCount
    PROVE  /\ Laid(m, first[m + 1] - first[m], first[m], at[m], at[m + 1])
           /\ first[m] \in Nat /\ first[m + 1] \in Nat /\ first[m] <= first[m + 1]
<1>1. /\ IndexInv /\ MessageCount \in Nat /\ Layout(at, first)
  BY BegunFacts
<1>2. MessageParts(at, first) /\ MessagePlaces(at, first) /\ Apart(at, first)
  BY <1>1 DEF Layout
<1>3. TagCount \in Nat /\ DOMAIN tbuf = 1 .. TagCount
  BY <1>1, LenProperties DEF IndexInv, TagCount
<1>4. parts[m] \in Tags
  BY LenProperties DEF OutputInv, MessageCount
<1>5. PICK n \in Nat : n = Len(Required(parts[m]))
  BY <1>4, RequiredTyped
<1>6. /\ m + 1 \in 1 .. MessageCount + 1 /\ m \in 1 .. MessageCount + 1 /\ m < m + 1 /\ m <= m + 1
      /\ MessageCount + 1 \in 1 .. MessageCount + 1 /\ m + 1 <= MessageCount + 1
  BY <1>1
<1>7. /\ at[m] \in Nat /\ at[m + 1] \in Nat /\ at[m] + 3 <= at[m + 1]
      /\ first[m] \in 0 .. TagCount /\ first[m + 1] \in 0 .. TagCount
  BY <1>1, <1>2, <1>3, <1>6, MessageOrder
<1>8. at[m + 1] <= at[MessageCount + 1] /\ at[MessageCount + 1] = free
  <2>1. at[m + 1] <= at[MessageCount + 1]
    BY <1>1, <1>2, <1>3, <1>6, MessageOrder
  <2>. QED BY <1>2, <2>1 DEF MessageParts
<1>9. first[m + 1] = first[m] + n
  BY <1>2, <1>5 DEF MessageParts, ValueCount
<1>10. PICK c \in Nat : c = first[m]
  BY <1>3, <1>7
<1>11. PICK d \in Nat : d = first[m + 1]
  BY <1>3, <1>7
<1>12. d - c = n /\ d = c + n /\ d <= TagCount /\ c <= d
  BY <1>3, <1>7, <1>9, <1>10, <1>11
<1>13. /\ buf[at[m] + 1] = <<"addr">> /\ buf[at[m] + 2] = <<"types", parts[m]>>
       /\ \A k \in 1 .. n : tbuf[c + k] = Required(parts[m])[k]
       /\ d = c => at[m + 1] = at[m] + 3
       /\ d > c => index[c + 1] = at[m] + 3
       /\ \A k \in c + 1 .. d : index[k] + ValueWords(k) = IF k < d THEN index[k + 1] ELSE at[m + 1]
  BY <1>2, <1>5, <1>10, <1>11 DEF MessagePlaces, ValueCount
<1>14. ASSUME NEW k \in 1 .. n
       PROVE  /\ index[c + k] + ValueWords(c + k) = IF k < n THEN index[c + k + 1] ELSE at[m + 1]
              /\ index[c + k] + ValueWords(c + k) <= at[m + 1] /\ index[c + k] >= at[m] + 3
  <2>1. /\ c + k \in c + 1 .. d /\ (c + k < d <=> k < n) /\ c + k \in 1 .. TagCount
        /\ c + k <= d /\ c + k > c /\ (c + k) + 1 = c + k + 1
    BY <1>3, <1>12
  <2>2. index[c + k] + ValueWords(c + k) = IF k < n THEN index[c + k + 1] ELSE at[m + 1]
    BY <1>13, <2>1
  <2>3. index[c + k] + ValueWords(c + k) <= at[m + 1]
    BY <1>2, <1>3, <1>6, <1>11, <2>1 DEF Apart
  <2>4. index[c + k] >= at[m] + 3
    BY <1>2, <1>3, <1>6, <1>10, <2>1 DEF Apart
  <2>. QED BY <2>2, <2>3, <2>4
<1>15. (n = 0 => at[m + 1] = at[m] + 3) /\ (n > 0 => index[c + 1] = at[m] + 3) /\ c + n <= TagCount
  BY <1>12, <1>13
<1>16. Laid(m, n, c, at[m], at[m + 1])
  BY <1>4, <1>5, <1>7, <1>8, <1>13, <1>14, <1>15 DEF Laid
<1>. QED BY <1>10, <1>11, <1>12, <1>16

SentAs(msg, m, n, c) ==
    /\ msg.tags = Required(parts[m])
    /\ \A k \in 1 .. n : msg.values[k] = written[c + k]
HasValues(first, m, n) == first[m + 1] = first[m] + n

\* The values that a message is sent with.
LEMMA SentValues ==
    ASSUME IndexInv, NEW first, NEW m, NEW n, NEW x, NEW y, Laid(m, n, first[m], x, y),
           HasValues(first, m, n)
    PROVE  SentAs(SentMessage(first, m), m, n, first[m])
<1>1. PICK c : c = first[m]
  OBVIOUS
<1>2. n \in Nat /\ c \in Nat /\ c + n <= TagCount /\ TagCount \in Nat
  <2>1. TagCount \in Nat
    BY LenProperties DEF IndexInv, TagCount
  <2>. QED BY <1>1, <2>1 DEF Laid
<1>3. IsSeq(written) /\ Len(written) = TagCount
  BY DEF IndexInv
<1>4. PICK S : written \in Seq(S)
  BY <1>3 DEF IsSeq
<1>5. PICK v : v = SubSeq(written, c + 1, c + n)
  OBVIOUS
<1>6. \A k \in 1 .. n : v[k] = written[c + k]
  <2>1. PICK a \in Nat, d \in Nat : a = c + 1 /\ d = c + n
    BY <1>2
  <2>2. a \in Int /\ d \in Int /\ (d - a) + 1 = n
    BY <1>2, <2>1
  <2>5. ASSUME NEW k \in a .. d PROVE written[k] \in S
    <3>1. k \in 1 .. TagCount
      BY <1>2, <2>1
    <3>. QED BY <1>3, <1>4, <3>1
  <2>3. \A k \in 1 .. n : v[k] = written[a + k - 1]
    <3>1. SubSeq(written, a, d) = v
      BY <1>5, <2>1
    <3>2. \A k \in 1 .. d - a + 1 : SubSeq(written, a, d)[k] = written[a + k - 1]
      BY <2>2, <2>5, SubSeqProperties
    <3>. QED BY <2>2, <3>1, <3>2
  <2>4. \A k \in 1 .. n : a + k - 1 = c + k
    BY <1>2, <2>1
  <2>. QED BY <2>3, <2>4
<1>7. SentMessage(first, m) = [tags |-> Required(parts[m]), values |-> v]
  BY <1>1, <1>5 DEF SentMessage, HasValues
<1>. QED BY <1>1, <1>6, <1>7 DEF SentAs

\* A message of the buffer is in the packet at the distance s.
LEMMA MessageSent ==
    ASSUME IndexInv, free \in Nat,
           NEW m, NEW n, NEW c, NEW x, NEW y, Laid(m, n, c, x, y), NEW msg, SentAs(msg, m, n, c),
           NEW s \in Int, s >= -1, y + s <= Cap, NEW b, Copied(b, s)
    PROVE  MessageAt(b, x + s + 1, msg, y + s)
<1>1. /\ n \in Nat /\ c \in Nat /\ c + n <= TagCount /\ x \in Nat /\ y \in Nat /\ x + 3 <= y /\ y <= free
      /\ parts[m] \in Tags
  BY DEF Laid
<1>2. TagCount \in Nat /\ Cap \in Nat /\ DOMAIN tbuf = 1 .. TagCount
  BY OscAssumption, LenProperties DEF IndexInv, TagCount
<1>3. Len(msg.tags) = n
  BY DEF Laid, SentAs
<1>4. PICK p \in Nat : p = x + s + 1
  BY <1>1
<1>5. PICK e \in Nat : e = y + s
  BY <1>1
<1>6. e \in p + 2 .. Cap
  BY <1>1, <1>2, <1>4, <1>5
<1>7. /\ buf[x + 1] = <<"addr">> /\ buf[x + 2] = <<"types", parts[m]>>
      /\ \A k \in 1 .. n : tbuf[c + k] = Required(parts[m])[k]
      /\ n = 0 => y = x + 3
      /\ n > 0 => index[c + 1] = x + 3
  BY DEF Laid
<1>8. b[p] = <<"addr">> /\ b[p + 1] = <<"types", parts[m]>>
  <2>1. /\ x + 1 \in Nat /\ x + 1 >= 1 /\ x + 1 < free /\ (x + 1) + s = p
        /\ x + 2 \in Nat /\ x + 2 >= 1 /\ x + 2 < free /\ (x + 2) + s = p + 1
    BY <1>1, <1>4
  <2>2. b[(x + 1) + s] = buf[x + 1] /\ b[(x + 2) + s] = buf[x + 2]
    BY <2>1 DEF Copied
  <2>. QED BY <1>7, <2>1, <2>2
<1>9. b[p + 1][2] = parts[m]
  BY <1>8
<1>10. ASSUME NEW k \in 1 .. n
       PROVE  /\ c + k \in 1 .. TagCount /\ c + k \in DOMAIN tbuf
              /\ ValueWords(c + k) \in Nat \ {0} /\ index[c + k] \in Nat
              /\ index[c + k] + ValueWords(c + k) = IF k < n THEN index[c + k + 1] ELSE y
              /\ index[c + k] + ValueWords(c + k) <= y /\ index[c + k] >= x + 3
              /\ msg.values[k] = written[c + k] /\ msg.tags[k] = tbuf[c + k]
              /\ Len(msg.values[k]) = ValueWords(c + k)
  <2>1. c + k \in 1 .. TagCount
    BY <1>1, <1>2
  <2>2. ValueWords(c + k) \in Nat \ {0} /\ index[c + k] \in Nat
    BY <1>2, <2>1, IndexFacts
  <2>3. /\ index[c + k] + ValueWords(c + k) = IF k < n THEN index[c + k + 1] ELSE y
        /\ index[c + k] + ValueWords(c + k) <= y /\ index[c + k] >= x + 3
    BY DEF Laid
  <2>4. msg.values[k] = written[c + k] /\ msg.tags[k] = tbuf[c + k]
    BY <1>7 DEF SentAs
  <2>5. Len(msg.values[k]) = ValueWords(c + k)
    BY <2>4 DEF ValueWords
  <2>. QED BY <1>2, <2>1, <2>2, <2>3, <2>4, <2>5
<1>11. PICK pl : pl = [k \in 1 .. n + 1 |-> IF k = n + 1 THEN e ELSE index[c + k] + s]
  OBVIOUS
<1>12. pl[n + 1] = e /\ \A k \in 1 .. n : pl[k] = index[c + k] + s
  <2>1. n + 1 \in 1 .. n + 1 /\ \A k \in 1 .. n : k \in 1 .. n + 1 /\ k # n + 1
    BY <1>1
  <2>. QED BY <1>11, <2>1
<1>13. ASSUME NEW k \in 1 .. n
       PROVE  pl[k] \in p + 2 .. e /\ pl[k] \in Nat /\ pl[k] + Len(msg.values[k]) <= e
  <2>1. PICK z \in Nat : z = index[c + k]
    BY <1>10
  <2>2. PICK l \in Nat : l = ValueWords(c + k)
    BY <1>10
  <2>3. z + l <= y /\ z >= x + 3
    BY <1>10, <2>1, <2>2
  <2>4. z + s \in p + 2 .. e /\ z + s \in Nat /\ (z + s) + l <= e
    BY <1>1, <1>4, <1>5, <2>3
  <2>5. pl[k] = z + s /\ Len(msg.values[k]) = l
    BY <1>10, <1>12, <2>1, <2>2
  <2>. QED BY <2>4, <2>5
<1>14. pl \in [1 .. n + 1 -> p + 2 .. e]
  <2>1. ASSUME NEW k \in 1 .. n + 1 PROVE pl[k] \in p + 2 .. e
    <3>1. CASE k = n + 1
      BY <1>6, <1>12, <3>1
    <3>2. CASE k # n + 1
      <4>1. k \in 1 .. n
        BY <1>1, <3>2
      <4>. QED BY <1>13, <4>1
    <3>. QED BY <3>1, <3>2
  <2>2. pl = [k \in 1 .. n + 1 |-> pl[k]]
    BY <1>11
  <2>. QED BY <2>1, <2>2
<1>15. pl[1] = p + 2
  <2>1. CASE n = 0
    <3>1. e = p + 2
      BY <1>1, <1>4, <1>5, <1>7, <2>1
    <3>. QED BY <1>12, <2>1, <3>1
  <2>2. CASE n # 0
    <3>1. n > 0 /\ 1 \in 1 .. n
      BY <1>1, <2>2
    <3>2. index[c + 1] = x + 3 /\ (x + 3) + s = p + 2
      BY <1>1, <1>4, <1>7, <3>1
    <3>. QED BY <1>12, <3>1, <3>2
  <2>. QED BY <2>1, <2>2
<1>16. ASSUME NEW k \in 1 .. n + 1, NEW l \in 1 .. n + 1, k < l
       PROVE  pl[k] + Len(msg.values[k]) <= pl[l]
  <2>1. k \in 1 .. n
    BY <1>1, <1>16
  <2>2. CASE l = n + 1
    BY <1>12, <1>13, <2>1, <2>2
  <2>3. CASE l # n + 1
    <3>1. l \in 1 .. n
      BY <1>1, <2>3
    <3>2. c + k \in 1 .. TagCount + 1 /\ c + l \in 1 .. TagCount + 1 /\ c + k < c + l
      BY <1>1, <1>2, <1>16, <2>1, <3>1
    <3>3. PICK z \in Nat : z = index[c + k]
      BY <1>10, <2>1
    <3>4. PICK u \in Nat : u = index[c + l]
      BY <1>10, <3>1
    <3>5. PICK w \in Nat : w = ValueWords(c + k)
      BY <1>10, <2>1
    <3>6. z + w <= u
      BY <3>2, <3>3, <3>4, <3>5, IndexOrder
    <3>7. (z + s) + w <= u + s
      BY <3>6
    <3>8. pl[k] = z + s /\ pl[l] = u + s /\ Len(msg.values[k]) = w
      BY <1>10, <1>12, <2>1, <3>1, <3>3, <3>4, <3>5
    <3>. QED BY <3>7, <3>8
  <2>. QED BY <2>2, <2>3
<1>17. ASSUME NEW k \in 1 .. n
       PROVE  pl[k + 1] = pl[k] + Len(msg.values[k])
  <2>1. PICK z \in Nat : z = index[c + k]
    BY <1>10
  <2>2. PICK w \in Nat : w = ValueWords(c + k)
    BY <1>10
  <2>3. pl[k] = z + s /\ Len(msg.values[k]) = w
    BY <1>10, <1>12, <2>1, <2>2
  <2>4. CASE k < n
    <3>1. k + 1 \in 1 .. n /\ c + (k + 1) = c + k + 1
      BY <1>1, <2>4
    <3>2. index[c + k + 1] = z + w
      BY <1>10, <2>1, <2>2, <2>4
    <3>3. pl[k + 1] = (z + w) + s
      BY <1>12, <3>1, <3>2
    <3>4. (z + w) + s = (z + s) + w
      OBVIOUS
    <3>. QED BY <2>3, <3>3, <3>4
  <2>5. CASE ~(k < n)
    <3>1. k = n
      BY <1>1, <2>5
    <3>2. z + w = y
      BY <1>10, <2>1, <2>2, <2>5
    <3>3. e = (z + s) + w
      BY <1>5, <3>2
    <3>. QED BY <1>12, <2>3, <3>1, <3>3
  <2>. QED BY <2>4, <2>5
<1>18. ASSUME NEW k \in 1 .. n PROVE HasWords(b, pl[k], msg.values[k])
  <2>1. HasWords(buf, index[c + k], written[c + k])
    BY <1>10 DEF IndexInv
  <2>2. PICK z \in Nat : z = index[c + k]
    BY <1>10
  <2>3. PICK w \in Nat : w = ValueWords(c + k)
    BY <1>10
  <2>4. PICK v : v = written[c + k]
    OBVIOUS
  <2>5. z + w <= y /\ z >= x + 3
    BY <1>10, <2>2, <2>3
  <2>6. ASSUME NEW j \in 1 .. w PROVE b[(z + s) + j - 1] = v[j]
    <3>1. /\ (z + j - 1) \in Nat /\ (z + j - 1) >= 1 /\ (z + j - 1) < free
          /\ (z + j - 1) + s = (z + s) + j - 1
      BY <1>1, <2>5
    <3>2. b[(z + j - 1) + s] = buf[z + j - 1]
      BY <3>1 DEF Copied
    <3>3. buf[z + j - 1] = v[j]
      BY <2>1, <2>2, <2>3, <2>4 DEF HasWords, ValueWords
    <3>. QED BY <3>1, <3>2, <3>3
  <2>7. Len(v) = w
    BY <2>3, <2>4 DEF ValueWords
  <2>8. HasWords(b, z + s, v)
    BY <2>6, <2>7 DEF HasWords
  <2>. QED BY <1>10, <1>12, <2>2, <2>4, <2>8
<1>19. ASSUME NEW k \in 1 .. n PROVE Shaped(msg.tags[k], msg.values[k])
  BY <1>10 DEF IndexInv
<1>20. msg.tags = Required(b[p + 1][2])
  BY <1>9 DEF SentAs
<1>21. /\ b[p + 1] = <<"types", b[p + 1][2]>> /\ b[p + 1][2] \in Tags
  BY <1>1, <1>8, <1>9
<1>22. MessageWith(b, p, msg, e, pl)
  BY <1>3, <1>6, <1>8, <1>12, <1>14, <1>15, <1>16, <1>17, <1>18, <1>19, <1>20, <1>21 DEF MessageWith
<1>. QED BY <1>4, <1>5, <1>22 DEF MessageAt

\* The messages of the buffer, as they are said to be sent.
LEMMA MessagesSent ==
    ASSUME OutputInv, NEW at, NEW first, BegunInv(at, first)
    PROVE  /\ IsSeq(Messages) /\ Len(Messages) = MessageCount
           /\ \A m \in 1 .. MessageCount : Messages[m] = SentMessage(first, m)
<1>1. Layout(at, first) /\ MessageCount \in Nat
  BY BegunFacts
<1>2. MessageParts(at, first) /\ parts \in Seq(Tags)
  BY <1>1 DEF Layout, OutputInv
<1>3. PICK ms : ms = Messages
  OBVIOUS
<1>4. ms = [m \in 1 .. MessageCount |-> SentMessage(first, m)]
  BY <1>2, <1>3, MessagesAre
<1>5. ms = [m \in 1 .. MessageCount |-> ms[m]]
  BY <1>4
<1>6. IsSeq(ms) /\ Len(ms) = MessageCount
  BY <1>1, <1>5, IsSeqOf
<1>7. \A m \in 1 .. MessageCount : ms[m] = SentMessage(first, m)
  BY <1>4
<1>. QED BY <1>3, <1>6, <1>7

\* Each of them is in a packet that has a copy of the words.
LEMMA EachSent ==
    ASSUME OutputInv, NEW at, NEW first, BegunInv(at, first), NEW m \in 1 .. MessageCount,
           NEW s \in Int, s >= -1, free + s <= Cap, NEW b, Copied(b, s)
    PROVE  MessageAt(b, at[m] + s + 1, SentMessage(first, m), at[m + 1] + s)
<1>1. IndexInv /\ free \in Nat /\ Cap \in Nat
  BY OscAssumption, BegunFacts
<1>2. /\ Laid(m, first[m + 1] - first[m], first[m], at[m], at[m + 1])
      /\ first[m] \in Nat /\ first[m + 1] \in Nat /\ first[m] <= first[m + 1]
  BY LaidIs
<1>3. PICK n : n = first[m + 1] - first[m]
  OBVIOUS
<1>4. first[m + 1] = first[m] + n
  BY <1>2, <1>3
<1>5. Laid(m, n, first[m], at[m], at[m + 1])
  BY <1>2, <1>3
<1>6. SentAs(SentMessage(first, m), m, n, first[m])
  <2>1. HasValues(first, m, n)
    BY <1>4 DEF HasValues
  <2>. QED BY <1>1, <1>5, <2>1, SentValues
<1>7. at[m + 1] + s <= Cap
  <2>1. at[m + 1] \in Nat /\ at[m + 1] <= free
    BY <1>5 DEF Laid
  <2>. QED BY <1>1, <2>1
<1>. QED BY <1>1, <1>5, <1>6, <1>7, MessageSent

\* send-bundle: the packet has the header and the chain of the messages.
LEMMA BundleSent ==
    ASSUME OutputInv, NEW at, NEW first, BegunInv(at, first), ~build.lone,
           build.at = "ready", build.bundle
    PROVE  /\ Packet[1] = <<"hdr">> /\ Len(Packet) \in Nat
           /\ Chain(Fits(Packet), Reserved - 1, Messages, Len(Packet))
<1>1. /\ free \in Nat /\ Cap \in Nat /\ free + 5 <= Cap /\ MessageCount \in Nat /\ TagCount \in Nat
      /\ Layout(at, first) /\ LengthWordsRight(at)
  <2>1. free + Reserved <= Cap
    BY DEF BegunInv
  <2>2. IndexInv
    BY BegunFacts
  <2>3. TagCount \in Nat
    BY <2>2, LenProperties DEF IndexInv, TagCount
  <2>. QED BY OscAssumption, BegunFacts, <2>1, <2>3 DEF Reserved
<1>2. bundleLen = free + 4
  <2>1. length = free - 1 /\ bundleLen = length + Reserved
    BY DEF BegunInv, ReadyInv
  <2>. QED BY <1>1, <2>1 DEF Reserved
<1>3. PICK L \in Nat : L = free + 4
  BY <1>1
<1>4. PICK w : w = Packet
  OBVIOUS
<1>5. w = [k \in 1 .. L |-> IF k < 5 THEN <<"hdr">> ELSE buf[k - 5]]
  BY <1>2, <1>3, <1>4 DEF Packet, Reserved
<1>6. Len(w) = L /\ DOMAIN w = 1 .. L
  <2>1. w = [k \in 1 .. L |-> w[k]]
    BY <1>5
  <2>. QED BY <1>5, <2>1, IsSeqOf
<1>7. w[1] = <<"hdr">>
  <2>1. 1 \in 1 .. L /\ 1 < 5
    BY <1>1, <1>3
  <2>. QED BY <1>5, <2>1
<1>8. PICK b : b = Fits(w)
  OBVIOUS
<1>9. b = [p \in 0 .. Cap |-> IF p + 1 \in 1 .. L THEN w[p + 1] ELSE Zero]
  <2>1. b = [p \in 0 .. Cap |-> IF p + 1 \in DOMAIN w THEN w[p + 1] ELSE Zero]
    BY <1>8 DEF Fits
  <2>. QED BY <1>6, <2>1
<1>10. ASSUME NEW q \in Nat, q < free PROVE b[q + 4] = buf[q]
  <2>1. q + 4 \in 0 .. Cap /\ (q + 4) + 1 \in 1 .. L /\ ~((q + 4) + 1 < 5) /\ ((q + 4) + 1) - 5 = q
    BY <1>1, <1>3, <1>10
  <2>2. b[q + 4] = w[(q + 4) + 1]
    BY <1>9, <2>1
  <2>3. w[(q + 4) + 1] = buf[((q + 4) + 1) - 5]
    BY <1>5, <2>1
  <2>. QED BY <2>1, <2>2, <2>3
<1>11. Copied(b, 4)
  BY <1>10 DEF Copied
<1>12. PICK ms : ms = Messages
  OBVIOUS
<1>13. IsSeq(ms) /\ Len(ms) = MessageCount /\ \A m \in 1 .. MessageCount : ms[m] = SentMessage(first, m)
  BY <1>12, MessagesSent
<1>14. MessageParts(at, first)
  BY <1>1 DEF Layout
<1>15. ASSUME NEW m \in 1 .. MessageCount + 1, NEW l \in 1 .. MessageCount + 1, m < l
       PROVE  at[m] \in Nat /\ at[l] \in Nat /\ at[m] + 3 <= at[l]
  BY <1>1, <1>14, <1>15, MessageOrder
<1>16. PICK c : c = [m \in 1 .. MessageCount + 1 |-> at[m] + 4]
  OBVIOUS
<1>17. at \in [1 .. MessageCount + 1 -> Nat] /\ at[1] = 0 /\ at[MessageCount + 1] = free
  BY <1>14 DEF MessageParts
<1>18. /\ c \in [1 .. MessageCount + 1 -> Nat] /\ c[1] = 4 /\ c[MessageCount + 1] = L
       /\ \A m \in 1 .. MessageCount + 1 : c[m] = at[m] + 4
  <2>1. \A m \in 1 .. MessageCount + 1 : at[m] + 4 \in Nat
    BY <1>17
  <2>2. 1 \in 1 .. MessageCount + 1 /\ MessageCount + 1 \in 1 .. MessageCount + 1
    BY <1>1
  <2>. QED BY <1>3, <1>16, <1>17, <2>1, <2>2
<1>19. ASSUME NEW m \in 1 .. MessageCount + 1, NEW l \in 1 .. MessageCount + 1, m < l
       PROVE  c[m] < c[l]
  BY <1>15, <1>18, <1>19
<1>20. ASSUME NEW m \in 1 .. MessageCount
       PROVE  /\ b[c[m]] = <<"len", c[m + 1] - c[m] - 1>>
              /\ MessageAt(b, c[m] + 1, ms[m], c[m + 1])
  <2>1. m \in 1 .. MessageCount + 1 /\ m + 1 \in 1 .. MessageCount + 1 /\ m < m + 1
        /\ MessageCount + 1 \in 1 .. MessageCount + 1
    BY <1>1
  <2>2. PICK x \in Nat, y \in Nat : x = at[m] /\ y = at[m + 1]
    BY <1>17, <2>1
  <2>3. x + 3 <= y /\ y <= free
    <3>1. x + 3 <= y
      BY <1>15, <2>1, <2>2
    <3>2. CASE m + 1 = MessageCount + 1
      BY <1>1, <1>17, <2>2, <3>1, <3>2
    <3>3. CASE m + 1 < MessageCount + 1
      <4>1. at[m + 1] + 3 <= at[MessageCount + 1]
        BY <1>15, <2>1, <3>3
      <4>. QED BY <1>1, <1>17, <2>2, <3>1, <4>1
    <3>. QED BY <1>1, <3>2, <3>3
  <2>4. buf[x] = <<"len", y - x - 1>>
    BY <1>1, <2>2 DEF LengthWordsRight
  <2>5. x < free
    BY <1>1, <2>3
  <2>6. b[x + 4] = buf[x]
    BY <1>10, <2>5
  <2>7. c[m] = x + 4 /\ c[m + 1] = y + 4
    BY <1>18, <2>1, <2>2
  <2>8. (y + 4) - (x + 4) - 1 = y - x - 1 /\ x + 4 + 1 = (x + 4) + 1
    OBVIOUS
  <2>9. MessageAt(b, x + 4 + 1, SentMessage(first, m), y + 4)
    <3>1. MessageAt(b, at[m] + 4 + 1, SentMessage(first, m), at[m + 1] + 4)
      <4>1. free + 4 <= Cap /\ 4 >= -1 /\ 4 \in Int
        BY <1>1
      <4>. QED BY <1>11, <4>1, EachSent
    <3>. QED BY <2>2, <3>1
  <2>10. b[c[m]] = <<"len", c[m + 1] - c[m] - 1>>
    BY <2>4, <2>6, <2>7, <2>8
  <2>11. MessageAt(b, c[m] + 1, ms[m], c[m + 1])
    BY <1>13, <2>7, <2>8, <2>9
  <2>. QED BY <2>10, <2>11
<1>21. PICK M \in Nat : M = MessageCount
  BY <1>1
<1>22. ChainWith(b, 4, ms, L, c)
  BY <1>13, <1>18, <1>19, <1>20 DEF ChainWith
<1>23. Chain(b, 4, ms, L)
  BY <1>22 DEF Chain
<1>24. Reserved - 1 = 4
  BY DEF Reserved
<1>. QED BY <1>4, <1>6, <1>7, <1>8, <1>12, <1>23, <1>24

\* send of a message that is not in a bundle.
LEMMA MessageAloneSent ==
    ASSUME OutputInv, NEW at, NEW first, BegunInv(at, first), ~build.lone,
           build.at = "ready", ~build.bundle
    PROVE  /\ Packet[1] # <<"hdr">> /\ Len(Messages) = 1
           /\ \E e : MessageAt(Fits(Packet), 0, Messages[1], e)
<1>1. /\ free \in Nat /\ Cap \in Nat /\ free + 5 <= Cap /\ MessageCount = 1
      /\ Layout(at, first)
  <2>1. free + Reserved <= Cap
    BY DEF BegunInv
  <2>2. single
    BY DEF BegunInv, ReadyInv
  <2>. QED BY OscAssumption, BegunFacts, <2>1, <2>2 DEF Reserved
<1>2. length = free - 1
  BY DEF BegunInv, ReadyInv
<1>3. /\ at[1] = 0 /\ at[2] = free
  BY <1>1 DEF Layout, MessageParts
<1>4. Laid(1, first[2] - first[1], first[1], at[1], at[2])
  <2>1. 1 \in 1 .. MessageCount /\ 1 + 1 = 2
    BY <1>1
  <2>. QED BY <2>1, LaidIs
<1>5. free >= 3 /\ buf[1] = <<"addr">>
  <2>1. at[1] + 3 <= at[2] /\ buf[at[1] + 1] = <<"addr">>
    BY <1>4 DEF Laid
  <2>. QED BY <1>1, <1>3, <2>1
<1>6. PICK L \in Nat : L = free - 1
  BY <1>1, <1>5
<1>7. PICK w : w = Packet
  OBVIOUS
<1>8. w = [k \in 1 .. L |-> buf[k]]
  BY <1>2, <1>6, <1>7 DEF Packet
<1>9. DOMAIN w = 1 .. L
  BY <1>8
<1>10. w[1] # <<"hdr">>
  <2>1. 1 \in 1 .. L
    BY <1>1, <1>5, <1>6
  <2>2. w[1] = <<"addr">>
    BY <1>5, <1>8, <2>1
  <2>. QED BY <2>2
<1>11. PICK b : b = Fits(w)
  OBVIOUS
<1>12. b = [p \in 0 .. Cap |-> IF p + 1 \in 1 .. L THEN w[p + 1] ELSE Zero]
  <2>1. b = [p \in 0 .. Cap |-> IF p + 1 \in DOMAIN w THEN w[p + 1] ELSE Zero]
    BY <1>11 DEF Fits
  <2>. QED BY <1>9, <2>1
<1>13. Copied(b, -1)
  <2>1. ASSUME NEW q \in Nat, q >= 1, q < free PROVE b[q + (-1)] = buf[q]
    <3>1. PICK p \in Nat : p = q + (-1)
      BY <2>1
    <3>2. p \in 0 .. Cap /\ p + 1 = q /\ q \in 1 .. L
      BY <1>1, <1>6, <2>1, <3>1
    <3>3. b[p] = w[p + 1]
      BY <1>12, <3>2
    <3>4. w[q] = buf[q]
      BY <1>8, <3>2
    <3>. QED BY <3>1, <3>2, <3>3, <3>4
  <2>. QED BY <2>1 DEF Copied
<1>14. MessageAt(b, at[1] + (-1) + 1, SentMessage(first, 1), at[2] + (-1))
  <2>1. 1 \in 1 .. MessageCount /\ 1 + 1 = 2 /\ -1 >= -1 /\ -1 \in Int /\ free + (-1) <= Cap
    BY <1>1
  <2>2. MessageAt(b, at[1] + (-1) + 1, SentMessage(first, 1), at[1 + 1] + (-1))
    BY <1>13, <2>1, EachSent
  <2>. QED BY <2>1, <2>2
<1>15. at[1] + (-1) + 1 = 0
  BY <1>3
<1>16. PICK ms : ms = Messages
  OBVIOUS
<1>17. Len(ms) = 1 /\ ms[1] = SentMessage(first, 1)
  <2>1. 1 \in 1 .. MessageCount
    BY <1>1
  <2>. QED BY <1>1, <1>16, <2>1, MessagesSent
<1>. QED BY <1>7, <1>10, <1>11, <1>14, <1>15, <1>16, <1>17
-----------------------------------------------------------------------------
(* The input stream *)

Found(i, b, msg, e) ==
    /\ AsSent(i.buf, i.index, i.tbuf, msg)
    /\ IsWords(i.buf)
    /\ \A q \in 0 .. Cap : q >= e => i.buf[q] = b[q]
    /\ \A k \in DOMAIN i.tbuf : PlaceIn(i.index[k], msg.values[k])

SwappedPlaces(msg, pl) == {pl[k] : k \in {k \in DOMAIN msg.tags : msg.tags[k] # "s"}}
SwappedBuf(b, swapped) == [q \in 0 .. Cap |-> IF q \in swapped THEN Swap(b[q]) ELSE b[q]]

\* The index of a received message, and its words in the order of the host.
LEMMA IndexedAre ==
    ASSUME NEW b, NEW p, NEW msg, NEW e, NEW pl, MessageWith(b, p, msg, e, pl)
    PROVE  Indexed(b, p) = [buf |-> SwappedBuf(b, SwappedPlaces(msg, pl)), tbuf |-> msg.tags, index |-> pl]
<1>1. /\ p \in Nat /\ e \in p + 2 .. Cap /\ Cap \in Nat
      /\ b[p] = <<"addr">> /\ b[p + 1] = <<"types", b[p + 1][2]>>
      /\ b[p + 1][2] \in Tags /\ msg.tags = Required(b[p + 1][2])
  BY OscAssumption DEF MessageWith
<1>2. PICK tags : tags = msg.tags
  OBVIOUS
<1>3. tags \in Seq(TagSet)
  BY <1>1, <1>2, RequiredTyped
<1>4. PICK n \in Nat : n = Len(tags)
  BY <1>3
<1>5. DOMAIN tags = 1 .. n
  BY <1>3, <1>4
<1>6. /\ \A k \in 1 .. n : Shaped(tags[k], msg.values[k])
      /\ pl \in [1 .. n + 1 -> p + 2 .. e] /\ pl[1] = p + 2 /\ pl[n + 1] = e
      /\ \A k, l \in 1 .. n + 1 : k < l => pl[k] + Len(msg.values[k]) <= pl[l]
      /\ \A k \in 1 .. n : /\ pl[k + 1] = pl[k] + Len(msg.values[k])
                           /\ HasWords(b, pl[k], msg.values[k])
  BY <1>2, <1>4 DEF MessageWith
<1>7. StrWords(b, p) = 1
  <2>1. HasNul(b[p])
    BY <1>1 DEF HasNul
  <2>. QED BY <1>1, <2>1, StrWordsFirst
<1>8. StrWords(b, p + 1) = 1
  <2>1. HasNul(b[p + 1])
    BY <1>1 DEF HasNul
  <2>2. p + 1 \in Nat
    BY <1>1
  <2>. QED BY <2>1, <2>2, StrWordsFirst
<1>9. p + 1 <= Cap /\ b[p + 1][1] = "types" /\ (p + 1) + 1 <= Cap /\ (p + 1) + 1 = p + 2
  BY <1>1
<1>10. Indexed(b, p) = IndexOscValuesLe(b, b[p + 1][2], p + 2)
  BY <1>7, <1>8, <1>9 DEF Indexed
<1>11. Follow(pl, b, tags, p + 2, "net")
  <2>1. ASSUME NEW k \in 1 .. n PROVE pl[k + 1] = pl[k] + Words(b, tags[k], pl[k], "net")
    <3>1. PICK w : w = msg.values[k]
      OBVIOUS
    <3>2. Shaped(tags[k], w) /\ HasWords(b, pl[k], w) /\ pl[k + 1] = pl[k] + Len(w)
      BY <1>6, <3>1
    <3>3. tags[k] \in TagSet
      BY <1>3, <1>4
    <3>4. k \in 1 .. n + 1 /\ k + 1 \in 1 .. n + 1
      BY <1>4
    <3>5. pl[k] \in Nat /\ pl[k + 1] <= Cap /\ pl[k + 1] \in Nat
      BY <1>1, <1>6, <3>4
    <3>6. Len(w) \in Nat
      BY <3>2, SeqOf DEF Shaped
    <3>7. pl[k] + Len(w) - 1 <= Cap
      <4>1. PICK l \in Nat, x \in Nat, y \in Nat : l = Len(w) /\ x = pl[k] /\ y = pl[k + 1]
        BY <3>5, <3>6
      <4>2. y = x + l /\ y <= Cap /\ Cap \in Nat
        BY <1>1, <3>2, <3>5, <4>1
      <4>3. x + l - 1 <= Cap
        BY <4>2
      <4>. QED BY <4>1, <4>3
    <3>8. Words(b, tags[k], pl[k], "net") = Len(w)
      BY <3>2, <3>3, <3>5, <3>7, WordsOf
    <3>. QED BY <3>2, <3>8
  <2>2. pl \in [1 .. n + 1 -> 0 .. Cap]
    <3>1. p + 2 .. e \subseteq 0 .. Cap
      BY <1>1
    <3>. QED BY <1>6, <3>1
  <2>. QED BY <1>4, <1>6, <2>1, <2>2 DEF Follow
<1>12. Places(b, tags, p + 2, "net") = pl
  <2>1. p + 2 \in Nat
    BY <1>1
  <2>. QED BY <1>3, <1>11, <2>1, PlacesOf
<1>13. PICK types : types = b[p + 1][2]
  OBVIOUS
<1>14. Required(types) = tags
  BY <1>1, <1>2, <1>13
<1>15. PICK swapped : swapped = {pl[k] : k \in {k \in DOMAIN tags : tags[k] # "s"}}
  OBVIOUS
<1>16. PICK c : c = [q \in 0 .. Cap |-> IF q \in swapped THEN Swap(b[q]) ELSE b[q]]
  OBVIOUS
<1>17. IndexOscValuesLe(b, types, p + 2) = [buf |-> c, tbuf |-> tags, index |-> pl]
  BY <1>12, <1>14, <1>15, <1>16 DEF IndexOscValuesLe
<1>18. c = SwappedBuf(b, swapped)
  BY <1>16 DEF SwappedBuf
<1>19. swapped = SwappedPlaces(msg, pl)
  BY <1>2, <1>15 DEF SwappedPlaces
<1>. QED BY <1>2, <1>10, <1>13, <1>17, <1>18, <1>19

\* The values of a message are apart from each other.
LEMMA ValuesApart ==
    ASSUME NEW b, NEW p, NEW msg, NEW e, NEW pl, MessageWith(b, p, msg, e, pl),
           NEW n \in Nat, n = Len(msg.tags), NEW k \in 1 .. n
    PROVE  /\ pl[k] \in Nat /\ pl[k] >= p + 2 /\ pl[k] < e /\ p \in Nat /\ e \in Nat /\ e <= Cap
           /\ IsSeq(msg.values[k]) /\ Len(msg.values[k]) \in Nat \ {0}
           /\ HasWords(b, pl[k], msg.values[k]) /\ Shaped(msg.tags[k], msg.values[k])
           /\ pl[k] + Len(msg.values[k]) <= e
           /\ \A l \in 1 .. n : pl[l] \in Nat /\ (l # k => pl[l] < pl[k] \/ pl[l] >= pl[k] + Len(msg.values[k]))
<1>1. /\ p \in Nat /\ e \in p + 2 .. Cap /\ Cap \in Nat
      /\ \A l \in 1 .. n : Shaped(msg.tags[l], msg.values[l])
      /\ pl \in [1 .. n + 1 -> p + 2 .. e] /\ pl[n + 1] = e
      /\ \A i, l \in 1 .. n + 1 : i < l => pl[i] + Len(msg.values[i]) <= pl[l]
      /\ \A l \in 1 .. n : HasWords(b, pl[l], msg.values[l])
  BY OscAssumption DEF MessageWith
<1>2. ASSUME NEW l \in 1 .. n
      PROVE  pl[l] \in Nat /\ pl[l] >= p + 2 /\ IsSeq(msg.values[l]) /\ Len(msg.values[l]) \in Nat \ {0}
             /\ l \in 1 .. n + 1
  <2>1. l \in 1 .. n + 1
    OBVIOUS
  <2>2. pl[l] \in p + 2 .. e
    BY <1>1, <2>1
  <2>3. IsSeq(msg.values[l]) /\ Len(msg.values[l]) >= 1
    BY <1>1 DEF Shaped
  <2>4. Len(msg.values[l]) \in Nat
    BY <2>3, SeqOf
  <2>. QED BY <1>1, <2>1, <2>2, <2>3, <2>4
<1>3. pl[k] + Len(msg.values[k]) <= e
  <2>1. k < n + 1 /\ n + 1 \in 1 .. n + 1
    OBVIOUS
  <2>. QED BY <1>1, <1>2, <2>1
<1>4. ASSUME NEW l \in 1 .. n, l # k
      PROVE  pl[l] < pl[k] \/ pl[l] >= pl[k] + Len(msg.values[k])
  <2>1. CASE l < k
    <3>1. pl[l] + Len(msg.values[l]) <= pl[k]
      BY <1>1, <1>2, <2>1
    <3>. QED BY <1>2, <3>1
  <2>2. CASE l > k
    <3>1. pl[k] + Len(msg.values[k]) <= pl[l]
      BY <1>1, <1>2, <2>2
    <3>. QED BY <1>2, <3>1
  <2>. QED BY <1>4, <2>1, <2>2
<1>. QED BY <1>1, <1>2, <1>3, <1>4

\* %%index-values finds the values of a message as it was sent, puts their
\* words in the order of the host and leaves the words behind it alone.
LEMMA MessageReceived ==
    ASSUME NEW b, IsWords(b), NEW p, NEW msg, NEW e, MessageAt(b, p, msg, e)
    PROVE  Found(Indexed(b, p), b, msg, e)
<1>1. PICK pl : MessageWith(b, p, msg, e, pl)
  BY DEF MessageAt
<1>2. PICK swapped : swapped = SwappedPlaces(msg, pl)
  OBVIOUS
<1>3. PICK c : c = SwappedBuf(b, swapped)
  OBVIOUS
<1>4. PICK i : i = Indexed(b, p)
  OBVIOUS
<1>5. i.buf = c /\ i.tbuf = msg.tags /\ i.index = pl
  <2>1. i = [buf |-> c, tbuf |-> msg.tags, index |-> pl]
    BY <1>1, <1>2, <1>3, <1>4, IndexedAre
  <2>. QED BY <2>1
<1>0. c = [q \in 0 .. Cap |-> IF q \in swapped THEN Swap(b[q]) ELSE b[q]]
  BY <1>3 DEF SwappedBuf
<1>6. msg.tags \in Seq(TagSet)
  <2>1. b[p + 1][2] \in Tags /\ msg.tags = Required(b[p + 1][2])
    BY <1>1 DEF MessageWith
  <2>. QED BY <2>1, RequiredTyped
<1>7. PICK n \in Nat : n = Len(msg.tags)
  BY <1>6
<1>8. DOMAIN msg.tags = 1 .. n
  BY <1>6, <1>7
<1>9. ASSUME NEW k \in 1 .. n
      PROVE  /\ pl[k] \in Nat /\ pl[k] >= p + 2 /\ pl[k] < e /\ p \in Nat /\ e \in Nat /\ e <= Cap
             /\ IsSeq(msg.values[k]) /\ Len(msg.values[k]) \in Nat \ {0}
             /\ HasWords(b, pl[k], msg.values[k]) /\ Shaped(msg.tags[k], msg.values[k])
             /\ pl[k] + Len(msg.values[k]) <= e
             /\ \A l \in 1 .. n :
                   pl[l] \in Nat /\ (l # k => pl[l] < pl[k] \/ pl[l] >= pl[k] + Len(msg.values[k]))
  BY <1>1, <1>7, ValuesApart
<1>10. swapped = {pl[k] : k \in {k \in 1 .. n : msg.tags[k] # "s"}}
  BY <1>2, <1>8 DEF SwappedPlaces
<1>11. IsWords(c)
  BY <1>0 DEF IsWords
<1>12. ASSUME NEW q \in 0 .. Cap, q >= e PROVE c[q] = b[q]
  <2>1. q \notin swapped
    <3>. SUFFICES ASSUME NEW k \in 1 .. n, pl[k] = q PROVE FALSE
      BY <1>10
    <3>. QED BY <1>9, <1>12
  <2>. QED BY <1>0, <2>1
<1>14. Cap \in Nat
  BY OscAssumption
<1>13. ASSUME NEW k \in 1 .. n PROVE PlaceIn(pl[k], msg.values[k])
  <2>1. PICK z \in Nat, l \in Nat : z = pl[k] /\ l = Len(msg.values[k])
    BY <1>9
  <2>2. z >= p + 2 /\ p \in Nat /\ z + l <= e /\ e \in Nat /\ e <= Cap
    BY <1>9, <2>1
  <2>3. z \in Nat \ {0} /\ z + l <= Cap
    BY <1>14, <2>2
  <2>. QED BY <2>1, <2>3 DEF PlaceIn
<1>15. ASSUME NEW k \in 1 .. n, NEW w, w = msg.values[k]
       PROVE  [j \in 1 .. Len(w) |-> c[pl[k] + j - 1]] = [w EXCEPT ![1] = Swap(@)]
  <2>1. PICK z \in Nat : z = pl[k]
    BY <1>9
  <2>2. PICK l \in Nat \ {0} : l = Len(w)
    BY <1>9, <1>15
  <2>3. z + l <= e /\ e \in Nat /\ e <= Cap
    BY <1>9, <1>15, <2>1, <2>2
  <2>4. w = [j \in 1 .. l |-> w[j]] /\ \A j \in 1 .. l : b[z + j - 1] = w[j]
    <3>1. IsSeq(w) /\ HasWords(b, z, w)
      BY <1>9, <1>15, <2>1
    <3>. QED BY <2>2, <3>1, SeqOf DEF HasWords
  <2>5. \A h \in 1 .. n : pl[h] \in Nat /\ (h # k => pl[h] < z \/ pl[h] >= z + l)
    BY <1>9, <1>15, <2>1, <2>2
  <2>6. ASSUME NEW j \in 2 .. l PROVE c[z + j - 1] = w[j]
    <3>1. z + j - 1 \in 0 .. Cap /\ z + j - 1 > z /\ z + j - 1 < z + l /\ j \in 1 .. l
      BY <1>14, <2>3
    <3>2. z + j - 1 \notin swapped
      <4>. SUFFICES ASSUME NEW h \in 1 .. n, pl[h] = z + j - 1 PROVE FALSE
        BY <1>10
      <4>1. CASE h = k
        BY <2>1, <3>1, <4>1
      <4>2. CASE h # k
        BY <2>5, <3>1, <4>2
      <4>. QED BY <4>1, <4>2
    <3>. QED BY <1>0, <2>4, <3>1, <3>2
  <2>7. c[z] = Swap(w[1])
    <3>1. z \in 0 .. Cap /\ 1 \in 1 .. l /\ z + 1 - 1 = z
      BY <1>14, <2>3
    <3>2. b[z] = w[1]
      BY <2>4, <3>1
    <3>3. CASE msg.tags[k] # "s"
      <4>1. z \in swapped
        BY <1>10, <2>1, <3>3
      <4>. QED BY <1>0, <3>1, <3>2, <4>1
    <3>4. CASE msg.tags[k] = "s"
      <4>1. Swap(w[1]) = w[1]
        BY <1>9, <1>15, <3>4 DEF Shaped
      <4>. QED BY <1>0, <3>1, <3>2, <4>1
    <3>. QED BY <3>3, <3>4
  <2>8. ASSUME NEW j \in 1 .. l PROVE c[z + j - 1] = [w EXCEPT ![1] = Swap(@)][j]
    <3>1. CASE j = 1
      <4>1. z + j - 1 = z /\ 1 \in 1 .. l
        BY <3>1
      <4>2. [w EXCEPT ![1] = Swap(@)][1] = Swap(w[1])
        BY <2>4, <4>1
      <4>. QED BY <2>7, <3>1, <4>1, <4>2
    <3>2. CASE j # 1
      <4>1. j \in 2 .. l
        BY <3>2
      <4>2. [w EXCEPT ![1] = Swap(@)][j] = w[j]
        BY <2>4, <3>2
      <4>. QED BY <2>6, <4>1, <4>2
    <3>. QED BY <3>1, <3>2
  <2>9. [w EXCEPT ![1] = Swap(@)] = [j \in 1 .. l |-> [w EXCEPT ![1] = Swap(@)][j]]
    BY <2>4
  <2>10. [j \in 1 .. l |-> c[z + j - 1]] = [w EXCEPT ![1] = Swap(@)]
    BY <2>8, <2>9
  <2>. QED BY <2>1, <2>2, <2>10
<1>16. AsSent(c, pl, msg.tags, msg)
  BY <1>8, <1>15 DEF AsSent
<1>17. Found(i, b, msg, e)
  BY <1>5, <1>8, <1>11, <1>12, <1>13, <1>16 DEF Found
<1>. QED BY <1>4, <1>17

SameFrom(b, c, q) == \A x \in 0 .. Cap : x >= q => c[x] = b[x]

\* Words that are the same from the message on.
LEMMA SameMessage ==
    ASSUME NEW b, NEW c, NEW p, NEW q \in Nat, q <= p, NEW msg, NEW e, MessageAt(b, p, msg, e),
           SameFrom(b, c, q)
    PROVE  MessageAt(c, p, msg, e)
<1>0. \A x \in 0 .. Cap : x >= q => c[x] = b[x]
  BY DEF SameFrom
<1>1. PICK pl : MessageWith(b, p, msg, e, pl)
  BY DEF MessageAt
<1>2. /\ p \in Nat /\ e \in p + 2 .. Cap /\ Cap \in Nat
  BY <1>1, OscAssumption DEF MessageWith
<1>3. c[p] = b[p] /\ c[p + 1] = b[p + 1]
  <2>1. p \in 0 .. Cap /\ p + 1 \in 0 .. Cap /\ p >= q /\ p + 1 >= q
    BY <1>2
  <2>. QED BY <1>0, <2>1
<1>4. PICK n : n = Len(msg.tags)
  OBVIOUS
<1>5. n \in Nat
  <2>1. b[p + 1][2] \in Tags /\ msg.tags = Required(b[p + 1][2])
    BY <1>1 DEF MessageWith
  <2>. QED BY <1>4, <2>1, RequiredTyped
<1>6. ASSUME NEW k \in 1 .. n PROVE HasWords(c, pl[k], msg.values[k])
  <2>1. /\ pl[k] \in Nat /\ pl[k] >= p + 2 /\ e <= Cap
        /\ Len(msg.values[k]) \in Nat \ {0}
        /\ HasWords(b, pl[k], msg.values[k])
        /\ pl[k] + Len(msg.values[k]) <= e
    BY <1>1, <1>4, <1>5, ValuesApart
  <2>2. PICK z \in Nat : z = pl[k]
    BY <2>1
  <2>3. PICK w : w = msg.values[k]
    OBVIOUS
  <2>4. PICK l \in Nat : l = Len(w)
    BY <2>1, <2>3
  <2>5. z + l <= e /\ z >= p + 2 /\ HasWords(b, z, w)
    BY <2>1, <2>2, <2>3, <2>4
  <2>6. ASSUME NEW j \in 1 .. l PROVE c[z + j - 1] = w[j]
    <3>1. z + j - 1 \in 0 .. Cap /\ z + j - 1 >= q
      BY <1>2, <2>5
    <3>2. b[z + j - 1] = w[j]
      BY <2>4, <2>5 DEF HasWords
    <3>. QED BY <1>0, <3>1, <3>2
  <2>7. HasWords(c, z, w)
    BY <2>4, <2>6 DEF HasWords
  <2>. QED BY <2>2, <2>3, <2>7
<1>7. MessageWith(c, p, msg, e, pl)
  BY <1>1, <1>3, <1>4, <1>6 DEF MessageWith
<1>. QED BY <1>7 DEF MessageAt

\* Where a chain begins and ends.
LEMMA ChainOrder ==
    ASSUME NEW b, NEW p, NEW msgs, IsSeq(msgs), NEW e, Chain(b, p, msgs, e)
    PROVE  p \in Nat /\ e \in Nat /\ p <= e /\ (p < e => Len(msgs) > 0)
<1>1. PICK at : ChainWith(b, p, msgs, e, at)
  BY DEF Chain
<1>2. PICK n \in Nat : n = Len(msgs)
  BY SeqOf
<1>3. /\ at \in [1 .. n + 1 -> Nat] /\ at[1] = p /\ at[n + 1] = e
      /\ \A m, l \in 1 .. n + 1 : m < l => at[m] < at[l]
  BY <1>1, <1>2 DEF ChainWith
<1>4. 1 \in 1 .. n + 1 /\ n + 1 \in 1 .. n + 1 /\ (n = 0 => n + 1 = 1) /\ (n # 0 => 1 < n + 1)
  OBVIOUS
<1>5. p \in Nat /\ e \in Nat /\ (n = 0 => p = e) /\ (n # 0 => p < e)
  BY <1>3, <1>4
<1>. QED BY <1>2, <1>5

\* The first message of a chain, and the chain of the others.
ChainParts(b, p, msgs, e, l) ==
    /\ l \in Nat /\ p \in Nat /\ e \in Nat
    /\ b[p] = <<"len", l>> /\ MessageAt(b, p + 1, Head(msgs), p + l + 1)
    /\ Chain(b, p + l + 1, Tail(msgs), e)

\* A chain that is not empty begins with its first message.
LEMMA ChainHead ==
    ASSUME NEW b, NEW p, NEW msgs, IsSeq(msgs), Len(msgs) > 0, NEW e, Chain(b, p, msgs, e)
    PROVE  \E l : ChainParts(b, p, msgs, e, l)
<1>1. PICK at : ChainWith(b, p, msgs, e, at)
  BY DEF Chain
<1>2. PICK n \in Nat : n = Len(msgs)
  BY SeqOf
<1>3. /\ at \in [1 .. n + 1 -> Nat] /\ at[1] = p /\ at[n + 1] = e
      /\ \A m, l \in 1 .. n + 1 : m < l => at[m] < at[l]
      /\ \A m \in 1 .. n : /\ b[at[m]] = <<"len", at[m + 1] - at[m] - 1>>
                           /\ MessageAt(b, at[m] + 1, msgs[m], at[m + 1])
  BY <1>1, <1>2 DEF ChainWith
<1>4. PICK S : msgs \in Seq(S)
  BY DEF IsSeq
<1>5. msgs # <<>> /\ n > 0
  BY <1>2
<1>6. PICK t : t = Tail(msgs)
  OBVIOUS
<1>7. t \in Seq(S) /\ Len(t) = n - 1 /\ \A m \in 1 .. Len(t) : t[m] = msgs[m + 1]
  BY <1>2, <1>4, <1>5, <1>6, HeadTailProperties
<1>8. PICK k \in Nat : k = n - 1
  BY <1>5
<1>9. Len(t) = k /\ \A m \in 1 .. k : t[m] = msgs[m + 1]
  BY <1>7, <1>8
<1>10. Head(msgs) = msgs[1]
  BY <1>4, <1>5
<1>11. /\ 1 \in 1 .. n /\ 1 \in 1 .. n + 1 /\ 2 \in 1 .. n + 1 /\ 1 + 1 = 2
       /\ k + 1 = n /\ n + 1 \in 1 .. n + 1 /\ (k + 1) + 1 = n + 1
  BY <1>5, <1>8
<1>12. p \in Nat /\ e \in Nat /\ at[2] \in Nat /\ p < at[2]
  BY <1>3, <1>11
<1>13. PICK l \in Nat : l = at[2] - p - 1
  BY <1>12
<1>14. at[2] = p + l + 1
  BY <1>12, <1>13
<1>15. b[p] = <<"len", l>> /\ MessageAt(b, p + 1, Head(msgs), p + l + 1)
  <2>1. b[at[1]] = <<"len", at[2] - at[1] - 1>> /\ MessageAt(b, at[1] + 1, msgs[1], at[2])
    BY <1>3, <1>11
  <2>. QED BY <1>3, <1>10, <1>13, <1>14, <2>1
<1>16. PICK a : a = [m \in 1 .. k + 1 |-> at[m + 1]]
  OBVIOUS
<1>17. \A m \in 1 .. k + 1 : a[m] = at[m + 1] /\ m + 1 \in 1 .. n + 1
  BY <1>8, <1>16
<1>18. a \in [1 .. k + 1 -> Nat]
  BY <1>3, <1>16, <1>17
<1>19. a[1] = p + l + 1 /\ a[k + 1] = e
  <2>1. 1 \in 1 .. k + 1 /\ k + 1 \in 1 .. k + 1
    OBVIOUS
  <2>. QED BY <1>3, <1>11, <1>14, <1>17, <2>1
<1>20. ASSUME NEW m \in 1 .. k + 1, NEW h \in 1 .. k + 1, m < h PROVE a[m] < a[h]
  <2>1. m + 1 \in 1 .. n + 1 /\ h + 1 \in 1 .. n + 1 /\ m + 1 < h + 1
    BY <1>17, <1>20
  <2>. QED BY <1>3, <1>17, <2>1
<1>21. ASSUME NEW m \in 1 .. k
       PROVE  /\ b[a[m]] = <<"len", a[m + 1] - a[m] - 1>>
              /\ MessageAt(b, a[m] + 1, t[m], a[m + 1])
  <2>1. m \in 1 .. k + 1 /\ m + 1 \in 1 .. k + 1 /\ m + 1 \in 1 .. n
    BY <1>8
  <2>2. a[m] = at[m + 1] /\ a[m + 1] = at[(m + 1) + 1] /\ t[m] = msgs[m + 1]
    BY <1>9, <1>17, <2>1
  <2>3. /\ b[at[m + 1]] = <<"len", at[(m + 1) + 1] - at[m + 1] - 1>>
        /\ MessageAt(b, at[m + 1] + 1, msgs[m + 1], at[(m + 1) + 1])
    BY <1>3, <2>1
  <2>. QED BY <2>2, <2>3
<1>22. ChainWith(b, p + l + 1, t, e, a)
  BY <1>9, <1>18, <1>19, <1>20, <1>21 DEF ChainWith
<1>23. Chain(b, p + l + 1, t, e)
  BY <1>22 DEF Chain
<1>24. ChainParts(b, p, msgs, e, l)
  BY <1>6, <1>12, <1>15, <1>23 DEF ChainParts
<1>. QED BY <1>24

\* Words that are the same from the chain on.
LEMMA SameChain ==
    ASSUME NEW b, NEW c, NEW p, NEW msgs, IsSeq(msgs), NEW e, Chain(b, p, msgs, e), SameFrom(b, c, p)
    PROVE  Chain(c, p, msgs, e)
<1>1. PICK at : ChainWith(b, p, msgs, e, at)
  BY DEF Chain
<1>2. PICK n \in Nat : n = Len(msgs)
  BY SeqOf
<1>3. /\ at \in [1 .. n + 1 -> Nat] /\ at[1] = p /\ at[n + 1] = e
      /\ \A m, l \in 1 .. n + 1 : m < l => at[m] < at[l]
      /\ \A m \in 1 .. n : /\ b[at[m]] = <<"len", at[m + 1] - at[m] - 1>>
                           /\ MessageAt(b, at[m] + 1, msgs[m], at[m + 1])
  BY <1>1, <1>2 DEF ChainWith
<1>4. ASSUME NEW m \in 1 .. n
      PROVE  /\ c[at[m]] = <<"len", at[m + 1] - at[m] - 1>>
             /\ MessageAt(c, at[m] + 1, msgs[m], at[m + 1])
  <2>1. m \in 1 .. n + 1 /\ 1 \in 1 .. n + 1 /\ (m = 1 \/ 1 < m)
    OBVIOUS
  <2>2. p \in Nat /\ at[m] \in Nat /\ p <= at[m]
    BY <1>3, <2>1
  <2>3. PICK x \in Nat : x = at[m]
    BY <2>2
  <2>4. PICK y : y = at[m + 1]
    OBVIOUS
  <2>5. b[x] = <<"len", y - x - 1>> /\ MessageAt(b, x + 1, msgs[m], y)
    BY <1>3, <2>3, <2>4
  <2>6. y \in (x + 1) + 2 .. Cap /\ Cap \in Nat
    BY <2>5, OscAssumption DEF MessageAt, MessageWith
  <2>7. c[x] = b[x]
    <3>1. x \in 0 .. Cap /\ x >= p
      BY <2>2, <2>3, <2>6
    <3>. QED BY <3>1 DEF SameFrom
  <2>8. MessageAt(c, x + 1, msgs[m], y)
    <3>1. p <= x + 1
      BY <2>2, <2>3
    <3>. QED BY <2>2, <2>5, <3>1, SameMessage
  <2>. QED BY <2>3, <2>4, <2>5, <2>7, <2>8
<1>5. ChainWith(c, p, msgs, e, at)
  BY <1>2, <1>3, <1>4 DEF ChainWith
<1>. QED BY <1>5 DEF Chain

\* The message at p, and what follows it in the bundle.
LEMMA ArrivedRecord ==
    ASSUME NEW b, NEW bundle, NEW end, NEW p, NEW len, NEW lone
    PROVE  /\ IsInput(Arrived(b, bundle, end, p, len, lone))
           /\ Arrived(b, bundle, end, p, len, lone).buf = Indexed(b, p).buf
           /\ Arrived(b, bundle, end, p, len, lone).tbuf = Indexed(b, p).tbuf
           /\ Arrived(b, bundle, end, p, len, lone).index = Indexed(b, p).index
           /\ Arrived(b, bundle, end, p, len, lone).bundle = bundle
           /\ Arrived(b, bundle, end, p, len, lone).end = end
           /\ Arrived(b, bundle, end, p, len, lone).offset = p
           /\ Arrived(b, bundle, end, p, len, lone).length = len
           /\ Arrived(b, bundle, end, p, len, lone).lone = lone
           /\ sent # <<>> => Arrived(b, bundle, end, p, len, lone).now = Head(sent)
<1>1. PICK x : x = Indexed(b, p)
  OBVIOUS
<1>2. PICK y : y = IF sent = <<>> THEN [tags |-> <<"none">>, values |-> <<>>] ELSE Head(sent)
  OBVIOUS
<1>3. PICK i : i = Arrived(b, bundle, end, p, len, lone)
  OBVIOUS
<1>4. i = [buf |-> x.buf, tbuf |-> x.tbuf, index |-> x.index, bundle |-> bundle, end |-> end,
           offset |-> p, length |-> len, lone |-> lone, now |-> y]
  BY <1>1, <1>2, <1>3 DEF Arrived
<1>5. IsInput(i)
  BY <1>4 DEF IsInput
<1>6. /\ i.buf = x.buf /\ i.tbuf = x.tbuf /\ i.index = x.index
      /\ i.bundle = bundle /\ i.end = end /\ i.offset = p /\ i.length = len /\ i.lone = lone
      /\ i.now = y
  BY <1>4
<1>. QED BY <1>1, <1>2, <1>3, <1>5, <1>6

RestAt(b, p, len, e, end) ==
    /\ len \in Nat /\ end \in Nat /\ p + len = e /\ Chain(b, e, Tail(sent), end)

\* A message that arrives is read as it was sent.
LEMMA ArrivedInput ==
    ASSUME SentInv, Len(sent) > 0, NEW b, IsWords(b), NEW p, NEW e, MessageAt(b, p, Head(sent), e),
           NEW bundle, NEW end, NEW len, NEW lone, bundle => RestAt(b, p, len, e, end)
    PROVE  InputOf(Arrived(b, bundle, end, p, len, lone), Tail(sent))
<1>1. PICK i : i = Arrived(b, bundle, end, p, len, lone)
  OBVIOUS
<1>2. PICK x : x = Indexed(b, p)
  OBVIOUS
<1>3. PICK msg : msg = Head(sent)
  OBVIOUS
<1>4. sent # <<>>
  OBVIOUS
<1>5. /\ IsInput(i)
      /\ i.buf = x.buf /\ i.tbuf = x.tbuf /\ i.index = x.index
      /\ i.bundle = bundle /\ i.end = end /\ i.offset = p /\ i.length = len /\ i.lone = lone
      /\ i.now = msg
  BY <1>1, <1>2, <1>3, <1>4, ArrivedRecord
<1>6. Found(x, b, msg, e)
  BY <1>2, <1>3, MessageReceived
<1>7. /\ AsSent(x.buf, x.index, x.tbuf, msg) /\ IsWords(x.buf)
      /\ SameFrom(b, x.buf, e) /\ \A k \in DOMAIN x.tbuf : PlaceIn(x.index[k], msg.values[k])
  BY <1>6 DEF Found, SameFrom
<1>8. AsSent(i.buf, i.index, i.tbuf, i.now) /\ IsWords(i.buf)
  BY <1>5, <1>7
<1>9. ASSUME i.bundle PROVE BundleLeft(i, Tail(sent))
  <2>1. len \in Nat /\ end \in Nat /\ p + len = e /\ Chain(b, e, Tail(sent), end)
    BY <1>5, <1>9 DEF RestAt
  <2>2. p \in Nat
    BY DEF MessageAt, MessageWith
  <2>3. PICK t : t = Tail(sent)
    OBVIOUS
  <2>4. IsSeq(t)
    <3>1. PICK S : sent \in Seq(S)
      BY DEF SentInv, IsSeq
    <3>2. t \in Seq(S)
      BY <1>4, <2>3, <3>1, HeadTailProperties
    <3>. QED BY <3>2 DEF IsSeq
  <2>5. Chain(x.buf, e, t, end)
    <3>1. Chain(b, e, t, end)
      BY <2>1, <2>3
    <3>. QED BY <1>7, <2>4, <3>1, SameChain
  <2>6. Chain(i.buf, i.offset + i.length, t, i.end)
    BY <1>5, <2>1, <2>5
  <2>7. i.offset \in Nat /\ i.length \in Nat /\ i.end \in Nat
    BY <1>5, <2>1, <2>2
  <2>8. \A k \in DOMAIN i.tbuf : PlaceIn(i.index[k], i.now.values[k])
    BY <1>5, <1>7
  <2>. QED BY <2>3, <2>6, <2>7, <2>8 DEF BundleLeft
<1>10. InputOf(i, Tail(sent))
  BY <1>5, <1>8, <1>9 DEF InputOf
<1>. QED BY <1>1, <1>10

\* The messages after the first one.
LEMMA ReceivedSent ==
    ASSUME SentInv, Received
    PROVE  SentInv'
<1>1. PICK S : sent \in Seq(S)
  BY DEF SentInv, IsSeq
<1>2. Len(sent) \in Nat /\ Len(sent) <= MaxMessages /\ MaxMessages \in Nat
  BY <1>1, OscAssumption DEF SentInv
<1>3. CASE sent = <<>>
  <2>1. sent' = sent
    BY <1>3 DEF Received
  <2>. QED BY <2>1 DEF SentInv, IsSeq
<1>4. CASE sent # <<>>
  <2>1. sent' = Tail(sent)
    BY <1>4 DEF Received
  <2>2. sent' \in Seq(S) /\ Len(sent') = Len(sent) - 1
    BY <1>1, <1>4, <2>1, HeadTailProperties
  <2>3. Len(sent') <= MaxMessages
    BY <1>2, <2>2
  <2>. QED BY <2>2, <2>3 DEF SentInv, IsSeq
<1>. QED BY <1>3, <1>4

\* The sequence that is left of the sent one.
LEMMA ReceivedTail ==
    ASSUME SentInv, Received, Len(sent) > 0
    PROVE  sent' = Tail(sent)
<1>1. sent # <<>>
  OBVIOUS
<1>. QED BY <1>1 DEF Received

\* The buffer of the input stream with a packet in it.
LEMMA FitsWords ==
    ASSUME NEW w
    PROVE  IsWords(Fits(w))
<1>1. PICK b : b = Fits(w)
  OBVIOUS
<1>2. b = [p \in 0 .. Cap |-> IF p + 1 \in DOMAIN w THEN w[p + 1] ELSE Zero]
  BY <1>1 DEF Fits
<1>3. b = [p \in 0 .. Cap |-> b[p]]
  BY <1>2
<1>. QED BY <1>1, <1>3 DEF IsWords

\* A packet arrives.
LEMMA PacketReceived ==
    ASSUME SentInv, NetInv, ReceivePacket
    PROVE  InputInv'
<1>1. net # None /\ Received
  BY DEF ReceivePacket
<1>2. PICK w : w = net.words
  OBVIOUS
<1>3. PICK b : b = Fits(w)
  OBVIOUS
<1>4. in' = IF w[1] = <<"hdr">>
            THEN Arrived(b, TRUE, Len(w), Reserved, LengthAt(b, Reserved - 1), net.lone)
            ELSE Arrived(b, FALSE, 0, 0, Len(w), net.lone)
  BY <1>2, <1>3 DEF ReceivePacket
<1>5. IsWords(b)
  BY <1>3, FitsWords
<1>6. CASE net.lone
  <2>1. /\ IsInput(in')
        /\ in'.lone = net.lone
    <3>1. PICK o, n, l, z, t, f : o = net.lone /\ n = Len(w) /\ l = LengthAt(b, Reserved - 1) /\ z = 0 /\ t = TRUE /\ f = FALSE
      OBVIOUS
    <3>2. in' = Arrived(b, t, n, Reserved, l, o) \/ in' = Arrived(b, f, z, z, n, o)
      BY <1>4, <3>1
    <3>3. IsInput(Arrived(b, t, n, Reserved, l, o)) /\ Arrived(b, t, n, Reserved, l, o).lone = o
      BY ArrivedRecord
    <3>4. IsInput(Arrived(b, f, z, z, n, o)) /\ Arrived(b, f, z, z, n, o).lone = o
      BY ArrivedRecord
    <3>. QED BY <3>1, <3>2, <3>3, <3>4
  <2>2. InputOf(in', sent')
    BY <1>6, <2>1 DEF InputOf
  <2>. QED BY <2>2 DEF InputInv
<1>7. CASE ~net.lone
  <2>1. PacketOf(w, sent)
    BY <1>1, <1>2, <1>7 DEF NetInv
  <2>2. CASE w[1] = <<"hdr">>
    <3>1. Len(w) \in Nat /\ Len(sent) > 0 /\ Chain(b, Reserved - 1, sent, Len(w))
      BY <1>3, <2>1, <2>2 DEF PacketOf
    <3>2. IsSeq(sent)
      BY DEF SentInv
    <3>3. PICK n \in Nat : n = Len(w)
      BY <3>1
    <3>4. Reserved = 5 /\ Reserved - 1 = 4
      BY DEF Reserved
    <3>5. Chain(b, 4, sent, n)
      BY <3>1, <3>3, <3>4
    <3>6. PICK l : ChainParts(b, 4, sent, n, l)
      BY <3>1, <3>2, <3>5, ChainHead
    <3>7. /\ l \in Nat /\ b[4] = <<"len", l>> /\ MessageAt(b, 4 + 1, Head(sent), 4 + l + 1)
          /\ Chain(b, 4 + l + 1, Tail(sent), n)
      BY <3>6 DEF ChainParts
    <3>8. PICK e : e = 4 + l + 1
      OBVIOUS
    <3>9. 4 + 1 = 5 /\ 5 + l = e
      BY <3>7, <3>8
    <3>10. MessageAt(b, 5, Head(sent), e) /\ Chain(b, e, Tail(sent), n)
      BY <3>7, <3>8, <3>9
    <3>11. LengthAt(b, 4) = l
      BY <3>7 DEF LengthAt
    <3>12. RestAt(b, 5, l, e, n)
      BY <3>3, <3>7, <3>9, <3>10 DEF RestAt
    <3>13. InputOf(Arrived(b, TRUE, n, 5, l, net.lone), Tail(sent))
      BY <1>5, <3>1, <3>10, <3>12, ArrivedInput
    <3>14. in' = Arrived(b, TRUE, n, 5, l, net.lone)
      BY <1>4, <2>2, <3>3, <3>4, <3>11
    <3>15. sent' = Tail(sent)
      BY <1>1, <3>1, ReceivedTail
    <3>. QED BY <3>13, <3>14, <3>15 DEF InputInv
  <2>3. CASE w[1] # <<"hdr">>
    <3>1. Len(sent) = 1 /\ \E e : MessageAt(b, 0, sent[1], e)
      BY <1>3, <2>1, <2>3 DEF PacketOf
    <3>2. PICK e : MessageAt(b, 0, sent[1], e)
      BY <3>1
    <3>3. PICK S : sent \in Seq(S)
      BY DEF SentInv, IsSeq
    <3>4. Head(sent) = sent[1] /\ Len(sent) > 0
      BY <3>1, <3>3
    <3>5. MessageAt(b, 0, Head(sent), e)
      BY <3>2, <3>4
    <3>6. InputOf(Arrived(b, FALSE, 0, 0, Len(w), net.lone), Tail(sent))
      BY <1>5, <3>4, <3>5, ArrivedInput
    <3>7. sent' = Tail(sent)
      BY <1>1, <3>4, ReceivedTail
    <3>. QED BY <1>4, <2>3, <3>6, <3>7 DEF InputInv
  <2>. QED BY <2>2, <2>3
<1>. QED BY <1>6, <1>7

\* The next message of the bundle.
LEMMA NextReceived ==
    ASSUME SentInv, InputInv, ReceiveNext
    PROVE  InputInv'
<1>1. PICK p : p = in.offset + in.length
  OBVIOUS
<1>2. PICK b : b = in.buf
  OBVIOUS
<1>3. /\ in.bundle /\ p < in.end /\ Received
      /\ in' = Arrived(b, TRUE, in.end, p + 1, LengthAt(b, p), in.lone)
  BY <1>1, <1>2 DEF ReceiveNext, MoreOfBundle
<1>4. CASE in.lone
  <2>1. /\ IsInput(in')
        /\ in'.lone = in.lone
    <3>1. PICK o, n, l, q, t : o = in.lone /\ n = in.end /\ l = LengthAt(b, p) /\ q = p + 1 /\ t = TRUE
      OBVIOUS
    <3>2. in' = Arrived(b, t, n, q, l, o)
      BY <1>3, <3>1
    <3>3. IsInput(Arrived(b, t, n, q, l, o)) /\ Arrived(b, t, n, q, l, o).lone = o
      BY ArrivedRecord
    <3>. QED BY <3>1, <3>2, <3>3
  <2>2. InputOf(in', sent')
    BY <1>4, <2>1 DEF InputOf
  <2>. QED BY <2>2 DEF InputInv
<1>5. CASE ~in.lone
  <2>1. BundleLeft(in, sent) /\ IsWords(b)
    BY <1>2, <1>3, <1>5 DEF InputInv, InputOf
  <2>2. PICK n : n = in.end
    OBVIOUS
  <2>3. n \in Nat /\ p \in Nat /\ Chain(b, p, sent, n) /\ p < n
    BY <1>1, <1>2, <1>3, <2>1, <2>2 DEF BundleLeft
  <2>4. IsSeq(sent)
    BY DEF SentInv
  <2>5. Len(sent) > 0
    BY <2>3, <2>4, ChainOrder
  <2>6. PICK l : ChainParts(b, p, sent, n, l)
    BY <2>3, <2>4, <2>5, ChainHead
  <2>7. /\ l \in Nat /\ b[p] = <<"len", l>> /\ MessageAt(b, p + 1, Head(sent), p + l + 1)
        /\ Chain(b, p + l + 1, Tail(sent), n)
    BY <2>6 DEF ChainParts
  <2>8. PICK e : e = p + l + 1
    OBVIOUS
  <2>9. (p + 1) + l = e
    BY <2>3, <2>7, <2>8
  <2>10. MessageAt(b, p + 1, Head(sent), e) /\ Chain(b, e, Tail(sent), n)
    BY <2>7, <2>8
  <2>11. LengthAt(b, p) = l
    BY <2>7 DEF LengthAt
  <2>12. RestAt(b, p + 1, l, e, n)
    BY <2>3, <2>7, <2>9, <2>10 DEF RestAt
  <2>13. InputOf(Arrived(b, TRUE, n, p + 1, l, in.lone), Tail(sent))
    BY <2>1, <2>5, <2>10, <2>12, ArrivedInput
  <2>14. in' = Arrived(b, TRUE, n, p + 1, l, in.lone)
    BY <1>3, <2>2, <2>11
  <2>15. sent' = Tail(sent)
    BY <1>3, <2>5, ReceivedTail
  <2>. QED BY <2>13, <2>14, <2>15 DEF InputInv
<1>. QED BY <1>4, <1>5

\* The end of the bundle: the first word of the buffer, before each value.
LEMMA EndReceived ==
    ASSUME InputInv, EndOfBundle
    PROVE  InputInv'
<1>1. in.bundle /\ in' = [in EXCEPT !.bundle = FALSE, !.offset = 0, !.buf[0] = Zero] /\ sent' = sent
  BY DEF EndOfBundle
<1>2. PICK b : b = in.buf
  OBVIOUS
<1>3. PICK c : c = [b EXCEPT ![0] = Zero]
  OBVIOUS
<1>4. in = [buf |-> in.buf, tbuf |-> in.tbuf, index |-> in.index, bundle |-> in.bundle,
            end |-> in.end, offset |-> in.offset, length |-> in.length, lone |-> in.lone,
            now |-> in.now]
  BY DEF InputInv, InputOf, IsInput
<1>5. in' = [buf |-> c, tbuf |-> in.tbuf, index |-> in.index, bundle |-> FALSE,
             end |-> in.end, offset |-> 0, length |-> in.length, lone |-> in.lone,
             now |-> in.now]
  BY <1>1, <1>2, <1>3, <1>4
<1>6. /\ in'.buf = c /\ in'.tbuf = in.tbuf /\ in'.index = in.index /\ in'.bundle = FALSE
      /\ in'.lone = in.lone /\ in'.now = in.now
      /\ IsInput(in')
  BY <1>5 DEF IsInput
<1>7. ASSUME ~in.lone PROVE IsWords(c) /\ AsSent(c, in.index, in.tbuf, in.now)
  <2>1. IsWords(b) /\ AsSent(b, in.index, in.tbuf, in.now) /\ BundleLeft(in, sent)
    BY <1>1, <1>2, <1>7 DEF InputInv, InputOf
  <2>2. b = [p \in 0 .. Cap |-> b[p]]
    BY <2>1 DEF IsWords
  <2>3. ASSUME NEW p \in 0 .. Cap, p # 0 PROVE c[p] = b[p]
    BY <1>3, <2>2, <2>3
  <2>4. IsWords(c)
    <3>1. c = [p \in 0 .. Cap |-> IF p = 0 THEN Zero ELSE b[p]]
      BY <1>3, <2>2
    <3>. QED BY <3>1 DEF IsWords
  <2>5. ASSUME NEW k \in DOMAIN in.tbuf, NEW w, w = in.now.values[k]
        PROVE  [j \in 1 .. Len(w) |-> c[in.index[k] + j - 1]] = [w EXCEPT ![1] = Swap(@)]
    <3>1. [j \in 1 .. Len(w) |-> b[in.index[k] + j - 1]] = [w EXCEPT ![1] = Swap(@)]
      BY <2>1, <2>5 DEF AsSent
    <3>2. PICK z \in Nat \ {0}, l \in Nat : z = in.index[k] /\ l = Len(w) /\ z + l <= Cap
      BY <2>1, <2>5 DEF BundleLeft, PlaceIn
    <3>3. ASSUME NEW j \in 1 .. l PROVE c[z + j - 1] = b[z + j - 1]
      <4>1. z + j - 1 \in 0 .. Cap /\ z + j - 1 # 0
        <5>1. j \in Nat \ {0} /\ j <= l /\ Cap \in Nat /\ z + l <= Cap
          BY <3>2, OscAssumption
        <5>. QED BY <5>1
      <4>. QED BY <2>3, <4>1
    <3>4. [j \in 1 .. l |-> c[z + j - 1]] = [j \in 1 .. l |-> b[z + j - 1]]
      BY <3>3
    <3>. QED BY <3>1, <3>2, <3>4
  <2>6. AsSent(c, in.index, in.tbuf, in.now)
    BY <2>1, <2>5 DEF AsSent
  <2>. QED BY <2>4, <2>6
<1>8. InputOf(in', sent')
  BY <1>6, <1>7 DEF InputOf
<1>. QED BY <1>8 DEF InputInv

\* The rest of the bundle is dropped.
LEMMA FlushReceived ==
    ASSUME InputInv, FlushBundle
    PROVE  InputInv'
<1>1. in' = [in EXCEPT !.end = in.offset + in.length] /\ sent' = <<>> /\ in.bundle
  BY DEF FlushBundle
<1>2. PICK n : n = in.offset + in.length
  OBVIOUS
<1>3. in = [buf |-> in.buf, tbuf |-> in.tbuf, index |-> in.index, bundle |-> in.bundle,
            end |-> in.end, offset |-> in.offset, length |-> in.length, lone |-> in.lone,
            now |-> in.now]
  BY DEF InputInv, InputOf, IsInput
<1>4. in' = [buf |-> in.buf, tbuf |-> in.tbuf, index |-> in.index, bundle |-> in.bundle,
             end |-> n, offset |-> in.offset, length |-> in.length, lone |-> in.lone,
             now |-> in.now]
  BY <1>1, <1>2, <1>3
<1>5. /\ in'.buf = in.buf /\ in'.tbuf = in.tbuf /\ in'.index = in.index /\ in'.end = n
      /\ in'.offset = in.offset /\ in'.length = in.length
      /\ in'.lone = in.lone /\ in'.now = in.now
      /\ IsInput(in')
  BY <1>4 DEF IsInput
<1>6. ASSUME ~in.lone
      PROVE  IsWords(in.buf) /\ AsSent(in.buf, in.index, in.tbuf, in.now) /\ BundleLeft(in', sent')
  <2>1. IsWords(in.buf) /\ AsSent(in.buf, in.index, in.tbuf, in.now) /\ BundleLeft(in, sent)
    BY <1>1, <1>6 DEF InputInv, InputOf
  <2>2. /\ in.offset \in Nat /\ in.length \in Nat /\ n \in Nat
        /\ \A k \in DOMAIN in.tbuf : PlaceIn(in.index[k], in.now.values[k])
    BY <1>2, <2>1 DEF BundleLeft
  <2>3. ChainWith(in.buf, n, <<>>, n, [m \in 1 .. 1 |-> n])
    <3>1. Len(<<>>) = 0 /\ 0 + 1 = 1
      OBVIOUS
    <3>2. PICK at : at = [m \in 1 .. 1 |-> n]
      OBVIOUS
    <3>3. at \in [1 .. 1 -> Nat] /\ at[1] = n
      BY <2>2, <3>2
    <3>4. ChainWith(in.buf, n, <<>>, n, at)
      BY <3>1, <3>3 DEF ChainWith
    <3>. QED BY <3>2, <3>4
  <2>4. Chain(in.buf, n, <<>>, n)
    BY <2>3 DEF Chain
  <2>5. BundleLeft(in', sent')
    BY <1>1, <1>2, <1>5, <2>2, <2>4 DEF BundleLeft
  <2>. QED BY <2>1, <2>5
<1>7. InputOf(in', sent')
  BY <1>5, <1>6 DEF InputOf
<1>. QED BY <1>7 DEF InputInv

\* What is sent.
LEMMA PacketSent ==
    ASSUME OutputInv, NetInv, InputInv, Send
    PROVE  SentInv' /\ NetInv' /\ InputInv'
<1>1. /\ build.at = "ready" /\ ~in.bundle /\ in' = in /\ sent' = Messages
      /\ net' = [words |-> Packet, lone |-> build.lone]
  BY DEF Send
<1>2. PICK w : w = Packet
  OBVIOUS
<1>3. net'.words = w /\ net'.lone = build.lone
  BY <1>1, <1>2
<1>4. PICK at, first : BegunInv(at, first)
  BY <1>1 DEF OutputInv
<1>5. IsSeq(Messages) /\ Len(Messages) = MessageCount
  BY <1>4, MessagesSent
<1>6. MessageCount >= 1 /\ MessageCount <= MaxMessages /\ build.lone \in BOOLEAN
  BY <1>4 DEF BegunInv
<1>7. SentInv'
  BY <1>1, <1>5, <1>6 DEF SentInv, IsSeq
<1>8. ASSUME ~build.lone PROVE PacketOf(w, Messages)
  <2>1. CASE build.bundle
    <3>1. w[1] = <<"hdr">> /\ Len(w) \in Nat /\ Chain(Fits(w), Reserved - 1, Messages, Len(w))
      BY <1>1, <1>2, <1>4, <1>8, <2>1, BundleSent
    <3>2. MessageCount > 0
      <4>1. MessageCount \in Nat
        BY <1>4 DEF BegunInv
      <4>. QED BY <1>6, <4>1
    <3>3. Len(Messages) > 0
      BY <1>5, <3>2
    <3>. QED BY <3>1, <3>3 DEF PacketOf
  <2>2. CASE ~build.bundle
    <3>1. w[1] # <<"hdr">> /\ Len(Messages) = 1 /\ \E e : MessageAt(Fits(w), 0, Messages[1], e)
      BY <1>1, <1>2, <1>4, <1>8, <2>2, MessageAloneSent
    <3>. QED BY <3>1 DEF PacketOf
  <2>. QED BY <2>1, <2>2
<1>9. NetInv'
  <2>1. ASSUME ~net'.lone PROVE PacketOf(net'.words, sent')
    BY <1>1, <1>3, <1>8, <2>1
  <2>. QED BY <1>1, <2>1 DEF NetInv
<1>10. InputInv'
  <2>1. InputOf(in, Messages)
    BY <1>1 DEF InputInv, InputOf
  <2>. QED BY <1>1, <2>1 DEF InputInv
<1>. QED BY <1>7, <1>9, <1>10
-----------------------------------------------------------------------------
(* The invariant *)

\* No message is begun and none is in transit.
LEMMA PacketFirst ==
    ASSUME PacketInit
    PROVE  PacketIInv
<1>1. PICK none : none = Zero
  OBVIOUS
<1>2. /\ buf = [p \in 0 .. Cap |-> none] /\ index = <<1>> /\ free = 1 /\ tbuf = <<>>
      /\ length = 0 /\ bundleLen = 0 /\ single = TRUE
      /\ build = Idle /\ sets = 0 /\ written = <<>> /\ parts = <<>> /\ net = None /\ sent = <<>>
      /\ in = [buf |-> [p \in 0 .. Cap |-> none], tbuf |-> <<>>, index |-> <<0>>, bundle |-> FALSE,
               end |-> 0, offset |-> 0, length |-> 0, lone |-> FALSE,
               now |-> [tags |-> <<>>, values |-> <<>>]]
  BY <1>1 DEF PacketInit
<1>3. Cap \in Nat \ {0} /\ MaxSets \in Nat /\ MaxMessages \in Nat
  BY OscAssumption
<1>4. IsBuffer(buf)
  <2>1. none[1] # "len"
    BY <1>1 DEF Zero
  <2>2. \A p \in 0 .. Cap : buf[p] = none
    BY <1>2
  <2>3. buf = [p \in 0 .. Cap |-> buf[p]]
    BY <1>2
  <2>. QED BY <2>1, <2>2, <2>3 DEF IsBuffer
<1>5. IndexInv
  <2>1. TagCount = 0 /\ Len(written) = 0 /\ Len(index) = 1 /\ DOMAIN tbuf = {} /\ DOMAIN index = {1}
    BY <1>2 DEF TagCount
  <2>2. tbuf \in Seq(TagSet) /\ index \in Seq(Nat) /\ index[1] = free
    BY <1>2
  <2>3. IsSeq(written)
    <3>1. written \in Seq(Nat)
      BY <1>2
    <3>. QED BY <3>1 DEF IsSeq
  <2>4. \A k, l \in DOMAIN index : ~(k < l)
    BY <2>1
  <2>. QED BY <2>1, <2>2, <2>3, <2>4 DEF IndexInv
<1>6. OutputInv
  <2>1. build.at = "idle"
    BY <1>2 DEF Idle
  <2>2. parts \in Seq(Tags)
    BY <1>2
  <2>3. free \in 1 .. Cap /\ length \in 0 .. Cap /\ bundleLen \in Nat /\ sets \in 0 .. MaxSets
        /\ single \in BOOLEAN
    BY <1>2, <1>3
  <2>. QED BY <1>2, <1>4, <1>5, <2>1, <2>2, <2>3 DEF OutputInv
<1>7. SentInv
  <2>1. sent \in Seq(Nat) /\ Len(sent) = 0
    BY <1>2
  <2>2. Len(sent) <= MaxMessages
    BY <1>3, <2>1
  <2>. QED BY <2>1, <2>2 DEF SentInv, IsSeq
<1>8. NetInv
  BY <1>2 DEF NetInv
<1>9. InputInv
  <2>1. IsInput(in)
    BY <1>2 DEF IsInput
  <2>2. /\ in.buf = [p \in 0 .. Cap |-> none] /\ in.tbuf = <<>> /\ in.bundle = FALSE
        /\ in.now.tags = <<>>
    BY <1>2
  <2>3. IsWords(in.buf)
    BY <2>2 DEF IsWords
  <2>4. AsSent(in.buf, in.index, in.tbuf, in.now)
    <3>1. DOMAIN in.tbuf = {}
      BY <2>2
    <3>. QED BY <2>2, <3>1 DEF AsSent
  <2>5. InputOf(in, sent)
    BY <2>1, <2>2, <2>3, <2>4 DEF InputOf
  <2>. QED BY <2>5 DEF InputInv
<1>. QED BY <1>6, <1>7, <1>8, <1>9 DEF PacketIInv

\* The output stream leaves the network and the input stream alone.
LEMMA KeepsInput ==
    ASSUME SentInv, NetInv, InputInv, UNCHANGED <<net, in, sent>>
    PROVE  SentInv' /\ NetInv' /\ InputInv'
<1>1. net' = net /\ in' = in /\ sent' = sent
  OBVIOUS
<1>2. SentInv'
  BY <1>1 DEF SentInv, IsSeq
<1>3. NetInv'
  BY <1>1 DEF NetInv, PacketOf
<1>4. InputInv'
  <2>1. InputOf(in, sent)
    BY DEF InputInv
  <2>. QED BY <1>1, <2>1 DEF InputInv
<1>. QED BY <1>2, <1>3, <1>4

\* Each step of the streams keeps the invariant.
LEMMA PacketKept ==
    ASSUME PacketIInv, [PacketNext]_packetVars
    PROVE  PacketIInv'
<1>1. OutputInv /\ SentInv /\ NetInv /\ InputInv
  BY DEF PacketIInv
<1>2. CASE UNCHANGED packetVars
  <2>1. UNCHANGED <<output, build, sets, written, parts>> /\ UNCHANGED <<net, in, sent>>
    BY <1>2 DEF packetVars
  <2>. QED BY <1>1, <2>1, KeepsOutput, KeepsInput DEF PacketIInv
<1>3. ASSUME NEW types \in TypeTags, NEW simple \in BOOLEAN, StartMessage(types, simple)
      PROVE  PacketIInv'
  <2>1. 0 \in 0 .. MaxMessages - 1
    BY OscAssumption
  <2>2. OutputInv'
    BY <1>1, <1>3, <2>1, StartOutput
  <2>3. UNCHANGED <<net, in, sent>>
    BY <1>3 DEF StartMessage
  <2>. QED BY <1>1, <2>2, <2>3, KeepsInput DEF PacketIInv
<1>4. ASSUME NEW types \in TypeTags, NEW more \in 0 .. MaxMessages - 1, StartBundle(types, more)
      PROVE  PacketIInv'
  <2>1. TRUE \in BOOLEAN
    OBVIOUS
  <2>2. OutputInv'
    BY <1>1, <1>4, <2>1, StartOutput
  <2>3. UNCHANGED <<net, in, sent>>
    BY <1>4 DEF StartBundle
  <2>. QED BY <1>1, <2>2, <2>3, KeepsInput DEF PacketIInv
<1>5. ASSUME build.at = "values", build.next <= Len(tbuf),
             NEW v \in Values(tbuf[build.next], build.next), BundleValue(v)
      PROVE  PacketIInv'
  <2>1. build.next <= TagCount
    BY <1>5 DEF TagCount
  <2>2. OutputInv'
    BY <1>1, <1>5, <2>1, BundleValueOutput
  <2>3. UNCHANGED <<net, in, sent>>
    BY <1>5 DEF BundleValue
  <2>. QED BY <1>1, <2>2, <2>3, KeepsInput DEF PacketIInv
<1>6. ASSUME NEW types \in TypeTags, AppendMessage(types)
      PROVE  PacketIInv'
  <2>1. OutputInv'
    BY <1>1, <1>6, AppendOutput
  <2>2. UNCHANGED <<net, in, sent>>
    BY <1>6 DEF AppendMessage
  <2>. QED BY <1>1, <2>1, <2>2, KeepsInput DEF PacketIInv
<1>7. CASE FinishBundle
  <2>1. OutputInv'
    BY <1>1, <1>7, FinishOutput
  <2>2. UNCHANGED <<net, in, sent>>
    BY <1>7 DEF FinishBundle
  <2>. QED BY <1>1, <2>1, <2>2, KeepsInput DEF PacketIInv
<1>8. ASSUME NEW i \in DOMAIN tbuf, NEW v \in Values(tbuf[i], Len(tbuf) + 1 + sets), SetValue(i, v)
      PROVE  PacketIInv'
  <2>1. PICK id : id = Len(tbuf) + 1 + sets
    OBVIOUS
  <2>2. v \in Values(tbuf[i], id)
    BY <2>1
  <2>3. OutputInv'
    BY <1>1, <1>8, <2>2, SetValueOutput
  <2>4. UNCHANGED <<net, in, sent>>
    BY <1>8 DEF SetValue
  <2>. QED BY <1>1, <2>3, <2>4, KeepsInput DEF PacketIInv
<1>9. CASE Send
  <2>1. OutputInv'
    <3>1. UNCHANGED <<output, build, sets, written, parts>>
      BY <1>9 DEF Send
    <3>. QED BY <1>1, <3>1, KeepsOutput
  <2>. QED BY <1>1, <1>9, <2>1, PacketSent DEF PacketIInv
<1>10. CASE ReceivePacket
  <2>1. UNCHANGED <<output, build, sets, written, parts>> /\ net' = None /\ Received
    BY <1>10 DEF ReceivePacket
  <2>2. OutputInv'
    BY <1>1, <2>1, KeepsOutput
  <2>3. SentInv'
    BY <1>1, <2>1, ReceivedSent
  <2>4. NetInv'
    BY <2>1 DEF NetInv, None
  <2>. QED BY <1>1, <1>10, <2>2, <2>3, <2>4, PacketReceived DEF PacketIInv
<1>11. CASE ReceiveNext
  <2>1. UNCHANGED <<output, build, sets, written, parts>> /\ net' = net /\ Received /\ in.bundle
    BY <1>11 DEF ReceiveNext
  <2>2. OutputInv'
    BY <1>1, <2>1, KeepsOutput
  <2>3. SentInv'
    BY <1>1, <2>1, ReceivedSent
  <2>4. NetInv'
    BY <1>1, <2>1 DEF NetInv, None
  <2>. QED BY <1>1, <1>11, <2>2, <2>3, <2>4, NextReceived DEF PacketIInv
<1>12. CASE EndOfBundle
  <2>1. UNCHANGED <<output, build, sets, written, parts>> /\ net' = net /\ sent' = sent /\ in.bundle
    BY <1>12 DEF EndOfBundle
  <2>2. OutputInv'
    BY <1>1, <2>1, KeepsOutput
  <2>3. SentInv'
    BY <1>1, <2>1 DEF SentInv, IsSeq
  <2>4. NetInv'
    BY <1>1, <2>1 DEF NetInv, None
  <2>. QED BY <1>1, <1>12, <2>2, <2>3, <2>4, EndReceived DEF PacketIInv
<1>13. CASE FlushBundle
  <2>1. UNCHANGED <<output, build, sets, written, parts>> /\ net' = net /\ sent' = <<>> /\ in.bundle
    BY <1>13 DEF FlushBundle
  <2>2. OutputInv'
    BY <1>1, <2>1, KeepsOutput
  <2>3. SentInv'
    <3>1. sent' \in Seq(Nat) /\ Len(sent') = 0 /\ MaxMessages \in Nat
      BY <2>1, OscAssumption
    <3>2. Len(sent') <= MaxMessages
      BY <3>1
    <3>. QED BY <3>1, <3>2 DEF SentInv, IsSeq
  <2>4. NetInv'
    BY <1>1, <2>1 DEF NetInv, None
  <2>. QED BY <1>1, <1>13, <2>2, <2>3, <2>4, FlushReceived DEF PacketIInv
<1>14. PacketNext \/ UNCHANGED packetVars
  OBVIOUS
<1>. QED BY <1>2, <1>3, <1>4, <1>5, <1>6, <1>7, <1>8, <1>9, <1>10, <1>11, <1>12, <1>13, <1>14
     DEF PacketNext

\* The index is in the buffer.
LEMMA IndexRange ==
    ASSUME OutputInv, NEW k \in DOMAIN index
    PROVE  index[k] \in 1 .. Cap
<1>1. /\ tbuf \in Seq(TagSet) /\ index \in Seq(Nat) /\ Len(index) = TagCount + 1
      /\ \A h \in DOMAIN tbuf : Shaped(tbuf[h], written[h])
      /\ \A h, l \in DOMAIN index : h < l => index[h] + ValueWords(h) <= index[l]
      /\ index[Len(index)] = free /\ free \in 1 .. Cap /\ Cap \in Nat
  BY OscAssumption DEF OutputInv, IndexInv
<1>2. PICK n \in Nat : n = TagCount
  BY <1>1 DEF TagCount
<1>3. DOMAIN tbuf = 1 .. n /\ DOMAIN index = 1 .. n + 1 /\ index[n + 1] = free
  BY <1>1, <1>2 DEF TagCount
<1>4. CASE k = n + 1
  BY <1>1, <1>3, <1>4
<1>5. CASE k # n + 1
  <2>1. k \in 1 .. n /\ n + 1 \in 1 .. n + 1 /\ k < n + 1
    BY <1>3, <1>5
  <2>2. index[k] \in Nat
    BY <1>1
  <2>3. ValueWords(k) \in Nat
    <3>1. IsSeq(written[k])
      BY <1>1, <1>3, <2>1 DEF Shaped
    <3>. QED BY <3>1, SeqOf DEF ValueWords
  <2>4. index[k] + ValueWords(k) <= free
    BY <1>1, <1>3, <2>1
  <2>5. index[k] <= Cap
    BY <1>1, <2>2, <2>3, <2>4
  <2>6. build.at # "idle"
    <3>. SUFFICES ASSUME build.at = "idle" PROVE FALSE
      OBVIOUS
    <3>1. tbuf = <<>>
      BY DEF OutputInv
    <3>2. n = 0
      BY <1>2, <3>1 DEF TagCount
    <3>. QED BY <2>1, <3>2
  <2>7. PICK at, first : BegunInv(at, first)
    BY <2>6 DEF OutputInv
  <2>8. MessageParts(at, first) /\ Apart(at, first) /\ MessageCount \in 1 .. MaxMessages
        /\ MaxMessages \in Nat
    BY <2>7, OscAssumption DEF BegunInv, Layout
  <2>9. 1 \in 1 .. MessageCount + 1 /\ at[1] = 0 /\ first[1] = 0
    BY <2>8 DEF MessageParts
  <2>10. index[k] >= at[1] + 3
    <3>1. k > first[1] /\ k \in DOMAIN tbuf
      BY <1>3, <2>1, <2>9
    <3>. QED BY <2>8, <2>9, <3>1 DEF Apart
  <2>. QED BY <1>1, <2>2, <2>5, <2>9, <2>10
<1>. QED BY <1>4, <1>5

\* The index and the counters of the streams are in their ranges.
LEMMA PacketTyped ==
    ASSUME OutputInv, SentInv
    PROVE  PacketTypeOK
<1>1. Len(index) = Len(tbuf) + 1 /\ Len(written) = Len(tbuf)
  BY DEF OutputInv, IndexInv, TagCount
<1>2. \A k \in DOMAIN index : index[k] \in 1 .. Cap
  BY IndexRange
<1>3. free \in 1 .. Cap /\ length \in 0 .. Cap /\ sets \in 0 .. MaxSets
  BY DEF OutputInv
<1>4. Len(sent) <= MaxMessages
  BY DEF SentInv
<1>. QED BY <1>1, <1>2, <1>3, <1>4 DEF PacketTypeOK

\* The values are at the places of the index.
LEMMA ValuesAreKept ==
    ASSUME OutputInv
    PROVE  ValuesKept
<1>1. /\ \A k \in DOMAIN tbuf : Shaped(tbuf[k], written[k])
      /\ \A k \in DOMAIN tbuf : HasWords(buf, index[k], written[k])
      /\ index[Len(index)] = free
  BY DEF OutputInv, IndexInv
<1>2. ASSUME NEW i \in DOMAIN tbuf
      PROVE  [k \in 1 .. Len(written[i]) |-> buf[index[i] + k - 1]] = written[i]
  <2>1. PICK w : w = written[i]
    OBVIOUS
  <2>2. PICK z : z = index[i]
    OBVIOUS
  <2>3. IsSeq(w) /\ HasWords(buf, z, w)
    BY <1>1, <2>1, <2>2 DEF Shaped
  <2>4. w = [k \in 1 .. Len(w) |-> w[k]]
    BY <2>3, SeqOf
  <2>5. \A k \in 1 .. Len(w) : buf[z + k - 1] = w[k]
    BY <2>3 DEF HasWords
  <2>6. [k \in 1 .. Len(w) |-> buf[z + k - 1]] = [k \in 1 .. Len(w) |-> w[k]]
    BY <2>5
  <2>. QED BY <2>1, <2>2, <2>4, <2>6
<1>. QED BY <1>1, <1>2 DEF ValuesKept

\* The length words lead from one message to the next.
LEMMA LengthsAreChain ==
    ASSUME OutputInv
    PROVE  LengthsChain
<1>. SUFFICES ASSUME build.at = "ready", ~build.lone
              PROVE  LET starts == LengthWords(buf, free)
                     IN  /\ Cardinality(starts) = Len(parts)
                         /\ \A p \in starts : buf[p + 1] = <<"addr">>
                         /\ LET last == Max(starts) IN last + buf[last][2] + 1 = free
                         /\ length = free - 1
                         /\ build.bundle => bundleLen = length + Reserved
  BY DEF LengthsChain
<1>1. PICK at, first : BegunInv(at, first)
  BY DEF OutputInv
<1>2. PICK n \in 1 .. MaxMessages : n = MessageCount
  BY <1>1 DEF BegunInv
<1>3. n \in Nat /\ n >= 1
  BY <1>2, OscAssumption
<1>4. /\ IsBuffer(buf) /\ free \in 0 .. Cap /\ Cap \in Nat
  BY OscAssumption DEF OutputInv
<1>5. /\ at \in [1 .. n + 1 -> Nat] /\ at[1] = 0 /\ at[n + 1] = free
      /\ \A m, l \in 1 .. n + 1 : m < l => at[m] + 3 <= at[l]
      /\ \A m \in 1 .. n : buf[at[m] + 1] = <<"addr">>
      /\ \A m \in 1 .. n : buf[at[m]] = <<"len", at[m + 1] - at[m] - 1>>
  BY <1>1, <1>2 DEF BegunInv, Layout, MessageParts, MessagePlaces, LengthWordsRight
<1>6. Fill(buf, n, at, free)
  <2>1. \A m \in 1 .. n + 1 : at[m] \in Nat
    BY <1>5
  <2>2. ASSUME NEW m \in 1 .. n + 1, NEW l \in 1 .. n + 1, m < l PROVE at[m] < at[l]
    <3>1. PICK x \in Nat, y \in Nat : x = at[m] /\ y = at[l]
      BY <2>1
    <3>2. x + 3 <= y
      BY <1>5, <2>2, <3>1
    <3>3. x < y
      BY <3>2
    <3>. QED BY <3>1, <3>3
  <2>. QED BY <1>5, <2>1, <2>2 DEF Fill
<1>7. PICK starts : starts = LengthWords(buf, free)
  OBVIOUS
<1>8. starts = {at[m] : m \in 1 .. n} /\ Cardinality(starts) = n /\ Max(starts) = at[n]
  BY <1>2, <1>4, <1>6, <1>7, AllLengthWords
<1>9. \A p \in starts : buf[p + 1] = <<"addr">>
  BY <1>5, <1>8
<1>10. PICK last : last = Max(starts)
  OBVIOUS
<1>11. last + buf[last][2] + 1 = free
  <2>1. n \in 1 .. n /\ n \in 1 .. n + 1 /\ n + 1 \in 1 .. n + 1
    BY <1>3
  <2>2. PICK x \in Nat : x = at[n]
    BY <1>5, <2>1
  <2>3. PICK y \in Nat : y = free
    BY <1>4
  <2>4. buf[x] = <<"len", y - x - 1>>
    BY <1>5, <2>1, <2>2, <2>3
  <2>5. buf[x][2] = y - x - 1
    BY <2>4
  <2>6. last = x
    BY <1>8, <1>10, <2>2
  <2>7. x + (y - x - 1) + 1 = y
    OBVIOUS
  <2>. QED BY <2>3, <2>5, <2>6, <2>7
<1>12. length = free - 1 /\ (build.bundle => bundleLen = length + Reserved)
  BY <1>1 DEF BegunInv, ReadyInv
<1>13. Cardinality(starts) = Len(parts)
  BY <1>2, <1>8 DEF MessageCount
<1>. QED BY <1>7, <1>9, <1>10, <1>11, <1>12, <1>13

\* The invariant holds of every reachable state of the streams.
THEOREM PacketIInvariant == PacketSpec => []PacketIInv
<1>1. PacketInit => PacketIInv
  BY PacketFirst
<1>2. PacketIInv /\ [PacketNext]_packetVars => PacketIInv'
  BY PacketKept
<1>. QED BY <1>1, <1>2, PTL DEF PacketSpec

\* After any sequence of start-message, bundle and (setf value), with any
\* strings and blobs, the index has each value where it was last written, and
\* the length words lead through the messages up to the free memory.
THEOREM PacketInvCorrect == PacketSpec => []PacketInv
<1>1. PacketIInv => PacketInv
  BY PacketTyped, ValuesAreKept, LengthsAreChain DEF PacketIInv, PacketInv
<1>. QED BY <1>1, PacketIInvariant, PTL

\* Each message that receive returns, of any bundle or alone, has the type tags
\* and the values that were written on the other side, in the order of the host.
THEOREM ReceivedAsWrittenCorrect == PacketSpec => []ReceivedAsWritten
<1>1. PacketIInv => ReceivedAsWritten
  BY DEF PacketIInv, InputInv, InputOf, AsSent, ReceivedAsWritten
<1>. QED BY <1>1, PacketIInvariant, PTL

\* receive never takes a message from behind the end of the bundle, so that the
\* tests of receive (>=) and end-of-bundle-p (=) agree.
THEOREM BundleNotOverrunCorrect == PacketSpec => []BundleNotOverrun
<1>1. ASSUME PacketIInv PROVE BundleNotOverrun
  <2>. SUFFICES ASSUME in.bundle, ~in.lone PROVE in.offset + in.length <= in.end
    BY DEF BundleNotOverrun
  <2>1. IsSeq(sent) /\ BundleLeft(in, sent)
    BY <1>1 DEF PacketIInv, SentInv, InputInv, InputOf
  <2>2. Chain(in.buf, in.offset + in.length, sent, in.end)
    BY <2>1 DEF BundleLeft
  <2>. QED BY <2>1, <2>2, ChainOrder
<1>. QED BY <1>1, PacketIInvariant, PTL
=============================================================================
