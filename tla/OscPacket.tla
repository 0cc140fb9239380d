------------------------------ MODULE OscPacket ------------------------------
(***************************************************************************)
(* OSC messages and bundles: the buffer of an output stream, written by    *)
(* start-message, bundle and (setf value) of src/src/network/osc.lisp with *)
(* the C code of src/src/network/osc.c, and the buffer of an input stream  *)
(* that receives the packets.                                              *)
(*                                                                         *)
(* The unit is the word of four bytes, to which everything in a packet is  *)
(* padded.  A word is a tuple with a kind: <<"len", n>> (length of a       *)
(* message), <<"addr">>, <<"types", tags>>, <<"int", id, order>>,          *)
(* <<"size", n, order>> (size of a blob), <<"blob", id, j>>, <<"str", id,  *)
(* j>> (four characters), <<"end", id>> (characters and a NUL), Zero.  An  *)
(* address and a type tag take one word.  The network loses nothing and a  *)
(* packet is in transit at a time.  The buffers are large enough: the      *)
(* code leaves the bounds to the caller.  A definition D_Fault is D with a *)
(* fault that no action has.                                               *)
(***************************************************************************)
EXTENDS Integers, Sequences, FiniteSets, FiniteSetsExt

CONSTANTS TypeTags,      \* type tags of messages: sequences over i, s, b, T
          MaxMessages,   \* bound of the messages of a bundle
          FullWords,     \* full words of a string or a blob
          MaxSets,       \* bound of the calls of (setf value)
          Cap            \* words of a buffer

ASSUME OscAssumption ==
    /\ FullWords \cup {MaxSets} \subseteq Nat /\ {MaxMessages, Cap} \subseteq Nat \ {0}
    /\ TypeTags \subseteq Seq({"i", "s", "b", "T"})

VARIABLES buf,        \* output: length word of the first message at 0, messages from 1
          index,      \* value-vec: place of each required value, then of the free memory
          free,       \* the slot MEM_FREE_INDEX
          tbuf,       \* type-vec: tags of the required values
          length,     \* stream-message-length
          bundleLen,  \* stream-bundle-length
          single,     \* stream-single-message-p
          build,      \* what the caller is doing
          sets,       \* calls of (setf value)
          written,    \* history: the value last written at each index
          parts,      \* history: the type tags of the messages in the buffer
          net,        \* the packet in transit
          in,         \* the input stream
          sent        \* history: the messages of the last packet that are not received yet

output == <<buf, index, free, tbuf, length, bundleLen, single>>
packetVars == <<output, build, sets, written, parts, net, in, sent>>

None == [words |-> <<>>, lone |-> FALSE]
Zero == <<"zero">>
Reserved == 5                     \* +bundle-reserved-bytes+

\* The caller does not write past the buffers.
Room == free' + Reserved <= Cap

\* The tags that have a value.
Required(tags) ==
    LET found[k \in 0 .. Len(tags)] ==
            IF k = 0 THEN <<>>
            ELSE IF tags[k] = "T" THEN found[k - 1] ELSE Append(found[k - 1], tags[k])
    IN  found[Len(tags)]

\* The values that a caller writes, and their words in a packet.
Texts(id) == {[id |-> id, full |-> f, rest |-> r] : f \in FullWords, r \in BOOLEAN}
Blobs(id) == {[id |-> id, full |-> f] : f \in FullWords}
Values(tag, id) == CASE tag = "i" -> {[id |-> id]} [] tag = "s" -> Texts(id) [] tag = "b" -> Blobs(id)

Encoded(tag, v) ==
    CASE tag = "i" -> << <<"int", v.id, "net">> >>
      [] tag = "s" -> [j \in 1 .. v.full |-> <<"str", v.id, j>>]
                      \o << IF v.rest THEN <<"end", v.id>> ELSE Zero >>
      [] tag = "b" -> << IF v.full = 0 THEN Zero ELSE <<"size", v.full, "net">> >>
                      \o [j \in 1 .. v.full |-> <<"blob", v.id, j>>]
Unset == << Zero >>

-----------------------------------------------------------------------------
(* The index of the values *)

HasNul(w) == w[1] \in {"zero", "end", "addr", "types", "len"}
StrWords(b, p) == 1 + Min({k \in 0 .. Cap : p + k > Cap \/ HasNul(b[p + k])})

\* A size that is read in the order of the other side is out of the buffer.
BlobWords(w, order) ==
    CASE w = Zero -> 1
      [] w[1] = "size" /\ w[3] = order -> 1 + w[2]
      [] OTHER -> Cap

Words(b, tag, p, order) ==
    CASE tag = "i" -> 1 [] tag = "s" -> StrWords(b, p) [] tag = "b" -> BlobWords(b[p], order)

\* index_osc_values: places of the values of one message from data on, and
\* of the memory after them.
Places(b, tags, data, order) ==
    LET place[k \in 0 .. Len(tags)] ==
            IF k = 0 THEN data
            ELSE LET p == place[k - 1]
                 IN  IF p > Cap THEN p ELSE p + Words(b, tags[k], p, order)
    IN  [k \in 1 .. Len(tags) + 1 |-> place[k - 1]]

IndexOscValues(types, data) ==
    LET tags == Required(types)
        places == Places(buf, tags, data, "host")
    IN  [tbuf |-> tbuf \o tags,
         index |-> SubSeq(index, 1, Len(tbuf)) \o places,
         free |-> places[Len(places)]]

\* index_osc_values_le: as above from the first slot, and the words of the
\* values are put in the order of the host.
Swap(w) == IF w[1] \in {"int", "size"} THEN [w EXCEPT ![3] = IF @ = "net" THEN "host" ELSE "net"] ELSE w

IndexOscValuesLe_NumbersOnly(b, types, data) ==
    LET tags == Required(types)
        places == Places(b, tags, data, "net")
        swapped == {places[k] : k \in {k \in DOMAIN tags : tags[k] = "i"}}
    IN  [buf |-> [p \in 0 .. Cap |-> IF p \in swapped THEN Swap(b[p]) ELSE b[p]],
         tbuf |-> tags, index |-> places]

IndexOscValuesLe(b, types, data) ==
    LET tags == Required(types)
        places == Places(b, tags, data, "net")
        swapped == {places[k] : k \in {k \in DOMAIN tags : tags[k] # "s"}}
    IN  [buf |-> [p \in 0 .. Cap |-> IF p \in swapped THEN Swap(b[p]) ELSE b[p]],
         tbuf |-> tags, index |-> places]

-----------------------------------------------------------------------------
(* Space for a value *)

MoveDataLeft(b, start, end, n) ==
    [p \in 0 .. Cap |-> IF p \in start - n .. end - n - 1 THEN b[p + n] ELSE b[p]]
MoveDataRight(b, start, end, n) ==
    [p \in 0 .. Cap |-> IF p \in start + n .. end + n - 1 THEN b[p - n] ELSE b[p]]

\* The places of the length words, from the first one to the end.
LengthWords(b, end) ==
    LET at[k \in 0 .. MaxMessages] ==
            IF k = 0 THEN 0
            ELSE LET p == at[k - 1]
                 IN  IF p <= end /\ b[p][1] = "len" THEN p + b[p][2] + 1 ELSE end + 1
    IN  {at[k] : k \in 0 .. MaxMessages} \cap 0 .. end - 1

FixLength_First(b, value, end, diff) == [b EXCEPT ![0] = <<"len", @[2] + diff>>]

\* osc_fix_length: the message with the value is longer or shorter now.
FixLength(b, value, end, diff) ==
    LET p == Max({q \in LengthWords(b, end) : q <= value})
    IN  [b EXCEPT ![p] = <<"len", @[2] + diff>>]

\* Two neighbours of different messages are not at the distance of a value.
OldSize(i, last, blob) ==
    IF single \/ last THEN index[i + 1] - index[i]
    ELSE IF blob THEN BlobWords(buf[index[i]], "net")
    ELSE StrWords(buf, index[i])

\* osc_maybe_reserve_space and its Lisp caller for the value at index i.
MaybeReserveSpace(i, size, last, blob) ==
    LET old == OldSize(i, last, blob)
        next == index[i] + old
        shift == size - old
        moved == IF shift < 0 THEN MoveDataLeft(buf, next, free, -shift)
                 ELSE IF shift > 0 THEN MoveDataRight(buf, next, free, shift)
                 ELSE buf
        end == Min({k \in DOMAIN index : k > i /\ index[k] >= free})
        places == [k \in DOMAIN index |-> IF k \in i + 1 .. end THEN index[k] + shift ELSE index[k]]
        newFree == IF shift = 0 THEN free ELSE places[end]
        padded == [moved EXCEPT ![next + shift - 1] = Zero]
        fixed == IF ~single /\ shift # 0 THEN FixLength(padded, index[i], newFree, shift) ELSE padded
        grown == newFree - 1 # length
    IN  [buf |-> IF grown /\ ~last /\ single THEN [fixed EXCEPT ![0] = <<"len", newFree - 1>>]
                 ELSE fixed,
         index |-> places, free |-> newFree, length |-> newFree - 1,
         bundleLen |-> IF grown /\ ~last THEN newFree - 1 + Reserved ELSE bundleLen]

\* The words of a string over what is there: its last word must be zero.
Write(b, p, words) ==
    [q \in 0 .. Cap |->
        IF q \notin p .. p + Len(words) - 1 THEN b[q]
        ELSE LET w == words[q - p + 1]
             IN  IF w = Zero THEN b[q]
                 ELSE IF w[1] = "end" /\ b[q] # Zero THEN <<"str", "dirty", 0>> ELSE w]

\* %set-value
SetValue_(i, v, last) ==
    LET words == Encoded(tbuf[i], v)
        r == MaybeReserveSpace(i, Len(words), last, tbuf[i] = "b")
    IN  /\ IF tbuf[i] = "i"
           THEN buf' = Write(buf, index[i], words) /\ UNCHANGED <<index, free, length, bundleLen>>
           ELSE /\ buf' = Write(r.buf, r.index[i], words)
                /\ index' = r.index /\ free' = r.free
                /\ length' = r.length /\ bundleLen' = r.bundleLen
        /\ written' = [written EXCEPT ![i] = words]
        /\ UNCHANGED <<tbuf, single>>
        /\ Room

-----------------------------------------------------------------------------
(* The output stream *)

Idle == [at |-> "idle"]

\* osc_start_message: an empty buffer with the first message.
OscStartMessage(types) ==
    LET tags == Required(types)
        size == 2 + Len(tags)
    IN  /\ buf' = [p \in 0 .. Cap |-> CASE p = 0 -> <<"len", size>>
                                        [] p = 1 -> <<"addr">>
                                        [] p = 2 -> <<"types", types>>
                                        [] OTHER -> Zero]
        /\ tbuf' = tags
        /\ index' = [k \in 1 .. Len(tags) + 1 |-> 2 + k]
        /\ free' = 3 + Len(tags)
        /\ length' = size
        /\ written' = [k \in 1 .. Len(tags) |-> Unset]
        /\ parts' = << types >>
        /\ Room

\* start-message, then simple-bundle when the message is one.
StartMessage(types, simple) ==
    /\ build.at = "idle"
    /\ OscStartMessage(types)
    /\ single' = TRUE
    /\ bundleLen' = IF simple THEN length' + Reserved ELSE bundleLen
    /\ build' = [at |-> "ready", bundle |-> simple, lone |-> FALSE]
    /\ UNCHANGED <<sets, net, in, sent>>

\* bundle: the first message, with the number of the messages to come.
StartBundle(types, more) ==
    /\ build.at = "idle"
    /\ OscStartMessage(types)
    /\ single' = (more = 0)
    /\ build' = [at |-> "values", next |-> 1, more |-> more, offset |-> 0, lone |-> more = 0]
    /\ UNCHANGED <<bundleLen, sets, net, in, sent>>

\* The next value of the message that bundle builds.
BundleValue(v) ==
    /\ build.at = "values" /\ build.next <= Len(tbuf)
    /\ SetValue_(build.next, v, TRUE)
    /\ build' = [build EXCEPT !.next = @ + 1]
    /\ UNCHANGED <<sets, parts, net, in, sent>>

\* The end of an appended message: its length word and the new length.
Appended == IF build.offset = 0 THEN [buf |-> buf, length |-> length]
            ELSE IF length = build.offset THEN [buf |-> buf, length |-> free - 1]
            ELSE [buf |-> [buf EXCEPT ![build.offset + 1] = <<"len", length - build.offset - 1>>],
                  length |-> length]

\* osc_bundle_append_message after the end of the message before.
AppendMessage(types) ==
    /\ build.at = "values" /\ build.next > Len(tbuf) /\ build.more > 0
    /\ LET offset == Appended.length
           start == offset + 2
           indexed == IndexOscValues(types, start + 2)
       IN  /\ buf' = [Appended.buf EXCEPT ![offset + 1] = <<"len", indexed.free - start>>,
                                          ![start] = <<"addr">>, ![start + 1] = <<"types", types>>]
           /\ tbuf' = indexed.tbuf /\ index' = indexed.index /\ free' = indexed.free
           /\ length' = offset
           /\ Room
           /\ written' = written \o [k \in 1 .. Len(Required(types)) |-> Unset]
           /\ parts' = Append(parts, types)
           /\ build' = [build EXCEPT !.more = @ - 1, !.offset = offset]
    /\ UNCHANGED <<bundleLen, single, sets, net, in, sent>>

FinishBundle ==
    /\ build.at = "values" /\ build.next > Len(tbuf) /\ build.more = 0
    /\ buf' = Appended.buf /\ length' = Appended.length
    /\ bundleLen' = Appended.length + Reserved
    /\ build' = [at |-> "ready", bundle |-> TRUE, lone |-> build.lone]
    /\ UNCHANGED <<index, free, tbuf, single, sets, written, parts, net, in, sent>>

\* (setf value) of a message or a bundle that is ready to be sent again.
SetValue(i, v) ==
    /\ build.at = "ready" /\ sets < MaxSets
    /\ SetValue_(i, v, FALSE)
    /\ sets' = sets + 1
    /\ UNCHANGED <<build, parts, net, in, sent>>

\* The words of the packet: send-bundle sends the words that bundle-length
\* says, from #bundle and the time on.
Packet ==
    IF build.bundle
    THEN [k \in 1 .. bundleLen |-> IF k < Reserved THEN <<"hdr">> ELSE buf[k - Reserved]]
    ELSE [k \in 1 .. length |-> buf[k]]

\* The messages of the buffer as they were written: type tags and values.
Messages ==
    LET count[m \in 0 .. Len(parts)] ==
            IF m = 0 THEN 0 ELSE count[m - 1] + Len(Required(parts[m]))
    IN  [m \in DOMAIN parts |->
            [tags |-> Required(parts[m]), values |-> SubSeq(written, count[m - 1] + 1, count[m])]]

\* send and send-bundle
Send ==
    /\ build.at = "ready" /\ net = None /\ ~in.bundle
    /\ net' = [words |-> Packet, lone |-> build.lone]
    /\ sent' = Messages
    /\ UNCHANGED <<output, build, sets, written, parts, in>>

-----------------------------------------------------------------------------
(* The input stream *)

\* %%index-values of the message at an offset of the received packet.
Indexed(b, offset) ==
    LET types == offset + StrWords(b, offset)
        data == types + StrWords(b, types)
    IN  IF types <= Cap /\ b[types][1] = "types" /\ data <= Cap
        THEN IndexOscValuesLe(b, b[types][2], data)
        ELSE [buf |-> b, tbuf |-> <<"garbage">>, index |-> <<offset, offset>>]

Fits(b) == [p \in 0 .. Cap |-> IF p + 1 \in DOMAIN b THEN b[p + 1] ELSE Zero]
LengthAt(b, p) == IF b[p][1] = "len" THEN b[p][2] ELSE 0

Arrived(b, bundle, end, offset, len, lone) ==
    LET i == Indexed(b, offset)
    IN  [buf |-> i.buf, tbuf |-> i.tbuf, index |-> i.index, bundle |-> bundle, end |-> end,
         offset |-> offset, length |-> len, lone |-> lone,
         now |-> IF sent = <<>> THEN [tags |-> <<"none">>, values |-> <<>>] ELSE Head(sent)]

Received == sent' = IF sent = <<>> THEN <<>> ELSE Tail(sent)

\* %receive: a packet, and its first message when it is a bundle.
ReceivePacket ==
    /\ net # None /\ ~in.bundle
    /\ LET b == Fits(net.words)
       IN  in' = IF net.words[1] = <<"hdr">>
                 THEN Arrived(b, TRUE, Len(net.words), Reserved, LengthAt(b, Reserved - 1), net.lone)
                 ELSE Arrived(b, FALSE, 0, 0, Len(net.words), net.lone)
    /\ net' = None /\ Received
    /\ UNCHANGED <<output, build, sets, written, parts>>

MoreOfBundle_Inclusive(offset) == offset <= in.end
MoreOfBundle(offset) == offset < in.end

\* receive: the next message of the bundle.
ReceiveNext ==
    LET offset == in.offset + in.length
    IN  /\ in.bundle /\ MoreOfBundle(offset)
        /\ in' = Arrived(in.buf, TRUE, in.end, offset + 1, LengthAt(in.buf, offset), in.lone)
        /\ Received
        /\ UNCHANGED <<output, build, sets, written, parts, net>>

\* receive after the last message of a bundle: it waits for a packet.
EndOfBundle ==
    /\ in.bundle /\ ~MoreOfBundle(in.offset + in.length)
    /\ in' = [in EXCEPT !.bundle = FALSE, !.offset = 0, !.buf[0] = Zero]
    /\ UNCHANGED <<output, build, sets, written, parts, net, sent>>

\* flush-bundle: the messages that are left are not received.
FlushBundle ==
    /\ in.bundle /\ in.end # in.offset + in.length
    /\ in' = [in EXCEPT !.end = in.offset + in.length]
    /\ sent' = <<>>
    /\ UNCHANGED <<output, build, sets, written, parts, net>>

-----------------------------------------------------------------------------
PacketInit ==
    /\ buf = [p \in 0 .. Cap |-> Zero] /\ index = <<1>> /\ free = 1 /\ tbuf = <<>>
    /\ length = 0 /\ bundleLen = 0 /\ single = TRUE
    /\ build = Idle /\ sets = 0 /\ written = <<>> /\ parts = <<>> /\ net = None
    /\ in = [buf |-> [p \in 0 .. Cap |-> Zero], tbuf |-> <<>>, index |-> <<0>>, bundle |-> FALSE,
             end |-> 0, offset |-> 0, length |-> 0, lone |-> FALSE,
             now |-> [tags |-> <<>>, values |-> <<>>]]
    /\ sent = <<>>

PacketNext ==
    \/ \E types \in TypeTags, simple \in BOOLEAN : StartMessage(types, simple)
    \/ \E types \in TypeTags, more \in 0 .. MaxMessages - 1 : StartBundle(types, more)
    \/ build.at = "values" /\ build.next <= Len(tbuf)
       /\ \E v \in Values(tbuf[build.next], build.next) : BundleValue(v)
    \/ \E types \in TypeTags : AppendMessage(types)
    \/ FinishBundle
    \/ \E i \in DOMAIN tbuf : \E v \in Values(tbuf[i], Len(tbuf) + 1 + sets) : SetValue(i, v)
    \/ Send
    \/ ReceivePacket
    \/ ReceiveNext
    \/ EndOfBundle
    \/ FlushBundle

PacketSpec == PacketInit /\ [][PacketNext]_packetVars

-----------------------------------------------------------------------------
(* Properties *)

\* The index has a place for each required value and one for the free memory,
\* all in the buffer.
PacketTypeOK ==
    /\ Len(index) = Len(tbuf) + 1 /\ Len(written) = Len(tbuf)
    /\ \A k \in DOMAIN index : index[k] \in 1 .. Cap
    /\ free \in 1 .. Cap /\ length \in 0 .. Cap
    /\ Len(sent) <= MaxMessages /\ sets \in 0 .. MaxSets

\* The value at an index is the one last written there, however often the
\* strings and the blobs before it have grown or shrunk, and the free memory
\* starts after the last one (osc_maybe_reserve_space).
ValuesKept ==
    /\ \A i \in DOMAIN tbuf :
          [k \in 1 .. Len(written[i]) |-> buf[index[i] + k - 1]] = written[i]
    /\ free = index[Len(index)]

\* The messages that are in the buffer begin at the places the length words
\* give, and the last one ends where the free memory starts.
LengthsChain ==
    LET starts == LengthWords(buf, free)
    IN  build.at = "ready" /\ ~build.lone =>
            /\ Cardinality(starts) = Len(parts)
            /\ \A p \in starts : buf[p + 1] = <<"addr">>
            /\ LET last == Max(starts) IN last + buf[last][2] + 1 = free
            /\ length = free - 1
            /\ build.bundle => bundleLen = length + Reserved

\* Index, values and lengths of the output stream agree after any sequence of
\* bundle and (setf value).
PacketInv == PacketTypeOK /\ ValuesKept /\ LengthsChain

\* A bundle of one message has the same form (the end of bundle sets no
\* length because maybe-reserve-space is said to duplicate it).
FirstLength == build.at = "ready" /\ Len(parts) = 1 => buf[0] = <<"len", length>>

\* receive returns the messages of a packet in their order, with the values
\* that were written: the index of the receiver has them all in the order of
\* the host.
ReceivedAsWritten ==
    ~in.lone =>
        /\ in.tbuf = in.now.tags
        /\ \A k \in DOMAIN in.tbuf :
              LET w == in.now.values[k]
              IN  [j \in 1 .. Len(w) |-> in.buf[in.index[k] + j - 1]] = [w EXCEPT ![1] = Swap(@)]

\* The messages of a received bundle never reach past its end (receive tests
\* >= and end-of-bundle-p =, "so a hidden bug is evident").
BundleNotOverrun == in.bundle /\ ~in.lone => in.offset + in.length <= in.end
=============================================================================
