----------------------------- MODULE OscServer -----------------------------
(***************************************************************************)
(* The receiver of a stream-oriented OSC server: osc_recv and the table of *)
(* file descriptors of src/src/network/osc.c, called again and again by    *)
(* receive of src/src/network/osc.lisp, in blocking mode.                  *)
(*                                                                         *)
(* The other sides send messages that arrive in pieces, one or many at a   *)
(* time, and close or reset their connections at any moment.  A byte is    *)
(* <<m, k>>, the k-th of message m.  With the count prefix a message       *)
(* starts with Prefix bytes that say how many follow; with SLIP its first  *)
(* and its last byte are END.  A definition D_Fault is D with a fault that *)
(* no action has.                                                          *)
(***************************************************************************)
EXTENDS Integers, Sequences, FiniteSets, FiniteSetsExt, SequencesExt

CONSTANTS Sizes,       \* the messages: their bytes after the prefix
          Prefix,      \* bytes of the prefix
          MaxLen,      \* size of the receive buffer
          MaxConns,    \* bound of the connections at a time
          MaxAccepts,  \* bound of the connections in all
          MaxWay       \* bound of the bytes of a connection that are not read

ASSUME ServerAssumption ==
    /\ {Prefix, MaxLen, MaxConns, MaxAccepts, MaxWay} \subseteq Nat \ {0}
    /\ Sizes \subseteq Nat \ {0}

VARIABLES slip,       \* SLIP instead of the count prefix
          conn,       \* open connections: bytes under way, bytes to read, state of the other side
          pending,    \* connections that are not accepted yet
          fds, maxfd, lastfd, count,     \* struct osc_fds
          pc,         \* osc_recv: out, select, loop, more
          todo,       \* loop: descriptors that select said are ready
          nbytes,     \* osc_recv: result of the last connection read
          cur,        \* osc_recv: the read of one message
          result,     \* what osc_recv returned, and whether the bytes are a message
          accepts,    \* how many connections were accepted
          uneven,     \* history: connections that are not at the start of a message
          stale       \* history: closed descriptors that are still in fds

table == <<fds, maxfd, lastfd, count>>
peers == <<conn, pending, accepts>>
vars == <<slip, peers, table, pc, todo, nbytes, cur, result, uneven, stale>>

Server == 1
BadMsg == -3
MsgTooLong == -2
Conns == DOMAIN conn
NoResult == [ret |-> 0, right |-> TRUE]
NoRead == [fd |-> 0, remain |-> 0, bytes |-> <<>>]

-----------------------------------------------------------------------------
(* The other sides *)

Message(m) == [k \in 1 .. (IF slip THEN m + 2 ELSE m + Prefix) |-> <<m, k>>]
IsEnd(byte) == byte[2] = 1 \/ byte[2] = byte[1] + 2

Connect ==
    /\ pending + Cardinality(Conns) < MaxConns /\ accepts + pending < MaxAccepts
    /\ pending' = pending + 1
    /\ UNCHANGED <<slip, conn, accepts, table, pc, todo, nbytes, cur, result, uneven, stale>>

SendMessage(fd, m) ==
    /\ conn[fd].peer = "open"
    /\ Len(conn[fd].wire) + Len(conn[fd].avail) + Len(Message(m)) <= MaxWay
    /\ conn' = [conn EXCEPT ![fd].wire = @ \o Message(m)]
    /\ UNCHANGED <<slip, pending, accepts, table, pc, todo, nbytes, cur, result, uneven, stale>>

Arrive(fd, n) ==
    /\ n \in 1 .. Len(conn[fd].wire)
    /\ conn' = [conn EXCEPT ![fd].avail = @ \o SubSeq(conn[fd].wire, 1, n),
                            ![fd].wire = SubSeq(@, n + 1, Len(@))]
    /\ UNCHANGED <<slip, pending, accepts, table, pc, todo, nbytes, cur, result, uneven, stale>>

\* The other side closes its end, or is lost with what was not read.
Leave(fd, how) ==
    /\ conn[fd].peer = "open"
    /\ conn' = [conn EXCEPT ![fd] = IF how = "reset" THEN [wire |-> <<>>, avail |-> <<>>, peer |-> how]
                                    ELSE [@ EXCEPT !.peer = how]]
    /\ UNCHANGED <<slip, pending, accepts, table, pc, todo, nbytes, cur, result, uneven, stale>>

AtEnd(fd) == conn[fd].peer = "closed" /\ conn[fd].wire = <<>>
Readable(fd) == fd \in Conns /\ (conn[fd].avail # <<>> \/ conn[fd].peer = "reset" \/ AtEnd(fd))

\* recv: the bytes that are there, 0 at the end, -1 once after a reset.
Recv(fd, max) ==
    IF conn[fd].avail # <<>>
    THEN LET n == Min({max, Len(conn[fd].avail)}) IN [ret |-> n, bytes |-> SubSeq(conn[fd].avail, 1, n)]
    ELSE [ret |-> IF conn[fd].peer = "reset" THEN -1 ELSE 0, bytes |-> <<>>]

AfterRecv(fd, r) ==
    [conn EXCEPT ![fd].avail = SubSeq(@, Len(r.bytes) + 1, Len(@)),
                 ![fd].peer = IF @ = "reset" THEN "closed" ELSE @]

WithoutConn(fd) == [x \in Conns \ {fd} |-> conn[x]]

-----------------------------------------------------------------------------
(* osc_recv *)

Call ==
    /\ pc = "out"
    /\ pc' = "select" /\ result' = NoResult
    /\ UNCHANGED <<slip, peers, table, todo, nbytes, cur, uneven, stale>>

\* osc_slip_decode: the bytes to the END that is not the first byte, or all.
SlipDecode(bytes) ==
    SubSeq(bytes, 1, Min({k \in 2 .. Len(bytes) : IsEnd(bytes[k])} \cup {Len(bytes)}))

\* The bytes of the buffer that receive takes for the message.
Taken(n, bytes) ==
    IF n < 0 THEN <<>> ELSE IF slip THEN SlipDecode(bytes)
    ELSE SubSeq(bytes, 1, Min({n + Prefix, Len(bytes)}))

\* The bytes are one message, or the beginning of one with its prefix.
Whole(bytes) == bytes # <<>> /\ bytes = Message(bytes[1][1])
InMessage(bytes) ==
    /\ bytes # <<>> /\ IsPrefix(bytes, Message(bytes[1][1]))
    /\ slip \/ Len(bytes) >= Prefix

\* osc_recv returns, or goes on at another place.  A SLIP message that
\* fills the buffer at once is returned without its end.
Return(n, fd, bytes) ==
    /\ pc' = "out" /\ todo' = {} /\ nbytes' = 0 /\ cur' = NoRead
    /\ result' = [ret |-> n,
                  right |-> \/ fd \in uneven \/ Whole(Taken(n, bytes))
                            \/ slip /\ n = MaxLen /\ InMessage(bytes)]
Continue(at, ready, n, read) ==
    /\ pc' = at /\ todo' = ready /\ nbytes' = n /\ cur' = read
    /\ UNCHANGED result

Monitored_Below == {fd \in fds : fd < maxfd}
Monitored == {fd \in fds : fd <= maxfd}
Ready == {fd \in Monitored : fd # Server /\ Readable(fd)}

\* A descriptor that is closed is an error of select.
SelectFails ==
    /\ pc = "select" /\ Monitored \ (Conns \cup {Server}) # {}
    /\ Return(-1, 0, <<>>)
    /\ UNCHANGED <<slip, peers, table, uneven, stale>>

NewFd == Min((Server + 1 .. Server + MaxConns + 1) \ Conns)

MaxWith_Keep(fd) == maxfd
MaxWith(fd) == Max({maxfd, fd})

Accept ==
    /\ fds' = fds \cup {NewFd} /\ count' = count + 1 /\ maxfd' = MaxWith(NewFd)
    /\ conn' = [x \in Conns \cup {NewFd} |->
                   IF x = NewFd THEN [wire |-> <<>>, avail |-> <<>>, peer |-> "open"] ELSE conn[x]]
    /\ pending' = pending - 1 /\ accepts' = accepts + 1
    /\ uneven' = uneven \ {NewFd} /\ stale' = stale \ {NewFd}

Select ==
    /\ pc = "select" /\ Monitored \subseteq Conns \cup {Server}
    /\ pending > 0 \/ Ready # {}
    /\ todo' = Ready /\ pc' = "loop"
    /\ IF pending > 0 THEN Accept ELSE UNCHANGED <<conn, pending, accepts, fds, count, maxfd, uneven, stale>>
    /\ UNCHANGED <<slip, lastfd, nbytes, cur, result>>

LastWithout(fd) == IF lastfd = fd THEN -1 ELSE lastfd

\* A connection is closed; its descriptor may stay in fds.
CloseSocket(fd) ==
    /\ conn' = WithoutConn(fd) /\ lastfd' = LastWithout(fd)
    /\ count' = count - 1
    /\ maxfd' = IF count = 1 THEN Server ELSE maxfd

IsSlipMsg(bytes) == \E k \in 2 .. Len(bytes) : IsEnd(bytes[k])

\* The number in the first Prefix bytes of the buffer: anything when they
\* are not all there, or are not the start of a message.
PrefixValues(bytes) ==
    IF slip THEN {0}
    ELSE IF Len(bytes) >= Prefix /\ bytes[1][2] = 1 THEN {bytes[1][1]}
    ELSE Sizes \cup {0, MaxLen}

Frame_WithoutPrefix(r, n) ==
    IF slip THEN [n |-> MaxLen, remain |-> MaxLen - r.ret]
    ELSE [n |-> n, remain |-> n - r.ret]

\* What is left to read after the first recv, and the result so far.
Frame(r, n) ==
    IF slip THEN IF r.ret > 0 /\ IsSlipMsg(r.bytes) THEN [n |-> r.ret, remain |-> 0]
                 ELSE [n |-> MaxLen, remain |-> MaxLen - r.ret]
    ELSE IF n > MaxLen - Prefix THEN [n |-> MsgTooLong, remain |-> MaxLen - r.ret]
    ELSE [n |-> n, remain |-> n + Prefix - r.ret]

First == Min(todo)

\* The loop over the ready descriptors: the first recv of a message.  The
\* loop ends with the last connection.
LoopClose ==
    /\ pc = "loop" /\ todo # {} /\ Recv(First, MaxLen).ret = 0
    /\ CloseSocket(First)
    /\ fds' = fds \ {First}
    /\ todo' = IF count = 1 THEN {} ELSE todo \ {First}
    /\ uneven' = uneven \ {First}
    /\ UNCHANGED <<slip, pending, accepts, pc, nbytes, cur, result, stale>>

LoopRecv ==
    /\ pc = "loop" /\ todo # {} /\ Recv(First, MaxLen).ret # 0
    /\ \E n \in PrefixValues(Recv(First, MaxLen).bytes) :
       LET r == Recv(First, MaxLen)
           f == Frame(r, n)
       IN  /\ conn' = AfterRecv(First, r)
           /\ lastfd' = First
           /\ uneven' = IF Whole(r.bytes) \/ (f.remain > 0 /\ f.n > 0 /\ InMessage(r.bytes))
                        THEN uneven ELSE uneven \cup {First}
           /\ IF f.remain > 0
              THEN Continue("more", todo \ {First}, f.n,
                            [fd |-> First, remain |-> f.remain, bytes |-> r.bytes])
              ELSE IF f.n > 0 THEN Return(f.n, First, r.bytes)
              ELSE Continue("loop", todo \ {First}, f.n, NoRead)
    /\ UNCHANGED <<slip, pending, accepts, fds, maxfd, count, stale>>

\* The rest of the message: no wait when it is not there yet.
MoreMissing ==
    /\ pc = "more" /\ ~Readable(cur.fd)
    /\ Continue("loop", todo, BadMsg, NoRead)
    /\ uneven' = uneven \cup {cur.fd}
    /\ UNCHANGED <<slip, peers, table, stale>>

\* The connection has ended: it is closed, and stays in fds.
MoreClose ==
    /\ pc = "more" /\ Readable(cur.fd) /\ Recv(cur.fd, cur.remain).ret <= 0
    /\ CloseSocket(cur.fd)
    /\ stale' = stale \cup {cur.fd} /\ uneven' = uneven \ {cur.fd}
    /\ Continue("loop", todo, BadMsg, NoRead)
    /\ UNCHANGED <<slip, pending, accepts, fds>>

MoreRecv ==
    /\ pc = "more" /\ Readable(cur.fd) /\ Recv(cur.fd, cur.remain).ret > 0
    /\ LET r == Recv(cur.fd, cur.remain)
           rest == cur.remain - r.ret
           bytes == cur.bytes \o r.bytes
           found == slip /\ IsSlipMsg(r.bytes)
       IN  /\ conn' = AfterRecv(cur.fd, r)
           /\ uneven' = IF Whole(bytes) \/ (InMessage(bytes) /\ rest > 0 /\ ~found)
                        THEN uneven ELSE uneven \cup {cur.fd}
           /\ IF found THEN Return(Len(bytes), cur.fd, bytes)
              ELSE IF rest > 0
              THEN Continue("more", todo, nbytes, [cur EXCEPT !.remain = rest, !.bytes = bytes])
              ELSE IF slip THEN Continue("loop", todo, MsgTooLong, NoRead)
              ELSE IF nbytes > 0 THEN Return(nbytes, cur.fd, bytes)
              ELSE Continue("loop", todo, nbytes, NoRead)
    /\ UNCHANGED <<slip, pending, accepts, table, stale>>

\* The end of the loop: an error is returned, otherwise select again.
LoopEnd ==
    /\ pc = "loop" /\ todo = {}
    /\ IF nbytes < 0 THEN Return(nbytes, 0, <<>>) ELSE Continue("select", {}, nbytes, NoRead)
    /\ UNCHANGED <<slip, peers, table, uneven, stale>>

\* close-connections between two calls of receive.
CloseConnections ==
    /\ pc = "out" /\ Conns # {}
    /\ conn' = [x \in {} |-> 0]
    /\ fds' = {Server} /\ maxfd' = Server /\ lastfd' = -1 /\ count' = 0
    /\ uneven' = {} /\ stale' = {}
    /\ UNCHANGED <<slip, pending, accepts, pc, todo, nbytes, cur, result>>

-----------------------------------------------------------------------------
Init ==
    /\ slip \in BOOLEAN
    /\ conn = [x \in {} |-> 0] /\ pending = 0
    /\ fds = {Server} /\ maxfd = Server /\ lastfd = -1 /\ count = 0
    /\ pc = "out" /\ todo = {} /\ nbytes = 0 /\ cur = NoRead
    /\ result = NoResult
    /\ accepts = 0 /\ uneven = {} /\ stale = {}

Others == \/ Connect
          \/ \E fd \in Conns, m \in Sizes : SendMessage(fd, m)
          \/ \E fd \in Conns : \E how \in {"closed", "reset"} : Leave(fd, how)
          \/ CloseConnections

Network == \E fd \in Conns : \E n \in 1 .. Len(conn[fd].wire) : Arrive(fd, n)

OscRecv == Call \/ SelectFails \/ Select \/ LoopClose \/ LoopRecv \/ MoreMissing \/ MoreClose
           \/ MoreRecv \/ LoopEnd

Next == Others \/ Network \/ OscRecv

\* The receiver thread runs and calls receive again; what is sent arrives.
Spec == Init /\ [][Next]_vars /\ WF_vars(OscRecv) /\ WF_vars(Network)

-----------------------------------------------------------------------------
(* Properties *)

\* The table of descriptors and the place in osc_recv: the loop reads from
\* open connections only.
TypeOK ==
    /\ fds \subseteq Server .. Server + MaxConns + 1 /\ maxfd \in Server .. Server + MaxConns
    /\ count \in 0 .. MaxConns /\ todo \subseteq Conns /\ nbytes \in MsgTooLong - 1 .. MaxLen
    /\ pc \in {"out", "select", "loop", "more"}

\* connections is the number of the open connections, each of them is
\* monitored by select, and what else is monitored was closed in the middle
\* of a message.
ConnectionsKnown ==
    /\ count = Cardinality(Conns)
    /\ Conns \subseteq Monitored
    /\ fds = Conns \cup {Server} \cup stale

\* The descriptor of last-recv-fd is an open connection, so that an answer
\* goes to the sender of the last message.
LastIsOpen == lastfd = -1 \/ lastfd \in Conns

\* The table of descriptors knows the open connections, whatever has been
\* accepted, closed and closed in the middle of a message.
TableInv == TypeOK /\ ConnectionsKnown /\ LastIsOpen

\* A message that osc_recv returns is one message as it was sent, from the
\* prefix to the last byte, unless bytes of that connection were taken for
\* something else before.  A SLIP message that fills the buffer at once is
\* returned without its end.
MessagesWhole == result.ret > 0 => result.right

\* The first recv of osc_recv from a connection.
Served(fd) == (LoopRecv \/ LoopClose) /\ First = fd
LowerReady(fd) == \E x \in Conns : x < fd /\ Readable(x)

\* A connection on which bytes have arrived is served again and again, as long
\* as there are any, under traffic without end.  It may wait for ever in two
\* cases: osc_recv serves the lowest descriptor first and returns after one
\* message, so a lower connection that is ready again and again starves it;
\* and a closed descriptor that stays in fds makes each select fail.
ArrivedIsRead ==
    \A fd \in Server + 1 .. Server + MaxConns :
        \/ []<>~(fd \in Conns /\ conn[fd].avail # <<>>)
        \/ []<><<Served(fd)>>_vars
        \/ []<>LowerReady(fd)
        \/ []<>(stale # {})
=============================================================================
