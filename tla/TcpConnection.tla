--------------------------- MODULE TcpConnection ---------------------------
(***************************************************************************)
(* TcpConnection.cpp with its IOBufferQueues: how one connection object of *)
(* the server's pool cuts the bytes of a socket into messages and writes   *)
(* the replies, over the successive connections that get the same          *)
(* descriptor and so the same object.                                      *)
(*                                                                         *)
(* Bytes are counted in words of 4: the head of a message, struct msgHead, *)
(* is four words (a size_t, an int and padding), of which the first three  *)
(* hold its fields.  One read() is one buffer of the input queue, and one  *)
(* buffer is taken to be one message: nothing joins or splits buffers.     *)
(* The loop calls one callback at a time; the client acts at any moment.   *)
(***************************************************************************)
EXTENDS MsgHead, Sequences, SequencesExt

CONSTANTS
    MAX_BUFFER_NUM,  \* IOBufferQueue::MAX_BUFFER_NUM
    Messages,        \* what clients send: words of data, and whether the head's
                     \* cmd_id has a callback, or its length is over the limit
    SndBuf,          \* room of the socket's send buffer, in half replies
    Clients,         \* bound: connections the object serves, one after another
    MaxMsgs,         \* bound: messages a client sends
    MaxSends         \* bound: replies, over all connections

ASSUME ConnectionAssumption ==
    /\ MAX_BUFFER_NUM \in Nat \ {0} /\ SndBuf \in Nat \ {0}
    /\ Messages \subseteq [length : Nat, cmd : {"known", "unknown", "too_long"}]
    /\ Clients \in Nat /\ MaxMsgs \in Nat /\ MaxSends \in Nat

VARIABLES
    conn,     \* the TcpConnection and what its loop has registered for it
    at,       \* where its code is: in no callback, in handleRead or handleWrite
    expired,  \* the TcpServer object has gone
    sock,     \* the socket in the descriptor, and the client's side of it
    handled,  \* history: what the dispatcher was called with on this connection
    wire,     \* history: replies handed to the kernel on this connection
    fed       \* history: every buffer read so far on this connection was one message

vars == <<conn, at, expired, sock, handled, wire, fed>>

\* No connection, after the first k clients.
NoSocket(k) == [client |-> k, msgs |-> <<>>, arrived |-> 0, readpos |-> 0, room |-> SndBuf,
                state |-> "none"]

Init ==
    /\ conn = [m_connection_fd |-> 0, m_inbuf |-> <<>>, m_outbuf |-> <<>>, mask |-> {},
               accepted |-> 0, sent |-> 0, thrown |-> "no"]
    /\ at = "idle" /\ expired = FALSE
    /\ sock = NoSocket(0)
    /\ handled = <<>> /\ wire = <<>> /\ fed = TRUE

-----------------------------------------------------------------------------
(* The stream of a client: positions of words, from 1.  A buffer is the     *)
(* interval of positions that one read took.                                *)

Size(msg) == HeadSize + msg.length
Start(i) == 1 + FoldLeft(LAMBDA n, msg : n + Size(msg), 0, SubSeq(sock.msgs, 1, i - 1))
Sent == Start(Len(sock.msgs) + 1) - 1      \* words the client has sent

Words(buf) == buf.last + 1 - buf.first
IsMessage(buf, i) == buf.first = Start(i) /\ Words(buf) = Size(sock.msgs[i])

\* The head memcpy'd from the buffer's front is that of message i.
HeadOf(buf, i) == buf.first = Start(i) /\ Words(buf) >= MSG_HEAD_LENGTH
HasHead(buf) == \E i \in DOMAIN sock.msgs : HeadOf(buf, i)

\* The data of a buffer begins after HeadSize; in one that is shorter, no
\* vector can be made of it.
Taken(buf) == IF Words(buf) < HeadSize THEN "length_error" ELSE "dispatch"

\* What handleRead makes of a buffer that begins with the head of message i.
Verdicts(buf, i) ==
    LET msg == sock.msgs[i]
    IN  IF msg.cmd = "too_long" THEN {"format"}
        ELSE IF Words(buf) < MSG_HEAD_LENGTH + msg.length THEN {"half"}
        ELSE IF msg.cmd = "unknown" THEN {"unknown"}
        ELSE {Taken(buf)}

\* A buffer that begins anywhere else can look like anything.
Verdict(buf) ==
    IF HasHead(buf) THEN UNION {Verdicts(buf, i) : i \in {j \in DOMAIN sock.msgs : HeadOf(buf, j)}}
    ELSE {"format", "half", "unknown", Taken(buf)}

-----------------------------------------------------------------------------
(* The functions of TcpConnection, on the record of the object *)

\* sendData: EPOLLOUT is registered when the queue was empty.  There is no
\* limit, and a connection that has been cleaned is not refused: its
\* descriptor is -1, and epoll_ctl fails.
sendData(c) ==
    LET queued == [c EXCEPT !.accepted = @ + 1, !.sent = @ + 1,
                       !.m_outbuf = Append(@, [client |-> c.m_connection_fd,
                                               n |-> c.accepted + 1])]
    IN  IF c.m_outbuf # <<>> THEN queued
        ELSE IF c.m_connection_fd = 0 THEN [queued EXCEPT !.thrown = "epoll_ctl"]
        ELSE [queued EXCEPT !.mask = @ \cup {"OUT"}]

\* The user's code calls sendData, or not.
UserSends(c) == {c} \cup (IF c.sent < MaxSends THEN {sendData(c)} ELSE {})

\* mutant: the replies of the old connection stay in the object
cleanKeepsOutput(c) ==
    [c EXCEPT !.mask = {}, !.m_inbuf = <<>>, !.m_connection_fd = 0]

\* cleanConnection after the user was told: unregister, clear, close.
clean(c) == [c EXCEPT !.mask = {}, !.m_inbuf = <<>>, !.m_outbuf = <<>>, !.m_connection_fd = 0]

\* cleanConnection.  onConnectionClose is called while the descriptor is valid.
cleanConnection ==
    /\ \E c \in IF expired THEN {conn} ELSE UserSends(conn) : conn' = clean(c)
    /\ sock' = NoSocket(sock.client)
    /\ at' = "idle"
    /\ handled' = <<>> /\ wire' = <<>> /\ fed' = TRUE
    /\ UNCHANGED expired

-----------------------------------------------------------------------------
(* The steps of the loop's thread *)

Runs == conn.thrown = "no"
Open == conn.m_connection_fd # 0

\* activate of the object for a new connection: onConnectionEstablish, then
\* EPOLLIN.  The server clears nothing here.
Activate ==
    /\ Runs /\ at = "idle" /\ ~expired
    /\ ~Open
    /\ sock.state # "none"
    /\ \E c \in UserSends([conn EXCEPT !.m_connection_fd = sock.client, !.accepted = 0]) :
          conn' = [c EXCEPT !.mask = @ \cup {"IN"}]
    /\ UNCHANGED <<at, expired, sock, handled, wire, fed>>

InReady == "IN" \in conn.mask /\ (sock.readpos < sock.arrived \/ sock.state = "closed")

Full == Len(conn.m_inbuf) >= MAX_BUFFER_NUM

\* readData takes all that has arrived, as one buffer.
ReadData ==
    /\ Runs /\ at = "idle" /\ InReady
    /\ ~Full /\ sock.readpos < sock.arrived
    /\ LET buf == [first |-> sock.readpos + 1, last |-> sock.arrived]
       IN  /\ conn' = [conn EXCEPT !.m_inbuf = Append(@, buf)]
           /\ fed' = (fed /\ \E i \in DOMAIN sock.msgs : IsMessage(buf, i))
    /\ sock' = [sock EXCEPT !.readpos = sock.arrived]
    /\ at' = "reading"
    /\ UNCHANGED <<expired, handled, wire>>

\* readData fails, because the queue is full, or the peer has closed.
ReadFails ==
    /\ Runs /\ at = "idle" /\ InReady
    /\ Full \/ sock.readpos = sock.arrived
    /\ cleanConnection

\* mutant: the buffer stays in the queue
ReadTurnKeeps ==
    /\ Runs /\ at = "reading"
    /\ conn.m_inbuf # <<>> /\ ~expired
    /\ "dispatch" \in Verdict(Head(conn.m_inbuf))
    /\ conn' \in UserSends(conn)
    /\ handled' = Append(handled, Head(conn.m_inbuf))
    /\ UNCHANGED <<at, expired, sock, wire, fed>>

\* One turn of handleRead's loop: the front buffer's callback is called, and
\* the buffer is popped after it, ...
ReadTurn ==
    /\ Runs /\ at = "reading"
    /\ conn.m_inbuf # <<>> /\ ~expired
    /\ "dispatch" \in Verdict(Head(conn.m_inbuf))
    /\ \E c \in UserSends(conn) : conn' = [c EXCEPT !.m_inbuf = Tail(@)]
    /\ handled' = Append(handled, Head(conn.m_inbuf))
    /\ UNCHANGED <<at, expired, sock, wire, fed>>

\* ... or the data cannot begin after its end, which throws, ...
ReadThrows ==
    /\ Runs /\ at = "reading"
    /\ conn.m_inbuf # <<>> /\ ~expired
    /\ "length_error" \in Verdict(Head(conn.m_inbuf))
    /\ conn' = [conn EXCEPT !.thrown = "length_error"]
    /\ UNCHANGED <<at, expired, sock, handled, wire, fed>>

\* ... or the connection is closed, ...
ReadCloses ==
    /\ Runs /\ at = "reading"
    /\ conn.m_inbuf # <<>>
    /\ LET v == Verdict(Head(conn.m_inbuf))
       IN  "format" \in v \/ (~expired /\ "unknown" \in v) \/ (expired /\ v # {"half"})
    /\ cleanConnection

\* ... or the loop ends, with an empty queue or a half package at its front.
ReadEnds ==
    /\ Runs /\ at = "reading"
    /\ conn.m_inbuf # <<>> => "half" \in Verdict(Head(conn.m_inbuf))
    /\ at' = "idle"
    /\ UNCHANGED <<conn, expired, sock, handled, wire, fed>>

\* handleWrite is called.
WriteEvent ==
    /\ Runs /\ at = "idle"
    /\ "OUT" \in conn.mask
    /\ sock.room > 0 \/ sock.state = "closed"
    /\ at' = "writing"
    /\ UNCHANGED <<conn, expired, sock, handled, wire, fed>>

\* write() takes what there is room for, and the whole buffer is popped, ...
WriteTurn ==
    /\ Runs /\ at = "writing"
    /\ conn.m_outbuf # <<>> /\ sock.room > 0
    /\ wire' = Append(wire, [reply |-> Head(conn.m_outbuf), whole |-> sock.room > 1])
    /\ conn' = [conn EXCEPT !.m_outbuf = Tail(@)]
    /\ sock' = [sock EXCEPT !.room = IF @ > 1 THEN @ - 2 ELSE 0]
    /\ UNCHANGED <<at, expired, handled, fed>>

\* ... or fails: there is no room (EAGAIN), or the peer has gone.
WriteFails ==
    /\ Runs /\ at = "writing"
    /\ conn.m_outbuf # <<>>
    /\ sock.room = 0 \/ sock.state = "closed"
    /\ cleanConnection

\* The queue is empty.
WriteEnds ==
    /\ Runs /\ at = "writing"
    /\ conn.m_outbuf = <<>>
    /\ conn' = [conn EXCEPT !.mask = @ \ {"OUT"}]
    /\ at' = "idle"
    /\ UNCHANGED <<expired, sock, handled, wire, fed>>

\* Another callback of the loop's thread has kept the connection and sends.
UserCall ==
    /\ Runs /\ at = "idle"
    /\ conn' \in UserSends(conn) \ {conn}
    /\ UNCHANGED <<at, expired, sock, handled, wire, fed>>

\* Another thread destroys the server.
Expire ==
    /\ ~expired /\ expired' = TRUE
    /\ UNCHANGED <<conn, at, sock, handled, wire, fed>>

-----------------------------------------------------------------------------
(* The clients and the network *)

\* A client's connection has been accepted, in the object's descriptor.
Connect ==
    /\ sock.state = "none" /\ sock.client < Clients
    /\ sock' = [NoSocket(sock.client + 1) EXCEPT !.state = "open"]
    /\ UNCHANGED <<conn, at, expired, handled, wire, fed>>

ClientSends(msg) ==
    /\ sock.state = "open" /\ Len(sock.msgs) < MaxMsgs
    /\ sock' = [sock EXCEPT !.msgs = Append(@, msg)]
    /\ UNCHANGED <<conn, at, expired, handled, wire, fed>>

\* A segment arrives: TCP cuts the stream where it likes.
Arrive(n) ==
    /\ sock.state = "open"
    /\ n > sock.arrived
    /\ sock' = [sock EXCEPT !.arrived = n]
    /\ UNCHANGED <<conn, at, expired, handled, wire, fed>>

ClientReads ==
    /\ sock.state = "open" /\ sock.room < SndBuf
    /\ sock' = [sock EXCEPT !.room = @ + 1]
    /\ UNCHANGED <<conn, at, expired, handled, wire, fed>>

ClientCloses ==
    /\ sock.state = "open"
    /\ sock' = [sock EXCEPT !.state = "closed"]
    /\ UNCHANGED <<conn, at, expired, handled, wire, fed>>

Next ==
    \/ Activate \/ ReadData \/ ReadFails \/ ReadTurn \/ ReadThrows \/ ReadCloses \/ ReadEnds
    \/ WriteEvent \/ WriteTurn \/ WriteFails \/ WriteEnds
    \/ UserCall \/ Expire
    \/ Connect \/ ClientReads \/ ClientCloses
    \/ \E msg \in Messages : ClientSends(msg)
    \/ \E n \in 1..Sent : Arrive(n)

Spec == Init /\ [][Next]_vars

-----------------------------------------------------------------------------
(* Properties *)

\* As long as every read gives exactly one message, the dispatcher is called
\* with the client's messages, each once and in order, and nothing is left in
\* the input queue between two events.
FramedWhenFed ==
    Open /\ fed =>
        /\ \A i \in DOMAIN handled : IsMessage(handled[i], i)
        /\ at # "reading" => /\ conn.m_inbuf = <<>>
                             /\ sock.readpos + 1 = Start(Len(handled) + 1)
        /\ conn.thrown # "length_error"

\* The object is used again for the next client with its descriptor: what is in
\* its queues, and what it writes, belongs to the connection it serves now; its
\* replies go to the kernel in the order of the sendData calls and none twice;
\* and the input queue holds the latest words read, without a gap.
NoCrossTalk ==
    Open => /\ \A i \in DOMAIN conn.m_outbuf : conn.m_outbuf[i].client = conn.m_connection_fd
            /\ \A i \in DOMAIN wire : wire[i].reply.client = sock.client
            /\ [i \in DOMAIN wire |-> wire[i].reply.n] \o
               [i \in DOMAIN conn.m_outbuf |-> conn.m_outbuf[i].n] = [i \in 1..conn.accepted |-> i]
            /\ \A i \in DOMAIN conn.m_inbuf :
                  conn.m_inbuf[i].last = IF i = Len(conn.m_inbuf) THEN sock.readpos
                                         ELSE conn.m_inbuf[i + 1].first - 1

=============================================================================
