----------------------------- MODULE TcpClient -----------------------------
(***************************************************************************)
(* TcpClient.cpp on its event loop: connecting, reconnecting, the output   *)
(* queue and the events registered for the socket.  The loop's timers are  *)
(* those of TimerQueue: the reconnection after a failed connect is a timer *)
(* of that queue.                                                          *)
(*                                                                         *)
(* The object and what the loop has registered for it are one record, c,   *)
(* because one callback runs through several functions (handleRead calls   *)
(* cleanConnection, which calls doConnect, which may call the user's       *)
(* onConnection, which calls sendData).  Sockets are numbered in the order *)
(* of their creation, so a registration that outlives its socket shows.    *)
(* The socket itself, and the peer, are the environment.                   *)
(***************************************************************************)
EXTENDS Naturals, Sequences, SequencesExt, FiniteSets

CONSTANTS
    MAX_BUFFER_NUM,  \* IOBufferQueue::MAX_BUFFER_NUM
    SndBuf,          \* room of the socket's send buffer, in half messages
    ReConnectDelay,  \* the 2 s of connectEventCallback, in clock units
    MaxMsgs,         \* bound: messages the user gets accepted
    MaxSockets,      \* bound: sockets created, after which no connection ends
    MaxNow,          \* bound of the clock
    Never            \* see TimerQueue

ASSUME ClientAssumption == /\ MAX_BUFFER_NUM \in Nat \ {0} /\ SndBuf \in Nat \ {0}
                           /\ ReConnectDelay \in Nat \ {0}
                           /\ MaxMsgs \in Nat /\ MaxSockets \in Nat \ {0}

VARIABLES
    c,          \* the TcpClient and its registrations
    sock,       \* the kernel's socket: state, unread input, room to write
    wire,       \* history: messages handed to the kernel, in order
    tq, now, in_batch, fired_evs   \* the loop's timers, as in TimerQueue

vars == <<c, sock, wire, tq, now, in_batch, fired_evs>>
timers == <<tq, now, in_batch, fired_evs>>

TQ == INSTANCE TimerQueue WITH Delays <- {ReConnectDelay}, Intervals <- {}, MaxTimers <- MaxSockets,
                               emptied <- FALSE, early <- {}, crashed <- FALSE

NoFd == 0   \* m_sockfd = -1

-----------------------------------------------------------------------------
(* The loop's registrations: io_events maps a socket to its mask and to the *)
(* callback for EPOLLOUT.  Adding an event for fd -1 makes epoll_ctl throw. *)

addIoEvent(s, fd, mask, wcb) ==
    IF fd = NoFd THEN [s EXCEPT !.thrown = "epoll_ctl"]
    ELSE LET old == IF fd \in DOMAIN s.io_events THEN s.io_events[fd]
                    ELSE [mask |-> {}, wcb |-> "none"]
         IN  [s EXCEPT !.io_events = (fd :> [mask |-> old.mask \cup {mask},
                           wcb |-> IF mask = "OUT" THEN wcb ELSE old.wcb]) @@ @]

delIoEvent(s, fd) ==
    [s EXCEPT !.io_events = [f \in DOMAIN @ \ {fd} |-> @[f]]]

\* delIoEvent(fd, EPOLLOUT) of a socket that is also read.
delOutEvent(s, fd) ==
    IF fd \in DOMAIN s.io_events
    THEN IF s.io_events[fd].mask \subseteq {"OUT"} THEN delIoEvent(s, fd)
         ELSE [s EXCEPT !.io_events[fd].mask = @ \ {"OUT"}]
    ELSE s

-----------------------------------------------------------------------------
(* The functions of TcpClient *)

\* mutant: whether the queue is empty is looked at after adding to it
sendDataLate(s) ==
    IF ~s.m_net_connected \/ Len(s.m_outbuf) >= MAX_BUFFER_NUM THEN s
    ELSE [s EXCEPT !.accepted = @ + 1, !.m_outbuf = Append(@, s.accepted + 1)]

\* sendData: refused when not connected or full; EPOLLOUT is asked for only
\* when the queue was empty.
sendData(s) ==
    IF ~s.m_net_connected \/ Len(s.m_outbuf) >= MAX_BUFFER_NUM THEN s
    ELSE LET queued == [s EXCEPT !.accepted = @ + 1, !.m_outbuf = Append(@, s.accepted + 1)]
         IN  IF s.m_outbuf = <<>> THEN addIoEvent(queued, s.m_sockfd, "OUT", "write")
             ELSE queued

\* The user's callback makes n calls of sendData.
UserSends(s, n) == IF n = 0 \/ s.accepted >= MaxMsgs THEN s ELSE sendData(s)

\* The connection is there: onConnect, then EPOLLIN, then EPOLLOUT if the queue
\* holds something, from the user's callback or from an earlier connection.
Established(s, n) ==
    LET told == UserSends([s EXCEPT !.m_net_connected = TRUE], n)
        read == addIoEvent(told, s.m_sockfd, "IN", "none")
    IN  IF read.m_outbuf # <<>> THEN addIoEvent(read, s.m_sockfd, "OUT", "write") ELSE read

\* close(m_sockfd) and m_sockfd = -1
CloseFd(s) == [s EXCEPT !.open = @ \ {s.m_sockfd}, !.m_sockfd = NoFd]

\* doConnect's first half: close what is left, create a socket.
NewSocket(s) ==
    LET fd == s.sockets + 1
    IN  [CloseFd(s) EXCEPT !.sockets = fd, !.m_sockfd = fd, !.open = @ \cup {fd}]

\* doConnect, by what connect() says.
ConnectResults == {"done", "EINPROGRESS", "error"}
doConnect(s, result, n) ==
    LET fresh == NewSocket(s)
    IN  CASE result = "done" -> Established(fresh, n)
          [] result = "EINPROGRESS" -> addIoEvent(fresh, fresh.m_sockfd, "OUT", "connect")
          [] result = "error" -> [fresh EXCEPT !.thrown = "connect"]

NewSock(result) == [state |-> CASE result = "done" -> "established"
                                [] result = "EINPROGRESS" -> "connecting"
                                [] result = "error" -> "none",
                    inq |-> <<>>, room |-> SndBuf]

\* close and unregister the socket, if there is one
Closed(s) == IF s.m_sockfd = NoFd THEN s ELSE CloseFd(delIoEvent(s, s.m_sockfd))

\* mutant: the queue dies with the connection
cleanConnectionAll(s, n) ==
    UserSends([Closed(s) EXCEPT !.m_net_connected = FALSE, !.m_outbuf = <<>>], n)

\* cleanConnection up to the call of doConnect; onClose may call sendData.
cleanConnection(s, n) == UserSends([Closed(s) EXCEPT !.m_net_connected = FALSE], n)

\* cleanConnection and the reconnection it ends with.
CleanAndReconnect(s) ==
    /\ s.sockets < MaxSockets
    /\ \E result \in ConnectResults, n, onclose \in {0, 1} :
          /\ c' = doConnect(cleanConnection(s, onclose), result, n)
          /\ sock' = NewSock(result)

-----------------------------------------------------------------------------
(* Actions *)

\* The loop's timers when the client starts: never used, or a timer of somebody
\* else on the loop was added and deleted before.
UsedTimerQueue == TQ!delTimer(TQ!addTimer(TQ!NewTimerQueue, 1, 0), 0)

Init ==
    /\ c = [m_sockfd |-> NoFd, m_net_connected |-> FALSE, m_outbuf |-> <<>>,
            io_events |-> <<>>, open |-> {}, sockets |-> 0, accepted |-> 0,
            failed |-> FALSE, running |-> FALSE, thrown |-> "no"]   \* failed: history
    /\ sock = [state |-> "none", inq |-> <<>>, room |-> SndBuf]
    /\ wire = <<>>
    /\ tq \in {TQ!NewTimerQueue, UsedTimerQueue}
    /\ now = 1 /\ in_batch = FALSE /\ fired_evs = <<>>

\* The loop dispatches events, also after stop(), until a call throws.
Looping == c.sockets > 0 /\ c.thrown = "no"
Fd == c.m_sockfd
Registered(e) == Fd \in DOMAIN c.io_events /\ e \in c.io_events[Fd].mask

\* startLoop: connect, then run the loop.
StartLoop ==
    /\ ~c.running /\ c.sockets = 0
    /\ \E result \in ConnectResults, n \in {0, 1} :
          /\ c' = [doConnect(c, result, n) EXCEPT !.running = TRUE]
          /\ sock' = NewSock(result)
    /\ UNCHANGED <<wire, timers>>

\* connectEventCallback's error branch, but for the timer it adds.
ConnectFailed(s) == [delIoEvent(s, s.m_sockfd) EXCEPT !.failed = TRUE]

\* connectEventCallback: the socket is writable or in error.
ConnectEvent ==
    /\ Looping
    /\ Registered("OUT") /\ c.io_events[Fd].wcb = "connect"
    /\ \/ /\ sock.state = "established"
          /\ \E n \in {0, 1} : c' = Established(delIoEvent(c, Fd), n)
          /\ UNCHANGED tq
       \/ /\ sock.state = "refused"
          /\ c' = ConnectFailed(c)
          /\ tq' = TQ!addTimer(tq, now + ReConnectDelay, 0)
    /\ UNCHANGED <<sock, wire, now, in_batch, fired_evs>>

\* What the next read finds at the front.
Command == IF sock.inq = <<>> THEN "end" ELSE Head(sock.inq)
InReady == Registered("IN") /\ (sock.inq # <<>> \/ sock.state = "closed")

\* handleRead.  All that has arrived is one buffer: the first head decides.  A
\* buffer shorter than a head is read past its end: what is found there may be a
\* known command, and then no vector can be made of what follows the head.
ReadEvent ==
    /\ Looping
    /\ InReady /\ c.m_net_connected
    /\ \/ /\ Command = "known"
          /\ \E n \in {0, 1} : c' = UserSends(c, n)
          /\ sock' = [sock EXCEPT !.inq = <<>>]
       \/ /\ Command = "short"
          /\ c' = [c EXCEPT !.thrown = "length_error"]
          /\ sock' = [sock EXCEPT !.inq = <<>>]
       \/ /\ Command \in {"end", "unknown", "short"}
          /\ CleanAndReconnect(c)
    /\ UNCHANGED <<wire, timers>>

\* What handleWrite's loop hands over: whole messages while there is room for
\* them, then what fits of the next one, which is popped like the others.
Taken(q, room) ==
    LET whole == IF Len(q) <= room \div 2 THEN Len(q) ELSE room \div 2
    IN  IF whole < Len(q) /\ room % 2 = 1 THEN whole + 1 ELSE whole

\* handleWrite.  The loop calls it when epoll_wait did not see the socket
\* readable; input or a reset may have come since.
WriteEvent ==
    /\ Looping
    /\ Registered("OUT") /\ c.io_events[Fd].wcb = "write"
    /\ c.m_net_connected /\ c.m_outbuf # <<>>
    /\ \/ /\ sock.room > 0 /\ sock.state = "established"
          /\ LET k == Taken(c.m_outbuf, sock.room)
                 rest == [c EXCEPT !.m_outbuf = SubSeq(@, k + 1, Len(@))]
             IN  /\ wire' = wire \o SubSeq(c.m_outbuf, 1, k)
                 /\ c' = IF rest.m_outbuf = <<>> THEN delOutEvent(rest, Fd) ELSE rest
                 /\ sock' = [sock EXCEPT !.room = IF @ < 2 * k THEN 0 ELSE @ - 2 * k]
       \/ /\ sock.state = "closed"
          /\ CleanAndReconnect(c)
          /\ UNCHANGED wire
    /\ UNCHANGED timers

\* Another callback of the loop's thread calls sendData.
UserCall ==
    /\ Looping
    /\ c.accepted < MaxMsgs
    /\ c' = sendData(c)
    /\ UNCHANGED <<sock, wire, timers>>

\* stop(), from a callback.  m_net_connected is left as it is.
Stop ==
    /\ Looping /\ c.running
    /\ c' = [CloseFd(delIoEvent(c, Fd)) EXCEPT !.running = FALSE]
    /\ sock' = [sock EXCEPT !.state = "none", !.inq = <<>>]
    /\ UNCHANGED <<wire, timers>>

\* The loop's timer event, and reConnectCallback for each timer that fired.
\* A batch holds the timerfd and the socket in any order.
TimerEvent ==
    /\ Looping /\ ~in_batch /\ fired_evs = <<>>
    /\ TQ!Readable
    /\ in_batch' = TRUE
    /\ UNCHANGED <<c, sock, wire, tq, now, fired_evs>>

TimerQueueCallback ==
    /\ Looping /\ in_batch
    /\ in_batch' = FALSE
    /\ LET r == TQ!getFiredTimerEvents(tq) IN tq' = r.q /\ fired_evs' = r.fired
    /\ UNCHANGED <<c, sock, wire, now>>

ReConnect ==
    /\ Looping /\ fired_evs # <<>>
    /\ c.sockets < MaxSockets
    /\ fired_evs' = Tail(fired_evs)
    /\ \E result \in ConnectResults, n \in {0, 1} :
          /\ c' = [doConnect(c, result, n) EXCEPT !.failed = FALSE]
          /\ sock' = NewSock(result)
    /\ UNCHANGED <<wire, tq, now, in_batch>>

Tick == /\ now < MaxNow
        /\ now' = now + 1
        /\ UNCHANGED <<c, sock, wire, tq, in_batch, fired_evs>>

-----------------------------------------------------------------------------
(* The network and the peer *)

ConnectResolves ==
    /\ sock.state = "connecting"
    /\ \E r \in {"established", "refused"} : sock' = [sock EXCEPT !.state = r]
    /\ UNCHANGED <<c, wire, timers>>

\* A message, whole or less than its head; the rest of one that was less comes
\* with the next.  What follows a buffer that was read may begin with anything.
PeerSends ==
    /\ sock.state = "established" /\ Len(sock.inq) < 2
    /\ \E cmd \in {"known", "unknown", "short"} :
          sock' = [sock EXCEPT !.inq = Append(SelectSeq(@, LAMBDA m : m # "short"), cmd)]
    /\ UNCHANGED <<c, wire, timers>>

PeerReads ==
    /\ sock.state = "established" /\ sock.room < SndBuf
    /\ sock' = [sock EXCEPT !.room = @ + 1]
    /\ UNCHANGED <<c, wire, timers>>

\* The peer closes, after what it sent or, with a reset, instead of it.
PeerCloses ==
    /\ sock.state = "established"
    /\ \E left \in {sock.inq, <<>>} : sock' = [sock EXCEPT !.state = "closed", !.inq = left]
    /\ UNCHANGED <<c, wire, timers>>

Next ==
    \/ StartLoop \/ ConnectEvent \/ ReadEvent \/ WriteEvent \/ UserCall \/ Stop
    \/ TimerEvent \/ TimerQueueCallback \/ ReConnect \/ Tick
    \/ ConnectResolves \/ PeerSends \/ PeerReads \/ PeerCloses

Spec == Init /\ [][Next]_vars

\* A reported timerfd gets its callback, without computing the heap it leaves.
BatchGoesOn == Looping /\ in_batch /\ in_batch' = FALSE

\* The loop keeps dispatching what epoll reports, connects resolve, a peer that
\* is there keeps reading, and time passes.  Nothing makes the peer send.
FairSpec ==
    /\ Spec
    /\ WF_vars(ConnectEvent) /\ WF_vars(ReadEvent) /\ WF_vars(~InReady /\ WriteEvent)
    /\ WF_vars(TimerEvent) /\ WF_in_batch(BatchGoesOn) /\ WF_vars(ReConnect)
    /\ WF_vars(Tick) /\ WF_vars(ConnectResolves) /\ WF_vars(PeerReads)

-----------------------------------------------------------------------------
(* Properties *)

\* A connect failed, and the bounds leave room for what follows.
FailedInTime ==
    /\ c.failed /\ c.sockets < MaxSockets
    /\ \E i \in DOMAIN tq.m_event_list : tq.m_event_list[i].ts <= MaxNow

\* Accepted messages are written in the order they were accepted, each once,
\* also across reconnections: what was handed to the kernel, followed by what
\* is still queued, is what sendData accepted.
SentInOrder == wire \o c.m_outbuf = [i \in 1..c.accepted |-> i]

\* Once the peer stops sending, what is queued on a connection gets written,
\* or the connection ends.
OutputIsWritten ==
    \A s \in 1..MaxSockets :
        (<>[](sock.inq = <<>>)) =>
            ((Fd = s /\ c.m_net_connected /\ c.m_outbuf # <<>>)
                ~> (Fd # s \/ c.m_outbuf = <<>> \/ c.thrown # "no" \/ sock.state = "closed"))

\* The same on a loop whose timers have been armed before.
ReconnectsOnUsedLoop ==
    (FailedInTime /\ tq.m_pioneer # 0) ~> (~c.failed \/ c.thrown # "no")
=============================================================================
