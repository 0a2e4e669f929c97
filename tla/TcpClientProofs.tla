-------------------------- MODULE TcpClientProofs --------------------------
(***************************************************************************)
(* For any limit of the queue, room of the socket, delay and clock: the    *)
(* messages sendData accepted are written in their order, each once,       *)
(* across reconnections.                                                   *)
(*                                                                         *)
(* A callback runs through several functions of the client, and all of     *)
(* them may come to sendData by way of the user's callbacks.  So the       *)
(* argument goes function by function: each keeps what is queued in step   *)
(* with what was accepted, whatever was written before.  Only handleWrite  *)
(* takes from the queue, and what it takes is what it writes.              *)
(***************************************************************************)
EXTENDS TcpClient, SequenceTheorems, TLAPS

\* c is a record with the fields the argument is about.
IsClient(s) == {"m_outbuf", "accepted"} \subseteq DOMAIN s

\* The messages 1 .. n were accepted: w, and then q, which is queued.
Continues(w, q, n) ==
    /\ w \in Seq(Nat) /\ q \in Seq(Nat) /\ n \in Nat
    /\ n = Len(w) + Len(q)
    /\ \A i \in 1 .. Len(w) : w[i] = i
    /\ \A i \in 1 .. Len(q) : q[i] = Len(w) + i

\* Of the messages accepted by s those that w does not have are queued.
InStep(w, s) == IsClient(s) /\ Continues(w, s.m_outbuf, s.accepted)

IInv == InStep(wire, c) /\ "room" \in DOMAIN sock /\ sock.room \in Nat

-------------------------------------------------------------------------------
(* Sequences *)

\* sendData's message is the next.
LEMMA AppendContinues ==
  ASSUME NEW w, NEW q, NEW n, Continues(w, q, n)
  PROVE  Continues(w, Append(q, n + 1), n + 1)
<1>1. /\ Append(q, n + 1) \in Seq(Nat) /\ Len(Append(q, n + 1)) = Len(q) + 1
      /\ \A i \in 1 .. Len(q) + 1 : Append(q, n + 1)[i] = Len(w) + i
  BY DEF Continues
<1> QED
  BY <1>1 DEF Continues

\* What is written is taken from the front of the queue.
LEMMA WrittenContinues ==
  ASSUME NEW w, NEW q, NEW n, Continues(w, q, n), NEW k \in 0 .. Len(q)
  PROVE  Continues(w \o SubSeq(q, 1, k), SubSeq(q, k + 1, Len(q)), n)
<1> DEFINE first == SubSeq(q, 1, k)
           rest == SubSeq(q, k + 1, Len(q))
<1>1. /\ w \in Seq(Nat) /\ q \in Seq(Nat) /\ n \in Nat /\ n = Len(w) + Len(q)
      /\ \A i \in 1 .. Len(w) : w[i] = i
      /\ \A i \in 1 .. Len(q) : q[i] = Len(w) + i
      /\ Len(w) \in Nat /\ Len(q) \in Nat
  BY DEF Continues
<1>2. /\ first \in Seq(Nat) /\ Len(first) = k /\ \A i \in 1 .. k : first[i] = q[i]
      /\ rest \in Seq(Nat) /\ Len(rest) = Len(q) - k
      /\ \A i \in 1 .. Len(q) - k : rest[i] = q[i + k]
  <2>1. q \in Seq(Nat) /\ Len(q) \in Nat /\ k \in Nat /\ k <= Len(q)
    BY <1>1
  <2>2. first \in Seq(Nat) /\ Len(first) = k /\ \A i \in 1 .. k : first[i] = q[i]
    BY <2>1
  <2>3. rest \in Seq(Nat) /\ Len(rest) = Len(q) - k
    BY <2>1
  <2>4. \A i \in 1 .. Len(q) - k : rest[i] = q[i + k]
    BY <2>1
  <2> QED
    BY <2>2, <2>3, <2>4
<1> HIDE DEF first, rest
<1> DEFINE all == w \o first
<1>3. /\ all \in Seq(Nat) /\ Len(all) = Len(w) + k
      /\ \A i \in 1 .. Len(w) : all[i] = w[i]
      /\ \A i \in 1 .. k : all[Len(w) + i] = first[i]
  <2>1. /\ all \in Seq(Nat) /\ Len(all) = Len(w) + Len(first)
        /\ \A i \in 1 .. Len(w) + Len(first) :
              all[i] = IF i <= Len(w) THEN w[i] ELSE first[i - Len(w)]
    BY <1>1, <1>2, ConcatProperties
  <2> HIDE DEF all
  <2>2. \A i \in 1 .. Len(w) : all[i] = w[i]
    <3> SUFFICES ASSUME NEW i \in 1 .. Len(w) PROVE all[i] = w[i]
      OBVIOUS
    <3>1. i \in 1 .. Len(w) + Len(first) /\ i <= Len(w)
      BY <1>1, <1>2
    <3> QED
      BY <2>1, <3>1
  <2>3. ASSUME NEW i \in 1 .. k PROVE all[Len(w) + i] = first[i]
    <3>1. Len(w) + i \in 1 .. Len(w) + Len(first) /\ ~(Len(w) + i <= Len(w))
          /\ Len(w) + i - Len(w) = i
      BY <1>1, <1>2
    <3> QED
      BY <2>1, <3>1
  <2> QED
    BY <1>2, <2>1, <2>2, <2>3
<1> HIDE DEF all
<1>4. \A i \in 1 .. Len(all) : all[i] = i
  <2> SUFFICES ASSUME NEW i \in 1 .. Len(all) PROVE all[i] = i
    OBVIOUS
  <2>1. CASE i <= Len(w)
    BY <1>1, <1>3, <2>1
  <2>2. CASE i > Len(w)
    <3>1. i - Len(w) \in 1 .. k /\ i = Len(w) + (i - Len(w))
      BY <1>1, <1>3, <2>2
    <3>2. all[i] = first[i - Len(w)] /\ first[i - Len(w)] = q[i - Len(w)]
      BY <1>2, <1>3, <3>1
    <3> QED
      BY <1>1, <3>1, <3>2
  <2> QED
    BY <1>1, <2>1, <2>2
<1>5. \A i \in 1 .. Len(rest) : rest[i] = Len(all) + i
  BY <1>1, <1>2, <1>3
<1>6. n = Len(all) + Len(rest)
  BY <1>1, <1>2, <1>3
<1>7. Continues(all, rest, n)
  BY <1>1, <1>2, <1>3, <1>4, <1>5, <1>6 DEF Continues
<1> QED
  BY <1>7 DEF all, first, rest

-------------------------------------------------------------------------------
(* The functions of TcpClient *)

\* Functions that touch neither the queue nor the count.
SameQueue(s, t) == IsClient(t) /\ t.m_outbuf = s.m_outbuf /\ t.accepted = s.accepted

\* So they keep the order.
LEMMA SameQueueInStep ==
  ASSUME NEW w, NEW s, NEW t, InStep(w, s), SameQueue(s, t)
  PROVE  InStep(w, t)
  BY DEF InStep, SameQueue

\* Assignments to the other fields.
LEMMA ExceptKeeps ==
  ASSUME NEW s, IsClient(s), NEW v
  PROVE  /\ SameQueue(s, [s EXCEPT !.thrown = v])
         /\ SameQueue(s, [s EXCEPT !.m_net_connected = v])
         /\ SameQueue(s, [s EXCEPT !.failed = v])
         /\ SameQueue(s, [s EXCEPT !.running = v])
  BY DEF IsClient, SameQueue

\* The loop's registrations, ...
LEMMA addIoEventKeeps ==
  ASSUME NEW s, IsClient(s), NEW fd, NEW mask, NEW wcb
  PROVE  SameQueue(s, addIoEvent(s, fd, mask, wcb))
  BY DEF addIoEvent, IsClient, SameQueue

\* ... their ends, ...
LEMMA delIoEventKeeps ==
  ASSUME NEW s, IsClient(s), NEW fd
  PROVE  SameQueue(s, delIoEvent(s, fd)) /\ SameQueue(s, delOutEvent(s, fd))
  BY DEF delIoEvent, delOutEvent, IsClient, SameQueue

\* ... and sockets closed and created.
LEMMA CloseFdKeeps ==
  ASSUME NEW s, IsClient(s)
  PROVE  SameQueue(s, CloseFd(s)) /\ SameQueue(s, Closed(s)) /\ SameQueue(s, NewSocket(s))
  BY DEF CloseFd, Closed, NewSocket, delIoEvent, IsClient, SameQueue

\* None of these disturbs the order.
LEMMA OthersInStep ==
  ASSUME NEW w, NEW s, InStep(w, s), NEW fd, NEW mask, NEW wcb, NEW v
  PROVE  /\ InStep(w, addIoEvent(s, fd, mask, wcb))
         /\ InStep(w, delIoEvent(s, fd)) /\ InStep(w, delOutEvent(s, fd))
         /\ InStep(w, CloseFd(s)) /\ InStep(w, Closed(s)) /\ InStep(w, NewSocket(s))
         /\ InStep(w, [s EXCEPT !.m_net_connected = v]) /\ InStep(w, [s EXCEPT !.thrown = v])
         /\ InStep(w, [s EXCEPT !.failed = v]) /\ InStep(w, [s EXCEPT !.running = v])
<1>1. IsClient(s)
  BY DEF InStep
<1>2. /\ InStep(w, addIoEvent(s, fd, mask, wcb))
      /\ InStep(w, delIoEvent(s, fd)) /\ InStep(w, delOutEvent(s, fd))
  <2>1. SameQueue(s, addIoEvent(s, fd, mask, wcb))
    BY <1>1, addIoEventKeeps
  <2>2. SameQueue(s, delIoEvent(s, fd)) /\ SameQueue(s, delOutEvent(s, fd))
    BY <1>1, delIoEventKeeps
  <2> QED
    BY <2>1, <2>2, SameQueueInStep
<1>3. InStep(w, CloseFd(s)) /\ InStep(w, Closed(s)) /\ InStep(w, NewSocket(s))
  <2>1. SameQueue(s, CloseFd(s)) /\ SameQueue(s, Closed(s)) /\ SameQueue(s, NewSocket(s))
    BY <1>1, CloseFdKeeps
  <2> QED
    BY <2>1, SameQueueInStep
<1>4. /\ InStep(w, [s EXCEPT !.m_net_connected = v]) /\ InStep(w, [s EXCEPT !.thrown = v])
      /\ InStep(w, [s EXCEPT !.failed = v]) /\ InStep(w, [s EXCEPT !.running = v])
  <2>1. /\ SameQueue(s, [s EXCEPT !.m_net_connected = v])
        /\ SameQueue(s, [s EXCEPT !.thrown = v])
        /\ SameQueue(s, [s EXCEPT !.failed = v]) /\ SameQueue(s, [s EXCEPT !.running = v])
    BY <1>1, ExceptKeeps
  <2> QED
    BY <2>1, SameQueueInStep
<1> QED
  BY <1>2, <1>3, <1>4

\* sendData queues the next message or, when not connected or full, none.
LEMMA sendDataInStep ==
  ASSUME NEW w, NEW s, InStep(w, s)
  PROVE  InStep(w, sendData(s))
<1>1. CASE ~s.m_net_connected \/ Len(s.m_outbuf) >= MAX_BUFFER_NUM
  BY <1>1 DEF sendData
<1>2. CASE ~(~s.m_net_connected \/ Len(s.m_outbuf) >= MAX_BUFFER_NUM)
  <2> DEFINE t == [s EXCEPT !.accepted = @ + 1, !.m_outbuf = Append(@, s.accepted + 1)]
  <2>1. IsClient(t) /\ t.accepted = s.accepted + 1 /\ t.m_outbuf = Append(s.m_outbuf, s.accepted + 1)
    BY DEF InStep, IsClient
  <2>2. sendData(s) = IF s.m_outbuf = <<>> THEN addIoEvent(t, s.m_sockfd, "OUT", "write") ELSE t
    BY <1>2 DEF sendData
  <2> HIDE DEF t
  <2>3. InStep(w, t)
    BY <2>1, AppendContinues DEF InStep
  <2>4. SameQueue(t, addIoEvent(t, s.m_sockfd, "OUT", "write"))
    BY <2>1, addIoEventKeeps
  <2> QED
    BY <2>2, <2>3, <2>4, SameQueueInStep
<1> QED
  BY <1>1, <1>2

\* The user's callback may call sendData.
LEMMA UserSendsInStep ==
  ASSUME NEW w, NEW s, NEW n, InStep(w, s)
  PROVE  InStep(w, UserSends(s, n))
  BY sendDataInStep DEF UserSends

\* A connection that is there: what the user sends comes after what an
\* earlier connection has left in the queue.
LEMMA EstablishedInStep ==
  ASSUME NEW w, NEW s, NEW n, InStep(w, s)
  PROVE  InStep(w, Established(s, n))
<1> DEFINE up == [s EXCEPT !.m_net_connected = TRUE]
           told == UserSends(up, n)
           read == addIoEvent(told, s.m_sockfd, "IN", "none")
           both == addIoEvent(read, s.m_sockfd, "OUT", "write")
<1>1. Established(s, n) = IF read.m_outbuf # <<>> THEN both ELSE read
  BY DEF Established
<1>2. InStep(w, up)
  BY OthersInStep
<1> HIDE DEF up
<1>3. InStep(w, told)
  BY <1>2, UserSendsInStep
<1> HIDE DEF told
<1>4. InStep(w, read)
  BY <1>3, OthersInStep
<1> HIDE DEF read
<1>5. InStep(w, both)
  BY <1>4, OthersInStep
<1> QED
  BY <1>1, <1>4, <1>5

\* doConnect, whatever connect() says.
LEMMA doConnectInStep ==
  ASSUME NEW w, NEW s, NEW n, NEW result \in ConnectResults, InStep(w, s)
  PROVE  InStep(w, doConnect(s, result, n))
<1> DEFINE fresh == NewSocket(s)
<1>1. InStep(w, fresh)
  BY OthersInStep
<1>2. /\ result = "done" => doConnect(s, result, n) = Established(fresh, n)
      /\ result = "EINPROGRESS" =>
           doConnect(s, result, n) = addIoEvent(fresh, fresh.m_sockfd, "OUT", "connect")
      /\ result = "error" => doConnect(s, result, n) = [fresh EXCEPT !.thrown = "connect"]
  BY DEF doConnect
<1> HIDE DEF fresh
<1>3. InStep(w, Established(fresh, n))
  BY <1>1, EstablishedInStep
<1>4. InStep(w, addIoEvent(fresh, fresh.m_sockfd, "OUT", "connect"))
  BY <1>1, OthersInStep
<1>5. InStep(w, [fresh EXCEPT !.thrown = "connect"])
  BY <1>1, OthersInStep
<1> QED
  BY <1>2, <1>3, <1>4, <1>5 DEF ConnectResults

\* cleanConnection leaves the queue to the next connection; onClose may add
\* to it.
LEMMA cleanConnectionInStep ==
  ASSUME NEW w, NEW s, NEW n, InStep(w, s)
  PROVE  InStep(w, cleanConnection(s, n))
<1> DEFINE closed == Closed(s)
           down == [closed EXCEPT !.m_net_connected = FALSE]
<1>1. InStep(w, closed)
  BY OthersInStep
<1>2. cleanConnection(s, n) = UserSends(down, n)
  BY DEF cleanConnection
<1> HIDE DEF closed
<1>3. InStep(w, down)
  BY <1>1, OthersInStep
<1> HIDE DEF down
<1> QED
  BY <1>2, <1>3, UserSendsInStep

\* Both together; the new socket has all of its room.
LEMMA CleanAndReconnectInStep ==
  ASSUME NEW w, NEW s, InStep(w, s), CleanAndReconnect(s)
  PROVE  InStep(w, c') /\ "room" \in DOMAIN sock' /\ sock'.room = SndBuf
<1>1. PICK result \in ConnectResults, n \in {0, 1}, onclose \in {0, 1} :
        c' = doConnect(cleanConnection(s, onclose), result, n) /\ sock' = NewSock(result)
  BY DEF CleanAndReconnect
<1>2. InStep(w, c')
  BY <1>1, cleanConnectionInStep, doConnectInStep
<1>3. "room" \in DOMAIN sock' /\ sock'.room = SndBuf
  BY <1>1 DEF NewSock
<1> QED
  BY <1>2, <1>3

-------------------------------------------------------------------------------
(* handleWrite *)

\* What handleWrite takes is there.
LEMMA TakenInRange ==
  ASSUME NEW q \in Seq(Nat), NEW room \in Nat
  PROVE  Taken(q, room) \in 0 .. Len(q)
<1>1. Len(q) \in Nat /\ room \div 2 \in Nat
  OBVIOUS
<1> QED
  BY <1>1 DEF Taken

\* What is taken from the front of the queue and written stays in step.
LEMMA TakenInStep ==
  ASSUME NEW w, NEW s, InStep(w, s), NEW k \in 0 .. Len(s.m_outbuf)
  PROVE  InStep(w \o SubSeq(s.m_outbuf, 1, k),
                [s EXCEPT !.m_outbuf = SubSeq(@, k + 1, Len(@))])
<1> DEFINE q == s.m_outbuf
           t == [s EXCEPT !.m_outbuf = SubSeq(@, k + 1, Len(@))]
<1>1. IsClient(t) /\ t.accepted = s.accepted /\ t.m_outbuf = SubSeq(q, k + 1, Len(q))
  BY DEF InStep, IsClient
<1>2. Continues(w \o SubSeq(q, 1, k), SubSeq(q, k + 1, Len(q)), s.accepted)
  BY WrittenContinues DEF InStep
<1> QED
  BY <1>1, <1>2 DEF InStep

-------------------------------------------------------------------------------
(* The steps *)

\* startLoop connects.
LEMMA StartLoopStep ==
  ASSUME IInv, StartLoop
  PROVE  IInv'
<1>1. PICK result \in ConnectResults, n \in {0, 1} :
        c' = [doConnect(c, result, n) EXCEPT !.running = TRUE] /\ sock' = NewSock(result)
  BY DEF StartLoop
<1>2. InStep(wire, doConnect(c, result, n))
  BY doConnectInStep DEF IInv
<1>3. InStep(wire, c')
  BY <1>1, <1>2, OthersInStep
<1> QED
  BY <1>1, <1>3, ClientAssumption DEF IInv, StartLoop, NewSock

\* connectEventCallback, of a connection or of a failure.
LEMMA ConnectEventStep ==
  ASSUME IInv, ConnectEvent
  PROVE  IInv'
<1>1. (\E n \in {0, 1} : c' = Established(delIoEvent(c, Fd), n)) \/ c' = ConnectFailed(c)
  BY DEF ConnectEvent
<1>2. InStep(wire, delIoEvent(c, Fd)) /\ InStep(wire, delIoEvent(c, c.m_sockfd))
  BY OthersInStep DEF IInv
<1>3. CASE \E n \in {0, 1} : c' = Established(delIoEvent(c, Fd), n)
  BY <1>2, <1>3, EstablishedInStep DEF IInv, ConnectEvent
<1>4. CASE c' = ConnectFailed(c)
  <2>1. InStep(wire, [delIoEvent(c, c.m_sockfd) EXCEPT !.failed = TRUE])
    BY <1>2, OthersInStep
  <2> QED
    BY <1>4, <2>1 DEF ConnectFailed, IInv, ConnectEvent
<1> QED
  BY <1>1, <1>3, <1>4

\* handleRead calls the user, throws, or cleans the connection.
LEMMA ReadEventStep ==
  ASSUME IInv, ReadEvent
  PROVE  IInv'
<1> USE DEF IInv
<1>1. CASE \E n \in {0, 1} : c' = UserSends(c, n) /\ sock' = [sock EXCEPT !.inq = <<>>]
  BY <1>1, UserSendsInStep DEF ReadEvent
<1>2. CASE c' = [c EXCEPT !.thrown = "length_error"] /\ sock' = [sock EXCEPT !.inq = <<>>]
  <2>1. InStep(wire, [c EXCEPT !.thrown = "length_error"])
    BY OthersInStep
  <2> QED
    BY <1>2, <2>1 DEF ReadEvent
<1>3. CASE CleanAndReconnect(c)
  BY <1>3, CleanAndReconnectInStep, ClientAssumption DEF ReadEvent
<1> QED
  BY <1>1, <1>2, <1>3 DEF ReadEvent

\* handleWrite writes what it takes, or cleans the connection.
LEMMA WriteEventStep ==
  ASSUME IInv, WriteEvent
  PROVE  IInv'
<1>1. CASE CleanAndReconnect(c) /\ UNCHANGED wire
  BY <1>1, CleanAndReconnectInStep, ClientAssumption DEF IInv
<1>2. CASE ~(CleanAndReconnect(c) /\ UNCHANGED wire)
  <2> DEFINE k == Taken(c.m_outbuf, sock.room)
             rest == [c EXCEPT !.m_outbuf = SubSeq(@, k + 1, Len(@))]
  <2>1. /\ wire' = wire \o SubSeq(c.m_outbuf, 1, k)
        /\ c' = IF rest.m_outbuf = <<>> THEN delOutEvent(rest, Fd) ELSE rest
        /\ sock' = [sock EXCEPT !.room = IF @ < 2 * k THEN 0 ELSE @ - 2 * k]
    BY <1>2 DEF WriteEvent
  <2>2. k \in 0 .. Len(c.m_outbuf)
    BY TakenInRange DEF IInv, InStep, Continues
  <2> HIDE DEF k
  <2>3. InStep(wire', rest)
    BY <2>1, <2>2, TakenInStep DEF IInv
  <2> HIDE DEF rest
  <2>4. InStep(wire', c')
    BY <2>1, <2>3, OthersInStep
  <2>5. "room" \in DOMAIN sock' /\ sock'.room \in Nat
    <3>1. /\ "room" \in DOMAIN sock'
          /\ sock'.room = IF sock.room < 2 * k THEN 0 ELSE sock.room - 2 * k
      BY <2>1 DEF IInv
    <3> QED
      BY <2>2, <3>1 DEF IInv, InStep, Continues
  <2> QED
    BY <2>4, <2>5 DEF IInv
<1> QED
  BY <1>1, <1>2

\* The user's calls of sendData and stop.
LEMMA UserStep ==
  ASSUME IInv, UserCall \/ Stop
  PROVE  IInv'
<1> USE DEF IInv
<1>1. CASE UserCall
  BY <1>1, sendDataInStep DEF UserCall
<1>2. CASE Stop
  <2>1. InStep(wire, CloseFd(delIoEvent(c, Fd)))
    BY OthersInStep
  <2>2. InStep(wire, c')
    BY <1>2, <2>1, OthersInStep DEF Stop
  <2> QED
    BY <1>2, <2>2 DEF Stop
<1> QED
  BY <1>1, <1>2

\* The timers, of which one reconnects.
LEMMA TimerStep ==
  ASSUME IInv, TimerEvent \/ TimerQueueCallback \/ ReConnect \/ Tick
  PROVE  IInv'
<1> USE DEF IInv
<1>1. CASE TimerEvent \/ TimerQueueCallback \/ Tick
  BY <1>1 DEF TimerEvent, TimerQueueCallback, Tick
<1>2. CASE ReConnect
  <2>1. PICK result \in ConnectResults, n \in {0, 1} :
          c' = [doConnect(c, result, n) EXCEPT !.failed = FALSE] /\ sock' = NewSock(result)
    BY <1>2 DEF ReConnect
  <2>2. InStep(wire, doConnect(c, result, n))
    BY doConnectInStep
  <2>3. InStep(wire, c')
    BY <2>1, <2>2, OthersInStep
  <2> QED
    BY <1>2, <2>1, <2>3, ClientAssumption DEF ReConnect, NewSock
<1> QED
  BY <1>1, <1>2

\* The network and the peer change nothing but the socket.
LEMMA EnvironmentStep ==
  ASSUME IInv, ConnectResolves \/ PeerSends \/ PeerReads \/ PeerCloses
  PROVE  IInv'
<1>1. c' = c /\ wire' = wire
  BY DEF ConnectResolves, PeerSends, PeerReads, PeerCloses
<1>2. CASE ConnectResolves
  BY <1>1, <1>2 DEF IInv, ConnectResolves
<1>3. CASE PeerSends
  <2>1. PICK q : sock' = [sock EXCEPT !.inq = q]
    BY <1>3 DEF PeerSends
  <2> QED
    BY <1>1, <2>1 DEF IInv
<1>4. CASE PeerReads
  BY <1>1, <1>4 DEF IInv, PeerReads
<1>5. CASE PeerCloses
  <2>1. PICK q : sock' = [sock EXCEPT !.state = "closed", !.inq = q]
    BY <1>5 DEF PeerCloses
  <2> QED
    BY <1>1, <2>1 DEF IInv
<1> QED
  BY <1>2, <1>3, <1>4, <1>5

-------------------------------------------------------------------------------
(* The theorem *)

\* The client begins with nothing accepted and nothing queued.
LEMMA InitIInv == Init => IInv
<1> SUFFICES ASSUME Init PROVE IInv
  OBVIOUS
<1>1. /\ wire = <<>> /\ c.m_outbuf = <<>> /\ c.accepted = 0 /\ IsClient(c)
      /\ "room" \in DOMAIN sock /\ sock.room = SndBuf
  BY DEF Init, IsClient
<1>2. Continues(<<>>, <<>>, 0)
  BY DEF Continues
<1> QED
  BY <1>1, <1>2, ClientAssumption DEF IInv, InStep

\* Every step preserves the invariant.
LEMMA NextIInv == IInv /\ [Next]_vars => IInv'
<1> SUFFICES ASSUME IInv, [Next]_vars PROVE IInv'
  OBVIOUS
<1>1. CASE Next
  BY <1>1, StartLoopStep, ConnectEventStep, ReadEventStep, WriteEventStep, UserStep,
     TimerStep, EnvironmentStep DEF Next
<1>2. CASE UNCHANGED vars
  BY <1>2 DEF vars, IInv
<1> QED
  BY <1>1, <1>2

\* What the client accepted is written in its order and once, over as many
\* connections as it takes (TcpClient.cpp 180-330).
THEOREM WrittenInOrder == Spec => []SentInOrder
<1>1. Init => IInv
  BY InitIInv
<1>2. IInv /\ [Next]_vars => IInv'
  BY NextIInv
<1>3. IInv => SentInOrder
  <2> SUFFICES ASSUME IInv PROVE SentInOrder
    OBVIOUS
  <2> DEFINE q == c.m_outbuf
             n == c.accepted
             s == wire \o q
  <2>1. Continues(wire, q, n)
    BY DEF IInv, InStep
  <2> HIDE DEF q, n
  <2>2. /\ s \in Seq(Nat) /\ Len(s) = n
        /\ \A i \in 1 .. n : s[i] = IF i <= Len(wire) THEN wire[i] ELSE q[i - Len(wire)]
    BY <2>1, ConcatProperties DEF Continues
  <2> HIDE DEF s
  <2>3. DOMAIN s = 1 .. n /\ n \in Nat
    BY <2>1, <2>2 DEF Continues
  <2>4. ASSUME NEW i \in 1 .. n PROVE s[i] = i
    <3>1. CASE i <= Len(wire)
      <4>1. i \in 1 .. Len(wire) /\ s[i] = wire[i]
        BY <2>1, <2>2, <3>1 DEF Continues
      <4> QED
        BY <2>1, <4>1 DEF Continues
    <3>2. CASE i > Len(wire)
      <4>1. i - Len(wire) \in 1 .. Len(q) /\ s[i] = q[i - Len(wire)]
        BY <2>1, <2>2, <3>2 DEF Continues
      <4> QED
        BY <2>1, <4>1 DEF Continues
    <3> QED
      BY <2>1, <3>1, <3>2 DEF Continues
  <2>5. s = [i \in 1 .. n |-> i]
    BY <2>2, <2>3, <2>4
  <2> QED
    BY <2>5 DEF SentInOrder, s, q, n
<1> QED
  BY <1>1, <1>2, <1>3, PTL DEF Spec
=============================================================================
