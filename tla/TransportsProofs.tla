------------------------ MODULE TransportsProofs ---------------------------
(***************************************************************************)
(* TCP, for any clients, messages and limits: a connection object that is  *)
(* used again keeps the connections it serves apart.  UDP follows below.   *)
(*                                                                         *)
(* The inductive invariant is stated for an object c, a socket s and the   *)
(* replies w handed to the kernel, because the user's sendData is called   *)
(* in the middle of most steps.                                            *)
(***************************************************************************)
EXTENDS Transports, SequenceTheorems, TLAPS

Reply == [client : Nat, n : Nat]
Buffer == [first : Int, last : Int]

ConnType(c) ==
  c \in [m_connection_fd : Nat, m_inbuf : Seq(Buffer), m_outbuf : Seq(Reply),
         mask : SUBSET {"IN", "OUT"}, accepted : Nat, sent : Nat,
         thrown : {"no", "epoll_ctl", "length_error"}]

SockType(s) ==
  s \in [client : Nat, msgs : Seq(Messages), arrived : Int, readpos : Int, room : Int,
         state : {"none", "open", "closed"}]

(* An object that serves nobody is empty and not called; what the user has *)
(* sent over it has thrown.                                                *)
Blank(c, w) ==
  c.m_connection_fd = 0 =>
    /\ c.m_inbuf = <<>> /\ w = <<>> /\ c.mask = {}
    /\ c.m_outbuf = <<>> \/ c.thrown # "no"

(* The descriptor is that of the connection that is there. *)
Served(c, s) ==
  /\ s.state # "none" => s.client # 0
  /\ c.m_connection_fd # 0 => c.m_connection_fd = s.client /\ s.state # "none"

(* The replies, written and queued, are those of the sendData calls on this *)
(* connection.                                                              *)
Ordered(c, s, w) ==
  c.m_connection_fd # 0 =>
    /\ c.accepted = Len(w) + Len(c.m_outbuf)
    /\ \A i \in 1 .. Len(w) : w[i].reply = [client |-> s.client, n |-> i]
    /\ \A i \in 1 .. Len(c.m_outbuf) :
         c.m_outbuf[i] = [client |-> s.client, n |-> Len(w) + i]

(* The input queue ends with the last word read and has no gap. *)
Joined(c, s) ==
  c.m_connection_fd # 0 =>
    \A i \in 1 .. Len(c.m_inbuf) :
      c.m_inbuf[i].last = IF i = Len(c.m_inbuf) THEN s.readpos ELSE c.m_inbuf[i + 1].first - 1

Apart(c, s, w) ==
  /\ ConnType(c) /\ SockType(s) /\ w \in Seq([reply : Reply, whole : BOOLEAN])
  /\ Blank(c, w) /\ Served(c, s) /\ Ordered(c, s, w) /\ Joined(c, s)

IInv == Apart(conn, sock, wire)

-----------------------------------------------------------------------------
(* sendData *)

(* A sendData of the user appends a reply of the connection that is        *)
(* served, or throws when none is, and changes neither the descriptor nor  *)
(* the input queue.                                                        *)
LEMMA SendKeepsApart ==
  ASSUME NEW c, NEW s, NEW w, Apart(c, s, w), NEW d \in UserSends(c)
  PROVE  /\ Apart(d, s, w)
         /\ d.m_connection_fd = c.m_connection_fd
         /\ d.m_inbuf = c.m_inbuf
<1>1. CASE d = c
  BY <1>1
<1>2. CASE d = sendData(c)
  <2> DEFINE r == [client |-> c.m_connection_fd, n |-> c.accepted + 1]
  <2> USE DEF Apart
  <2>1. r \in Reply /\ c.m_outbuf \in Seq(Reply)
    BY DEF Reply, ConnType
  <2>2. /\ Append(c.m_outbuf, r) \in Seq(Reply)
        /\ Len(Append(c.m_outbuf, r)) = Len(c.m_outbuf) + 1
        /\ Append(c.m_outbuf, r) # <<>>
        /\ \A i \in 1 .. Len(c.m_outbuf) + 1 :
             Append(c.m_outbuf, r)[i] = IF i = Len(c.m_outbuf) + 1 THEN r ELSE c.m_outbuf[i]
    BY <2>1
  <2>3. ConnType(d)
    <3> DEFINE q == [c EXCEPT !.accepted = @ + 1, !.sent = @ + 1, !.m_outbuf = Append(@, r)]
    <3>1. ConnType(q) /\ q.mask = c.mask
      <4>1. ASSUME NEW a \in Nat, NEW b \in Nat, NEW o \in Seq(Reply)
            PROVE  LET e == [c EXCEPT !.accepted = a, !.sent = b, !.m_outbuf = o]
                   IN ConnType(e) /\ e.mask = c.mask
        BY DEF ConnType
      <4>2. c.accepted + 1 \in Nat /\ c.sent + 1 \in Nat
        BY DEF ConnType
      <4> QED BY <2>2, <4>1, <4>2, Zenon
    <3>2. ConnType([q EXCEPT !.thrown = "epoll_ctl"])
      BY <3>1 DEF ConnType
    <3>3. ConnType([q EXCEPT !.mask = @ \cup {"OUT"}])
      <4>1. q.mask \cup {"OUT"} \in SUBSET {"IN", "OUT"}
        BY <3>1 DEF ConnType
      <4> HIDE DEF q
      <4> QED BY <3>1, <4>1 DEF ConnType
    <3> QED BY <1>2, <3>1, <3>2, <3>3 DEF sendData
  <2>4. /\ d.m_connection_fd = c.m_connection_fd /\ d.m_inbuf = c.m_inbuf
        /\ d.m_outbuf = Append(c.m_outbuf, r) /\ d.accepted = c.accepted + 1
        /\ c.m_connection_fd = 0 => d.mask = c.mask /\ (c.m_outbuf # <<>> \/ d.thrown = "epoll_ctl")
        /\ c.m_outbuf # <<>> => d.thrown = c.thrown
    BY <1>2 DEF sendData, ConnType
  <2>5. Blank(d, w)
    BY <2>4 DEF Blank
  <2>6. Served(d, s) /\ Joined(d, s)
    BY <2>4 DEF Served, Joined
  <2>7. Ordered(d, s, w)
    <3> SUFFICES ASSUME c.m_connection_fd # 0 PROVE Ordered(d, s, w)
      BY <2>4 DEF Ordered
    <3>1. c.m_connection_fd = s.client /\ c.accepted = Len(w) + Len(c.m_outbuf)
      BY DEF Served, Ordered
    <3>2. r = [client |-> s.client, n |-> Len(w) + Len(c.m_outbuf) + 1]
      BY <3>1
    <3>3. Len(w) \in Nat /\ Len(c.m_outbuf) \in Nat
      BY <2>1
    <3>4. d.accepted = Len(w) + Len(d.m_outbuf)
      BY <2>2, <2>4, <3>1, <3>3
    <3>5. \A i \in 1 .. Len(d.m_outbuf) : d.m_outbuf[i] = [client |-> s.client, n |-> Len(w) + i]
      <4> SUFFICES ASSUME NEW i \in 1 .. Len(c.m_outbuf) + 1
                   PROVE  Append(c.m_outbuf, r)[i] = [client |-> s.client, n |-> Len(w) + i]
        BY <2>2, <2>4
      <4>1. CASE i = Len(c.m_outbuf) + 1
        BY <2>2, <3>2, <3>3, <4>1
      <4>2. CASE i # Len(c.m_outbuf) + 1
        <5>1. i \in 1 .. Len(c.m_outbuf)
          BY <3>3, <4>2
        <5> QED BY <2>2, <4>2, <5>1 DEF Ordered
      <4> QED BY <4>1, <4>2
    <3> QED BY <3>4, <3>5 DEF Ordered
  <2> QED BY <2>3, <2>4, <2>5, <2>6, <2>7
<1> QED BY <1>1, <1>2 DEF UserSends

-----------------------------------------------------------------------------
(* What changes one part of an Apart state. *)

(* The socket keeps its client and its position. *)
LEMMA SocketKeepsApart ==
  ASSUME NEW c, NEW s, NEW t, NEW w, Apart(c, s, w), SockType(t),
         t.client = s.client, t.readpos = s.readpos, t.state = "none" <=> s.state = "none"
  PROVE  Apart(c, t, w)
BY DEF Apart, Served, Ordered, Joined

(* The registration of an object that serves a connection. *)
LEMMA MaskKeepsApart ==
  ASSUME NEW c, NEW s, NEW w, Apart(c, s, w), NEW m \in SUBSET {"IN", "OUT"},
         c.m_connection_fd = 0 => m = {}
  PROVE  Apart([c EXCEPT !.mask = m], s, w)
BY DEF Apart, ConnType, Blank, Served, Ordered, Joined

(* cleanConnection leaves nothing, whatever onConnectionClose has sent. *)
LEMMA CleanKeepsApart == IInv /\ cleanConnection => IInv'
<1> SUFFICES ASSUME IInv, cleanConnection PROVE IInv'
  OBVIOUS
<1>1. PICK c : ConnType(c) /\ conn' = clean(c)
  BY SendKeepsApart DEF cleanConnection, IInv, Apart
<1>2. ConnType(conn') /\ conn'.m_connection_fd = 0 /\ conn'.m_inbuf = <<>>
      /\ conn'.m_outbuf = <<>> /\ conn'.mask = {}
  <2> DEFINE d == clean(c)
  <2>1. d.m_connection_fd = 0 /\ d.m_inbuf = <<>> /\ d.m_outbuf = <<>> /\ d.mask = {}
    BY <1>1 DEF clean, ConnType
  <2>2. ConnType(d)
    <3>1. ASSUME NEW i \in Seq(Buffer), NEW o \in Seq(Reply), NEW m \in SUBSET {"IN", "OUT"},
                 NEW f \in Nat
          PROVE  ConnType([c EXCEPT !.mask = m, !.m_inbuf = i, !.m_outbuf = o,
                                    !.m_connection_fd = f])
      BY <1>1 DEF ConnType
    <3>2. <<>> \in Seq(Buffer) /\ <<>> \in Seq(Reply) /\ {} \in SUBSET {"IN", "OUT"} /\ 0 \in Nat
      OBVIOUS
    <3> QED BY <3>1, <3>2, Zenon DEF clean
  <2> QED BY <1>1, <2>1, <2>2
<1>3. sock' = NoSocket(sock.client) /\ wire' = <<>>
  BY DEF cleanConnection
<1>4. SockType(sock') /\ sock'.state = "none"
  BY <1>3, ConnectionAssumption DEF IInv, Apart, SockType, NoSocket
<1> QED BY <1>2, <1>3, <1>4 DEF IInv, Apart, Blank, Served, Ordered, Joined

-----------------------------------------------------------------------------
(* The steps of the loop's thread *)

(* A new connection begins with the empty queues that the clean before it  *)
(* left.                                                                   *)
LEMMA ActivateKeepsApart == IInv /\ Activate => IInv'
<1> SUFFICES ASSUME IInv, Activate PROVE IInv'
  OBVIOUS
<1> DEFINE a == [conn EXCEPT !.m_connection_fd = sock.client, !.accepted = 0]
<1>1. conn.m_inbuf = <<>> /\ conn.m_outbuf = <<>> /\ wire = <<>> /\ sock.client # 0
  BY DEF Activate, Open, Runs, IInv, Apart, Blank, Served
<1>2. ConnType(a) /\ a.m_connection_fd = sock.client /\ a.accepted = 0
      /\ a.m_inbuf = <<>> /\ a.m_outbuf = <<>>
  BY <1>1 DEF IInv, Apart, ConnType, SockType
<1>3. Apart(a, sock, wire)
  BY <1>1, <1>2 DEF Activate, IInv, Apart, Blank, Served, Ordered, Joined
<1>4. PICK c \in UserSends(a) : conn' = [c EXCEPT !.mask = @ \cup {"IN"}]
  BY DEF Activate
<1>5. Apart(c, sock, wire) /\ c.m_connection_fd = sock.client
  BY <1>2, <1>3, SendKeepsApart
<1>6. c.mask \cup {"IN"} \in SUBSET {"IN", "OUT"}
  BY <1>5 DEF Apart, ConnType
<1>7. Apart([c EXCEPT !.mask = c.mask \cup {"IN"}], sock, wire)
  BY <1>1, <1>5, <1>6, MaskKeepsApart
<1> QED BY <1>4, <1>7 DEF Activate, IInv

(* The words read are put behind the last word read before.                *)
LEMMA ReadDataKeepsApart == IInv /\ ReadData => IInv'
<1> SUFFICES ASSUME IInv, ReadData PROVE IInv'
  OBVIOUS
<1> DEFINE buf == [first |-> sock.readpos + 1, last |-> sock.arrived]
<1> USE DEF IInv, Apart
<1>1. conn.m_connection_fd # 0
  BY DEF ReadData, InReady, Blank
<1>2. buf \in Buffer /\ conn.m_inbuf \in Seq(Buffer) /\ buf.first - 1 = sock.readpos
  BY DEF Buffer, ConnType, SockType
<1>3. /\ Append(conn.m_inbuf, buf) \in Seq(Buffer)
      /\ Len(Append(conn.m_inbuf, buf)) = Len(conn.m_inbuf) + 1
      /\ \A i \in 1 .. Len(conn.m_inbuf) + 1 : Append(conn.m_inbuf, buf)[i] =
           IF i = Len(conn.m_inbuf) + 1 THEN buf ELSE conn.m_inbuf[i]
  BY <1>2
<1>4. conn' = [conn EXCEPT !.m_inbuf = Append(conn.m_inbuf, buf)]
      /\ sock' = [sock EXCEPT !.readpos = sock.arrived] /\ wire' = wire
  BY DEF ReadData
<1>5. ConnType(conn') /\ SockType(sock')
  BY <1>3, <1>4 DEF ConnType, SockType
<1>6. Blank(conn', wire') /\ Served(conn', sock') /\ Ordered(conn', sock', wire')
  <2>1. /\ conn'.m_connection_fd = conn.m_connection_fd /\ conn'.m_outbuf = conn.m_outbuf
        /\ conn'.accepted = conn.accepted
        /\ sock'.client = sock.client /\ sock'.state = sock.state
    BY <1>4 DEF ConnType, SockType
  <2> QED BY <1>1, <1>4, <2>1 DEF Blank, Served, Ordered
<1>7. Joined(conn', sock')
  <2>1. conn'.m_inbuf = Append(conn.m_inbuf, buf) /\ sock'.readpos = sock.arrived
    BY <1>4 DEF ConnType, SockType
  <2>2. Len(conn.m_inbuf) \in Nat
    BY <1>2
  <2>3. \A i \in 1 .. Len(conn.m_inbuf) : conn.m_inbuf[i].last =
          IF i = Len(conn.m_inbuf) THEN buf.first - 1 ELSE conn.m_inbuf[i + 1].first - 1
    BY <1>1, <1>2 DEF Joined
  <2>4. \A i \in 1 .. Len(conn.m_inbuf) + 1 : Append(conn.m_inbuf, buf)[i].last =
          IF i = Len(conn.m_inbuf) + 1 THEN sock.arrived
          ELSE Append(conn.m_inbuf, buf)[i + 1].first - 1
    BY <1>3, <2>2, <2>3
  <2> QED BY <1>3, <2>1, <2>4 DEF Joined
<1> QED BY <1>4, <1>5, <1>6, <1>7

(* The front buffer is taken out of the input queue, after the user's      *)
(* onMessage.                                                              *)
LEMMA ReadTurnKeepsApart == IInv /\ ReadTurn => IInv'
<1> SUFFICES ASSUME IInv, ReadTurn PROVE IInv'
  OBVIOUS
<1>1. PICK c \in UserSends(conn) : conn' = [c EXCEPT !.m_inbuf = Tail(@)]
  BY DEF ReadTurn
<1>2. Apart(c, sock, wire) /\ c.m_inbuf # <<>>
  BY SendKeepsApart DEF IInv, ReadTurn
<1> USE DEF Apart
<1>3. c.m_connection_fd # 0
  BY <1>2 DEF Blank
<1>4. c.m_inbuf \in Seq(Buffer)
  BY <1>2 DEF ConnType
<1>5. /\ Tail(c.m_inbuf) \in Seq(Buffer) /\ Len(c.m_inbuf) \in Nat \ {0}
      /\ Len(Tail(c.m_inbuf)) = Len(c.m_inbuf) - 1
      /\ \A i \in 1 .. Len(c.m_inbuf) - 1 : Tail(c.m_inbuf)[i] = c.m_inbuf[i + 1]
  BY <1>2, <1>4
<1>6. ConnType(conn')
  BY <1>1, <1>2, <1>5 DEF ConnType
<1>7. /\ conn'.m_connection_fd = c.m_connection_fd /\ conn'.m_outbuf = c.m_outbuf
      /\ conn'.accepted = c.accepted /\ conn'.m_inbuf = Tail(c.m_inbuf)
  BY <1>1, <1>2 DEF ConnType
<1>8. sock' = sock /\ wire' = wire
  BY DEF ReadTurn
<1>9. Joined(conn', sock')
  <2>1. \A i \in 1 .. Len(c.m_inbuf) - 1 : Tail(c.m_inbuf)[i].last =
          IF i = Len(c.m_inbuf) - 1 THEN sock.readpos ELSE Tail(c.m_inbuf)[i + 1].first - 1
    BY <1>2, <1>3, <1>5 DEF Joined
  <2> QED BY <1>5, <1>7, <1>8, <2>1 DEF Joined
<1>10. Blank(conn', wire') /\ Served(conn', sock') /\ Ordered(conn', sock', wire')
  BY <1>2, <1>3, <1>7, <1>8 DEF Blank, Served, Ordered
<1> QED BY <1>2, <1>6, <1>8, <1>9, <1>10 DEF IInv

(* The front reply goes from the output queue to the end of what has been  *)
(* written.                                                                *)
LEMMA WriteTurnKeepsApart == IInv /\ WriteTurn => IInv'
<1> SUFFICES ASSUME IInv, WriteTurn PROVE IInv'
  OBVIOUS
<1> USE DEF IInv, Apart
<1> DEFINE r == Head(conn.m_outbuf)
           written == [reply |-> r, whole |-> sock.room > 1]
           left == IF sock.room > 1 THEN sock.room - 2 ELSE 0
<1>1. /\ conn' = [conn EXCEPT !.m_outbuf = Tail(conn.m_outbuf)]
      /\ wire' = Append(wire, written)
      /\ sock' = [sock EXCEPT !.room = left]
      /\ conn.m_outbuf # <<>> /\ conn.thrown = "no"
  BY DEF WriteTurn, Runs
<1>2. conn.m_connection_fd # 0
  BY <1>1 DEF Blank
<1>3. conn.m_outbuf \in Seq(Reply)
  BY DEF ConnType
<1>4. /\ Tail(conn.m_outbuf) \in Seq(Reply) /\ r \in Reply /\ r = conn.m_outbuf[1]
      /\ Len(conn.m_outbuf) \in Nat \ {0}
      /\ Len(Tail(conn.m_outbuf)) = Len(conn.m_outbuf) - 1
      /\ \A i \in 1 .. Len(conn.m_outbuf) - 1 : Tail(conn.m_outbuf)[i] = conn.m_outbuf[i + 1]
  BY <1>1, <1>3
<1>5. written \in [reply : Reply, whole : BOOLEAN] /\ written.reply = r
  BY <1>4
<1> HIDE DEF written
<1>6. /\ wire' \in Seq([reply : Reply, whole : BOOLEAN])
      /\ Len(wire) \in Nat /\ Len(wire') = Len(wire) + 1
      /\ \A i \in 1 .. Len(wire) + 1 : wire'[i] = IF i = Len(wire) + 1 THEN written ELSE wire[i]
  BY <1>1, <1>5
<1>7. left \in Int
  BY DEF SockType
<1> HIDE DEF left
<1>8. /\ SockType(sock') /\ sock'.client = sock.client /\ sock'.state = sock.state
      /\ sock'.readpos = sock.readpos
  BY <1>1, <1>7 DEF SockType
<1>9. /\ ConnType(conn') /\ conn'.m_connection_fd = conn.m_connection_fd
      /\ conn'.m_outbuf = Tail(conn.m_outbuf) /\ conn'.accepted = conn.accepted
      /\ conn'.m_inbuf = conn.m_inbuf
  BY <1>1, <1>4 DEF ConnType
<1>10. Blank(conn', wire') /\ Served(conn', sock') /\ Joined(conn', sock')
  BY <1>2, <1>8, <1>9 DEF Blank, Served, Joined
<1>11. Ordered(conn', sock', wire')
  <2>1. /\ conn.accepted = Len(wire) + Len(conn.m_outbuf)
        /\ \A i \in 1 .. Len(wire) : wire[i].reply = [client |-> sock.client, n |-> i]
        /\ \A i \in 1 .. Len(conn.m_outbuf) :
             conn.m_outbuf[i] = [client |-> sock.client, n |-> Len(wire) + i]
    BY <1>2 DEF Ordered
  <2>2. r = [client |-> sock.client, n |-> Len(wire) + 1]
    <3>1. 1 \in 1 .. Len(conn.m_outbuf)
      BY <1>4
    <3> HIDE DEF r
    <3> QED BY <1>4, <2>1, <3>1
  <2> HIDE DEF r
  <2>3. \A i \in 1 .. Len(wire) + 1 : wire'[i].reply = [client |-> sock.client, n |-> i]
    <3> SUFFICES ASSUME NEW i \in 1 .. Len(wire) + 1
                 PROVE  wire'[i].reply = [client |-> sock.client, n |-> i]
      OBVIOUS
    <3>1. CASE i = Len(wire) + 1
      BY <1>5, <1>6, <2>2, <3>1
    <3>2. CASE i # Len(wire) + 1
      BY <1>6, <2>1, <3>2
    <3> QED BY <3>1, <3>2
  <2>4. \A i \in 1 .. Len(conn.m_outbuf) - 1 :
          Tail(conn.m_outbuf)[i] = [client |-> sock.client, n |-> (Len(wire) + 1) + i]
    <3> SUFFICES ASSUME NEW i \in 1 .. Len(conn.m_outbuf) - 1
                 PROVE  Tail(conn.m_outbuf)[i] = [client |-> sock.client, n |-> (Len(wire) + 1) + i]
      OBVIOUS
    <3>1. i + 1 \in 1 .. Len(conn.m_outbuf) /\ Len(wire) + (i + 1) = (Len(wire) + 1) + i
      BY <1>4, <1>6
    <3> QED BY <1>4, <2>1, <3>1
  <2>5. conn.accepted = (Len(wire) + 1) + (Len(conn.m_outbuf) - 1)
    <3>1. conn.accepted = Len(wire) + Len(conn.m_outbuf)
      BY <2>1
    <3>2. Len(wire) \in Nat /\ Len(conn.m_outbuf) \in Nat
      BY <1>4, <1>6
    <3>3. ASSUME NEW a \in Nat, NEW b \in Nat PROVE a + b = (a + 1) + (b - 1)
      OBVIOUS
    <3> QED BY <3>1, <3>2, <3>3, Zenon
  <2> QED BY <1>4, <1>6, <1>8, <1>9, <2>3, <2>4, <2>5 DEF Ordered
<1> QED BY <1>6, <1>8, <1>9, <1>10, <1>11

(* EPOLLOUT is taken away when the output queue is empty.                  *)
LEMMA WriteEndsKeepsApart == IInv /\ WriteEnds => IInv'
<1> SUFFICES ASSUME IInv, WriteEnds PROVE IInv'
  OBVIOUS
<1>1. conn.mask \ {"OUT"} \in SUBSET {"IN", "OUT"}
  BY DEF IInv, Apart, ConnType
<1>2. conn.m_connection_fd = 0 => conn.mask \ {"OUT"} = {}
  BY DEF IInv, Apart, Blank
<1>3. Apart([conn EXCEPT !.mask = conn.mask \ {"OUT"}], sock, wire)
  BY <1>1, <1>2, MaskKeepsApart DEF IInv
<1> QED BY <1>3 DEF WriteEnds, IInv

(* callbackFunc throws in the middle of a turn. *)
LEMMA ReadThrowsKeepsApart == IInv /\ ReadThrows => IInv'
BY DEF ReadThrows, IInv, Apart, ConnType, Blank, Served, Ordered, Joined

-----------------------------------------------------------------------------
(* The clients and the network *)

(* The next client gets the descriptor only when the object serves nobody. *)
LEMMA ConnectKeepsApart == IInv /\ Connect => IInv'
<1> SUFFICES ASSUME IInv, Connect PROVE IInv'
  OBVIOUS
<1> USE DEF IInv, Apart
<1>1. conn.m_connection_fd = 0
  BY DEF Connect, Served
<1>2. SockType(sock') /\ sock'.client # 0
  <2>1. sock.client + 1 \in Nat \ {0} /\ SndBuf \in Int /\ <<>> \in Seq(Messages)
    BY ConnectionAssumption DEF SockType
  <2>2. sock' = [client |-> sock.client + 1, msgs |-> <<>>, arrived |-> 0, readpos |-> 0,
                 room |-> SndBuf, state |-> "open"]
    BY DEF Connect, NoSocket
  <2> QED BY <2>1, <2>2 DEF SockType
<1> QED BY <1>1, <1>2 DEF Connect, Blank, Served, Ordered, Joined

(* What a client does to an open socket changes nothing of the object.     *)
LEMMA ClientKeepsApart ==
  ASSUME IInv, UNCHANGED <<conn, wire>>, SockType(sock'),
         sock' = sock \/ (sock.state = "open" /\ sock'.state \in {"open", "closed"}
                           /\ sock'.client = sock.client /\ sock'.readpos = sock.readpos)
  PROVE  IInv'
BY SocketKeepsApart DEF IInv

(* Messages sent, segments that arrive, replies read and the client's      *)
(* close.                                                                  *)
LEMMA EnvironmentKeepsApart ==
  ASSUME IInv, \/ ClientReads \/ ClientCloses
               \/ \E msg \in Messages : ClientSends(msg)
               \/ \E n \in 1 .. Sent : Arrive(n)
  PROVE  IInv'
<1>1. SockType(sock)
  BY DEF IInv, Apart
<1>2. CASE ClientReads
  <2>1. sock.room + 1 \in Int
    BY <1>1 DEF SockType
  <2> QED BY <1>1, <1>2, <2>1, ClientKeepsApart DEF ClientReads, SockType
<1>3. CASE ClientCloses
  BY <1>1, <1>3, ClientKeepsApart DEF ClientCloses, SockType
<1>4. ASSUME NEW msg \in Messages, ClientSends(msg) PROVE IInv'
  <2>1. Append(sock.msgs, msg) \in Seq(Messages)
    BY <1>1 DEF SockType
  <2> QED BY <1>1, <1>4, <2>1, ClientKeepsApart DEF ClientSends, SockType
<1>5. ASSUME NEW n \in 1 .. Sent, Arrive(n) PROVE IInv'
  <2>1. n \in Int
    OBVIOUS
  <2> QED BY <1>1, <1>5, <2>1, ClientKeepsApart DEF Arrive, SockType
<1> QED BY <1>2, <1>3, <1>4, <1>5

-----------------------------------------------------------------------------
(* The specification *)

(* At the start the object serves nobody. *)
LEMMA InitApart == Init => IInv
<1> SUFFICES ASSUME Init PROVE IInv
  OBVIOUS
<1>1. ConnType(conn)
  <2>1. <<>> \in Seq(Buffer) /\ <<>> \in Seq(Reply)
    OBVIOUS
  <2> QED BY <2>1 DEF Init, ConnType
<1>2. SockType(sock)
  <2>1. <<>> \in Seq(Messages) /\ SndBuf \in Int
    BY ConnectionAssumption
  <2> QED BY <2>1 DEF Init, SockType, NoSocket
<1>3. Blank(conn, wire) /\ Served(conn, sock) /\ Ordered(conn, sock, wire) /\ Joined(conn, sock)
  BY DEF Init, NoSocket, Blank, Served, Ordered, Joined
<1> QED BY <1>1, <1>2, <1>3 DEF Init, IInv, Apart

(* No step of the loop, of the user or of the clients leaves the invariant. *)
LEMMA NextKeepsApart == IInv /\ [Next]_vars => IInv'
<1> SUFFICES ASSUME IInv, [Next]_vars PROVE IInv'
  OBVIOUS
<1>1. CASE Activate
  BY <1>1, ActivateKeepsApart
<1>2. CASE ReadData
  BY <1>2, ReadDataKeepsApart
<1>3. CASE ReadTurn
  BY <1>3, ReadTurnKeepsApart
<1>4. CASE ReadThrows
  BY <1>4, ReadThrowsKeepsApart
<1>5. CASE ReadFails \/ ReadCloses \/ WriteFails
  BY <1>5, CleanKeepsApart DEF ReadFails, ReadCloses, WriteFails
<1>6. CASE WriteTurn
  BY <1>6, WriteTurnKeepsApart
<1>7. CASE WriteEnds
  BY <1>7, WriteEndsKeepsApart
<1>8. CASE UserCall
  BY <1>8, SendKeepsApart DEF UserCall, IInv
<1>9. CASE ReadEnds \/ WriteEvent \/ Expire \/ UNCHANGED vars
  BY <1>9 DEF ReadEnds, WriteEvent, Expire, vars, IInv
<1>10. CASE Connect
  BY <1>10, ConnectKeepsApart
<1>11. CASE \/ ClientReads \/ ClientCloses
            \/ \E msg \in Messages : ClientSends(msg)
            \/ \E n \in 1 .. Sent : Arrive(n)
  BY <1>11, EnvironmentKeepsApart
<1> QED BY <1>1, <1>2, <1>3, <1>4, <1>5, <1>6, <1>7, <1>8, <1>9, <1>10, <1>11 DEF Next

(* The invariant says, index by index, what NoCrossTalk says of the two     *)
(* queues of replies put together.                                          *)
LEMMA ApartIsNoCrossTalk == IInv => NoCrossTalk
<1> SUFFICES ASSUME IInv, Open PROVE NoCrossTalk
  BY DEF NoCrossTalk
<1> USE DEF IInv, Apart
<1> DEFINE w == [i \in DOMAIN wire |-> wire[i].reply.n]
           q == [i \in DOMAIN conn.m_outbuf |-> conn.m_outbuf[i].n]
<1>1. conn.m_connection_fd # 0 /\ conn.m_connection_fd = sock.client
  BY DEF Open, Served
<1>2. /\ conn.accepted = Len(wire) + Len(conn.m_outbuf)
      /\ \A i \in 1 .. Len(wire) : wire[i].reply = [client |-> sock.client, n |-> i]
      /\ \A i \in 1 .. Len(conn.m_outbuf) :
           conn.m_outbuf[i] = [client |-> sock.client, n |-> Len(wire) + i]
  BY <1>1 DEF Ordered
<1>3. /\ DOMAIN wire = 1 .. Len(wire) /\ Len(wire) \in Nat
      /\ DOMAIN conn.m_outbuf = 1 .. Len(conn.m_outbuf) /\ Len(conn.m_outbuf) \in Nat
      /\ DOMAIN conn.m_inbuf = 1 .. Len(conn.m_inbuf)
  BY DEF ConnType
<1>4. ASSUME NEW k, NEW r, r = [client |-> sock.client, n |-> k]
      PROVE  r.client = sock.client /\ r.n = k
  BY <1>4
<1>5. /\ \A i \in 1 .. Len(wire) : wire[i].reply.client = sock.client /\ wire[i].reply.n = i
      /\ \A i \in 1 .. Len(conn.m_outbuf) :
           conn.m_outbuf[i].client = sock.client /\ conn.m_outbuf[i].n = Len(wire) + i
  BY <1>2, <1>4, Zenon
<1>6. /\ w = [i \in 1 .. Len(wire) |-> i]
      /\ q = [i \in 1 .. Len(conn.m_outbuf) |-> Len(wire) + i]
  BY <1>3, <1>5, Zenon
<1>7. w \o q = [i \in 1 .. conn.accepted |-> i]
  <2> HIDE DEF w, q
  <2>1. ASSUME NEW a \in Nat, NEW b \in Nat
        PROVE  [i \in 1 .. a |-> i] \o [i \in 1 .. b |-> a + i] = [i \in 1 .. a + b |-> i]
    <3> DEFINE f == [i \in 1 .. a |-> i]
               g == [i \in 1 .. b |-> a + i]
    <3>1. f \in Seq(Nat) /\ Len(f) = a /\ g \in Seq(Nat) /\ Len(g) = b
      OBVIOUS
    <3>2. \A i \in 1 .. a : f[i] = i
      OBVIOUS
    <3>3. \A i \in 1 .. b : g[i] = a + i
      OBVIOUS
    <3> HIDE DEF f, g
    <3>4. f \o g \in Seq(Nat) /\ Len(f \o g) = a + b
      BY <3>1, ConcatProperties
    <3>5. \A i \in 1 .. a + b : (f \o g)[i] = i
      <4> SUFFICES ASSUME NEW i \in 1 .. a + b PROVE (f \o g)[i] = i
        OBVIOUS
      <4>1. CASE i <= a
        BY <3>1, <3>2, <4>1, ConcatProperties
      <4>2. CASE ~(i <= a)
        <5>1. i - a \in 1 .. b /\ a + (i - a) = i
          BY <4>2
        <5>2. (f \o g)[i] = g[i - a]
          BY <3>1, <4>2, ConcatProperties
        <5> QED BY <3>3, <5>1, <5>2
      <4> QED BY <4>1, <4>2
    <3> QED BY <3>4, <3>5
  <2>2. [i \in 1 .. Len(wire) |-> i] \o [i \in 1 .. Len(conn.m_outbuf) |-> Len(wire) + i] =
          [i \in 1 .. Len(wire) + Len(conn.m_outbuf) |-> i]
    BY <1>3, <2>1, Zenon
  <2> QED BY <1>2, <1>6, <2>2, Zenon
<1>8. /\ \A i \in DOMAIN conn.m_outbuf : conn.m_outbuf[i].client = conn.m_connection_fd
      /\ \A i \in DOMAIN wire : wire[i].reply.client = sock.client
  BY <1>1, <1>3, <1>5, Zenon
<1> QED BY <1>1, <1>3, <1>7, <1>8 DEF NoCrossTalk, Joined

(* However clients come and go and whenever the user sends, closes or       *)
(* throws, a TcpConnection object that is used again gives the present      *)
(* client its own replies, all of them, once and in order, and reads its    *)
(* words without a gap.                                                     *)
THEOREM ConnectionsKeptApart == Spec => []NoCrossTalk
<1>1. Spec => []IInv
  BY InitApart, NextKeepsApart, PTL DEF Spec
<1> QED BY <1>1, ApartIsNoCrossTalk, PTL

-----------------------------------------------------------------------------
(***************************************************************************)
(* UDP, for any clients, lengths, limits and strange datagrams: what is    *)
(* dispatched is whole, and an exchange goes on until something happens to *)
(* it.                                                                     *)
(*                                                                         *)
(* The inductive invariant says of every word of a buffer which datagram   *)
(* it may be of, and of every undisturbed client that it has one datagram  *)
(* under way and what kind that is.                                        *)
(***************************************************************************)
Everybody == Sockets \cup {Stranger}
States == {"new", "running", "stopped", "thrown"}
Datagram == [from : Everybody, to : Everybody, n : 1 .. MaxDatagram, length : Nat,
             cmd : {"known", "unknown"}]
MBuf == [1 .. MSG_LENGTH_LIMIT -> Nat]

UdpTypeOK ==
  /\ peer \in [Sockets -> [state : States, m_rbuf : MBuf]]
  /\ log \in Seq(Datagram)
  /\ latest \in Everybody
  /\ IsABag(net) /\ DOMAIN net \subseteq 1 .. Len(log)

(* Only a stranger sends what does not have the size its head tells. *)
HonestOne(d) == d.from # Stranger => d.n = HeadSize + d.length /\ d.cmd = "known"
Honest == \A id \in 1 .. Len(log) : HonestOne(log[id])

(* A word of a buffer is of a datagram that was sent to it and that covers *)
(* the word's place.                                                       *)
WordOf(k, i, s, lg) == k = 0 \/ (k \in 1 .. Len(lg) /\ lg[k].to = s /\ lg[k].n >= i)
Written == \A s \in Sockets : \A i \in 1 .. MSG_LENGTH_LIMIT :
             WordOf(peer[s].m_rbuf[i], i, s, log)

(* What the dispatcher was called with last. *)
WholeOf(l, lg) ==
  l.id # 0 =>
    /\ l.id \in 1 .. Len(lg)
    /\ lg[l.id].n = HeadSize + lg[l.id].length
    /\ \A i \in 1 .. lg[l.id].length : i \in DOMAIN l.data /\ l.data[i] = l.id
    /\ l.at = Server => Len(l.data) = lg[l.id].length
    /\ \A i \in DOMAIN l.data : i \in Nat /\ WordOf(l.data[i], HeadSize + i, l.at, lg)

(* Of an undisturbed client there is one datagram under way, from it to    *)
(* the server or back, if it has started, and none if it has not.          *)
Has(c, d) == c \in {d.from, d.to}
Ours(c, d) == (d.from = c /\ d.to = Server) \/ (d.from = Server /\ d.to = c)
Alone(c, state, lg, nt) ==
  /\ \A id \in DOMAIN nt : Has(c, lg[id]) => Ours(c, lg[id])
  /\ state = "new" => \A id \in DOMAIN nt : ~Has(c, lg[id])
  /\ state = "running" =>
       \E id \in DOMAIN nt :
         /\ nt[id] = 1 /\ Has(c, lg[id])
         /\ \A other \in DOMAIN nt : other # id => ~Has(c, lg[other])
Undisturbed ==
  \A c \in Peers \ disturbed :
    peer[c].state \in {"new", "running"} /\ Alone(c, peer[c].state, log, net)

UInv == UdpTypeOK /\ Honest /\ Written /\ WholeOf(last, log) /\ Undisturbed

-----------------------------------------------------------------------------
(* Bags *)

\* A new element is in the bag once and leaves the others as they are.
LEMMA BagAdd ==
  ASSUME NEW B, IsABag(B), NEW k, k \notin DOMAIN B
  PROVE  /\ IsABag(B (+) SetToBag({k}))
         /\ DOMAIN (B (+) SetToBag({k})) = DOMAIN B \cup {k}
         /\ (B (+) SetToBag({k}))[k] = 1
         /\ \A x \in DOMAIN B : (B (+) SetToBag({k}))[x] = B[x]
<1> DEFINE C == [e \in DOMAIN B \cup {k} |->
                    (IF e \in DOMAIN B THEN B[e] ELSE 0) + (IF e \in {k} THEN 1 ELSE 0)]
<1>1. B (+) SetToBag({k}) = C
  BY DEF (+), SetToBag
<1>2. \A x \in DOMAIN B : B[x] \in Nat /\ B[x] > 0 /\ x # k
  BY DEF IsABag
<1>3. C[k] = 1 /\ \A x \in DOMAIN B : C[x] = B[x]
  BY <1>2
<1>4. IsABag(C)
  BY <1>2, <1>3 DEF IsABag
<1> HIDE DEF C
<1> QED
  BY <1>1, <1>3, <1>4 DEF C

\* Taking an element leaves the others, and nothing of it when there was one.
LEMMA BagRemove ==
  ASSUME NEW B, IsABag(B), NEW k \in DOMAIN B
  PROVE  /\ IsABag(B (-) SetToBag({k}))
         /\ DOMAIN (B (-) SetToBag({k})) \subseteq DOMAIN B
         /\ B[k] = 1 => k \notin DOMAIN (B (-) SetToBag({k}))
         /\ \A x \in DOMAIN B \ {k} :
              x \in DOMAIN (B (-) SetToBag({k})) /\ (B (-) SetToBag({k}))[x] = B[x]
<1> DEFINE D == [e \in DOMAIN B |-> IF e \in {k} THEN B[e] - 1 ELSE B[e]]
           C == [e \in {d \in DOMAIN B : D[d] > 0} |-> D[e]]
<1>1. B (-) SetToBag({k}) = C
  BY DEF (-), SetToBag
<1>2. \A x \in DOMAIN B : B[x] \in Nat /\ B[x] > 0
  BY DEF IsABag
<1>3. D[k] = B[k] - 1 /\ \A x \in DOMAIN B \ {k} : D[x] = B[x]
  OBVIOUS
<1> HIDE DEF D
<1>4. /\ DOMAIN C = {d \in DOMAIN B : D[d] > 0}
      /\ \A x \in DOMAIN C : C[x] = D[x]
  OBVIOUS
<1> HIDE DEF C
<1>5. IsABag(C)
  BY <1>2, <1>3, <1>4 DEF IsABag, C
<1>6. B[k] = 1 => k \notin DOMAIN C
  BY <1>3, <1>4
<1>7. \A x \in DOMAIN B \ {k} : x \in DOMAIN C /\ C[x] = B[x]
  BY <1>2, <1>3, <1>4
<1> QED
  BY <1>1, <1>4, <1>5, <1>6, <1>7

-----------------------------------------------------------------------------
(* The exchange *)

(* A client's exchange does not care about datagrams of others, ... *)
LEMMA OtherSends ==
  ASSUME NEW c, NEW st, NEW lg \in Seq(Datagram), NEW B, IsABag(B), DOMAIN B \subseteq 1 .. Len(lg),
         Alone(c, st, lg, B), NEW d \in Datagram, ~Has(c, d)
  PROVE  Alone(c, st, Append(lg, d), B (+) SetToBag({Len(lg) + 1}))
<1> DEFINE k == Len(lg) + 1
           A == B (+) SetToBag({k})
           new == Append(lg, d)
<1>1. /\ k \in Nat /\ k \notin DOMAIN B
      /\ new[k] = d /\ \A x \in DOMAIN B : new[x] = lg[x]
  OBVIOUS
<1>2. DOMAIN A = DOMAIN B \cup {k} /\ A[k] = 1 /\ \A x \in DOMAIN B : A[x] = B[x]
  BY <1>1, BagAdd
<1> HIDE DEF A, k, new
<1>3. Alone(c, st, new, A)
  BY <1>1, <1>2 DEF Alone
<1> QED
  BY <1>3 DEF A, k, new

(* ... has one under way when it or its server sends, ... *)
LEMMA OneSends ==
  ASSUME NEW c, NEW lg \in Seq(Datagram), NEW B, IsABag(B), DOMAIN B \subseteq 1 .. Len(lg),
         Alone(c, "new", lg, B), NEW d \in Datagram, Ours(c, d)
  PROVE  Alone(c, "running", Append(lg, d), B (+) SetToBag({Len(lg) + 1}))
<1> DEFINE k == Len(lg) + 1
           A == B (+) SetToBag({k})
           new == Append(lg, d)
<1>1. /\ k \in Nat /\ k \notin DOMAIN B
      /\ new[k] = d /\ \A x \in DOMAIN B : new[x] = lg[x]
  OBVIOUS
<1>2. DOMAIN A = DOMAIN B \cup {k} /\ A[k] = 1
  BY <1>1, BagAdd
<1>3. \A x \in DOMAIN B : ~Has(c, lg[x])
  BY DEF Alone
<1> HIDE DEF A, k, new
<1>4. Has(c, new[k]) /\ \A x \in DOMAIN A : x # k => ~Has(c, new[x])
  BY <1>1, <1>2, <1>3 DEF Has, Ours
<1>5. Alone(c, "running", new, A)
  BY <1>1, <1>2, <1>4 DEF Alone
<1> QED
  BY <1>5 DEF A, k, new

(* ... and none after the one it had was taken. *)
LEMMA OneTaken ==
  ASSUME NEW c, NEW lg, NEW B, IsABag(B), NEW k \in DOMAIN B,
         Alone(c, "running", lg, B), Has(c, lg[k])
  PROVE  Alone(c, "new", lg, B (-) SetToBag({k})) /\ Ours(c, lg[k])
<1> DEFINE A == B (-) SetToBag({k})
<1>1. PICK id \in DOMAIN B :
         /\ B[id] = 1 /\ Has(c, lg[id])
         /\ \A other \in DOMAIN B : other # id => ~Has(c, lg[other])
  BY DEF Alone
<1>2. B[k] = 1 /\ \A other \in DOMAIN B : other # k => ~Has(c, lg[other])
  BY <1>1
<1>3. DOMAIN A \subseteq DOMAIN B /\ k \notin DOMAIN A
  BY <1>2, BagRemove
<1> HIDE DEF A
<1>4. Alone(c, "new", lg, A)
  BY <1>2, <1>3 DEF Alone
<1> QED
  BY <1>4 DEF Alone, A

(* Others' datagrams may be taken. *)
LEMMA OtherTaken ==
  ASSUME NEW c, NEW st, NEW lg, NEW B, IsABag(B), NEW k \in DOMAIN B,
         Alone(c, st, lg, B), ~Has(c, lg[k])
  PROVE  Alone(c, st, lg, B (-) SetToBag({k}))
<1> DEFINE A == B (-) SetToBag({k})
<1>1. /\ DOMAIN A \subseteq DOMAIN B
      /\ \A x \in DOMAIN B \ {k} : x \in DOMAIN A /\ A[x] = B[x]
  BY BagRemove
<1> HIDE DEF A
<1>2. Alone(c, st, lg, A)
  <2>1. ASSUME st = "running"
        PROVE  \E id \in DOMAIN A : /\ A[id] = 1 /\ Has(c, lg[id])
                                    /\ \A other \in DOMAIN A : other # id => ~Has(c, lg[other])
    <3>1. PICK id \in DOMAIN B :
             /\ B[id] = 1 /\ Has(c, lg[id])
             /\ \A other \in DOMAIN B : other # id => ~Has(c, lg[other])
      BY <2>1 DEF Alone
    <3>2. id # k
      BY <3>1
    <3> QED
      BY <1>1, <3>1, <3>2
  <2> QED
    BY <1>1, <2>1 DEF Alone
<1> QED
  BY <1>2 DEF A

\* A copy of an element changes nothing about the others.
LEMMA BagCopy ==
  ASSUME NEW B, IsABag(B), NEW k \in DOMAIN B
  PROVE  /\ IsABag(B (+) SetToBag({k})) /\ DOMAIN (B (+) SetToBag({k})) = DOMAIN B
         /\ \A x \in DOMAIN B \ {k} : (B (+) SetToBag({k}))[x] = B[x]
<1> DEFINE A == [e \in DOMAIN B \cup {k} |->
                    (IF e \in DOMAIN B THEN B[e] ELSE 0) + (IF e \in {k} THEN 1 ELSE 0)]
<1>1. B (+) SetToBag({k}) = A
  BY DEF (+), SetToBag
<1>2. \A x \in DOMAIN B : B[x] \in Nat /\ B[x] > 0
  BY DEF IsABag
<1>3. DOMAIN A = DOMAIN B
  OBVIOUS
<1>4. \A x \in DOMAIN B : A[x] = B[x] + (IF x \in {k} THEN 1 ELSE 0)
  OBVIOUS
<1>5. A[k] = B[k] + 1 /\ \A x \in DOMAIN B \ {k} : A[x] = B[x]
  BY <1>2, <1>4
<1>6. \A x \in DOMAIN A : A[x] \in Nat /\ A[x] > 0
  BY <1>2, <1>3, <1>5
<1>7. IsABag(A)
  BY <1>6 DEF IsABag
<1> HIDE DEF A
<1> QED
  BY <1>1, <1>3, <1>5, <1>7

(* Others' datagrams may be copied. *)
LEMMA OtherCopied ==
  ASSUME NEW c, NEW st, NEW lg, NEW B, IsABag(B), NEW k \in DOMAIN B,
         Alone(c, st, lg, B), ~Has(c, lg[k])
  PROVE  Alone(c, st, lg, B (+) SetToBag({k}))
<1> DEFINE A == B (+) SetToBag({k})
<1>3. DOMAIN A = DOMAIN B /\ \A x \in DOMAIN B \ {k} : A[x] = B[x]
  BY BagCopy
<1> HIDE DEF A
<1>5. Alone(c, st, lg, A)
  <2>1. ASSUME st = "running"
        PROVE  \E id \in DOMAIN A : /\ A[id] = 1 /\ Has(c, lg[id])
                                    /\ \A other \in DOMAIN A : other # id => ~Has(c, lg[other])
    <3>1. PICK id \in DOMAIN B :
             /\ B[id] = 1 /\ Has(c, lg[id])
             /\ \A other \in DOMAIN B : other # id => ~Has(c, lg[other])
      BY <2>1 DEF Alone
    <3>2. id # k
      BY <3>1
    <3> QED
      BY <1>3, <3>1, <3>2
  <2> QED
    BY <1>3, <2>1 DEF Alone
<1> QED
  BY <1>5 DEF A

-----------------------------------------------------------------------------
(* Messages *)

(* The log grows; what was said of its datagrams stays true. *)
LEMMA LogGrows ==
  ASSUME NEW lg \in Seq(Datagram), NEW d \in Datagram
  PROVE  /\ Append(lg, d) \in Seq(Datagram) /\ Len(Append(lg, d)) = Len(lg) + 1
         /\ Append(lg, d)[Len(lg) + 1] = d
         /\ \A id \in 1 .. Len(lg) : Append(lg, d)[id] = lg[id]
         /\ \A k, i, s : WordOf(k, i, s, lg) => WordOf(k, i, s, Append(lg, d))
         /\ \A l : WholeOf(l, lg) => WholeOf(l, Append(lg, d))
<1> DEFINE new == Append(lg, d)
<1>1. /\ new \in Seq(Datagram) /\ Len(new) = Len(lg) + 1 /\ Len(lg) \in Nat
      /\ new[Len(lg) + 1] = d
      /\ \A id \in 1 .. Len(lg) : new[id] = lg[id] /\ id \in 1 .. Len(new)
  OBVIOUS
<1> HIDE DEF new
<1>2. \A k, i, s : WordOf(k, i, s, lg) => WordOf(k, i, s, new)
  BY <1>1 DEF WordOf
<1>3. ASSUME NEW l, WholeOf(l, lg) PROVE WholeOf(l, new)
  BY <1>1, <1>2, <1>3, Zenon DEF WholeOf
<1> QED
  BY <1>1, <1>2, <1>3 DEF new

(* recvfrom puts the datagram at the front of the buffer. *)
LEMMA Receives ==
  ASSUME UdpTypeOK, NEW s, NEW m \in MBuf, NEW id \in 1 .. Len(log), log[id].to = s,
         \A i \in 1 .. MSG_LENGTH_LIMIT : WordOf(m[i], i, s, log)
  PROVE  /\ recvfrom(m, id) \in MBuf
         /\ \A i \in 1 .. MSG_LENGTH_LIMIT : WordOf(recvfrom(m, id)[i], i, s, log)
         /\ \A i \in 1 .. log[id].n : recvfrom(m, id)[i] = id
<1>1. log[id] \in Datagram
  BY DEF UdpTypeOK
<1>2. log[id].n \in 1 .. MaxDatagram /\ MaxDatagram < MSG_LENGTH_LIMIT
      /\ MaxDatagram \in Nat /\ MSG_LENGTH_LIMIT \in Nat
  BY <1>1, UdpAssumption DEF Datagram
<1>3. /\ DOMAIN m = 1 .. MSG_LENGTH_LIMIT /\ \A i \in DOMAIN m : m[i] \in Nat
      /\ id \in Nat
  BY DEF MBuf
<1>4. recvfrom(m, id) = [i \in 1 .. MSG_LENGTH_LIMIT |-> IF i <= log[id].n THEN id ELSE m[i]]
  BY <1>3 DEF recvfrom
<1>5. recvfrom(m, id) \in MBuf
  BY <1>3, <1>4 DEF MBuf
<1>6. \A i \in 1 .. log[id].n : recvfrom(m, id)[i] = id
  BY <1>2, <1>4
<1>7. \A i \in 1 .. MSG_LENGTH_LIMIT : WordOf(recvfrom(m, id)[i], i, s, log)
  BY <1>2, <1>4 DEF WordOf
<1> QED
  BY <1>5, <1>6, <1>7

(* A datagram with a format has the size its own head tells: one shorter   *)
(* than that never has one, though the head read from the buffer may be an *)
(* earlier one's.                                                          *)
LEMMA FormatIs ==
  ASSUME UdpTypeOK, NEW s, NEW m \in MBuf, NEW id \in 1 .. Len(log), log[id].to = s,
         \A i \in 1 .. MSG_LENGTH_LIMIT : WordOf(m[i], i, s, log)
  PROVE  Format(recvfrom(m, id), id) <=> log[id].n = HeadSize + log[id].length
<1> DEFINE r == recvfrom(m, id)
<1>1. log[id] \in Datagram
  BY DEF UdpTypeOK
<1>2. log[id].n \in Nat /\ log[id].length \in Nat /\ log[id].n < MSG_LENGTH_LIMIT
      /\ MSG_LENGTH_LIMIT \in Nat
  BY <1>1, UdpAssumption DEF Datagram
<1>3. /\ r \in MBuf /\ \A i \in 1 .. log[id].n : r[i] = id
      /\ \A i \in 1 .. MSG_LENGTH_LIMIT : WordOf(r[i], i, s, log)
  BY Receives
<1> HIDE DEF r
<1>4. 3 \in 1 .. MSG_LENGTH_LIMIT
  BY UdpAssumption DEF HeadSize
<1>5. Format(r, id) <=> (IF r[3] = 0 THEN 0 ELSE log[r[3]].length) + 4 = log[id].n
  BY DEF Format, HeadSize
<1>6. CASE log[id].n >= 3
  <2>1. r[3] = id /\ id # 0
    BY <1>2, <1>3, <1>6
  <2>2. (IF r[3] = 0 THEN 0 ELSE log[r[3]].length) = log[id].length
    BY <2>1
  <2>3. Format(r, id) <=> log[id].length + 4 = log[id].n
    BY <1>5, <2>2
  <2> QED
    BY <1>2, <2>3 DEF r, HeadSize
<1>7. CASE log[id].n < 3
  <2>1. (IF r[3] = 0 THEN 0 ELSE log[r[3]].length) \in Nat
    <3>1. CASE r[3] = 0
      BY <3>1
    <3>2. CASE r[3] # 0
      <4>1. r[3] \in 1 .. Len(log)
        BY <1>3, <1>4, <3>2 DEF WordOf
      <4>2. log[r[3]] \in Datagram
        BY <4>1 DEF UdpTypeOK
      <4> QED
        BY <3>2, <4>2 DEF Datagram
    <3> QED
      BY <3>1, <3>2
  <2>2. ~Format(r, id)
    BY <1>2, <1>5, <1>7, <2>1
  <2> QED
    BY <1>2, <1>7, <2>2 DEF r, HeadSize
<1> QED
  BY <1>2, <1>6, <1>7

(* What the dispatcher is called with is whole. *)
LEMMA DataIsWhole ==
  ASSUME UdpTypeOK, NEW s, NEW m \in MBuf, NEW id \in 1 .. Len(log), log[id].to = s,
         \A i \in 1 .. MSG_LENGTH_LIMIT : WordOf(m[i], i, s, log),
         Format(recvfrom(m, id), id)
  PROVE  WholeOf([at |-> s, id |-> id, data |-> DataOf(s, recvfrom(m, id), id)], log)
<1> DEFINE r == recvfrom(m, id)
           len == log[id].length
           end == IF s = Server THEN HeadSize + len ELSE MSG_LENGTH_LIMIT
           data == SubSeq(r, HeadSize + 1, end)
           l == [at |-> s, id |-> id, data |-> data]
<1>1. log[id] \in Datagram
  BY DEF UdpTypeOK
<1> DEFINE n == log[id].n
<1>a. n = 4 + len
  BY FormatIs DEF HeadSize
<1>b. len \in Nat /\ n \in 1 .. MaxDatagram
  BY <1>1 DEF Datagram
<1>2. n = 4 + len /\ len \in Nat /\ 4 + len < MSG_LENGTH_LIMIT /\ MSG_LENGTH_LIMIT \in Nat
  BY <1>a, <1>b, UdpAssumption
<1>3. /\ r \in MBuf /\ \A i \in 1 .. n : r[i] = id
      /\ \A i \in 1 .. MSG_LENGTH_LIMIT : WordOf(r[i], i, s, log)
  BY Receives
<1>4. DataOf(s, r, id) = data
  BY DEF DataOf
<1> HIDE DEF r, len, n
<1>5. r \in Seq(Nat) /\ Len(r) = MSG_LENGTH_LIMIT
  BY <1>2, <1>3 DEF MBuf
<1>6. /\ end \in 4 .. MSG_LENGTH_LIMIT /\ end >= 4 + len
      /\ s = Server => end = 4 + len
  BY <1>2 DEF HeadSize
<1> HIDE DEF end
<1>7. /\ data \in Seq(Nat) /\ Len(data) = end - 4 /\ DOMAIN data = 1 .. end - 4
      /\ \A i \in 1 .. end - 4 : data[i] = r[4 + i]
  BY <1>2, <1>5, <1>6 DEF HeadSize
<1> HIDE DEF data
<1>8. \A i \in 1 .. len : i \in DOMAIN data /\ data[i] = id
  <2> SUFFICES ASSUME NEW i \in 1 .. len
               PROVE  i \in DOMAIN data /\ data[i] = id
    OBVIOUS
  <2>1. end \in Nat /\ len \in Nat /\ n = 4 + len /\ end >= 4 + len
    BY <1>2, <1>6
  <2>2. i \in 1 .. end - 4 /\ 4 + i \in 1 .. n
    BY <2>1
  <2> QED
    BY <1>3, <1>7, <2>2
<1>9. \A i \in DOMAIN data : i \in Nat /\ WordOf(data[i], 4 + i, s, log)
  <2> SUFFICES ASSUME NEW i \in DOMAIN data
               PROVE  i \in Nat /\ WordOf(data[i], 4 + i, s, log)
    OBVIOUS
  <2>1. i \in Nat /\ 4 + i \in 1 .. MSG_LENGTH_LIMIT /\ data[i] = r[4 + i]
    BY <1>2, <1>6, <1>7
  <2> QED
    BY <1>3, <2>1
<1>10. s = Server => Len(data) = len
  BY <1>2, <1>6, <1>7
<1>11. l.at = s /\ l.id = id /\ l.data = data
  OBVIOUS
<1> HIDE DEF l
<1>12. WholeOf(l, log)
  BY <1>2, <1>8, <1>9, <1>10, <1>11 DEF WholeOf, HeadSize, len, n
<1> QED
  BY <1>4, <1>12 DEF l, r
-----------------------------------------------------------------------------
(* Sockets, and what is sent *)

Socket == [state : States, m_rbuf : MBuf]

(* Only the words of one socket's buffer are written. *)
LEMMA WrittenAfter ==
  ASSUME Written, NEW s \in Sockets,
         \A x \in Sockets \ {s} : peer'[x].m_rbuf = peer[x].m_rbuf,
         \A i \in 1 .. MSG_LENGTH_LIMIT : WordOf(peer'[s].m_rbuf[i], i, s, log),
         \A k, i, x : WordOf(k, i, x, log) => WordOf(k, i, x, log')
  PROVE  Written'
<1> SUFFICES ASSUME NEW x \in Sockets, NEW i \in 1 .. MSG_LENGTH_LIMIT
             PROVE  WordOf(peer'[x].m_rbuf[i], i, x, log')
  BY DEF Written
<1>1. WordOf(peer'[x].m_rbuf[i], i, x, log)
  BY DEF Written
<1> QED
  BY <1>1

(* Whoever sends is honest, and disturbs nobody but the one at the other   *)
(* end, if it fails.                                                       *)
LEMMA SendStep ==
  ASSUME UdpTypeOK, Honest, NEW from \in Sockets, NEW to \in Everybody, NEW length \in Nat,
         NEW B, IsABag(B), DOMAIN B \subseteq 1 .. Len(log), sendDatagram(from, to, length, B)
  PROVE  /\ log' \in Seq(Datagram) /\ IsABag(net') /\ DOMAIN net' \subseteq 1 .. Len(log')
         /\ Honest'
         /\ \A k, i, s : WordOf(k, i, s, log) => WordOf(k, i, s, log')
         /\ \A l : WholeOf(l, log) => WholeOf(l, log')
         /\ disturbed \subseteq disturbed'
         /\ \A c, st : c \notin {from, to} /\ Alone(c, st, log, B) => Alone(c, st, log', net')
         /\ \A c : /\ c \notin disturbed' /\ Alone(c, "new", log, B)
                   /\ (c = from /\ to = Server) \/ (from = Server /\ to = c)
                   => Alone(c, "running", log', net')
<1> DEFINE d == [from |-> from, to |-> to, n |-> HeadSize + length, length |-> length,
                 cmd |-> "known"]
<1>1. CASE Fits(length)
  <2>1. d \in Datagram /\ HonestOne(d)
    BY <1>1, UdpAssumption DEF Datagram, HonestOne, Fits, HeadSize, Everybody
  <2>2. log' = Append(log, d) /\ net' = B (+) SetToBag({Len(log) + 1}) /\ disturbed' = disturbed
    BY <1>1 DEF sendDatagram
  <2>3. d.from = from /\ d.to = to
    OBVIOUS
  <2> HIDE DEF d
  <2>4. log \in Seq(Datagram) /\ Len(log) \in Nat
    BY DEF UdpTypeOK
  <2>5. /\ log' \in Seq(Datagram) /\ Len(log') = Len(log) + 1
        /\ log'[Len(log) + 1] = d /\ \A id \in 1 .. Len(log) : log'[id] = log[id]
        /\ \A k, i, s : WordOf(k, i, s, log) => WordOf(k, i, s, log')
        /\ \A l : WholeOf(l, log) => WholeOf(l, log')
    BY <2>1, <2>2, <2>4, LogGrows, Zenon
  <2>6. IsABag(net') /\ DOMAIN net' \subseteq 1 .. Len(log')
    <3>1. Len(log) + 1 \notin DOMAIN B
      BY <2>4
    <3>2. IsABag(net') /\ DOMAIN net' = DOMAIN B \cup {Len(log) + 1}
      BY <2>2, <3>1, BagAdd
    <3> QED
      BY <2>4, <2>5, <3>2
  <2>7. Honest'
    BY <2>1, <2>4, <2>5 DEF Honest, HonestOne
  <2>8. ASSUME NEW c, NEW st, c \notin {from, to}, Alone(c, st, log, B)
        PROVE  Alone(c, st, log', net')
    <3>1. ~Has(c, d)
      BY <2>3, <2>8 DEF Has
    <3> QED
      BY <2>1, <2>2, <2>4, <2>8, <3>1, OtherSends
  <2>9. ASSUME NEW c, Alone(c, "new", log, B),
               (c = from /\ to = Server) \/ (from = Server /\ to = c)
        PROVE  Alone(c, "running", log', net')
    <3>1. Ours(c, d)
      BY <2>3, <2>9 DEF Ours
    <3> QED
      BY <2>1, <2>2, <2>4, <2>9, <3>1, OneSends
  <2> QED
    BY <2>2, <2>5, <2>6, <2>7, <2>8, <2>9
<1>2. CASE ~Fits(length)
  <2>1. log' = log /\ net' = B /\ disturbed' = disturbed \cup {from, to}
    BY <1>2 DEF sendDatagram
  <2>2. Honest'
    BY <2>1 DEF Honest
  <2>3. log \in Seq(Datagram)
    BY DEF UdpTypeOK
  <2> QED
    BY <2>1, <2>2, <2>3
<1> QED
  BY <1>1, <1>2

(* What taking a datagram leaves. *)
LEMMA TakeStep ==
  ASSUME UInv, NEW s \in Sockets, NEW id \in DOMAIN log, Take(s, id)
  PROVE  /\ id \in DOMAIN net /\ id \in 1 .. Len(log) /\ log[id] \in Datagram /\ log[id].to = s
         /\ latest' \in Everybody /\ (s = Server => latest' = log[id].from)
         /\ IsABag(net (-) SetToBag({id}))
         /\ DOMAIN (net (-) SetToBag({id})) \subseteq 1 .. Len(log)
         /\ peer[s] \in Socket
         /\ \A i \in 1 .. MSG_LENGTH_LIMIT : WordOf(peer[s].m_rbuf[i], i, s, log)
<1>1. UdpTypeOK /\ Written
  BY DEF UInv
<1>2. id \in DOMAIN net /\ log[id].to = s /\ latest' = IF s = Server THEN log[id].from ELSE latest
  BY DEF Take, BagIn, BagToSet
<1>3. id \in 1 .. Len(log) /\ log[id] \in Datagram /\ IsABag(net) /\ DOMAIN net \subseteq 1 .. Len(log)
  BY <1>1, <1>2 DEF UdpTypeOK
<1>4. latest' \in Everybody
  BY <1>1, <1>2, <1>3 DEF UdpTypeOK, Datagram
<1>5. /\ IsABag(net (-) SetToBag({id}))
      /\ DOMAIN (net (-) SetToBag({id})) \subseteq DOMAIN net
  BY <1>2, <1>3, BagRemove
<1>6. peer[s] \in Socket
  BY <1>1 DEF UdpTypeOK, Socket
<1>7. \A i \in 1 .. MSG_LENGTH_LIMIT : WordOf(peer[s].m_rbuf[i], i, s, log)
  BY <1>1 DEF Written
<1> QED
  BY <1>2, <1>3, <1>4, <1>5, <1>6, <1>7

(* An undisturbed client's datagram is honest, and so has its format. *)
LEMMA OursIsHonest ==
  ASSUME UInv, NEW c \in Peers \ disturbed, NEW id \in DOMAIN net, Has(c, log[id])
  PROVE  /\ Ours(c, log[id]) /\ log[id].n = HeadSize + log[id].length /\ log[id].cmd = "known"
         /\ peer[c].state = "running"
<1>1. UdpTypeOK /\ Honest /\ Undisturbed
  BY DEF UInv
<1>2. id \in 1 .. Len(log)
  BY <1>1 DEF UdpTypeOK
<1>3. peer[c].state \in {"new", "running"} /\ Alone(c, peer[c].state, log, net)
  BY <1>1 DEF Undisturbed
<1>4. Ours(c, log[id]) /\ peer[c].state = "running"
  BY <1>3 DEF Alone
<1>5. log[id].from # Stranger
  BY <1>4, UdpAssumption DEF Ours
<1>6. HonestOne(log[id])
  BY <1>1, <1>2 DEF Honest
<1> QED
  BY <1>4, <1>5, <1>6 DEF HonestOne
-----------------------------------------------------------------------------
(* The steps *)

\* A step of the other transport.
LEMMA UdpUnchanged ==
  ASSUME UInv, UNCHANGED udpVars
  PROVE  UInv'
BY DEF UInv, udpVars, UdpTypeOK, Honest, Written, Undisturbed

\* startLoop of the server: no client's exchange is begun by it.
LEMMA UdpStarts ==
  ASSUME UInv, StartServer
  PROVE  UInv'
<1>1. UdpTypeOK /\ Honest /\ Written /\ WholeOf(last, log) /\ Undisturbed
  BY DEF UInv
<1>2. /\ peer' = [peer EXCEPT ![Server].state = "running"]
      /\ UNCHANGED <<latest, log, net, last, faults, disturbed>>
  BY DEF StartServer
<1>3. peer \in [Sockets -> Socket]
  BY <1>1 DEF UdpTypeOK, Socket
<1>4. /\ peer' \in [Sockets -> Socket]
      /\ \A x \in Sockets : peer'[x].m_rbuf = peer[x].m_rbuf
      /\ \A x \in Sockets \ {Server} : peer'[x] = peer[x]
  BY <1>2, <1>3 DEF Socket, States
<1>5. UdpTypeOK'
  BY <1>1, <1>2, <1>4 DEF UdpTypeOK, Socket
<1>6. Written'
  BY <1>1, <1>2, <1>4 DEF Written
<1>7. Undisturbed'
  BY <1>1, <1>2, <1>4, UdpAssumption DEF Undisturbed, Sockets
<1>8. Honest' /\ WholeOf(last', log')
  BY <1>1, <1>2 DEF Honest
<1> QED
  BY <1>5, <1>6, <1>7, <1>8 DEF UInv

\* stop of a callback disturbs the client, or all clients when it is the
\* server's.
LEMMA UdpStops ==
  ASSUME UInv, NEW s \in Sockets, Stop(s)
  PROVE  UInv'
<1>1. UdpTypeOK /\ Honest /\ Written /\ WholeOf(last, log) /\ Undisturbed
  BY DEF UInv
<1>2. /\ peer' = [peer EXCEPT ![s].state = "stopped"]
      /\ disturbed' = disturbed \cup (IF s = Server THEN Peers ELSE {s})
      /\ UNCHANGED <<latest, log, net, last, faults>>
  BY DEF Stop
<1>3. peer \in [Sockets -> Socket]
  BY <1>1 DEF UdpTypeOK, Socket
<1>4. /\ peer' \in [Sockets -> Socket]
      /\ \A x \in Sockets : peer'[x].m_rbuf = peer[x].m_rbuf
      /\ \A x \in Sockets \ {s} : peer'[x] = peer[x]
  BY <1>2, <1>3 DEF Socket, States
<1>5. UdpTypeOK'
  BY <1>1, <1>2, <1>4 DEF UdpTypeOK, Socket
<1>6. Written'
  BY <1>1, <1>2, <1>4 DEF Written
<1>7. Undisturbed'
  BY <1>1, <1>2, <1>4 DEF Undisturbed, Sockets
<1>8. Honest' /\ WholeOf(last', log')
  BY <1>1, <1>2 DEF Honest
<1> QED
  BY <1>5, <1>6, <1>7, <1>8 DEF UInv

\* startLoop of a client: its onConnect sends the first datagram of its
\* exchange, the only one.
LEMMA UdpClientStarts ==
  ASSUME UInv, NEW c \in Peers, StartClient(c)
  PROVE  UInv'
<1>1. UdpTypeOK /\ Honest /\ Written /\ WholeOf(last, log) /\ Undisturbed
  BY DEF UInv
<1>2. PICK length \in Lengths : sendDatagram(c, Server, length, net)
  BY DEF StartClient, ClientAsks
<1>3. /\ peer[c].state = "new" /\ peer' = [peer EXCEPT ![c].state = "running"]
      /\ UNCHANGED <<latest, last, faults>>
  BY DEF StartClient
<1>4. /\ c \in Sockets /\ Server \in Everybody /\ c # Server /\ length \in Nat
      /\ IsABag(net) /\ DOMAIN net \subseteq 1 .. Len(log)
  BY <1>1, UdpAssumption DEF Sockets, Everybody, UdpTypeOK
<1>5. /\ log' \in Seq(Datagram) /\ IsABag(net') /\ DOMAIN net' \subseteq 1 .. Len(log')
      /\ Honest'
      /\ \A k, i, s : WordOf(k, i, s, log) => WordOf(k, i, s, log')
      /\ \A l : WholeOf(l, log) => WholeOf(l, log')
      /\ disturbed \subseteq disturbed'
      /\ \A x, st : x \notin {c, Server} /\ Alone(x, st, log, net) => Alone(x, st, log', net')
      /\ \A x : /\ x \notin disturbed' /\ Alone(x, "new", log, net)
                /\ (x = c /\ Server = Server) \/ (c = Server /\ Server = x)
                => Alone(x, "running", log', net')
  BY <1>1, <1>2, <1>4, SendStep, Zenon
<1>6. peer \in [Sockets -> Socket]
  BY <1>1 DEF UdpTypeOK, Socket
<1>7. /\ peer' \in [Sockets -> Socket] /\ peer'[c].state = "running"
      /\ \A x \in Sockets : peer'[x].m_rbuf = peer[x].m_rbuf
      /\ \A x \in Sockets \ {c} : peer'[x] = peer[x]
  BY <1>3, <1>4, <1>6 DEF Socket, States
<1>8. UdpTypeOK'
  BY <1>1, <1>3, <1>5, <1>7 DEF UdpTypeOK, Socket
<1>9. Written'
  BY <1>1, <1>5, <1>7 DEF Written
<1>10. Undisturbed'
  <2> SUFFICES ASSUME NEW x \in Peers, x \notin disturbed'
               PROVE  peer'[x].state \in {"new", "running"} /\ Alone(x, peer'[x].state, log', net')
    BY DEF Undisturbed
  <2>1. /\ peer[x].state \in {"new", "running"} /\ Alone(x, peer[x].state, log, net)
        /\ x \in Sockets /\ x # Server
    BY <1>1, <1>5, UdpAssumption DEF Undisturbed, Sockets
  <2>2. CASE x = c
    BY <1>3, <1>5, <1>7, <2>1, <2>2
  <2>3. CASE x # c
    BY <1>5, <1>7, <2>1, <2>3
  <2> QED
    BY <2>2, <2>3
<1>11. WholeOf(last', log')
  BY <1>1, <1>3, <1>5
<1> QED
  BY <1>5, <1>8, <1>9, <1>10, <1>11 DEF UInv

\* What has no format is never a datagram of an undisturbed client, so no
\* exchange ends with it.
LEMMA UdpSkips ==
  ASSUME UInv, NEW s \in Sockets, NEW id \in DOMAIN log, Skip(s, id)
  PROVE  UInv'
<1>1. UdpTypeOK /\ Honest /\ Written /\ WholeOf(last, log) /\ Undisturbed
  BY DEF UInv
<1> DEFINE m == recvfrom(peer[s].m_rbuf, id)
<1>2. /\ Take(s, id) /\ ~Format(m, id) /\ peer' = [peer EXCEPT ![s].m_rbuf = m]
      /\ net' = net (-) SetToBag({id})
      /\ UNCHANGED <<log, last, faults, disturbed>>
  BY DEF Skip
<1>3. /\ id \in DOMAIN net /\ id \in 1 .. Len(log) /\ log[id] \in Datagram /\ log[id].to = s
      /\ latest' \in Everybody /\ IsABag(net') /\ DOMAIN net' \subseteq 1 .. Len(log)
      /\ peer[s] \in Socket /\ peer[s].m_rbuf \in MBuf
      /\ \A i \in 1 .. MSG_LENGTH_LIMIT : WordOf(peer[s].m_rbuf[i], i, s, log)
  BY <1>2, TakeStep DEF Socket
<1>4. m \in MBuf /\ \A i \in 1 .. MSG_LENGTH_LIMIT : WordOf(m[i], i, s, log)
  BY <1>1, <1>3, Receives
<1>5. log[id].n # HeadSize + log[id].length
  BY <1>1, <1>2, <1>3, FormatIs
<1> HIDE DEF m
<1>6. peer \in [Sockets -> Socket]
  BY <1>1 DEF UdpTypeOK, Socket
<1>7. /\ peer' \in [Sockets -> Socket] /\ peer'[s].m_rbuf = m
      /\ \A x \in Sockets : peer'[x].state = peer[x].state
      /\ \A x \in Sockets \ {s} : peer'[x] = peer[x]
  BY <1>2, <1>4, <1>6 DEF Socket
<1>8. UdpTypeOK'
  BY <1>1, <1>2, <1>3, <1>7 DEF UdpTypeOK, Socket
<1>9. Written'
  BY <1>1, <1>2, <1>4, <1>7, WrittenAfter
<1>10. Undisturbed'
  <2> SUFFICES ASSUME NEW x \in Peers \ disturbed
               PROVE  peer'[x].state \in {"new", "running"} /\ Alone(x, peer'[x].state, log', net')
    BY <1>2 DEF Undisturbed
  <2>1. /\ peer[x].state \in {"new", "running"} /\ Alone(x, peer[x].state, log, net)
        /\ peer'[x].state = peer[x].state
    BY <1>1, <1>7 DEF Undisturbed, Sockets
  <2>2. ~Has(x, log[id])
    BY <1>3, <1>5, OursIsHonest
  <2>3. IsABag(net)
    BY <1>1 DEF UdpTypeOK
  <2> QED
    BY <1>2, <1>3, <2>1, <2>2, <2>3, OtherTaken
<1>11. Honest' /\ WholeOf(last', log')
  BY <1>1, <1>2 DEF Honest
<1> QED
  BY <1>8, <1>9, <1>10, <1>11 DEF UInv

\* What throws through the loop is never a datagram of an undisturbed client:
\* in a client's loop it ends that client only, in the server's it disturbs
\* all.
LEMMA UdpThrows ==
  ASSUME UInv, NEW s \in Sockets, NEW id \in DOMAIN log, Throw(s, id)
  PROVE  UInv'
<1>1. UdpTypeOK /\ Honest /\ Written /\ WholeOf(last, log) /\ Undisturbed
  BY DEF UInv
<1> DEFINE m == recvfrom(peer[s].m_rbuf, id)
<1>2. /\ Take(s, id) /\ log[id].cmd = "unknown"
      /\ peer' = [peer EXCEPT ![s].state = "thrown", ![s].m_rbuf = m]
      /\ net' = net (-) SetToBag({id})
      /\ disturbed' = disturbed \cup (IF s = Server THEN Peers ELSE {s})
      /\ UNCHANGED <<log, last, faults>>
  BY DEF Throw
<1>3. /\ id \in DOMAIN net /\ id \in 1 .. Len(log) /\ log[id] \in Datagram /\ log[id].to = s
      /\ latest' \in Everybody /\ IsABag(net') /\ DOMAIN net' \subseteq 1 .. Len(log)
      /\ peer[s] \in Socket /\ peer[s].m_rbuf \in MBuf
      /\ \A i \in 1 .. MSG_LENGTH_LIMIT : WordOf(peer[s].m_rbuf[i], i, s, log)
  BY <1>2, TakeStep DEF Socket
<1>4. m \in MBuf /\ \A i \in 1 .. MSG_LENGTH_LIMIT : WordOf(m[i], i, s, log)
  BY <1>1, <1>3, Receives
<1> HIDE DEF m
<1>6. peer \in [Sockets -> Socket]
  BY <1>1 DEF UdpTypeOK, Socket
<1>7. /\ peer' \in [Sockets -> Socket] /\ peer'[s].m_rbuf = m
      /\ \A x \in Sockets \ {s} : peer'[x] = peer[x]
  BY <1>2, <1>4, <1>6 DEF Socket, States
<1>8. UdpTypeOK'
  BY <1>1, <1>2, <1>3, <1>7 DEF UdpTypeOK, Socket
<1>9. Written'
  BY <1>1, <1>2, <1>4, <1>7, WrittenAfter
<1>10. Undisturbed'
  <2> SUFFICES ASSUME NEW x \in Peers, x \notin disturbed'
               PROVE  peer'[x].state \in {"new", "running"} /\ Alone(x, peer'[x].state, log', net')
    BY DEF Undisturbed
  <2>1. x \in Peers \ disturbed /\ x # s /\ x \in Sockets
    BY <1>2 DEF Sockets
  <2>2. /\ peer[x].state \in {"new", "running"} /\ Alone(x, peer[x].state, log, net)
        /\ peer'[x].state = peer[x].state
    BY <1>1, <1>7, <2>1 DEF Undisturbed
  <2>3. ~Has(x, log[id])
    BY <1>2, <1>3, <2>1, OursIsHonest
  <2>4. IsABag(net)
    BY <1>1 DEF UdpTypeOK
  <2> QED
    BY <1>2, <1>3, <2>2, <2>3, <2>4, OtherTaken
<1>11. Honest' /\ WholeOf(last', log')
  BY <1>1, <1>2 DEF Honest
<1> QED
  BY <1>8, <1>9, <1>10, <1>11 DEF UInv

(* A datagram is added to the log and to those under way. *)
LEMMA UdpAdds ==
  ASSUME UInv, NEW d \in Datagram, HonestOne(d),
         log' = Append(log, d), net' = net (+) SetToBag({Len(log) + 1}),
         UNCHANGED <<peer, latest, last>>, disturbed \subseteq disturbed',
         \A c \in Peers \ disturbed' : ~Has(c, d)
  PROVE  UInv'
<1>1. UdpTypeOK /\ Honest /\ Written /\ WholeOf(last, log) /\ Undisturbed
  BY DEF UInv
<1>2. log \in Seq(Datagram) /\ Len(log) \in Nat /\ IsABag(net) /\ DOMAIN net \subseteq 1 .. Len(log)
  BY <1>1 DEF UdpTypeOK
<1>3. /\ log' \in Seq(Datagram) /\ Len(log') = Len(log) + 1
      /\ log'[Len(log) + 1] = d /\ \A id \in 1 .. Len(log) : log'[id] = log[id]
      /\ \A k, i, s : WordOf(k, i, s, log) => WordOf(k, i, s, log')
      /\ \A l : WholeOf(l, log) => WholeOf(l, log')
  BY <1>2, LogGrows, Zenon
<1>4. IsABag(net') /\ DOMAIN net' \subseteq 1 .. Len(log')
  <2>1. Len(log) + 1 \notin DOMAIN net
    BY <1>2
  <2>2. IsABag(net') /\ DOMAIN net' = DOMAIN net \cup {Len(log) + 1}
    BY <1>2, <2>1, BagAdd
  <2>3. Len(log') = Len(log) + 1 /\ Len(log) \in Nat /\ DOMAIN net \subseteq 1 .. Len(log)
    BY <1>2, <1>3
  <2>4. DOMAIN net \cup {Len(log) + 1} \subseteq 1 .. Len(log) + 1
    BY <2>3
  <2> QED
    BY <2>2, <2>3, <2>4
<1>5. UdpTypeOK'
  BY <1>1, <1>3, <1>4 DEF UdpTypeOK
<1>6. Honest'
  <2> SUFFICES ASSUME NEW id \in 1 .. Len(log) + 1 PROVE HonestOne(log'[id])
    BY <1>3 DEF Honest
  <2>1. CASE id = Len(log) + 1
    BY <1>3, <2>1
  <2>2. CASE id # Len(log) + 1
    <3>1. id \in 1 .. Len(log)
      BY <1>2, <2>2
    <3>2. log'[id] = log[id] /\ HonestOne(log[id])
      BY <1>1, <1>3, <3>1 DEF Honest
    <3> QED
      BY <3>2
  <2> QED
    BY <2>1, <2>2
<1>7. Written'
  BY <1>1, <1>3 DEF Written
<1>8. Undisturbed'
  <2> SUFFICES ASSUME NEW x \in Peers, x \notin disturbed'
               PROVE  peer'[x].state \in {"new", "running"} /\ Alone(x, peer'[x].state, log', net')
    BY DEF Undisturbed
  <2>1. /\ peer[x].state \in {"new", "running"} /\ Alone(x, peer[x].state, log, net)
        /\ ~Has(x, d)
    BY <1>1 DEF Undisturbed
  <2> QED
    BY <1>2, <2>1, OtherSends
<1> QED
  BY <1>1, <1>3, <1>5, <1>6, <1>7, <1>8 DEF UInv

\* A push to the latest sender disturbs the one it goes to.
LEMMA UdpPushes ==
  ASSUME UInv, NEW length \in Lengths, Push(length)
  PROVE  UInv'
<1> DEFINE d == [from |-> Server, to |-> latest, n |-> HeadSize + length,
                 length |-> length, cmd |-> "known"]
<1>1. latest \in Everybody
  BY DEF UInv, UdpTypeOK
<1>2. d \in Datagram /\ HonestOne(d)
  BY <1>1, UdpAssumption DEF Datagram, HonestOne, Push, Fits, HeadSize, Everybody, Sockets
<1>3. /\ log' = Append(log, d) /\ net' = net (+) SetToBag({Len(log) + 1})
      /\ disturbed' = disturbed \cup {latest} /\ UNCHANGED <<peer, latest, last>>
  BY DEF Push
<1>4. \A c \in Peers \ disturbed' : ~Has(c, d)
  BY <1>3, UdpAssumption DEF Has
<1> HIDE DEF d
<1> QED
  BY <1>2, <1>3, <1>4, UdpAdds

\* A strange datagram is under way beside those of an exchange, in nobody's
\* name.
LEMMA UdpStrange ==
  ASSUME UInv, NEW to \in Sockets, NEW e \in Strange, SendStrange(to, e)
  PROVE  UInv'
<1> DEFINE d == [from |-> Stranger, to |-> to, n |-> e.n, length |-> e.length, cmd |-> e.cmd]
<1>1. e \in [n : 1 .. MaxDatagram, length : Nat, cmd : {"known", "unknown"}]
  BY UdpAssumption
<1>2. d \in Datagram /\ HonestOne(d)
  BY <1>1 DEF Datagram, HonestOne, Everybody
<1>3. /\ log' = Append(log, d) /\ net' = net (+) SetToBag({Len(log) + 1})
      /\ disturbed' = disturbed \cup ({to} \cap Peers) /\ UNCHANGED <<peer, latest, last>>
  BY DEF SendStrange
<1>4. \A c \in Peers \ disturbed' : ~Has(c, d)
  BY <1>3, UdpAssumption DEF Has
<1> HIDE DEF d
<1> QED
  BY <1>2, <1>3, <1>4, UdpAdds

\* The network loses or copies a datagram of a client, which is disturbed
\* then, or of a stranger.
LEMMA UdpLosesOrCopies ==
  ASSUME UInv, NEW id \in DOMAIN log, Lose(id) \/ Copy(id)
  PROVE  UInv'
<1>1. UdpTypeOK /\ Honest /\ Written /\ WholeOf(last, log) /\ Undisturbed
  BY DEF UInv
<1>2. /\ id \in DOMAIN net /\ disturbed' = disturbed \cup ClientOf(id)
      /\ UNCHANGED <<peer, latest, log, last>>
      /\ net' = net (-) SetToBag({id}) \/ net' = net (+) SetToBag({id})
  BY DEF Lose, Copy, BagIn, BagToSet
<1>3. IsABag(net) /\ DOMAIN net \subseteq 1 .. Len(log)
  BY <1>1 DEF UdpTypeOK
<1>4. IsABag(net') /\ DOMAIN net' \subseteq DOMAIN net
  <2>1. CASE net' = net (-) SetToBag({id})
    BY <1>2, <1>3, <2>1, BagRemove
  <2>2. CASE net' = net (+) SetToBag({id})
    BY <1>2, <1>3, <2>2, BagCopy
  <2> QED
    BY <1>2, <2>1, <2>2
<1>5. UdpTypeOK'
  BY <1>1, <1>2, <1>4 DEF UdpTypeOK
<1>6. Undisturbed'
  <2> SUFFICES ASSUME NEW x \in Peers, x \notin disturbed'
               PROVE  peer'[x].state \in {"new", "running"} /\ Alone(x, peer'[x].state, log', net')
    BY DEF Undisturbed
  <2>1. /\ peer[x].state \in {"new", "running"} /\ Alone(x, peer[x].state, log, net)
        /\ ~Has(x, log[id])
    BY <1>1, <1>2 DEF Undisturbed, ClientOf, Has
  <2>2. CASE net' = net (-) SetToBag({id})
    BY <1>2, <1>3, <2>1, <2>2, OtherTaken
  <2>3. CASE net' = net (+) SetToBag({id})
    BY <1>2, <1>3, <2>1, <2>3, OtherCopied
  <2> QED
    BY <1>2, <2>2, <2>3
<1>7. Honest' /\ Written' /\ WholeOf(last', log')
  BY <1>1, <1>2 DEF Honest, Written
<1> QED
  BY <1>5, <1>6, <1>7 DEF UInv

\* The datagram taken was the only one of its client, and the answer is: the
\* client is the one it came from or the one that took it.
LEMMA UdpDispatches ==
  ASSUME UInv, NEW s \in Sockets, NEW id \in DOMAIN log, Dispatch(s, id)
  PROVE  UInv'
<1>1. UdpTypeOK /\ Honest /\ Written /\ WholeOf(last, log) /\ Undisturbed
  BY DEF UInv
<1> DEFINE m == recvfrom(peer[s].m_rbuf, id)
           rest == net (-) SetToBag({id})
<1>2. /\ Take(s, id) /\ Format(m, id) /\ peer' = [peer EXCEPT ![s].m_rbuf = m]
      /\ last' = [at |-> s, id |-> id, data |-> DataOf(s, m, id)]
      /\ IF s = Server THEN ServerAnswers(latest', id, rest) ELSE ClientAsks(s, rest)
  BY DEF Dispatch
<1>3. /\ id \in DOMAIN net /\ id \in 1 .. Len(log) /\ log[id] \in Datagram /\ log[id].to = s
      /\ latest' \in Everybody /\ (s = Server => latest' = log[id].from)
      /\ IsABag(rest) /\ DOMAIN rest \subseteq 1 .. Len(log)
      /\ peer[s] \in Socket /\ peer[s].m_rbuf \in MBuf
      /\ \A i \in 1 .. MSG_LENGTH_LIMIT : WordOf(peer[s].m_rbuf[i], i, s, log)
  BY <1>2, TakeStep DEF Socket
<1>4. m \in MBuf /\ \A i \in 1 .. MSG_LENGTH_LIMIT : WordOf(m[i], i, s, log)
  BY <1>1, <1>3, Receives
<1>5. WholeOf(last', log)
  BY <1>1, <1>2, <1>3, DataIsWhole
<1> HIDE DEF m, rest
<1>6. peer \in [Sockets -> Socket]
  BY <1>1 DEF UdpTypeOK, Socket
<1>7. /\ peer' \in [Sockets -> Socket] /\ peer'[s].m_rbuf = m
      /\ \A x \in Sockets : peer'[x].state = peer[x].state
      /\ \A x \in Sockets \ {s} : peer'[x] = peer[x]
  BY <1>2, <1>4, <1>6 DEF Socket
<1>8. PICK to \in Everybody, length \in Nat :
         /\ sendDatagram(s, to, length, rest)
         /\ IF s = Server THEN to = log[id].from ELSE to = Server
  <2>1. CASE s = Server
    <3>1. sendDatagram(s, latest', log[id].length + 1, rest)
      BY <1>2, <2>1 DEF ServerAnswers
    <3>2. log[id].length + 1 \in Nat
      BY <1>3 DEF Datagram
    <3> QED
      BY <1>3, <2>1, <3>1, <3>2
  <2>2. CASE s # Server
    <3>1. PICK length \in Lengths : sendDatagram(s, Server, length, rest)
      BY <1>2, <2>2 DEF ClientAsks
    <3>2. length \in Nat /\ Server \in Everybody
      BY UdpAssumption DEF Everybody, Sockets
    <3> QED
      BY <2>2, <3>1, <3>2
  <2> QED
    BY <2>1, <2>2
<1>9. /\ log' \in Seq(Datagram) /\ IsABag(net') /\ DOMAIN net' \subseteq 1 .. Len(log')
      /\ Honest'
      /\ \A k, i, x : WordOf(k, i, x, log) => WordOf(k, i, x, log')
      /\ \A l : WholeOf(l, log) => WholeOf(l, log')
      /\ disturbed \subseteq disturbed'
      /\ \A c, st : c \notin {s, to} /\ Alone(c, st, log, rest) => Alone(c, st, log', net')
      /\ \A c : /\ c \notin disturbed' /\ Alone(c, "new", log, rest)
                /\ (c = s /\ to = Server) \/ (s = Server /\ to = c)
                => Alone(c, "running", log', net')
  BY <1>1, <1>3, <1>8, SendStep, Zenon
<1>10. UdpTypeOK'
  BY <1>3, <1>7, <1>9 DEF UdpTypeOK, Socket
<1>11. Written'
  BY <1>1, <1>4, <1>7, <1>9, WrittenAfter
<1>12. WholeOf(last', log')
  BY <1>5, <1>9
<1>13. Undisturbed'
  <2> SUFFICES ASSUME NEW x \in Peers, x \notin disturbed'
               PROVE  peer'[x].state \in {"new", "running"} /\ Alone(x, peer'[x].state, log', net')
    BY DEF Undisturbed
  <2>1. /\ x \in Peers \ disturbed /\ x # Server /\ IsABag(net)
        /\ peer[x].state \in {"new", "running"} /\ Alone(x, peer[x].state, log, net)
        /\ peer'[x].state = peer[x].state
    BY <1>1, <1>7, <1>9, UdpAssumption DEF Undisturbed, Sockets, UdpTypeOK
  <2>2. CASE Has(x, log[id])
    <3>1. Ours(x, log[id]) /\ peer[x].state = "running"
      BY <1>3, <2>1, <2>2, OursIsHonest
    <3>2. Alone(x, "new", log, rest)
      BY <1>3, <2>1, <2>2, <3>1, OneTaken DEF rest
    <3>3. (x = s /\ to = Server) \/ (s = Server /\ to = x)
      BY <1>3, <1>8, <2>1, <3>1 DEF Ours
    <3> QED
      BY <1>9, <2>1, <3>1, <3>2, <3>3
  <2>3. CASE ~Has(x, log[id])
    <3>1. Alone(x, peer[x].state, log, rest)
      BY <1>3, <2>1, <2>3, OtherTaken DEF rest
    <3>2. x # s /\ x # to
      BY <1>3, <1>8, <2>1, <2>3 DEF Has
    <3> QED
      BY <1>9, <2>1, <3>1, <3>2
  <2> QED
    BY <2>2, <2>3
<1> QED
  BY <1>9, <1>10, <1>11, <1>12, <1>13 DEF UInv

-----------------------------------------------------------------------------
\* Nothing is sent and nobody has started.
LEMMA UdpInitInv == UdpInit => UInv
<1> SUFFICES ASSUME UdpInit PROVE UInv
  OBVIOUS
<1>1. /\ peer = [s \in Sockets |-> [state |-> "new", m_rbuf |-> [i \in 1 .. MSG_LENGTH_LIMIT |-> 0]]]
      /\ latest = Stranger /\ log = <<>> /\ net = EmptyBag /\ last = Nothing
  BY DEF UdpInit
<1>2. DOMAIN net = {} /\ IsABag(net)
  BY <1>1 DEF EmptyBag, SetToBag, IsABag
<1>3. UdpTypeOK
  BY <1>1, <1>2 DEF UdpTypeOK, States, MBuf, Everybody
<1>4. Honest
  BY <1>1 DEF Honest
<1>5. Written
  BY <1>1 DEF Written, WordOf
<1>6. WholeOf(last, log)
  BY <1>1 DEF WholeOf, Nothing
<1>7. Undisturbed
  BY <1>1, <1>2 DEF Undisturbed, Alone, Sockets
<1> QED
  BY <1>3, <1>4, <1>5, <1>6, <1>7 DEF UInv

\* Every step of UDP keeps the invariant.
LEMMA UdpNextInv == UInv /\ UdpNext => UInv'
<1> SUFFICES ASSUME UInv, UdpNext PROVE UInv'
  OBVIOUS
<1>1. CASE StartServer
  BY <1>1, UdpStarts
<1>2. CASE \E c \in Peers : StartClient(c)
  BY <1>2, UdpClientStarts
<1>3. CASE \E s \in Sockets : Stop(s)
  BY <1>3, UdpStops
<1>4. CASE \E s \in Sockets, id \in DOMAIN log : Skip(s, id) \/ Dispatch(s, id) \/ Throw(s, id)
  BY <1>4, UdpSkips, UdpDispatches, UdpThrows
<1>5. CASE \E length \in Lengths : Push(length)
  BY <1>5, UdpPushes
<1>6. CASE \E id \in DOMAIN log : Lose(id) \/ Copy(id)
  BY <1>6, UdpLosesOrCopies
<1>7. CASE \E to \in Sockets, d \in Strange : SendStrange(to, d)
  BY <1>7, UdpStrange
<1> QED
  BY <1>1, <1>2, <1>3, <1>4, <1>5, <1>6, <1>7 DEF UdpNext

\* What the invariant says of the last dispatched message is that it is
\* whole.
LEMMA UdpMessages == UInv => MessagesWhole
<1> SUFFICES ASSUME UInv, last.id # 0
             PROVE  LET d == log[last.id]
                    IN /\ d.n = HeadSize + d.length
                       /\ \A i \in 1 .. d.length : i \in DOMAIN last.data /\ last.data[i] = last.id
                       /\ last.at = Server => Len(last.data) = d.length
                       /\ \A i \in DOMAIN last.data : i > d.length /\ last.data[i] # 0 =>
                            LET e == log[last.data[i]] IN e.to = last.at /\ e.n >= HeadSize + i
  BY DEF MessagesWhole
<1>1. WholeOf(last, log)
  BY DEF UInv
<1> QED
  BY <1>1 DEF WholeOf, WordOf

\* What the invariant says of an undisturbed running client is that its
\* exchange goes on.
LEMMA UdpExchange == UInv => ExchangeGoesOn
<1> SUFFICES ASSUME UInv, NEW c \in Peers \ disturbed, Running(c)
             PROVE  \E id \in DOMAIN log :
                      /\ BagIn(id, net) /\ net[id] = 1 /\ c \in ClientOf(id)
                      /\ Server \in {log[id].from, log[id].to}
                      /\ \A other \in DOMAIN log \ {id} :
                           BagIn(other, net) /\ c \in ClientOf(other) => log[other].from = Stranger
  BY DEF ExchangeGoesOn
<1>1. /\ log \in Seq(Datagram) /\ DOMAIN net \subseteq 1 .. Len(log)
      /\ Alone(c, "running", log, net)
  BY DEF UInv, UdpTypeOK, Undisturbed, Running
<1>2. PICK id \in DOMAIN net :
         /\ net[id] = 1 /\ Has(c, log[id])
         /\ \A other \in DOMAIN net : other # id => ~Has(c, log[other])
  BY <1>1 DEF Alone
<1>3. Ours(c, log[id]) /\ id \in DOMAIN log
  BY <1>1, <1>2 DEF Alone
<1> QED
  BY <1>2, <1>3 DEF BagIn, BagToSet, Has, Ours, ClientOf

-----------------------------------------------------------------------------
(* The invariant of UDP holds whichever transport is chosen: the steps of   *)
(* the other do not touch its state.                                        *)
LEMMA UdpInvariant == TransportsSpec => []UInv
<1>1. TransportsInit => UInv
  BY UdpInitInv DEF TransportsInit
<1>2. UInv /\ [TransportsNext]_allVars => UInv'
  BY UdpNextInv, UdpUnchanged DEF TransportsNext, allVars
<1> QED
  BY <1>1, <1>2, PTL DEF TransportsSpec

(* Whatever strangers send, in whatever order datagrams come, lost or       *)
(* twice, and whatever earlier ones left in m_rbuf: the dispatcher is only  *)
(* called with a message whose head tells the size of its own datagram.     *)
THEOREM DatagramsWhole == TransportsSpec => []MessagesWhole
BY UdpInvariant, UdpMessages, PTL

(* A client's question and answer alternate, one datagram under way,        *)
(* through any interleaving with other clients and strangers, until one of  *)
(* the exchange's own datagrams is lost, copied or too long, the server     *)
(* pushes to it, or one of the two ends.                                    *)
THEOREM ExchangesGoOn == TransportsSpec => []ExchangeGoesOn
BY UdpInvariant, UdpExchange, PTL
=============================================================================
