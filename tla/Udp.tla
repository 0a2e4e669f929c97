-------------------------------- MODULE Udp --------------------------------
(***************************************************************************)
(* UdpServer and UdpClient with the samples aio_udpserver, which answers   *)
(* every message, and aio_udpclient, which sends the next message when it  *)
(* is answered.  Sizes are in words of 4 bytes, as in TcpConnection.       *)
(* A socket gives its datagrams in any order: what is under way and what   *)
(* has arrived are one bag.                                                *)
(***************************************************************************)
EXTENDS MsgHead, Sequences, Bags

CONSTANTS
  Peers, Server, Stranger,    \* the sockets: the UdpClients, the UdpServer, and a
                              \* stranger who sends anything, in any name
  MSG_LENGTH_LIMIT,           \* the size of m_rbuf, and the limit of a message's data
  MaxDatagram,                \* what sendto and send take at once (65507 bytes)
  Lengths,                    \* data of the clients' messages
  Strange,                    \* the stranger's datagrams
  MaxSent, MaxFaults          \* bounds: datagrams, and losses, copies and strange ones

ASSUME UdpAssumption ==
  /\ MaxDatagram < MSG_LENGTH_LIMIT /\ HeadSize < MaxDatagram /\ Lengths \subseteq Nat
  /\ Strange \subseteq [n : 1 .. MaxDatagram, length : Nat, cmd : {"known", "unknown"}]
  /\ {MaxDatagram, MSG_LENGTH_LIMIT, MaxSent, MaxFaults} \subseteq Nat
  /\ Server \notin Peers /\ Stranger \notin Peers \cup {Server}

VARIABLES
  peer,       \* of each socket: whether it is new, running, stopped or thrown, and m_rbuf
  latest,     \* the server's m_latest_client_addr
  log,        \* the datagrams sent
  net,        \* those under way, by their number in log
  last,       \* history: what the dispatcher was called with last
  faults,     \* history: losses, copies and strange datagrams
  disturbed   \* history: the clients whose exchange something has happened to

udpVars == <<peer, latest, log, net, last, faults, disturbed>>

Sockets == Peers \cup {Server}
Nothing == [at |-> Stranger, id |-> 0, data |-> <<>>]

UdpInit ==
  /\ peer = [s \in Sockets |-> [state |-> "new", m_rbuf |-> [i \in 1 .. MSG_LENGTH_LIMIT |-> 0]]]
  /\ latest = Stranger /\ log = <<>> /\ net = EmptyBag /\ last = Nothing
  /\ faults = 0 /\ disturbed = {}

Running(s) == peer[s].state = "running"

(* recvfrom: the datagram covers the front of m_rbuf, a word is known by    *)
(* the number of the datagram it is of.                                     *)
recvfrom(m_rbuf, id) == [i \in DOMAIN m_rbuf |-> IF i <= log[id].n THEN id ELSE m_rbuf[i]]

(* Mutant: only the size of the datagram is looked at. *)
FormatAnySize(m_rbuf, id) == log[id].n >= HeadSize

(* The head at the front of m_rbuf fits the size of the datagram.  Of one   *)
(* shorter than a head, the length may be that of an earlier datagram.      *)
Format(m_rbuf, id) ==
  (IF m_rbuf[3] = 0 THEN 0 ELSE log[m_rbuf[3]].length) + HeadSize = log[id].n

(* The data given to the dispatcher: the server's ends with the message,    *)
(* the client's with the buffer.                                            *)
DataOf(s, m_rbuf, id) ==
  SubSeq(m_rbuf, HeadSize + 1,
         IF s = Server THEN HeadSize + log[id].length ELSE MSG_LENGTH_LIMIT)

(* sendData: nothing is queued, and nobody looks at the result when the     *)
(* data is over the limit, or sendto refuses it.                            *)
Fits(length) == length <= MSG_LENGTH_LIMIT /\ HeadSize + length <= MaxDatagram

sendDatagram(from, to, length, bag) ==
  IF Fits(length)
    THEN /\ log' = Append(log, [from |-> from, to |-> to, n |-> HeadSize + length,
                                length |-> length, cmd |-> "known"])
         /\ net' = bag (+) SetToBag({Len(log) + 1})
         /\ UNCHANGED disturbed
    ELSE net' = bag /\ disturbed' = disturbed \cup {from, to} /\ UNCHANGED log

CanSend == Len(log) < MaxSent

(* The server's onMessage sends the data back with some of its own; the     *)
(* client's, and its onConnect, send data of their own.                     *)
ServerAnswers(to, id, bag) == sendDatagram(Server, to, log[id].length + 1, bag)
ClientAsks(c, bag) == \E length \in Lengths : sendDatagram(c, Server, length, bag)

(* startLoop; UdpClient's calls onConnect before m_running is set. *)
StartServer ==
  /\ peer[Server].state = "new" /\ peer' = [peer EXCEPT ![Server].state = "running"]
  /\ UNCHANGED <<latest, log, net, last, faults, disturbed>>

StartClient(c) ==
  /\ peer[c].state = "new" /\ peer' = [peer EXCEPT ![c].state = "running"]
  /\ CanSend /\ ClientAsks(c, net)
  /\ UNCHANGED <<latest, last, faults>>

(* stop, from a callback of the loop: the socket is closed. *)
Stop(s) ==
  /\ Running(s) /\ peer' = [peer EXCEPT ![s].state = "stopped"]
  /\ disturbed' = disturbed \cup (IF s = Server THEN Peers ELSE {s})
  /\ UNCHANGED <<latest, log, net, last, faults>>

(* Mutant: the address of the sender is not asked for. *)
TakeKeepsAddress(s, id) ==
  /\ Running(s) /\ BagIn(id, net) /\ log[id].to = s
  /\ UNCHANGED latest

(* One turn of handleRead: a datagram is taken and the server keeps the     *)
(* address it came from, ...                                                *)
Take(s, id) ==
  /\ Running(s) /\ BagIn(id, net) /\ log[id].to = s
  /\ latest' = IF s = Server THEN log[id].from ELSE latest

(* ... it has no format, ...                                                *)
Skip(s, id) ==
  /\ Take(s, id)
  /\ LET m_rbuf == recvfrom(peer[s].m_rbuf, id)
     IN ~Format(m_rbuf, id) /\ peer' = [peer EXCEPT ![s].m_rbuf = m_rbuf]
  /\ net' = net (-) SetToBag({id})
  /\ UNCHANGED <<log, last, faults, disturbed>>

(* ... or it is a message and the sample answers it from the callback, ...  *)
Dispatch(s, id) ==
  /\ Take(s, id) /\ CanSend
  /\ log[id].cmd = "known"
  /\ LET m_rbuf == recvfrom(peer[s].m_rbuf, id)
     IN /\ Format(m_rbuf, id)
        /\ peer' = [peer EXCEPT ![s].m_rbuf = m_rbuf]
        /\ last' = [at |-> s, id |-> id, data |-> DataOf(s, m_rbuf, id)]
  /\ LET rest == net (-) SetToBag({id})
     IN IF s = Server THEN ServerAnswers(latest', id, rest) ELSE ClientAsks(s, rest)
  /\ UNCHANGED faults

(* ... or its command has no callback, and callbackFunc throws through the  *)
(* loop.                                                                    *)
Throw(s, id) ==
  /\ Take(s, id)
  /\ log[id].cmd = "unknown" /\ Format(recvfrom(peer[s].m_rbuf, id), id)
  /\ peer' = [peer EXCEPT ![s].state = "thrown", ![s].m_rbuf = recvfrom(@, id)]
  /\ net' = net (-) SetToBag({id})
  /\ disturbed' = disturbed \cup (IF s = Server THEN Peers ELSE {s})
  /\ UNCHANGED <<log, last, faults>>

(* Another callback of the server's loop has something to tell: it goes to  *)
(* whoever sent the last datagram.                                          *)
Push(length) ==
  /\ Running(Server) /\ CanSend /\ Fits(length)
  /\ log' = Append(log, [from |-> Server, to |-> latest, n |-> HeadSize + length,
                         length |-> length, cmd |-> "known"])
  /\ net' = net (+) SetToBag({Len(log) + 1})
  /\ disturbed' = disturbed \cup {latest}
  /\ UNCHANGED <<peer, latest, last, faults>>

(* The client at one end of a datagram. *)
ClientOf(id) == {log[id].from, log[id].to} \cap Peers

(* The network loses a datagram, or gives it twice. *)
Lose(id) ==
  /\ faults < MaxFaults /\ faults' = faults + 1
  /\ BagIn(id, net) /\ net' = net (-) SetToBag({id})
  /\ disturbed' = disturbed \cup ClientOf(id)
  /\ UNCHANGED <<peer, latest, log, last>>

Copy(id) ==
  /\ faults < MaxFaults /\ faults' = faults + 1
  /\ BagIn(id, net) /\ net' = net (+) SetToBag({id})
  /\ disturbed' = disturbed \cup ClientOf(id)
  /\ UNCHANGED <<peer, latest, log, last>>

SendStrange(to, d) ==
  /\ faults < MaxFaults /\ CanSend /\ faults' = faults + 1
  /\ log' = Append(log, [from |-> Stranger, to |-> to, n |-> d.n, length |-> d.length,
                         cmd |-> d.cmd])
  /\ net' = net (+) SetToBag({Len(log) + 1})
  /\ disturbed' = disturbed \cup ({to} \cap Peers)
  /\ UNCHANGED <<peer, latest, last>>

UdpNext ==
  \/ StartServer \/ \E c \in Peers : StartClient(c)
  \/ \E s \in Sockets : Stop(s)
  \/ \E s \in Sockets, id \in DOMAIN log : Skip(s, id) \/ Dispatch(s, id) \/ Throw(s, id)
  \/ \E length \in Lengths : Push(length)
  \/ \E id \in DOMAIN log : Lose(id) \/ Copy(id)
  \/ \E to \in Sockets, d \in Strange : SendStrange(to, d)

-----------------------------------------------------------------------------
(* Whatever arrives, a dispatched message is whole: the data begins with    *)
(* that of one datagram whose head told its size.  The server's ends there; *)
(* in the client's, what follows was left by longer datagrams               *)
(* (UdpServer.cpp 123-133, UdpClient.cpp 128-137).                          *)
MessagesWhole ==
  last.id # 0 =>
    LET d == log[last.id]
    IN /\ d.n = HeadSize + d.length
       /\ \A i \in 1 .. d.length : i \in DOMAIN last.data /\ last.data[i] = last.id
       /\ last.at = Server => Len(last.data) = d.length
       /\ \A i \in DOMAIN last.data : i > d.length /\ last.data[i] # 0 =>
            LET e == log[last.data[i]] IN e.to = last.at /\ e.n >= HeadSize + i

(* A client's exchange goes on, with one datagram under way, unless one of  *)
(* it is lost, copied or too long, or somebody pushes or stops: it is       *)
(* answered, though others, and strangers, talk to the server in between    *)
(* (UdpServer.cpp 105, 157; nobody sends a message again).                  *)
ExchangeGoesOn ==
  \A c \in Peers \ disturbed :
    Running(c) =>
      \E id \in DOMAIN log :
        /\ BagIn(id, net) /\ net[id] = 1 /\ c \in ClientOf(id) /\ Server \in {log[id].from, log[id].to}
        /\ \A other \in DOMAIN log \ {id} :
             BagIn(other, net) /\ c \in ClientOf(other) => log[other].from = Stranger
=============================================================================
