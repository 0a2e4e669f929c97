--------------------------- MODULE TcpServerProofs ---------------------------
(***************************************************************************)
(* For every server of TcpServer, with or without a pool: Accounted is an  *)
(* invariant, and a connection is refused only when max_connections are    *)
(* open.                                                                   *)
(*                                                                         *)
(* Accounted alone is not inductive.  Sound adds what its steps rely on:   *)
(* each loop has its registered, queued and handled connections apart,     *)
(* and the loops have theirs apart (LoopRight, Apart); together they have  *)
(* exactly the open connections (Covered); the object of a connection in   *)
(* use points back at it (Pointed), which cleanConnection reads; nobody    *)
(* uses the object a loop is about to reset (Forgets); and m_reservfd is   *)
(* not a connection whenever doAccept or stop closes it (Reserved).        *)
(***************************************************************************)
EXTENDS TcpServer, TLAPS, FiniteSetTheorems, WellFoundedInduction

Places == {"idle", "activate", "register", "unregister", "close", "forget"}

\* The types of the variables.
TypeOK ==
    /\ config \in Configs
    /\ files \in [Fds -> Conns \cup {Free, Reserve, ThreadFile}]
    /\ backlog \in Seq(Conns)
    /\ m_reservfd \in Fds
    /\ m_curr_conns \in Int
    /\ phase \in {"constructed", "running", "stopped"}
    /\ m_connections_pool \in [Fds -> [m_connection_fd : Fds \cup {NoFd}, m_loop : Loops \cup {-1}]]
    /\ io_events \in [Loops -> SUBSET Fds]
    /\ watched \in [Loops -> SUBSET Fds]
    /\ queue \in [Loops -> Seq(Fds)]
    /\ acceptor \in [pc : {"idle", "accept"}, conn_full : BOOLEAN]
    /\ pc \in [Loops -> [at : Places, fd : Fds \cup {NoFd}]]
    /\ \A l \in Loops : pc[l].at = "idle" \/ pc[l].fd \in Fds
    /\ started \subseteq Loops
    /\ lost \in BOOLEAN /\ reused \in BOOLEAN

\* The connections in loop l's queue, in its hands, and all it has.
Queued(l) == {queue[l][i] : i \in DOMAIN queue[l]}
Handled(l) == {fd \in Fds : InHands(l, fd)}
Has(l) == io_events[l] \cup Handled(l) \cup Queued(l)

\* The object of descriptor fd is a connection of loop l.
Pointed(fd, l) == m_connections_pool[fd].m_connection_fd = fd
                  /\ m_connections_pool[fd].m_loop = l

\* What loop l has, it has once, and its objects know it.
LoopRight(l) ==
    /\ io_events[l] = watched[l]
    /\ \A fd \in io_events[l] : Pointed(fd, l)
    /\ pc[l].at \in {"register", "unregister", "close"} => Pointed(pc[l].fd, l)
    /\ pc[l].at = "unregister" => pc[l].fd \in io_events[l]
    /\ io_events[l] \cap Handled(l) = {}
    /\ io_events[l] \cap Queued(l) = {}
    /\ Handled(l) \cap Queued(l) = {}
    /\ \A i, j \in DOMAIN queue[l] : queue[l][i] = queue[l][j] => i = j

\* Loop l's object for fd is in use, or about to be reset.
Busy(l, fd) ==
    \/ fd \in io_events[l]
    \/ pc[l].fd = fd /\ pc[l].at \in {"register", "unregister", "close", "forget"}

\* The object loop l is about to reset is nobody's.
Forgets(l) ==
    pc[l].at = "forget" => /\ pc[l].fd \notin io_events[l]
                           /\ \A k \in Loops \ {l} : ~Busy(k, pc[l].fd)

\* No connection is in two loops.
Apart == \A l, k \in Loops : l # k => Has(l) \cap Has(k) = {}

\* The open connections are those the loops have.
Covered == \A fd \in Fds : IsConn(fd) <=> \E l \in Loops : fd \in Has(l)

\* The reserve descriptor is no connection, and open unless accept returned EMFILE.
Reserved ==
    phase # "stopped" =>
        /\ ~IsConn(m_reservfd)
        /\ acceptor.conn_full \/ files[m_reservfd] = Reserve
        /\ acceptor.pc = "idle" => ~acceptor.conn_full

\* The count, less the connections that are counted down and still registered.
Unregistering == {l \in Loops : pc[l].at = "unregister"}
Counting == m_curr_conns = Cardinality(Registrations) - Cardinality(Unregistering)

\* Without a pool there is no queue, and no other thread to take a descriptor.
Unpooled == Self \in Loops => queue[Self] = <<>> /\ ~reused

Sound ==
    /\ \A l \in Loops : LoopRight(l)
    /\ \A l \in Loops : Forgets(l)
    /\ Apart /\ Covered /\ Reserved /\ Counting

IInv == TypeOK /\ Unpooled /\ (Undisturbed => Sound)
-----------------------------------------------------------------------------
(* Descriptors and loops *)

\* What a configuration says of the constants derived from it.
LEMMA ConfigFacts ==
    ASSUME config \in Configs
    PROVE  /\ IsFiniteSet(Threads) /\ Self \notin Threads
           /\ max_connections \in Nat /\ NFds \in Nat /\ Clients \in Nat
           /\ Fds \subseteq Nat /\ NoFd \notin Fds /\ IsFiniteSet(Fds) /\ 0 \in Fds
           /\ Threads \subseteq Loops /\ IsFiniteSet(Loops)
           /\ Conns \cap {Free, Reserve, ThreadFile} = {}
           /\ (Self \in Loops <=> Threads = {})
<1>1. IsConfig(config)
  BY ServerAssumption
<1>2. /\ IsFiniteSet(Threads) /\ Self \notin Threads
      /\ max_connections \in Nat /\ NFds \in Nat /\ Clients \in Nat
  BY <1>1 DEF IsConfig, Threads, max_connections, NFds, Clients, Self
<1>3. NFds > 3 * Cardinality(Threads)
  BY <1>1 DEF IsConfig, Threads, NFds
<1>4. Cardinality(Threads) \in Nat
  BY <1>2, FS_CardinalityType
<1>5. NFds > 0
  BY <1>2, <1>3, <1>4
<1>6. /\ Fds \subseteq Nat /\ NoFd \notin Fds /\ 0 \in Fds
  BY <1>2, <1>5 DEF Fds, NoFd
<1>7. IsFiniteSet(Fds)
  BY <1>2, FS_Interval DEF Fds
<1>8. Threads \subseteq Loops /\ (Self \in Loops <=> Threads = {})
  BY <1>2 DEF Loops
<1>9. IsFiniteSet({Self})
  BY FS_Singleton
<1>10. IsFiniteSet(Loops)
  BY <1>2, <1>9 DEF Loops
<1>11. Conns \cap {Free, Reserve, ThreadFile} = {}
  BY <1>2 DEF Conns, Free, Reserve, ThreadFile
<1>. QED
  BY <1>2, <1>6, <1>7, <1>8, <1>10, <1>11

\* A set of descriptors that is not empty has a lowest one: accept's connfd is
\* a free descriptor.
LEMMA LowestFree ==
    ASSUME config \in Configs, FreeFds # {}
    PROVE  connfd \in Fds /\ files[connfd] = Free
<1>1. FreeFds \subseteq Nat
  BY ConfigFacts DEF FreeFds
<1>2. \E x \in FreeFds : \A y \in FreeFds : ~(<<y, x>> \in OpToRel(<, Nat))
  BY <1>1, NatLessThanWellFounded, WFMin, Zenon
<1>3. PICK x \in FreeFds : \A y \in FreeFds : ~(<<y, x>> \in OpToRel(<, Nat))
  BY <1>2, Zenon
<1>4. \A y \in FreeFds : x <= y
  <2>1. SUFFICES ASSUME NEW y \in FreeFds PROVE x <= y
    OBVIOUS
  <2>2. x \in Nat /\ y \in Nat
    BY <1>1
  <2>3. ~(y < x)
    BY <1>3, <2>2, Zenon DEF OpToRel
  <2>. QED
    BY <2>2, <2>3
<1>5. connfd \in FreeFds
  BY <1>4 DEF connfd, Min
<1>. QED
  BY <1>5 DEF FreeFds

-----------------------------------------------------------------------------
(* Types *)

\* The server a step serves is the one it began with.
LEMMA SameConfig ==
    ASSUME UNCHANGED config
    PROVE  /\ Threads' = Threads /\ Loops' = Loops /\ Fds' = Fds /\ Conns' = Conns
           /\ max_connections' = max_connections
BY DEF Threads, Loops, Fds, Conns, NFds, Clients, max_connections

\* The constructor leaves every variable of its type, and no descriptor
\* reused.
LEMMA InitType == Init => TypeOK /\ Unpooled
<1> SUFFICES ASSUME Init PROVE TypeOK /\ Unpooled
  OBVIOUS
<1> USE DEF Init
<1>0. 0 \in Fds
  BY ConfigFacts
<1>f. files \in [Fds -> Conns \cup {Free, Reserve, ThreadFile}]
  OBVIOUS
<1>1. /\ config \in Configs /\ m_curr_conns \in Int
      /\ m_reservfd \in Fds /\ phase \in {"constructed", "running", "stopped"}
      /\ started \subseteq Loops
  BY <1>0
<1>b. lost \in BOOLEAN /\ reused \in BOOLEAN
  BY Zenon
<1>2. backlog \in Seq(Conns) /\ queue \in [Loops -> Seq(Fds)]
  <2>1. <<>> \in Seq(Conns) /\ <<>> \in Seq(Fds)
    OBVIOUS
  <2>. QED
    BY <2>1
<1>3. m_connections_pool \in [Fds -> [m_connection_fd : Fds \cup {NoFd}, m_loop : Loops \cup {-1}]]
  <2>1. NoObject \in [m_connection_fd : Fds \cup {NoFd}, m_loop : Loops \cup {-1}]
    BY DEF NoObject
  <2>. QED
    BY <2>1
<1>4. io_events \in [Loops -> SUBSET Fds] /\ watched \in [Loops -> SUBSET Fds]
  OBVIOUS
<1>5. /\ acceptor \in [pc : {"idle", "accept"}, conn_full : BOOLEAN]
      /\ pc \in [Loops -> [at : Places, fd : Fds \cup {NoFd}]]
      /\ \A l \in Loops : pc[l].at = "idle" \/ pc[l].fd \in Fds
  BY DEF Idle, Places
<1>6. Unpooled
  BY DEF Unpooled
<1>. QED
  BY <1>1, <1>b, <1>f, <1>2, <1>3, <1>4, <1>5, <1>6 DEF TypeOK

\* Files opened in free descriptors.
LEMMA OpenedFiles ==
    ASSUME NEW n, NEW file
    PROVE  /\ DOMAIN FilesOpened(n, file) = Fds
           /\ \A fd \in Fds : \/ FilesOpened(n, file)[fd] = files[fd]
                              \/ files[fd] = Free /\ FilesOpened(n, file)[fd] = file
BY DEF FilesOpened, FreeFds

\* What the loops' places are once one of them has gone somewhere.
LEMMA GoesType ==
    ASSUME TypeOK, NEW l \in Loops, NEW at \in Places, NEW fd \in Fds,
           pc' = [pc EXCEPT ![l] = [at |-> at, fd |-> fd]]
    PROVE  /\ pc' \in [Loops -> [at : Places, fd : Fds \cup {NoFd}]]
           /\ \A k \in Loops : pc'[k].at = "idle" \/ pc'[k].fd \in Fds
BY DEF TypeOK

\* The same, once a loop has returned from a callback.
LEMMA IdleType ==
    ASSUME TypeOK, NEW l \in Loops, pc' = [pc EXCEPT ![l] = Idle]
    PROVE  /\ pc' \in [Loops -> [at : Places, fd : Fds \cup {NoFd}]]
           /\ \A k \in Loops : pc'[k].at = "idle" \/ pc'[k].fd \in Fds
BY DEF TypeOK, Idle, Places

\* Goes changes where a loop is, not the connection it is about.
LEMMA GoesAt ==
    ASSUME TypeOK, NEW l \in Loops, NEW where \in Places, Goes(l, where)
    PROVE  pc' = [pc EXCEPT ![l] = [at |-> where, fd |-> pc[l].fd]]
<1>1. pc[l] \in [at : Places, fd : Fds \cup {NoFd}]
  BY DEF TypeOK
<1>2. [pc[l] EXCEPT !.at = where] = [at |-> where, fd |-> pc[l].fd]
  BY <1>1
<1>. QED
  BY <1>2 DEF Goes

\* The file table after CloseFd and FilesOpened.
LEMMA ClosedType ==
    ASSUME TypeOK, NEW fd \in Fds \cup {NoFd}, CloseFd(fd)
    PROVE  /\ files' \in [Fds -> Conns \cup {Free, Reserve, ThreadFile}]
           /\ watched' \in [Loops -> SUBSET Fds]
<1>1. files' \in [Fds -> Conns \cup {Free, Reserve, ThreadFile}]
  BY DEF TypeOK, CloseFd
<1>2. \A l \in Loops : watched[l] \ {fd} \in SUBSET Fds
  BY DEF TypeOK
<1>. QED
  BY <1>1, <1>2 DEF CloseFd

\* startLoop and threadDomain open files of the kinds the table has.
LEMMA OpenedType ==
    ASSUME TypeOK, NEW n
    PROVE  FilesOpened(n, ThreadFile) \in [Fds -> Conns \cup {Free, Reserve, ThreadFile}]
<1>1. \A fd \in Fds : files[fd] \in Conns \cup {Free, Reserve, ThreadFile}
  BY DEF TypeOK
<1>. QED
  BY <1>1 DEF FilesOpened

\* The steps of the server's thread outside of its connections.
LEMMA ServerType ==
    ASSUME TypeOK, UNCHANGED config,
           StartLoop \/ Stop \/ AcceptStep \/ \E l \in Loops : ThreadDomain(l)
    PROVE  TypeOK'
<1> USE SameConfig DEF TypeOK
<1>1. ASSUME StartLoop PROVE TypeOK'
  <2>1. files' \in [Fds -> Conns \cup {Free, Reserve, ThreadFile}]
    BY <1>1, OpenedType DEF StartLoop
  <2>. QED
    BY <1>1, <2>1 DEF StartLoop
<1>2. ASSUME Stop PROVE TypeOK'
  <2>1. CloseFd(m_reservfd)
    BY <1>2 DEF Stop
  <2>2. /\ files' \in [Fds -> Conns \cup {Free, Reserve, ThreadFile}]
        /\ watched' \in [Loops -> SUBSET Fds]
    BY <2>1, ClosedType
  <2>3. backlog' \in Seq(Conns)
    BY <1>2 DEF Stop
  <2>. QED
    BY <1>2, <2>2, <2>3 DEF Stop
<1>3. ASSUME DoAccept PROVE TypeOK'
  <2>1. acceptor' \in [pc : {"idle", "accept"}, conn_full : BOOLEAN]
    BY <1>3 DEF DoAccept
  <2>. QED
    BY <1>3, <2>1 DEF DoAccept
<1>4. ASSUME AcceptEMFILE PROVE TypeOK'
  <2>1. CloseFd(m_reservfd)
    BY <1>4 DEF AcceptEMFILE
  <2>2. /\ files' \in [Fds -> Conns \cup {Free, Reserve, ThreadFile}]
        /\ watched' \in [Loops -> SUBSET Fds]
    BY <2>1, ClosedType
  <2>3. acceptor' \in [pc : {"idle", "accept"}, conn_full : BOOLEAN]
    BY <1>4 DEF AcceptEMFILE
  <2>. QED
    BY <1>4, <2>2, <2>3 DEF AcceptEMFILE
<1>5. ASSUME AcceptEAGAIN PROVE TypeOK'
  <2>1. acceptor' \in [pc : {"idle", "accept"}, conn_full : BOOLEAN]
    BY <1>5 DEF AcceptEAGAIN
  <2>2. lost' \in BOOLEAN
    BY <1>5, Zenon DEF AcceptEAGAIN
  <2>. QED
    BY <1>5, <2>1, <2>2 DEF AcceptEAGAIN
<1>6. ASSUME Accepted
      PROVE  /\ backlog' \in Seq(Conns) /\ Head(backlog) \in Conns
             /\ connfd \in Fds
  BY <1>6, LowestFree DEF Accepted
<1>7. ASSUME AcceptDrop PROVE TypeOK'
  <2>1. connfd \in Fds /\ backlog' \in Seq(Conns)
    BY <1>6, <1>7 DEF AcceptDrop
  <2>2. files' \in [Fds -> Conns \cup {Free, Reserve, ThreadFile}]
    BY <1>7, <2>1 DEF AcceptDrop, Reopened
  <2>3. acceptor' \in [pc : {"idle", "accept"}, conn_full : BOOLEAN]
    BY <1>7 DEF AcceptDrop
  <2>. QED
    BY <1>7, <2>1, <2>2, <2>3 DEF AcceptDrop
<1>8. ASSUME AcceptRefuse PROVE TypeOK'
  BY <1>6, <1>8 DEF AcceptRefuse
<1>9. ASSUME AcceptDispatch PROVE TypeOK'
  <2>1. connfd \in Fds /\ backlog' \in Seq(Conns) /\ Head(backlog) \in Conns
    BY <1>6, <1>9 DEF AcceptDispatch
  <2>2. files' \in [Fds -> Conns \cup {Free, Reserve, ThreadFile}]
    <3>1. files' = [files EXCEPT ![connfd] = Head(backlog)]
      BY <1>9 DEF AcceptDispatch
    <3>2. files \in [Fds -> Conns \cup {Free, Reserve, ThreadFile}]
      OBVIOUS
    <3> HIDE DEF TypeOK
    <3> DEFINE Files == Conns \cup {Free, Reserve, ThreadFile}
               file == Head(backlog)
    <3>3. files \in [Fds -> Files] /\ file \in Files
      BY <2>1, <3>2
    <3>4. files' = [files EXCEPT ![connfd] = file]
      BY <3>1
    <3> HIDE DEF Files, file
    <3>5. files' \in [Fds -> Files]
      BY <2>1, <3>3, <3>4
    <3>. QED
      BY <3>5 DEF Files
  <2>3. queue' \in [Loops -> Seq(Fds)]
    <3>1. queue \in [Loops -> Seq(Fds)]
      OBVIOUS
    <3>2. ASSUME NEW l \in Threads, queue' = [queue EXCEPT ![l] = Append(@, connfd)]
          PROVE  queue' \in [Loops -> Seq(Fds)]
      <4>1. l \in Loops /\ Append(queue[l], connfd) \in Seq(Fds)
        BY <2>1, <3>1, ConfigFacts
      <4>. QED
        BY <3>1, <3>2, <4>1
    <3>3. queue' = queue \/ \E l \in Threads : queue' = [queue EXCEPT ![l] = Append(@, connfd)]
      BY <1>9, Zenon DEF AcceptDispatch
    <3>. QED
      BY <3>1, <3>2, <3>3, Zenon
  <2>4. /\ pc' \in [Loops -> [at : Places, fd : Fds \cup {NoFd}]]
        /\ \A k \in Loops : pc'[k].at = "idle" \/ pc'[k].fd \in Fds
    <3>1. CASE UNCHANGED pc
      BY <3>1
    <3>2. CASE ~UNCHANGED pc
      <4>1. Threads = {} /\ pc' = [pc EXCEPT ![Self] = [at |-> "activate", fd |-> connfd]]
        BY <1>9, <3>2 DEF AcceptDispatch
      <4>2. Self \in Loops /\ "activate" \in Places
        BY <4>1, ConfigFacts DEF Places
      <4>. QED
        BY <2>1, <4>1, <4>2, GoesType
    <3>. QED
      BY <3>1, <3>2
  <2>. QED
    BY <1>9, <2>1, <2>2, <2>3, <2>4 DEF AcceptDispatch
<1>10. ASSUME NEW l \in Loops, ThreadDomain(l) PROVE TypeOK'
  <2>1. files' \in [Fds -> Conns \cup {Free, Reserve, ThreadFile}]
    BY <1>10, OpenedType DEF ThreadDomain
  <2>. QED
    BY <1>10, <2>1 DEF ThreadDomain
<1>. QED
  BY <1>1, <1>2, <1>3, <1>4, <1>5, <1>7, <1>8, <1>9, <1>10 DEF AcceptStep

\* The steps of the loops, and of the clients.
LEMMA LoopType ==
    ASSUME TypeOK, UNCHANGED config, NEW l \in Loops, LoopStep(l)
    PROVE  TypeOK'
<1> USE SameConfig DEF TypeOK
<1>w. {"activate", "register", "unregister", "close", "forget"} \subseteq Places
  BY DEF Places
<1>1. ASSUME OnMsgComing(l) PROVE TypeOK'
  <2>1. Head(queue[l]) \in Fds /\ Tail(queue[l]) \in Seq(Fds)
    BY <1>1 DEF OnMsgComing
  <2>2. /\ pc' \in [Loops -> [at : Places, fd : Fds \cup {NoFd}]]
        /\ \A k \in Loops : pc'[k].at = "idle" \/ pc'[k].fd \in Fds
    BY <1>1, <1>w, <2>1, GoesType DEF OnMsgComing
  <2>3. queue' \in [Loops -> Seq(Fds)]
    BY <1>1, <2>1 DEF OnMsgComing
  <2>. QED
    BY <1>1, <2>2, <2>3 DEF OnMsgComing
<1>g. ASSUME NEW where \in Places, Goes(l, where), pc[l].at # "idle"
      PROVE  /\ pc' \in [Loops -> [at : Places, fd : Fds \cup {NoFd}]]
             /\ \A k \in Loops : pc'[k].at = "idle" \/ pc'[k].fd \in Fds
  <2>1. pc[l].fd \in Fds
    BY <1>g
  <2>2. pc' = [pc EXCEPT ![l] = [at |-> where, fd |-> pc[l].fd]]
    BY <1>g, GoesAt
  <2>. QED
    BY <2>1, <2>2, GoesType
<1>2. ASSUME Activate(l) PROVE TypeOK'
  <2>1. pc[l].fd \in Fds /\ pc[l].at = "activate"
    BY <1>2 DEF Activate, At
  <2>2. /\ pc' \in [Loops -> [at : Places, fd : Fds \cup {NoFd}]]
        /\ \A k \in Loops : pc'[k].at = "idle" \/ pc'[k].fd \in Fds
    BY <1>2, <1>w, <2>1, <1>g DEF Activate
  <2>3. [m_connection_fd |-> pc[l].fd, m_loop |-> l]
            \in [m_connection_fd : Fds \cup {NoFd}, m_loop : Loops \cup {-1}]
    BY <2>1
  <2>4. m_connections_pool' \in
            [Fds -> [m_connection_fd : Fds \cup {NoFd}, m_loop : Loops \cup {-1}]]
    BY <1>2, <2>1, <2>3 DEF Activate
  <2>5. reused' \in BOOLEAN
    BY <1>2, Zenon DEF Activate
  <2>. QED
    BY <1>2, <2>2, <2>4, <2>5 DEF Activate
<1>3. ASSUME Register(l) PROVE TypeOK'
  <2>1. pc[l].fd \in Fds
    BY <1>3 DEF Register, At
  <2>2. Obj(l).m_connection_fd \in Fds \cup {NoFd}
    BY <2>1 DEF Obj
  <2>3. io_events' \in [Loops -> SUBSET Fds] /\ watched' \in [Loops -> SUBSET Fds]
    <3> DEFINE fd == Obj(l).m_connection_fd
    <3>1. AddIoEvent(l, fd)
      BY <1>3 DEF Register
    <3>2. fd \in Fds \/ fd = NoFd
      BY <2>2
    <3> HIDE DEF fd
    <3>3. CASE UNCHANGED <<io_events, watched>>
      BY <3>3
    <3>4. CASE /\ fd # NoFd
               /\ io_events' = [io_events EXCEPT ![l] = @ \cup {fd}]
               /\ watched' = [watched EXCEPT ![l] = @ \cup {fd}]
      BY <3>2, <3>4
    <3>. QED
      BY <3>1, <3>3, <3>4 DEF AddIoEvent
  <2>4. /\ pc' \in [Loops -> [at : Places, fd : Fds \cup {NoFd}]]
        /\ \A k \in Loops : pc'[k].at = "idle" \/ pc'[k].fd \in Fds
    BY <1>3, IdleType DEF Register
  <2>5. m_curr_conns' \in Int
    BY <1>3 DEF Register, incConnection
  <2>. QED
    BY <1>3, <2>3, <2>4, <2>5 DEF Register
<1>4. ASSUME NEW fd \in Fds, HandleRead(l, fd) PROVE TypeOK'
  BY <1>4 DEF HandleRead
<1>5. ASSUME NEW fd \in Fds, HandleReadCleans(l, fd) PROVE TypeOK'
  <2>1. /\ pc' \in [Loops -> [at : Places, fd : Fds \cup {NoFd}]]
        /\ \A k \in Loops : pc'[k].at = "idle" \/ pc'[k].fd \in Fds
    BY <1>5, <1>w, GoesType DEF HandleReadCleans
  <2>2. m_curr_conns' \in Int
    BY <1>5 DEF HandleReadCleans, decConnection
  <2>. QED
    BY <1>5, <2>1, <2>2 DEF HandleReadCleans
<1>6. ASSUME CleanUnregister(l) PROVE TypeOK'
  <2>1. /\ pc' \in [Loops -> [at : Places, fd : Fds \cup {NoFd}]]
        /\ \A k \in Loops : pc'[k].at = "idle" \/ pc'[k].fd \in Fds
    BY <1>6, <1>w, <1>g DEF CleanUnregister, At
  <2>2. io_events' \in [Loops -> SUBSET Fds] /\ watched' \in [Loops -> SUBSET Fds]
    BY <1>6 DEF CleanUnregister, DelIoEvent
  <2>. QED
    BY <1>6, <2>1, <2>2 DEF CleanUnregister
<1>7. ASSUME CleanClose(l) PROVE TypeOK'
  <2>1. /\ pc' \in [Loops -> [at : Places, fd : Fds \cup {NoFd}]]
        /\ \A k \in Loops : pc'[k].at = "idle" \/ pc'[k].fd \in Fds
    BY <1>7, <1>w, <1>g DEF CleanClose, At
  <2>2. pc[l].fd \in Fds
    BY <1>7 DEF CleanClose, At
  <2>3. Obj(l).m_connection_fd \in Fds \cup {NoFd}
    BY <2>2 DEF Obj
  <2>5. CloseFd(Obj(l).m_connection_fd) /\ TypeOK
    BY <1>7 DEF CleanClose
  <2>4. /\ files' \in [Fds -> Conns \cup {Free, Reserve, ThreadFile}]
        /\ watched' \in [Loops -> SUBSET Fds]
    BY <2>3, <2>5, ClosedType, Zenon
  <2>. QED
    BY <1>7, <2>1, <2>4 DEF CleanClose
<1>8. ASSUME CleanForget(l) PROVE TypeOK'
  <2>1. /\ pc' \in [Loops -> [at : Places, fd : Fds \cup {NoFd}]]
        /\ \A k \in Loops : pc'[k].at = "idle" \/ pc'[k].fd \in Fds
    BY <1>8, IdleType DEF CleanForget
  <2>2. m_connections_pool' \in
            [Fds -> [m_connection_fd : Fds \cup {NoFd}, m_loop : Loops \cup {-1}]]
    <3> DEFINE Object == [m_connection_fd : Fds \cup {NoFd}, m_loop : Loops \cup {-1}]
    <3>1. /\ m_connections_pool \in [Fds -> Object]
          /\ m_connections_pool' = [m_connections_pool EXCEPT ![pc[l].fd].m_connection_fd = NoFd]
      BY <1>8 DEF CleanForget
    <3> HIDE DEF TypeOK
    <3>2. \A o \in Object : [o EXCEPT !.m_connection_fd = NoFd] \in Object
      OBVIOUS
    <3> HIDE DEF Object
    <3>3. m_connections_pool' \in [Fds -> Object]
      BY <3>1, <3>2
    <3> QED
      BY <3>3 DEF Object
  <2>. QED
    BY <1>8, <2>1, <2>2 DEF CleanForget
<1>. QED
  BY <1>1, <1>2, <1>3, <1>4, <1>5, <1>6, <1>7, <1>8 DEF LoopStep

\* A client's step leaves the types.
LEMMA ClientType ==
    ASSUME TypeOK, UNCHANGED config, NEW k \in Conns, Connects(k) \/ ClientActs(k)
    PROVE  TypeOK'
<1> USE SameConfig DEF TypeOK
<1>1. ASSUME Connects(k) PROVE TypeOK'
  <2>1. backlog' \in Seq(Conns)
    BY <1>1 DEF Connects
  <2>. QED
    BY <1>1, <2>1 DEF Connects
<1>2. ASSUME ClientActs(k) PROVE TypeOK'
  BY <1>2 DEF ClientActs
<1>. QED
  BY <1>1, <1>2

\* Every step leaves the types, and the server it serves.
LEMMA NextType ==
    ASSUME TypeOK, [Next]_vars
    PROVE  TypeOK' /\ config' = config
<1>1. CASE UNCHANGED vars
  <2>1. UNCHANGED config
    BY <1>1 DEF vars
  <2>. QED
    BY <1>1, <2>1, SameConfig DEF vars, TypeOK
<1>2. CASE Next
  <2>1. UNCHANGED config
    BY <1>2 DEF Next
  <2>. QED
    BY <1>2, <2>1, ServerType, LoopType, ClientType DEF Next
<1>. QED
  BY <1>1, <1>2

-----------------------------------------------------------------------------
(* What a step that leaves a part alone leaves of the invariant *)

\* Nothing becomes undisturbed again.
LEMMA DisturbedStays ==
    ASSUME [Next]_vars, Undisturbed'
    PROVE  Undisturbed
<1>1. CASE UNCHANGED vars
  BY <1>1 DEF vars, Undisturbed
<1>2. CASE StartLoop \/ Stop \/ AcceptStep
  <2>1. CASE AcceptEAGAIN
    BY <2>1, Zenon DEF Undisturbed, AcceptEAGAIN
  <2>2. CASE StartLoop \/ Stop \/ DoAccept \/ AcceptEMFILE \/ AcceptDrop \/ AcceptRefuse
    BY <2>2 DEF Undisturbed, StartLoop, Stop, DoAccept, AcceptEMFILE, AcceptDrop, AcceptRefuse
  <2>3. CASE AcceptDispatch
    BY <2>3 DEF Undisturbed, AcceptDispatch, Accepted, Accepting, Alive
  <2>. QED
    BY <1>2, <2>1, <2>2, <2>3 DEF AcceptStep
<1>3. ASSUME NEW l \in Loops, ThreadDomain(l) \/ LoopStep(l) PROVE Undisturbed
  <2>0. CASE Activate(l)
    BY <2>0, Zenon DEF Undisturbed, Activate
  <2>1. CASE ThreadDomain(l) \/ OnMsgComing(l) \/ Register(l)
    BY <2>1 DEF Undisturbed, ThreadDomain, OnMsgComing, Register, At, Working
  <2>2. CASE \E fd \in Fds : HandleRead(l, fd) \/ HandleReadCleans(l, fd)
    BY <2>2 DEF Undisturbed, HandleRead, HandleReadCleans, ReadReady, At, Working
  <2>3. CASE CleanUnregister(l) \/ CleanClose(l) \/ CleanForget(l)
    BY <2>3 DEF Undisturbed, CleanUnregister, CleanClose, CleanForget, At, Working
  <2>. QED
    BY <1>3, <2>0, <2>1, <2>2, <2>3 DEF LoopStep
<1>4. ASSUME NEW k \in Conns, Connects(k) \/ ClientActs(k) PROVE Undisturbed
  BY <1>4 DEF Undisturbed, Connects, ClientActs
<1>. QED
  BY <1>1, <1>2, <1>3, <1>4 DEF Next

\* A loop that did nothing, and whose objects were left alone.
LEMMA SameHas ==
    ASSUME UNCHANGED config, NEW l, UNCHANGED <<io_events[l], queue[l], pc[l]>>
    PROVE  /\ Has(l)' = Has(l) /\ Handled(l)' = Handled(l) /\ Queued(l)' = Queued(l)
           /\ \A fd : Busy(l, fd)' <=> Busy(l, fd)
BY SameConfig DEF Has, Handled, Queued, Busy, InHands

\* A loop the step does not concern is still right if the objects it uses
\* are.
LEMMA RightKept ==
    ASSUME TypeOK, UNCHANGED config, NEW l \in Loops, LoopRight(l),
           UNCHANGED <<io_events[l], watched[l], queue[l], pc[l]>>,
           \A fd \in Fds : Busy(l, fd) => m_connections_pool'[fd] = m_connections_pool[fd]
    PROVE  LoopRight(l)'
<1>1. /\ Handled(l)' = Handled(l) /\ Queued(l)' = Queued(l)
  BY SameHas
<1>2. ASSUME NEW fd \in Fds, Busy(l, fd), Pointed(fd, l) PROVE Pointed(fd, l)'
  BY <1>2 DEF Pointed
<1>3. \A fd \in io_events'[l] : Pointed(fd, l)'
  <2>1. SUFFICES ASSUME NEW fd \in io_events'[l] PROVE Pointed(fd, l)'
    OBVIOUS
  <2>2. fd \in Fds /\ Busy(l, fd) /\ Pointed(fd, l)
    BY <2>1 DEF TypeOK, LoopRight, Busy
  <2>. QED
    BY <2>2, <1>2
<1>4. ASSUME pc'[l].at \in {"register", "unregister", "close"}, NEW fd, fd = pc'[l].fd
      PROVE  Pointed(fd, l)'
  <2>1. fd \in Fds /\ Busy(l, fd) /\ Pointed(fd, l)
    BY <1>4 DEF TypeOK, LoopRight, Busy
  <2>. QED
    BY <2>1, <1>2
<1>5. pc'[l].at \in {"register", "unregister", "close"} => Pointed(pc[l].fd, l)'
  BY <1>4 DEF Pointed
<1>. QED
  BY <1>1, <1>3, <1>5 DEF LoopRight

\* The same connections, in the same loops.
LEMMA OwnersKept ==
    ASSUME UNCHANGED config, Apart, Covered,
           \A l \in Loops : Has(l)' = Has(l),
           \A fd \in Fds : IsConn(fd)' <=> IsConn(fd)
    PROVE  Apart' /\ Covered'
<1>1. Loops' = Loops /\ Fds' = Fds
  BY SameConfig
<1>2. Apart'
  BY <1>1 DEF Apart
<1>3. ASSUME NEW fd \in Fds PROVE IsConn(fd)' <=> \E l \in Loops : fd \in Has(l)'
  BY DEF Covered
<1>4. Covered'
  BY <1>1, <1>3 DEF Covered
<1>. QED
  BY <1>2, <1>4

\* Loop l gets a connection that is new.
LEMMA OwnersGrown ==
    ASSUME UNCHANGED config, Apart, Covered, NEW l \in Loops, NEW new \in Fds,
           ~IsConn(new), IsConn(new)',
           Has(l)' = Has(l) \cup {new},
           \A k \in Loops \ {l} : Has(k)' = Has(k),
           \A fd \in Fds \ {new} : IsConn(fd)' <=> IsConn(fd)
    PROVE  Apart' /\ Covered'
<1>1. Loops' = Loops /\ Fds' = Fds
  BY SameConfig
<1>2. \A k \in Loops : new \notin Has(k)
  BY DEF Covered
<1>3. ASSUME NEW k \in Loops, NEW j \in Loops, k # j PROVE Has(k)' \cap Has(j)' = {}
  BY <1>2, <1>3 DEF Apart
<1>4. ASSUME NEW fd \in Fds PROVE IsConn(fd)' <=> \E k \in Loops : fd \in Has(k)'
  <2>1. CASE fd = new
    BY <2>1
  <2>2. CASE fd # new
    BY <2>2 DEF Covered
  <2>. QED
    BY <2>1, <2>2
<1>. QED
  BY <1>1, <1>3, <1>4 DEF Apart, Covered

\* Loop l closes one.
LEMMA OwnersShrunk ==
    ASSUME UNCHANGED config, Apart, Covered, NEW l \in Loops, NEW old \in Has(l),
           ~IsConn(old)',
           Has(l)' = Has(l) \ {old},
           \A k \in Loops \ {l} : Has(k)' = Has(k),
           \A fd \in Fds \ {old} : IsConn(fd)' <=> IsConn(fd)
    PROVE  Apart' /\ Covered'
<1>1. Loops' = Loops /\ Fds' = Fds
  BY SameConfig
<1>2. \A k \in Loops \ {l} : old \notin Has(k)
  BY DEF Apart
<1>3. ASSUME NEW k \in Loops, NEW j \in Loops, k # j PROVE Has(k)' \cap Has(j)' = {}
  BY <1>3 DEF Apart
<1>4. ASSUME NEW fd \in Fds PROVE IsConn(fd)' <=> \E k \in Loops : fd \in Has(k)'
  <2>1. CASE fd = old
    BY <1>2, <2>1
  <2>2. CASE fd # old
    BY <2>2 DEF Covered
  <2>. QED
    BY <2>1, <2>2
<1>. QED
  BY <1>1, <1>3, <1>4 DEF Apart, Covered

\* No loop closed a descriptor or came to use another object.
LEMMA ForgetsKept ==
    ASSUME UNCHANGED config, \A l \in Loops : Forgets(l),
           \A k \in Loops :
               pc'[k].at = "forget" => /\ pc[k].at = "forget" /\ pc'[k].fd = pc[k].fd
                                       /\ io_events'[k] \subseteq io_events[k],
           \A k \in Loops : \A fd : Busy(k, fd)' => Busy(k, fd)
    PROVE  \A l \in Loops' : Forgets(l)'
<1>1. Loops' = Loops
  BY SameConfig
<1>2. ASSUME NEW l \in Loops, NEW fd, fd = pc'[l].fd, pc'[l].at = "forget"
      PROVE  fd \notin io_events'[l] /\ \A k \in Loops \ {l} : ~Busy(k, fd)'
  BY <1>2 DEF Forgets
<1>3. ASSUME NEW l \in Loops PROVE Forgets(l)'
  BY <1>1, <1>2 DEF Forgets, Busy
<1>. QED
  BY <1>1, <1>3

\* The count stays exact where nothing is registered or counted.
LEMMA CountKept ==
    ASSUME UNCHANGED <<config, io_events, m_curr_conns>>, Counting,
           \A l \in Loops : pc'[l].at = "unregister" <=> pc[l].at = "unregister"
    PROVE  Counting'
<1>1. Loops' = Loops /\ Fds' = Fds
  BY SameConfig
<1>2. Unregistering' = Unregistering
  BY <1>1 DEF Unregistering
<1>3. Registrations' = Registrations
  BY <1>1 DEF Registrations
<1>. QED
  BY <1>1, <1>2, <1>3 DEF Counting

\* A step that leaves the loops alone, and opens and closes no connection.
LEMMA ElsewhereKept ==
    ASSUME TypeOK, Sound,
           UNCHANGED <<config, m_curr_conns, m_connections_pool, io_events, queue, pc>>,
           watched' = watched,
           \A fd \in Fds : IsConn(fd)' <=> IsConn(fd),
           Reserved'
    PROVE  Sound'
<1>1. Loops' = Loops
  BY SameConfig
<1>2. \A l \in Loops : LoopRight(l)'
  BY RightKept DEF Sound
<1>3. \A l \in Loops : Has(l)' = Has(l) /\ \A fd : Busy(l, fd)' <=> Busy(l, fd)
  BY SameHas
<1>4. Apart' /\ Covered'
  BY <1>3, OwnersKept DEF Sound
<1>5. \A l \in Loops' : Forgets(l)'
  BY <1>3, ForgetsKept DEF Sound
<1>6. Counting'
  BY CountKept DEF Sound
<1>. QED
  BY <1>1, <1>2, <1>4, <1>5, <1>6 DEF Sound

-----------------------------------------------------------------------------
(* The steps of the server's thread that open no connection *)

\* A descriptor that is not a connection is not watched: to close it disturbs
\* no loop.
LEMMA CloseOther ==
    ASSUME TypeOK, Sound, UNCHANGED config, NEW other \in Fds, ~IsConn(other), CloseFd(other)
    PROVE  /\ watched' = watched
           /\ \A fd \in Fds : IsConn(fd)' <=> IsConn(fd)
           /\ files' = [files EXCEPT ![other] = Free]
<1>0. Conns' = Conns /\ Free \notin Conns /\ NoFd \notin Fds
  BY SameConfig, ConfigFacts DEF TypeOK
<1>1. \A l \in Loops : other \notin io_events[l]
  BY DEF Sound, Covered, Has
<1>2. \A l \in Loops : watched[l] \ {other} = watched[l]
  BY <1>1 DEF Sound, LoopRight
<1>3. watched' = [l \in Loops |-> watched[l]]
  BY <1>2 DEF CloseFd
<1>4. watched' = watched
  BY <1>3 DEF TypeOK
<1>5. files' = [files EXCEPT ![other] = Free]
  BY <1>0 DEF CloseFd
<1>6. \A fd \in Fds : IsConn(fd)' <=> IsConn(fd)
  BY <1>0, <1>5 DEF IsConn, TypeOK
<1>. QED
  BY <1>4, <1>5, <1>6

\* So does to open files in free descriptors.
LEMMA OpenOther ==
    ASSUME TypeOK, UNCHANGED config, NEW n, files' = FilesOpened(n, ThreadFile)
    PROVE  /\ \A fd \in Fds : IsConn(fd)' <=> IsConn(fd)
           /\ \A fd \in Fds : files[fd] # Free => files'[fd] = files[fd]
<1>1. Conns' = Conns /\ Free \notin Conns /\ ThreadFile \notin Conns
  BY SameConfig, ConfigFacts DEF TypeOK
<1>. QED
  BY <1>1, OpenedFiles DEF IsConn

\* startLoop, stop, threadDomain, and the calls of doAccept that open no
\* connection.
LEMMA ServerSound ==
    ASSUME TypeOK, Sound, UNCHANGED config, Undisturbed',
           \/ StartLoop \/ Stop \/ \E l \in Loops : ThreadDomain(l)
           \/ DoAccept \/ AcceptEMFILE \/ AcceptEAGAIN \/ AcceptDrop \/ AcceptRefuse
    PROVE  Sound'
<1>0. /\ Conns' = Conns /\ Fds' = Fds /\ m_reservfd \in Fds
      /\ Free \notin Conns /\ Reserve \notin Conns /\ ThreadFile \notin Conns
      /\ Reserve # Free
  BY SameConfig, ConfigFacts DEF TypeOK, Reserve, Free
<1>r. Reserved
  BY DEF Sound
<1>1. CASE StartLoop \/ \E l \in Loops : ThreadDomain(l)
  <2>1. PICK n : files' = FilesOpened(n, ThreadFile)
    BY <1>1 DEF StartLoop, ThreadDomain
  <2>2. /\ \A fd \in Fds : IsConn(fd)' <=> IsConn(fd)
        /\ \A fd \in Fds : files[fd] # Free => files'[fd] = files[fd]
    BY <2>1, OpenOther
  <2>3. /\ UNCHANGED <<m_reservfd, m_curr_conns, m_connections_pool, io_events, queue, pc,
                       acceptor, watched>>
        /\ phase' # "stopped" => phase # "stopped"
    BY <1>1 DEF StartLoop, ThreadDomain
  <2>4. Reserved'
    BY <1>0, <1>r, <2>2, <2>3 DEF Reserved, IsConn
  <2>. QED
    BY <2>2, <2>3, <2>4, ElsewhereKept
<1>2. CASE Stop
  <2>1. ~IsConn(m_reservfd) /\ CloseFd(m_reservfd)
    BY <1>2, <1>r DEF Stop, Alive, Reserved
  <2>2. watched' = watched /\ \A fd \in Fds : IsConn(fd)' <=> IsConn(fd)
    BY <1>0, <2>1, CloseOther
  <2>3. Reserved'
    BY <1>2 DEF Stop, Reserved
  <2>. QED
    BY <1>2, <2>2, <2>3, ElsewhereKept DEF Stop
<1>3. CASE DoAccept \/ AcceptRefuse
  <2>1. UNCHANGED files
    BY <1>3 DEF DoAccept, AcceptRefuse
  <2>2. \A fd \in Fds : IsConn(fd)' <=> IsConn(fd)
    BY <1>0, <2>1 DEF IsConn
  <2>3. Reserved'
    BY <1>0, <1>3, <1>r, <2>1 DEF DoAccept, SelfIdle, AcceptRefuse, Reserved, IsConn
  <2>. QED
    BY <1>3, <2>2, <2>3, ElsewhereKept DEF DoAccept, AcceptRefuse
<1>4. CASE AcceptEMFILE
  <2>1. ~IsConn(m_reservfd) /\ CloseFd(m_reservfd) /\ acceptor.pc = "accept"
    BY <1>4, <1>r DEF AcceptEMFILE, Accepting, Alive, Reserved
  <2>2. watched' = watched /\ \A fd \in Fds : IsConn(fd)' <=> IsConn(fd)
    BY <1>0, <2>1, CloseOther
  <2>3. acceptor'.conn_full /\ acceptor'.pc = "accept"
    BY <1>4, <2>1 DEF AcceptEMFILE, TypeOK
  <2>4. Reserved'
    BY <1>0, <1>4, <2>1, <2>2, <2>3 DEF AcceptEMFILE, Reserved
  <2>. QED
    BY <1>4, <2>2, <2>4, ElsewhereKept DEF AcceptEMFILE
<1>5. CASE AcceptEAGAIN
  <2>1. ~acceptor.conn_full
    BY <1>5, Zenon DEF AcceptEAGAIN, Undisturbed
  <2>2. UNCHANGED files /\ ~acceptor'.conn_full
    BY <1>5 DEF AcceptEAGAIN
  <2>3. \A fd \in Fds : IsConn(fd)' <=> IsConn(fd)
    BY <1>0, <2>2 DEF IsConn
  <2>4. Reserved'
    BY <1>0, <1>5, <1>r, <2>1, <2>2 DEF AcceptEAGAIN, Reserved, IsConn
  <2>. QED
    BY <1>5, <2>3, <2>4, ElsewhereKept DEF AcceptEAGAIN
<1>6. CASE AcceptDrop
  <2>1. connfd \in Fds /\ files[connfd] = Free
    BY <1>6, LowestFree DEF AcceptDrop, Accepted, TypeOK
  <2>2. files' = [files EXCEPT ![connfd] = Reserve]
    BY <1>6 DEF AcceptDrop, Reopened
  <2>3. \A fd \in Fds : IsConn(fd)' <=> IsConn(fd)
    BY <1>0, <2>1, <2>2 DEF IsConn, TypeOK
  <2>4. ~acceptor'.conn_full /\ files'[m_reservfd'] = Reserve
    BY <1>6, <2>1, <2>2 DEF AcceptDrop, TypeOK
  <2>5. Reserved'
    BY <1>0, <2>4 DEF Reserved, IsConn
  <2>. QED
    BY <1>6, <2>3, <2>5, ElsewhereKept DEF AcceptDrop
<1>. QED
  BY <1>1, <1>2, <1>3, <1>4, <1>5, <1>6

-----------------------------------------------------------------------------
(* The steps of the loops *)

\* A queue without its first element, and with one more.
LEMMA TailElements ==
    ASSUME NEW S, NEW q \in Seq(S), q # <<>>,
           \A i, j \in DOMAIN q : q[i] = q[j] => i = j
    PROVE  /\ {Tail(q)[i] : i \in DOMAIN Tail(q)} = {q[i] : i \in DOMAIN q} \ {Head(q)}
           /\ Head(q) \in {q[i] : i \in DOMAIN q}
           /\ \A i, j \in DOMAIN Tail(q) : Tail(q)[i] = Tail(q)[j] => i = j
<1>1. /\ DOMAIN q = 1..Len(q) /\ Len(q) \in Nat /\ Len(q) > 0 /\ Head(q) = q[1]
      /\ DOMAIN Tail(q) = 1..(Len(q) - 1)
      /\ \A i \in 1..(Len(q) - 1) : Tail(q)[i] = q[i + 1]
  OBVIOUS
<1>2. ASSUME NEW x \in {Tail(q)[i] : i \in DOMAIN Tail(q)}
      PROVE  x \in {q[i] : i \in DOMAIN q} \ {Head(q)}
  <2>1. PICK i \in 1..(Len(q) - 1) : x = q[i + 1]
    BY <1>1, <1>2
  <2>2. i + 1 \in DOMAIN q /\ 1 \in DOMAIN q /\ i + 1 # 1
    BY <1>1, <2>1
  <2>. QED
    BY <1>1, <2>1, <2>2
<1>3. ASSUME NEW x \in {q[i] : i \in DOMAIN q} \ {Head(q)}
      PROVE  x \in {Tail(q)[i] : i \in DOMAIN Tail(q)}
  <2>1. PICK i \in DOMAIN q : x = q[i]
    BY <1>3
  <2>2. i # 1
    BY <1>1, <1>3, <2>1
  <2>3. i - 1 \in 1..(Len(q) - 1) /\ i = (i - 1) + 1
    BY <1>1, <2>1, <2>2
  <2>4. Tail(q)[i - 1] = q[i]
    BY <1>1, <2>3
  <2>. QED
    BY <1>1, <2>1, <2>3, <2>4
<1>4. ASSUME NEW i \in DOMAIN Tail(q), NEW j \in DOMAIN Tail(q), Tail(q)[i] = Tail(q)[j]
      PROVE  i = j
  <2>1. i + 1 \in DOMAIN q /\ j + 1 \in DOMAIN q /\ q[i + 1] = q[j + 1]
    BY <1>1, <1>4
  <2>2. i + 1 = j + 1
    BY <2>1
  <2>. QED
    BY <1>1, <2>2
<1>. QED
  BY <1>1, <1>2, <1>3, <1>4

\* A queue with one element more.
LEMMA AppendElements ==
    ASSUME NEW S, NEW q \in Seq(S), NEW new \in S, new \notin {q[i] : i \in DOMAIN q},
           \A i, j \in DOMAIN q : q[i] = q[j] => i = j
    PROVE  LET p == Append(q, new)
           IN  /\ {p[i] : i \in DOMAIN p} = {q[i] : i \in DOMAIN q} \cup {new}
               /\ \A i, j \in DOMAIN p : p[i] = p[j] => i = j
<1> DEFINE p == Append(q, new)
<1>1. /\ DOMAIN q = 1..Len(q) /\ Len(q) \in Nat
      /\ DOMAIN p = 1..(Len(q) + 1) /\ p[Len(q) + 1] = new
      /\ \A i \in 1..Len(q) : p[i] = q[i]
  OBVIOUS
<1> HIDE DEF p
<1>2. DOMAIN p = DOMAIN q \cup {Len(q) + 1}
  BY <1>1
<1>3. {p[i] : i \in DOMAIN p} = {q[i] : i \in DOMAIN q} \cup {new}
  BY <1>1, <1>2
<1>4. \A i, j \in DOMAIN p : p[i] = p[j] => i = j
  BY <1>1, <1>2
<1>. QED
  BY <1>3, <1>4 DEF p

\* What a step of loop l leaves of the others.
LEMMA OthersKept ==
    ASSUME TypeOK, Sound, UNCHANGED config, NEW l \in Loops, NEW x,
           \A k \in Loops \ {l} : UNCHANGED <<io_events[k], watched[k], queue[k], pc[k]>>,
           \A k \in Loops \ {l} : ~Busy(k, x),
           \A fd \in Fds \ {x} : m_connections_pool'[fd] = m_connections_pool[fd]
    PROVE  \A k \in Loops \ {l} : LoopRight(k)'
<1>1. SUFFICES ASSUME NEW k \in Loops \ {l} PROVE LoopRight(k)'
  OBVIOUS
<1>2. \A fd \in Fds : Busy(k, fd) => m_connections_pool'[fd] = m_connections_pool[fd]
  OBVIOUS
<1>3. LoopRight(k)
  BY DEF Sound
<1>. QED
  BY <1>2, <1>3, RightKept

\* A step that leaves the files and the acceptor alone keeps the reserve.
LEMMA ReservedKept ==
    ASSUME Reserved, UNCHANGED <<config, files, phase, m_reservfd, acceptor>>
    PROVE  Reserved' /\ \A fd \in Fds : IsConn(fd)' <=> IsConn(fd)
BY SameConfig DEF Reserved, IsConn

\* Messages read, and the clients' steps, leave all of it.
LEMMA ReadSound ==
    ASSUME TypeOK, Sound, UNCHANGED config,
           \/ \E l \in Loops : \E fd \in Fds : HandleRead(l, fd)
           \/ \E k \in Conns : Connects(k) \/ ClientActs(k)
           \/ UNCHANGED vars
    PROVE  Sound'
<1>1. UNCHANGED <<files, m_curr_conns, m_connections_pool, io_events, watched, queue, pc, phase,
                  m_reservfd, acceptor>>
  BY DEF HandleRead, Connects, ClientActs, vars
<1>2. Reserved' /\ \A fd \in Fds : IsConn(fd)' <=> IsConn(fd)
  BY <1>1, ReservedKept DEF Sound
<1>. QED
  BY <1>1, <1>2, ElsewhereKept

\* The connection a loop has in hands, before and after a step.
LEMMA InHandsIs ==
    ASSUME UNCHANGED config, NEW l
    PROVE  /\ pc[l].at \in {"activate", "register", "close"} /\ pc[l].fd \in Fds
                => Handled(l) = {pc[l].fd}
           /\ pc[l].at \notin {"activate", "register", "close"} => Handled(l) = {}
           /\ pc'[l].at \in {"activate", "register", "close"} /\ pc'[l].fd \in Fds
                => Handled(l)' = {pc'[l].fd}
           /\ pc'[l].at \notin {"activate", "register", "close"} => Handled(l)' = {}
BY SameConfig DEF Handled, InHands

\* A NEW_CONN message: a connection goes from the queue into the loop's
\* hands.
LEMMA OnMsgComingSound ==
    ASSUME TypeOK, Sound, UNCHANGED config, NEW l \in Loops, OnMsgComing(l)
    PROVE  Sound'
<1> DEFINE q == queue[l]
           new == Head(q)
<1>1. /\ UNCHANGED <<files, m_reservfd, m_curr_conns, phase, m_connections_pool, io_events,
                     watched, acceptor>>
      /\ q # <<>> /\ pc[l].at = "idle"
      /\ queue' = [queue EXCEPT ![l] = Tail(q)]
      /\ pc' = [pc EXCEPT ![l] = [at |-> "activate", fd |-> new]]
  BY DEF OnMsgComing, At
<1>2. q \in Seq(Fds) /\ new \in Fds
  BY <1>1 DEF TypeOK
<1>3. /\ queue'[l] = Tail(q) /\ pc'[l].at = "activate" /\ pc'[l].fd = new
      /\ \A k \in Loops \ {l} : UNCHANGED <<io_events[k], watched[k], queue[k], pc[k]>>
  BY <1>1 DEF TypeOK
<1>r. LoopRight(l)
  BY DEF Sound
<1>4. /\ Queued(l)' = Queued(l) \ {new} /\ new \in Queued(l)
      /\ \A i, j \in DOMAIN queue'[l] : queue'[l][i] = queue'[l][j] => i = j
  <2>1. \A i, j \in DOMAIN q : q[i] = q[j] => i = j
    BY <1>r DEF LoopRight
  <2> HIDE DEF new, q
  <2>2. /\ {Tail(q)[i] : i \in DOMAIN Tail(q)} = {q[i] : i \in DOMAIN q} \ {Head(q)}
        /\ Head(q) \in {q[i] : i \in DOMAIN q}
        /\ \A i, j \in DOMAIN Tail(q) : Tail(q)[i] = Tail(q)[j] => i = j
    BY <1>1, <1>2, <2>1, TailElements
  <2>3. Queued(l)' = {Tail(q)[i] : i \in DOMAIN Tail(q)}
    BY <1>3 DEF Queued
  <2>4. Queued(l) = {q[i] : i \in DOMAIN q}
    BY DEF Queued, q
  <2>5. new = Head(q)
    BY DEF new
  <2>6. Queued(l)' = Queued(l) \ {new} /\ new \in Queued(l)
    BY <2>2, <2>3, <2>4, <2>5, Zenon
  <2>7. \A i, j \in DOMAIN queue'[l] : queue'[l][i] = queue'[l][j] => i = j
    BY <1>3, <2>2, Zenon
  <2>. QED
    BY <2>6, <2>7
<1> HIDE DEF new, q
<1>5. Handled(l) = {} /\ Handled(l)' = {new}
  BY <1>1, <1>2, <1>3, InHandsIs
<1>6. LoopRight(l)'
  <2>1. \A fd \in io_events'[l] : Pointed(fd, l)'
    BY <1>1, <1>r DEF LoopRight, Pointed
  <2>. QED
    BY <1>1, <1>3, <1>4, <1>5, <1>r, <2>1 DEF LoopRight
<1>7. \A k \in Loops : LoopRight(k)'
  <2>1. \A k \in Loops : LoopRight(k)
    BY DEF Sound
  <2>2. \A k \in Loops \ {l} : LoopRight(k)'
    BY <1>1, <1>3, <2>1, RightKept
  <2>. QED
    BY <1>6, <2>2
<1>8. \A k \in Loops : Has(k)' = Has(k)
  <2>1. Has(l)' = Has(l)
    BY <1>1, <1>4, <1>5 DEF Has
  <2>2. \A k \in Loops \ {l} : Has(k)' = Has(k)
    BY <1>3, SameHas
  <2>. QED
    BY <2>1, <2>2
<1>9. Reserved' /\ \A fd \in Fds : IsConn(fd)' <=> IsConn(fd)
  BY <1>1, ReservedKept DEF Sound
<1>10. Apart' /\ Covered'
  BY <1>8, <1>9, OwnersKept DEF Sound
<1>11. \A k \in Loops' : Forgets(k)'
  <2>1. \A k \in Loops : pc'[k].at = "forget" => pc[k].at = "forget" /\ pc'[k].fd = pc[k].fd
    BY <1>3
  <2>2. \A k \in Loops : \A fd : Busy(k, fd)' => Busy(k, fd)
    BY <1>1, <1>3 DEF Busy
  <2>. QED
    BY <1>1, <2>1, <2>2, ForgetsKept DEF Sound
<1>12. Counting'
  <2>1. \A k \in Loops : pc'[k].at = "unregister" <=> pc[k].at = "unregister"
    BY <1>1, <1>3
  <2>. QED
    BY <1>1, <2>1, CountKept DEF Sound
<1>. QED
  BY <1>7, <1>9, <1>10, <1>11, <1>12, SameConfig DEF Sound

\* A step that moves a connection within loop l, and changes no object but x.
LEMMA MovedSound ==
    ASSUME TypeOK, Sound, UNCHANGED <<config, files, phase, m_reservfd, acceptor>>,
           NEW l \in Loops, NEW x,
           \A k \in Loops \ {l} : UNCHANGED <<io_events[k], watched[k], queue[k], pc[k]>>,
           \A k \in Loops \ {l} : ~Busy(k, x),
           \A fd \in Fds \ {x} : m_connections_pool'[fd] = m_connections_pool[fd],
           LoopRight(l)', Has(l)' = Has(l),
           \A k \in Loops' : Forgets(k)',
           Counting'
    PROVE  Sound'
<1>1. \A k \in Loops : LoopRight(k)'
  BY OthersKept
<1>2. \A k \in Loops : Has(k)' = Has(k)
  BY SameHas
<1>3. Reserved' /\ \A fd \in Fds : IsConn(fd)' <=> IsConn(fd)
  BY ReservedKept DEF Sound
<1>4. Apart' /\ Covered'
  BY <1>2, <1>3, OwnersKept DEF Sound
<1>. QED
  BY <1>1, <1>3, <1>4, SameConfig DEF Sound

\* Nobody else has the connection loop l has in hands.
LEMMA InHandsAlone ==
    ASSUME TypeOK, Sound, NEW l \in Loops, NEW fd \in Fds, fd \in Has(l),
           NEW k \in Loops \ {l}, Busy(k, fd)
    PROVE  pc[k].at = "forget" /\ pc[k].fd = fd
<1>1. fd \notin Has(k)
  BY DEF Sound, Apart
<1>2. fd \notin io_events[k] /\ ~InHands(k, fd)
  BY <1>1 DEF Has, Handled
<1>3. ~(pc[k].at = "unregister" /\ pc[k].fd = fd)
  BY <1>2 DEF Sound, LoopRight
<1>. QED
  BY <1>2, <1>3 DEF Busy, InHands

\* activate points the descriptor's object at this loop. Only a loop that has
\* closed this very descriptor could still write that object.
LEMMA ActivateSound ==
    ASSUME TypeOK, Sound, Undisturbed', UNCHANGED config, NEW l \in Loops, Activate(l)
    PROVE  Sound'
<1> DEFINE x == pc[l].fd
<1>1. /\ UNCHANGED <<files, m_reservfd, m_curr_conns, phase, io_events, watched, queue, acceptor>>
      /\ pc[l].at = "activate" /\ x \in Fds
      /\ m_connections_pool' = [m_connections_pool EXCEPT
                                    ![x] = [m_connection_fd |-> x, m_loop |-> l]]
  BY DEF Activate, At, TypeOK
<1>2. pc' = [pc EXCEPT ![l] = [at |-> "register", fd |-> x]]
  BY GoesAt DEF Activate, Places
<1>3. \A k \in Loops \ {l} : pc[k] # [at |-> "forget", fd |-> x]
  BY Zenon DEF Activate, Undisturbed
<1> HIDE DEF x
<1>4. /\ pc'[l].at = "register" /\ pc'[l].fd = x
      /\ \A k \in Loops \ {l} : UNCHANGED <<io_events[k], watched[k], queue[k], pc[k]>>
  BY <1>1, <1>2 DEF TypeOK
<1>5. \A k \in Loops \ {l} : ~(pc[k].at = "forget" /\ pc[k].fd = x)
  <2>1. \A k \in Loops : pc[k] \in [at : Places, fd : Fds \cup {NoFd}]
    BY DEF TypeOK
  <2>2. \A k \in Loops : pc[k] = [at |-> pc[k].at, fd |-> pc[k].fd]
    BY <2>1
  <2>. QED
    BY <1>3, <2>2
<1>6. Handled(l) = {x} /\ Handled(l)' = {x}
  BY <1>1, <1>4, InHandsIs DEF x
<1>7. Queued(l)' = Queued(l) /\ Has(l)' = Has(l) /\ x \in Has(l)
  BY <1>1, <1>6 DEF Queued, Has
<1>8. \A k \in Loops \ {l} : ~Busy(k, x)
  BY <1>1, <1>5, <1>7, InHandsAlone
<1>9. /\ m_connections_pool'[x].m_connection_fd = x /\ m_connections_pool'[x].m_loop = l
      /\ \A fd \in Fds \ {x} : m_connections_pool'[fd] = m_connections_pool[fd]
  BY <1>1 DEF TypeOK
<1>10. LoopRight(l)'
  <2>1. LoopRight(l)
    BY DEF Sound
  <2>2. x \notin io_events[l] /\ io_events[l] \subseteq Fds
    BY <1>6, <2>1 DEF LoopRight, TypeOK
  <2>3. \A fd \in io_events'[l] : Pointed(fd, l)'
    BY <1>1, <1>9, <2>1, <2>2 DEF LoopRight, Pointed
  <2>4. Pointed(pc[l].fd, l)'
    BY <1>4, <1>9 DEF Pointed
  <2>. QED
    BY <1>1, <1>4, <1>6, <1>7, <2>1, <2>3, <2>4 DEF LoopRight
<1>11. \A k \in Loops' : Forgets(k)'
  <2>1. SUFFICES ASSUME NEW k \in Loops PROVE Forgets(k)'
    BY SameConfig
  <2>2. CASE k = l
    BY <1>4, <2>2 DEF Forgets
  <2>3. CASE k # l
    <3>1. SUFFICES ASSUME pc[k].at = "forget"
                   PROVE  /\ pc[k].fd \notin io_events[k]
                          /\ \A j \in Loops \ {k} : ~(\/ pc[k].fd \in io_events[j]
                                                      \/ /\ pc'[j].fd = pc[k].fd
                                                         /\ pc'[j].at \in {"register", "unregister",
                                                                           "close", "forget"})
      BY <1>1, <1>4, <2>3, SameConfig DEF Forgets, Busy
    <3>2. pc[k].fd # x
      BY <1>5, <2>3, <3>1
    <3>3. Forgets(k)
      BY DEF Sound
    <3>. QED
      BY <1>4, <3>1, <3>2, <3>3 DEF Forgets, Busy
  <2>. QED
    BY <2>2, <2>3
<1>12. Counting'
  <2>1. \A k \in Loops : pc'[k].at = "unregister" <=> pc[k].at = "unregister"
    BY <1>1, <1>4
  <2>. QED
    BY <1>1, <2>1, CountKept DEF Sound
<1>. QED
  BY <1>1, <1>4, <1>7, <1>8, <1>9, <1>10, <1>11, <1>12, MovedSound

\* Loops and descriptors can be counted.
LEMMA Countable ==
    ASSUME TypeOK
    PROVE  /\ IsFiniteSet(Registrations) /\ Cardinality(Registrations) \in Nat
           /\ IsFiniteSet(Unregistering) /\ Cardinality(Unregistering) \in Nat
<1>1. IsFiniteSet(Loops) /\ IsFiniteSet(Fds)
  BY ConfigFacts DEF TypeOK
<1>2. IsFiniteSet(Loops \X Fds)
  BY <1>1, FS_Product
<1>3. Registrations \subseteq Loops \X Fds /\ Unregistering \subseteq Loops
  BY DEF Registrations, Unregistering
<1>4. IsFiniteSet(Registrations) /\ IsFiniteSet(Unregistering)
  BY <1>1, <1>2, <1>3, FS_Subset
<1>. QED
  BY <1>4, FS_CardinalityType

\* One registration more, or one less.
LEMMA Registered ==
    ASSUME TypeOK, UNCHANGED config, NEW l \in Loops, NEW fd \in Fds, fd \notin io_events[l],
           io_events'[l] = io_events[l] \cup {fd},
           \A k \in Loops \ {l} : io_events'[k] = io_events[k]
    PROVE  Cardinality(Registrations') = Cardinality(Registrations) + 1
<1>1. Loops' = Loops /\ Fds' = Fds
  BY SameConfig
<1>2. ASSUME NEW p \in Loops \X Fds
      PROVE  p[2] \in io_events'[p[1]] <=> p[2] \in io_events[p[1]] \/ p = <<l, fd>>
  <2>1. p[1] \in Loops /\ p[2] \in Fds /\ (p = <<l, fd>> <=> p[1] = l /\ p[2] = fd)
    OBVIOUS
  <2>. QED
    BY <2>1
<1>3. <<l, fd>> \in Loops \X Fds
  OBVIOUS
<1>4. Registrations' = Registrations \cup {<<l, fd>>}
  BY <1>1, <1>2, <1>3 DEF Registrations
<1>5. <<l, fd>> \notin Registrations
  BY DEF Registrations
<1>. QED
  BY <1>4, <1>5, Countable, FS_AddElement

\* One registration less.
LEMMA Unregistered ==
    ASSUME TypeOK, UNCHANGED config, NEW l \in Loops, NEW fd \in Fds, fd \in io_events[l],
           io_events'[l] = io_events[l] \ {fd},
           \A k \in Loops \ {l} : io_events'[k] = io_events[k]
    PROVE  Cardinality(Registrations') = Cardinality(Registrations) - 1
<1>1. Loops' = Loops /\ Fds' = Fds
  BY SameConfig
<1>2. ASSUME NEW p \in Loops \X Fds
      PROVE  p[2] \in io_events'[p[1]] <=> p[2] \in io_events[p[1]] /\ p # <<l, fd>>
  <2>1. p[1] \in Loops /\ p[2] \in Fds /\ (p = <<l, fd>> <=> p[1] = l /\ p[2] = fd)
    OBVIOUS
  <2>. QED
    BY <2>1
<1>4. Registrations' = Registrations \ {<<l, fd>>}
  BY <1>1, <1>2 DEF Registrations
<1>5. <<l, fd>> \in Registrations
  BY DEF Registrations
<1>. QED
  BY <1>4, <1>5, Countable, FS_RemoveElement

\* A loop begins, or has done, with unregistering.
LEMMA Unregisters ==
    ASSUME TypeOK, UNCHANGED config, NEW l \in Loops,
           pc[l].at # "unregister", pc'[l].at = "unregister",
           \A k \in Loops \ {l} : pc'[k] = pc[k]
    PROVE  Cardinality(Unregistering') = Cardinality(Unregistering) + 1
<1>1. Unregistering' = Unregistering \cup {l} /\ l \notin Unregistering
  BY SameConfig DEF Unregistering
<1>. QED
  BY <1>1, Countable, FS_AddElement

\* A loop has done with unregistering.
LEMMA HasUnregistered ==
    ASSUME TypeOK, UNCHANGED config, NEW l \in Loops,
           pc[l].at = "unregister", pc'[l].at # "unregister",
           \A k \in Loops \ {l} : pc'[k] = pc[k]
    PROVE  Cardinality(Unregistering') = Cardinality(Unregistering) - 1
<1>1. Unregistering' = Unregistering \ {l} /\ l \in Unregistering
  BY SameConfig DEF Unregistering
<1>. QED
  BY <1>1, Countable, FS_RemoveElement

\* The rest of activate: counted, and in the map and the epoll set.
LEMMA RegisterSound ==
    ASSUME TypeOK, Sound, Undisturbed', UNCHANGED config, NEW l \in Loops, Register(l)
    PROVE  Sound'
<1> DEFINE x == pc[l].fd
<1>r. LoopRight(l)
  BY DEF Sound
<1>1. /\ UNCHANGED <<files, m_reservfd, phase, m_connections_pool, queue, acceptor>>
      /\ pc[l].at = "register" /\ x \in Fds
      /\ pc' = [pc EXCEPT ![l] = Idle]
      /\ m_curr_conns' = m_curr_conns + 1
  BY DEF Register, At, TypeOK, incConnection
<1>2. Obj(l).m_connection_fd = x
  BY <1>1, <1>r DEF LoopRight, Pointed, Obj
<1>3. /\ io_events' = [io_events EXCEPT ![l] = @ \cup {x}]
      /\ watched' = [watched EXCEPT ![l] = @ \cup {x}]
  <2> DEFINE fd == Obj(l).m_connection_fd
  <2>1. AddIoEvent(l, fd) /\ aborted' = "no"
    BY DEF Register, Undisturbed
  <2>2. fd = x
    BY <1>2
  <2> HIDE DEF fd, x
  <2>. QED
    BY <2>1, <2>2 DEF AddIoEvent
<1>4. /\ pc'[l].at = "idle"
      /\ io_events'[l] = io_events[l] \cup {x} /\ watched'[l] = watched[l] \cup {x}
      /\ \A k \in Loops \ {l} : UNCHANGED <<io_events[k], watched[k], queue[k], pc[k]>>
  BY <1>1, <1>3 DEF TypeOK, Idle
<1>5. Handled(l) = {x} /\ Handled(l)' = {}
  BY <1>1, <1>4, InHandsIs
<1>6. Queued(l)' = Queued(l) /\ Has(l)' = Has(l) /\ x \in Has(l)
  BY <1>1, <1>4, <1>5 DEF Queued, Has
<1>7. LoopRight(l)'
  <2>1. Pointed(x, l)
    BY <1>1, <1>r DEF LoopRight
  <2>2. \A fd \in io_events'[l] : Pointed(fd, l)'
    BY <1>1, <1>4, <1>r, <2>1 DEF LoopRight, Pointed
  <2>. QED
    BY <1>1, <1>4, <1>5, <1>6, <1>r, <2>2 DEF LoopRight
<1>8. \A k \in Loops \ {l} : ~Busy(k, x)
  <2>1. SUFFICES ASSUME NEW k \in Loops \ {l}, Busy(k, x) PROVE FALSE
    OBVIOUS
  <2>2. pc[k].at = "forget" /\ pc[k].fd = x
    BY <1>1, <1>6, <2>1, InHandsAlone
  <2>. QED
    BY <1>1, <2>2 DEF Sound, Forgets, Busy
<1>9. \A k \in Loops' : Forgets(k)'
  <2>1. \A k \in Loops : pc'[k].at = "forget" => /\ pc[k].at = "forget" /\ pc'[k].fd = pc[k].fd
                                                 /\ io_events'[k] \subseteq io_events[k]
    BY <1>4
  <2>2. \A k \in Loops : \A fd : Busy(k, fd)' => Busy(k, fd)
    BY <1>1, <1>4 DEF Busy
  <2>. QED
    BY <2>1, <2>2, ForgetsKept DEF Sound
<1>10. Counting'
  <2>1. x \notin io_events[l]
    BY <1>5, <1>r DEF LoopRight
  <2>2. Cardinality(Registrations') = Cardinality(Registrations) + 1
    BY <1>1, <1>4, <2>1, Registered
  <2>3. Unregistering' = Unregistering
    BY <1>1, <1>4, SameConfig DEF Unregistering
  <2>. QED
    BY <1>1, <2>2, <2>3, Countable DEF Sound, Counting, TypeOK
<1>. QED
  BY <1>1, <1>4, <1>6, <1>7, <1>8, <1>9, <1>10, MovedSound

\* cleanConnection begins: counted down before it is unregistered.
LEMMA HandleReadCleansSound ==
    ASSUME TypeOK, Sound, UNCHANGED config, NEW l \in Loops, NEW x \in Fds,
           HandleReadCleans(l, x)
    PROVE  Sound'
<1>r. LoopRight(l)
  BY DEF Sound
<1>1. /\ UNCHANGED <<files, m_reservfd, phase, m_connections_pool, io_events, watched, queue,
                     acceptor>>
      /\ pc[l].at = "idle" /\ x \in watched[l]
      /\ pc' = [pc EXCEPT ![l] = [at |-> "unregister", fd |-> x]]
      /\ m_curr_conns' = m_curr_conns - 1
  BY DEF HandleReadCleans, ReadReady, At, decConnection
<1>2. x \in io_events[l]
  BY <1>1, <1>r DEF LoopRight
<1>3. /\ pc'[l].at = "unregister" /\ pc'[l].fd = x
      /\ \A k \in Loops \ {l} : UNCHANGED <<io_events[k], watched[k], queue[k], pc[k]>>
  BY <1>1 DEF TypeOK
<1>4. Handled(l) = {} /\ Handled(l)' = {}
  BY <1>1, <1>3, InHandsIs
<1>5. Queued(l)' = Queued(l) /\ Has(l)' = Has(l) /\ x \in Has(l)
  BY <1>1, <1>2, <1>4 DEF Queued, Has
<1>6. LoopRight(l)'
  <2>1. \A fd \in io_events'[l] : Pointed(fd, l)'
    BY <1>1, <1>r DEF LoopRight, Pointed
  <2>2. Pointed(pc[l].fd, l)'
    BY <1>1, <1>2, <1>3, <2>1 DEF Pointed
  <2>. QED
    BY <1>1, <1>2, <1>3, <1>4, <1>5, <1>r, <2>1, <2>2 DEF LoopRight
<1>7. \A k \in Loops' : Forgets(k)'
  <2>1. \A k \in Loops : pc'[k].at = "forget" => pc[k].at = "forget" /\ pc'[k].fd = pc[k].fd
    BY <1>3
  <2>2. \A k \in Loops : \A fd : Busy(k, fd)' => Busy(k, fd)
    BY <1>1, <1>2, <1>3 DEF Busy
  <2>. QED
    BY <1>1, <2>1, <2>2, ForgetsKept DEF Sound
<1>8. Counting'
  <2>1. Cardinality(Unregistering') = Cardinality(Unregistering) + 1
    BY <1>1, <1>3, Unregisters
  <2>2. Registrations' = Registrations
    BY <1>1, SameConfig DEF Registrations
  <2>. QED
    BY <1>1, <2>1, <2>2, Countable DEF Sound, Counting, TypeOK
<1>9. \A k \in Loops \ {l} : ~Busy(k, NoFd)
  <2>1. SUFFICES ASSUME NEW k \in Loops \ {l}, Busy(k, NoFd) PROVE FALSE
    OBVIOUS
  <2>2. NoFd \notin Fds
    BY ConfigFacts DEF TypeOK
  <2>3. io_events[k] \subseteq Fds /\ (pc[k].at = "idle" \/ pc[k].fd \in Fds)
    BY DEF TypeOK
  <2>. QED
    BY <2>1, <2>2, <2>3 DEF Busy
<1>. QED
  BY <1>1, <1>3, <1>5, <1>6, <1>7, <1>8, <1>9, MovedSound

\* delIoEvent, of the loop and the descriptor the object holds.
LEMMA CleanUnregisterSound ==
    ASSUME TypeOK, Sound, UNCHANGED config, NEW l \in Loops, CleanUnregister(l)
    PROVE  Sound'
<1> DEFINE x == pc[l].fd
<1>r. LoopRight(l)
  BY DEF Sound
<1>1. /\ UNCHANGED <<files, m_reservfd, m_curr_conns, phase, m_connections_pool, queue, acceptor>>
      /\ pc[l].at = "unregister" /\ x \in Fds /\ x \in io_events[l]
  BY <1>r DEF CleanUnregister, At, TypeOK, LoopRight
<1>2. Obj(l).m_connection_fd = x /\ Obj(l).m_loop = l
  BY <1>1, <1>r DEF LoopRight, Pointed, Obj
<1>3. /\ io_events' = [io_events EXCEPT ![l] = @ \ {x}]
      /\ watched' = [watched EXCEPT ![l] = @ \ {x}]
  BY <1>2 DEF CleanUnregister, DelIoEvent
<1>p. pc' = [pc EXCEPT ![l] = [at |-> "close", fd |-> x]]
  BY GoesAt DEF CleanUnregister, Places
<1> HIDE DEF x
<1>4. /\ pc'[l].at = "close" /\ pc'[l].fd = x
      /\ io_events'[l] = io_events[l] \ {x} /\ watched'[l] = watched[l] \ {x}
      /\ \A k \in Loops \ {l} : UNCHANGED <<io_events[k], watched[k], queue[k], pc[k]>>
  BY <1>1, <1>3, <1>p DEF TypeOK
<1>5. Handled(l) = {} /\ Handled(l)' = {x}
  BY <1>1, <1>4, InHandsIs
<1>6. Queued(l)' = Queued(l) /\ Has(l)' = Has(l) /\ x \in Has(l)
  BY <1>1, <1>4, <1>5 DEF Queued, Has
<1>7. LoopRight(l)'
  <2>1. Pointed(x, l)
    BY <1>1, <1>r DEF LoopRight
  <2>2. \A fd \in io_events'[l] : Pointed(fd, l)'
    BY <1>1, <1>4, <1>r DEF LoopRight, Pointed
  <2>3. Pointed(pc[l].fd, l)'
    BY <1>1, <1>4, <2>1 DEF Pointed
  <2>. QED
    BY <1>1, <1>4, <1>5, <1>6, <1>r, <2>2, <2>3 DEF LoopRight
<1>8. \A k \in Loops \ {l} : ~Busy(k, x)
  <2>1. SUFFICES ASSUME NEW k \in Loops \ {l}, Busy(k, x) PROVE FALSE
    OBVIOUS
  <2>2. pc[k].at = "forget" /\ pc[k].fd = x
    BY <1>1, <1>6, <2>1, InHandsAlone
  <2>. QED
    BY <1>1, <2>2 DEF Sound, Forgets, Busy
<1>9. \A k \in Loops' : Forgets(k)'
  <2>1. \A k \in Loops : pc'[k].at = "forget" => /\ pc[k].at = "forget" /\ pc'[k].fd = pc[k].fd
                                                 /\ io_events'[k] \subseteq io_events[k]
    BY <1>4
  <2>2. \A k \in Loops : \A fd : Busy(k, fd)' => Busy(k, fd)
    BY <1>1, <1>4 DEF Busy
  <2>. QED
    BY <2>1, <2>2, ForgetsKept DEF Sound
<1>10. Counting'
  <2>1. Cardinality(Registrations') = Cardinality(Registrations) - 1
    BY <1>1, <1>4, Unregistered
  <2>2. Cardinality(Unregistering') = Cardinality(Unregistering) - 1
    BY <1>1, <1>4, HasUnregistered
  <2>. QED
    BY <1>1, <2>1, <2>2, Countable DEF Sound, Counting, TypeOK
<1>. QED
  BY <1>1, <1>4, <1>6, <1>7, <1>8, <1>9, <1>10, MovedSound

\* close: the descriptor is free, and nobody but this loop has its object.
LEMMA CleanCloseSound ==
    ASSUME TypeOK, Sound, UNCHANGED config, NEW l \in Loops, CleanClose(l)
    PROVE  Sound'
<1>x. PICK x : x = pc[l].fd
  OBVIOUS
<1>r. LoopRight(l)
  BY DEF Sound
<1>1. /\ UNCHANGED <<m_reservfd, m_curr_conns, phase, m_connections_pool, io_events, queue,
                     acceptor>>
      /\ pc[l].at = "close" /\ x \in Fds
  BY <1>x DEF CleanClose, At, TypeOK
<1>2. Obj(l).m_connection_fd = x
  BY <1>x, <1>1, <1>r DEF LoopRight, Pointed, Obj
<1>0. /\ Loops' = Loops /\ Fds' = Fds /\ Conns' = Conns
      /\ Free \notin Conns /\ NoFd \notin Fds /\ Loops' = Loops
  BY SameConfig, ConfigFacts DEF TypeOK
<1>3. /\ files' = [files EXCEPT ![x] = Free]
      /\ watched' = [k \in Loops |-> watched[k] \ {x}]
  BY <1>0, <1>1, <1>2 DEF CleanClose, CloseFd
<1>p. pc' = [pc EXCEPT ![l] = [at |-> "forget", fd |-> x]]
  BY <1>x, GoesAt DEF CleanClose, Places
<1>5. Handled(l) = {x} /\ x \in Has(l)
  BY <1>x, <1>1, InHandsIs DEF Has
<1>6. \A k \in Loops : x \notin io_events[k]
  <2>1. x \notin io_events[l]
    BY <1>5, <1>r DEF LoopRight
  <2>2. \A k \in Loops \ {l} : x \notin io_events[k]
    BY <1>5 DEF Sound, Apart, Has
  <2>. QED
    BY <2>1, <2>2
<1>7. watched' = watched
  <2>1. \A k \in Loops : watched[k] \ {x} = watched[k]
    BY <1>6 DEF Sound, LoopRight
  <2>2. watched' = [k \in Loops |-> watched[k]]
    BY <1>3, <2>1
  <2>. QED
    BY <2>2 DEF TypeOK
<1>4. /\ pc'[l].at = "forget" /\ pc'[l].fd = x
      /\ \A k \in Loops \ {l} : UNCHANGED <<io_events[k], watched[k], queue[k], pc[k]>>
  BY <1>1, <1>7, <1>p DEF TypeOK
<1>8. Handled(l)' = {} /\ Queued(l)' = Queued(l)
  BY <1>1, <1>4, InHandsIs DEF Queued
<1>9. Has(l)' = Has(l) \ {x}
  <2>1. x \notin Queued(l)
    BY <1>5, <1>r DEF LoopRight
  <2>. QED
    BY <1>1, <1>5, <1>6, <1>8, <2>1 DEF Has
<1>10. LoopRight(l)'
  <2>1. \A fd \in io_events'[l] : Pointed(fd, l)'
    BY <1>1, <1>r DEF LoopRight, Pointed
  <2>. QED
    BY <1>1, <1>4, <1>7, <1>8, <1>r, <2>1 DEF LoopRight
<1>11. \A k \in Loops' : LoopRight(k)'
  <2>1. \A k \in Loops : LoopRight(k)
    BY DEF Sound
  <2>2. \A k \in Loops \ {l} : LoopRight(k)'
    BY <1>1, <1>4, <2>1, RightKept
  <2>. QED
    BY <1>0, <1>10, <2>2
<1>12. ~IsConn(x)' /\ \A fd \in Fds \ {x} : IsConn(fd)' <=> IsConn(fd)
  BY <1>0, <1>1, <1>3 DEF IsConn, TypeOK
<1>13. Apart' /\ Covered'
  <2>1. \A k \in Loops \ {l} : Has(k)' = Has(k)
    BY <1>4, SameHas
  <2>. QED
    BY <1>5, <1>9, <1>12, <2>1, OwnersShrunk DEF Sound
<1>14. Reserved'
  <2>1. IsConn(x)
    BY <1>1, <1>5 DEF Sound, Covered
  <2>2. CASE phase = "stopped"
    BY <1>1, <2>2 DEF Reserved
  <2>3. CASE phase # "stopped"
    <3>1. Reserved /\ m_reservfd # x /\ m_reservfd \in Fds
      BY <2>1, <2>3 DEF Sound, Reserved, TypeOK
    <3>2. files'[m_reservfd] = files[m_reservfd]
      BY <1>3, <3>1 DEF TypeOK
    <3>. QED
      BY <1>0, <1>1, <3>1, <3>2 DEF Reserved, IsConn
  <2>. QED
    BY <2>2, <2>3
<1>15. \A k \in Loops \ {l} : ~Busy(k, x)
  <2>1. SUFFICES ASSUME NEW k \in Loops \ {l}, Busy(k, x) PROVE FALSE
    OBVIOUS
  <2>2. pc[k].at = "forget" /\ pc[k].fd = x
    BY <1>1, <1>5, <2>1, InHandsAlone
  <2>3. Busy(l, x)
    BY <1>x, <1>1 DEF Busy
  <2>. QED
    BY <2>2, <2>3 DEF Sound, Forgets
<1>16. \A k \in Loops' : Forgets(k)'
  <2>1. SUFFICES ASSUME NEW k \in Loops PROVE Forgets(k)'
    BY <1>0
  <2>b. ASSUME NEW j \in Loops, NEW fd PROVE Busy(j, fd)' => Busy(j, fd)
    BY <1>x, <1>1, <1>4 DEF Busy
  <2>2. CASE k = l
    <3>1. \A j \in Loops \ {l} : ~Busy(j, x)'
      BY <1>15, <2>b
    <3>. QED
      BY <1>0, <1>1, <1>4, <1>6, <2>2, <3>1 DEF Forgets, Busy
  <2>3. CASE k # l
    <3>1. UNCHANGED <<pc[k], io_events[k]>> /\ Forgets(k)
      BY <1>4, <2>3 DEF Sound
    <3>2. ASSUME NEW fd, fd = pc[k].fd, pc[k].at = "forget"
          PROVE  fd \notin io_events'[k] /\ \A j \in Loops \ {k} : ~Busy(j, fd)'
      BY <2>b, <3>1, <3>2 DEF Forgets
    <3>. QED
      BY <1>0, <3>1, <3>2 DEF Forgets, Busy
  <2>. QED
    BY <2>2, <2>3
<1>17. Counting'
  <2>1. \A k \in Loops : pc'[k].at = "unregister" <=> pc[k].at = "unregister"
    BY <1>1, <1>4
  <2>. QED
    BY <1>1, <2>1, CountKept DEF Sound
<1>. QED
  BY <1>11, <1>13, <1>14, <1>16, <1>17 DEF Sound

\* m_connection_fd = -1, in an object nobody else uses.
LEMMA CleanForgetSound ==
    ASSUME TypeOK, Sound, UNCHANGED config, NEW l \in Loops, CleanForget(l)
    PROVE  Sound'
<1>x. PICK x : x = pc[l].fd
  OBVIOUS
<1>r. LoopRight(l) /\ Forgets(l)
  BY DEF Sound
<1>1. /\ UNCHANGED <<files, m_reservfd, m_curr_conns, phase, io_events, watched, queue, acceptor>>
      /\ pc[l].at = "forget" /\ x \in Fds
      /\ pc' = [pc EXCEPT ![l] = Idle]
      /\ m_connections_pool' = [m_connections_pool EXCEPT ![x].m_connection_fd = NoFd]
  BY <1>x DEF CleanForget, At, TypeOK
<1>2. \A fd \in Fds \ {x} : m_connections_pool'[fd] = m_connections_pool[fd]
  BY <1>1 DEF TypeOK
<1>3. x \notin io_events[l] /\ \A k \in Loops \ {l} : ~Busy(k, x)
  BY <1>x, <1>1, <1>r DEF Forgets
<1>4. /\ pc'[l].at = "idle"
      /\ \A k \in Loops \ {l} : UNCHANGED <<io_events[k], watched[k], queue[k], pc[k]>>
  BY <1>1 DEF TypeOK, Idle
<1>5. Handled(l) = {} /\ Handled(l)' = {}
  BY <1>1, <1>4, InHandsIs
<1>6. Queued(l)' = Queued(l) /\ Has(l)' = Has(l)
  BY <1>1, <1>5 DEF Queued, Has
<1>7. LoopRight(l)'
  <2>1. io_events[l] \subseteq Fds
    BY DEF TypeOK
  <2>2. \A fd \in io_events'[l] : Pointed(fd, l)'
    BY <1>1, <1>2, <1>3, <1>r, <2>1 DEF LoopRight, Pointed
  <2>. QED
    BY <1>1, <1>4, <1>5, <1>6, <1>r, <2>2 DEF LoopRight
<1>8. \A k \in Loops' : Forgets(k)'
  <2>1. \A k \in Loops : pc'[k].at = "forget" => pc[k].at = "forget" /\ pc'[k].fd = pc[k].fd
    BY <1>4
  <2>2. \A k \in Loops : \A fd : Busy(k, fd)' => Busy(k, fd)
    BY <1>1, <1>4 DEF Busy
  <2>. QED
    BY <1>1, <2>1, <2>2, ForgetsKept DEF Sound
<1>9. Counting'
  <2>1. \A k \in Loops : pc'[k].at = "unregister" <=> pc[k].at = "unregister"
    BY <1>1, <1>4
  <2>. QED
    BY <1>1, <2>1, CountKept DEF Sound
<1>. QED
  BY <1>1, <1>2, <1>3, <1>4, <1>6, <1>7, <1>8, <1>9, MovedSound

\* A connection accepted goes to the end of a thread's queue, or into the hands
\* of the server's loop.
LEMMA AcceptDispatchSound ==
    ASSUME TypeOK, Sound, Undisturbed', UNCHANGED config, AcceptDispatch
    PROVE  Sound'
<1>0. /\ Loops' = Loops /\ Fds' = Fds /\ Conns' = Conns /\ Threads \subseteq Loops
      /\ Free \notin Conns /\ Reserve \notin Conns /\ Reserve # Free
      /\ (Threads = {} => Self \in Loops)
  BY SameConfig, ConfigFacts DEF TypeOK, Reserve, Free
<1>1. PICK new : new = connfd
  OBVIOUS
<1>2. /\ new \in Fds /\ files[new] = Free
      /\ Head(backlog) \in Conns
      /\ files' = [files EXCEPT ![new] = Head(backlog)]
      /\ UNCHANGED <<m_reservfd, m_curr_conns, phase, m_connections_pool, io_events, watched,
                     acceptor>>
  BY <1>1, LowestFree DEF AcceptDispatch, Accepted, TypeOK
<1>3. ~IsConn(new) /\ IsConn(new)' /\ \A fd \in Fds \ {new} : IsConn(fd)' <=> IsConn(fd)
  BY <1>0, <1>2 DEF IsConn, TypeOK
<1>4. PICK l \in Loops :
         \/ queue' = [queue EXCEPT ![l] = Append(@, new)] /\ UNCHANGED pc
         \/ pc' = [pc EXCEPT ![l] = [at |-> "activate", fd |-> new]] /\ UNCHANGED queue
            /\ pc[l] = Idle
  BY <1>0, <1>1 DEF AcceptDispatch, Undisturbed, Accepted, Accepting
<1>r. LoopRight(l)
  BY DEF Sound
<1>5. \A k \in Loops : new \notin Has(k)
  BY <1>2, <1>3 DEF Sound, Covered
<1>6. \A k \in Loops \ {l} : UNCHANGED <<io_events[k], watched[k], queue[k], pc[k]>>
  BY <1>2, <1>4 DEF TypeOK
<1>7. /\ Has(l)' = Has(l) \cup {new} /\ LoopRight(l)'
      /\ \A k \in Loops : pc'[k].at \in {"register", "unregister", "close", "forget"}
                            => pc'[k] = pc[k]
      /\ \A k \in Loops : pc'[k].at = "unregister" <=> pc[k].at = "unregister"
  <2>1. \A fd \in io_events'[l] : Pointed(fd, l)'
    BY <1>2, <1>r DEF LoopRight, Pointed
  <2>2. CASE queue' = [queue EXCEPT ![l] = Append(@, new)] /\ UNCHANGED pc
    <3>1. new \notin Queued(l) /\ new \notin io_events[l] /\ new \notin Handled(l)
      BY <1>5 DEF Has
    <3>2. queue'[l] = Append(queue[l], new) /\ queue[l] \in Seq(Fds)
      BY <2>2 DEF TypeOK
    <3>3. \A i, j \in DOMAIN queue[l] : queue[l][i] = queue[l][j] => i = j
      BY <1>r DEF LoopRight
    <3>4. new \notin {queue[l][i] : i \in DOMAIN queue[l]}
      BY <3>1 DEF Queued
    <3>5. LET p == Append(queue[l], new)
          IN  /\ {p[i] : i \in DOMAIN p} = {queue[l][i] : i \in DOMAIN queue[l]} \cup {new}
              /\ \A i, j \in DOMAIN p : p[i] = p[j] => i = j
      BY <1>2, <3>2, <3>3, <3>4, AppendElements
    <3>6. Queued(l)' = Queued(l) \cup {new}
      BY <3>2, <3>5, Zenon DEF Queued
    <3>7. \A i, j \in DOMAIN queue'[l] : queue'[l][i] = queue'[l][j] => i = j
      BY <3>2, <3>5, Zenon
    <3>8. Handled(l)' = Handled(l)
      BY <1>0, <2>2 DEF Handled, InHands
    <3>9. Has(l)' = Has(l) \cup {new}
      BY <1>2, <3>6, <3>8 DEF Has
    <3>10. pc[l].at \in {"register", "unregister", "close"} => Pointed(pc[l].fd, l)'
      BY <1>2, <1>r, <2>2 DEF LoopRight, Pointed
    <3>11. LoopRight(l)'
      BY <1>2, <1>r, <2>1, <2>2, <3>1, <3>6, <3>7, <3>8, <3>10 DEF LoopRight
    <3>. QED
      BY <2>2, <3>9, <3>11
  <2>3. CASE /\ pc' = [pc EXCEPT ![l] = [at |-> "activate", fd |-> new]] /\ UNCHANGED queue
             /\ pc[l] = Idle
    <3>1. new \notin Queued(l) /\ new \notin io_events[l]
      BY <1>5 DEF Has
    <3>2. /\ pc[l].at = "idle" /\ pc'[l].at = "activate" /\ pc'[l].fd = new
          /\ \A k \in Loops \ {l} : pc'[k] = pc[k]
      BY <2>3 DEF TypeOK, Idle
    <3>3. Handled(l) = {} /\ Handled(l)' = {new}
      BY <1>2, <3>2, InHandsIs
    <3>4. Queued(l)' = Queued(l)
      BY <2>3 DEF Queued
    <3>5. Has(l)' = Has(l) \cup {new}
      BY <1>2, <3>3, <3>4 DEF Has
    <3>6. LoopRight(l)'
      BY <1>2, <1>r, <2>1, <2>3, <3>1, <3>2, <3>3, <3>4 DEF LoopRight
    <3>. QED
      BY <3>2, <3>5, <3>6
  <2>. QED
    BY <1>4, <2>2, <2>3
<1>8. \A k \in Loops' : LoopRight(k)'
  <2>1. \A k \in Loops : LoopRight(k)
    BY DEF Sound
  <2>2. \A k \in Loops \ {l} : LoopRight(k)'
    BY <1>2, <1>6, <2>1, RightKept
  <2>. QED
    BY <1>0, <1>7, <2>2
<1>9. Apart' /\ Covered'
  <2>1. \A k \in Loops \ {l} : Has(k)' = Has(k)
    BY <1>6, SameHas
  <2>. QED
    BY <1>2, <1>3, <1>7, <2>1, OwnersGrown DEF Sound
<1>10. Reserved'
  <2>1. CASE phase = "stopped"
    BY <1>2, <2>1 DEF Reserved
  <2>2. CASE phase # "stopped"
    <3>1. ~acceptor.conn_full /\ Reserved
      BY DEF AcceptDispatch, Sound
    <3>2. files[m_reservfd] = Reserve /\ m_reservfd \in Fds /\ m_reservfd # new
      BY <1>0, <1>2, <2>2, <3>1 DEF Reserved, TypeOK
    <3>3. files'[m_reservfd] = Reserve
      BY <1>2, <3>2 DEF TypeOK
    <3>. QED
      BY <1>0, <1>2, <3>1, <3>3 DEF Reserved, IsConn
  <2>. QED
    BY <2>1, <2>2
<1>11. \A k \in Loops' : Forgets(k)'
  <2>1. \A k \in Loops : pc'[k].at = "forget" =>
            /\ pc[k].at = "forget" /\ pc'[k].fd = pc[k].fd
            /\ io_events'[k] \subseteq io_events[k]
    BY <1>2, <1>7
  <2>2. \A k \in Loops : \A fd : Busy(k, fd)' => Busy(k, fd)
    BY <1>2, <1>7 DEF Busy
  <2>. QED
    BY <2>1, <2>2, ForgetsKept DEF Sound
<1>12. Counting'
  BY <1>2, <1>7, CountKept DEF Sound
<1>. QED
  BY <1>8, <1>9, <1>10, <1>11, <1>12 DEF Sound

-----------------------------------------------------------------------------
(* The invariant *)

\* Nothing is accepted or registered before startLoop.
LEMMA InitSound == Init => Sound
<1> SUFFICES ASSUME Init PROVE Sound
  OBVIOUS
<1>0. /\ 0 \in Fds /\ Free \notin Conns /\ Reserve \notin Conns /\ Free # Reserve
  BY ConfigFacts DEF Init, Free, Reserve
<1>1. /\ \A l \in Loops : io_events[l] = {} /\ watched[l] = {} /\ queue[l] = <<>> /\ pc[l].at = "idle"
      /\ \A fd \in Fds : files[fd] \in {Free, Reserve}
      /\ files[m_reservfd] = Reserve /\ ~acceptor.conn_full /\ m_curr_conns = 0
      /\ m_reservfd \in Fds
  BY <1>0 DEF Init, Idle
<1>2. \A l \in Loops : Has(l) = {} /\ Handled(l) = {} /\ Queued(l) = {}
  BY <1>1 DEF Has, Handled, Queued, InHands
<1>3. ASSUME NEW l \in Loops PROVE LoopRight(l) /\ Forgets(l)
  <2>1. /\ io_events[l] = {} /\ watched[l] = {} /\ pc[l].at = "idle"
        /\ Handled(l) = {} /\ DOMAIN queue[l] = {}
    BY <1>1, <1>2
  <2>. QED
    BY <2>1 DEF LoopRight, Forgets
<1>4. \A fd \in Fds : ~IsConn(fd)
  BY <1>0, <1>1 DEF IsConn
<1>5. Apart /\ Covered
  BY <1>2, <1>4 DEF Apart, Covered
<1>6. Reserved
  BY <1>1, <1>4 DEF Reserved
<1>7. Counting
  <2>1. Registrations = {} /\ Unregistering = {}
    BY <1>1 DEF Registrations, Unregistering
  <2>. QED
    BY <1>1, <2>1, FS_EmptySet DEF Counting
<1>. QED
  BY <1>3, <1>5, <1>6, <1>7 DEF Sound

\* Every step of the server, its loops and its clients keeps Sound.
LEMMA NextSound ==
    ASSUME TypeOK, Sound, [Next]_vars, Undisturbed'
    PROVE  Sound'
<1>0. UNCHANGED config
  BY NextType
<1>1. CASE UNCHANGED vars
  BY <1>0, <1>1, ReadSound
<1>2. CASE \/ StartLoop \/ Stop \/ \E l \in Loops : ThreadDomain(l)
           \/ DoAccept \/ AcceptEMFILE \/ AcceptEAGAIN \/ AcceptDrop \/ AcceptRefuse
  BY <1>0, <1>2, ServerSound
<1>3. CASE AcceptDispatch
  BY <1>0, <1>3, AcceptDispatchSound
<1>4. ASSUME NEW l \in Loops, LoopStep(l) PROVE Sound'
  <2>1. CASE OnMsgComing(l) \/ Activate(l) \/ Register(l)
    BY <1>0, <2>1, OnMsgComingSound, ActivateSound, RegisterSound
  <2>2. CASE \E fd \in Fds : HandleRead(l, fd)
    BY <1>0, <2>2, ReadSound
  <2>3. CASE \E fd \in Fds : HandleReadCleans(l, fd)
    BY <1>0, <2>3, HandleReadCleansSound
  <2>4. CASE CleanUnregister(l) \/ CleanClose(l) \/ CleanForget(l)
    BY <1>0, <2>4, CleanUnregisterSound, CleanCloseSound, CleanForgetSound
  <2>. QED
    BY <1>4, <2>1, <2>2, <2>3, <2>4 DEF LoopStep
<1>5. CASE \E k \in Conns : Connects(k) \/ ClientActs(k)
  BY <1>0, <1>5, ReadSound
<1>. QED
  BY <1>1, <1>2, <1>3, <1>4, <1>5 DEF Next, AcceptStep

\* A server without a pool has no queue, and no other thread to reuse descriptors.
LEMMA NextUnpooled ==
    ASSUME TypeOK, Unpooled, [Next]_vars
    PROVE  Unpooled'
<1>0. UNCHANGED config /\ Loops' = Loops
  BY NextType, SameConfig
<1>1. SUFFICES ASSUME Self \in Loops PROVE queue'[Self] = <<>> /\ ~reused'
  BY <1>0 DEF Unpooled, Self
<1>2. Threads = {} /\ Loops = {Self} /\ queue[Self] = <<>> /\ ~reused
  BY <1>1, ConfigFacts DEF TypeOK, Unpooled, Loops
<1>3. CASE UNCHANGED <<queue, reused>>
  BY <1>2, <1>3
<1>4. CASE AcceptDispatch
  BY <1>2, <1>4 DEF AcceptDispatch
<1>5. ASSUME NEW l \in Loops, Activate(l) PROVE queue'[Self] = <<>> /\ ~reused'
  <2>1. Loops \ {l} = {}
    BY <1>2
  <2>2. ~(\E k \in Loops \ {l} : pc[k] = [at |-> "forget", fd |-> pc[l].fd])
    BY <2>1
  <2>3. ~reused'
    BY <1>2, <1>5, <2>2, Zenon DEF Activate
  <2>. QED
    BY <1>2, <1>5, <2>3 DEF Activate
<1>6. ASSUME NEW l \in Loops, LoopStep(l) PROVE queue'[Self] = <<>> /\ ~reused'
  <2>1. CASE OnMsgComing(l)
    BY <1>2, <2>1 DEF OnMsgComing
  <2>2. CASE Register(l) \/ CleanUnregister(l) \/ CleanClose(l) \/ CleanForget(l)
    BY <1>3, <2>2 DEF Register, CleanUnregister, CleanClose, CleanForget
  <2>3. CASE \E fd \in Fds : HandleRead(l, fd) \/ HandleReadCleans(l, fd)
    BY <1>3, <2>3 DEF HandleRead, HandleReadCleans
  <2>. QED
    BY <1>5, <1>6, <2>1, <2>2, <2>3 DEF LoopStep
<1>7. CASE \/ StartLoop \/ Stop \/ \E l \in Loops : ThreadDomain(l)
           \/ DoAccept \/ AcceptEMFILE \/ AcceptEAGAIN \/ AcceptDrop \/ AcceptRefuse
  BY <1>3, <1>7 DEF StartLoop, Stop, ThreadDomain, DoAccept, AcceptEMFILE, AcceptEAGAIN,
                    AcceptDrop, AcceptRefuse
<1>8. CASE \E k \in Conns : Connects(k) \/ ClientActs(k)
  BY <1>3, <1>8 DEF Connects, ClientActs
<1>. QED
  BY <1>3, <1>4, <1>6, <1>7, <1>8 DEF Next, AcceptStep, vars

\* The invariant holds in every state.
LEMMA SpecIInv == Spec => []IInv
<1>1. Init => IInv
  BY InitType, InitSound DEF IInv
<1>2. IInv /\ [Next]_vars => IInv'
  <2> SUFFICES ASSUME IInv, [Next]_vars PROVE IInv'
    OBVIOUS
  <2>1. TypeOK' /\ Unpooled'
    BY NextType, NextUnpooled DEF IInv
  <2>2. ASSUME Undisturbed' PROVE Sound'
    BY <2>2, DisturbedStays, NextSound DEF IInv
  <2>. QED
    BY <2>1, <2>2 DEF IInv
<1>. QED
  BY <1>1, <1>2, PTL DEF Spec

-----------------------------------------------------------------------------
(* What it means *)

\* An open connection has one owner.
LEMMA OneHasIt ==
    ASSUME TypeOK, Sound, NEW fd \in OpenConns
    PROVE  \E owner \in Owners(fd) : Owners(fd) = {owner}
<1> DEFINE Watching == {<<"registered", k, 0>> : k \in {j \in Loops : fd \in io_events[j]}}
           Hands == {<<"hands", k, 0>> : k \in {j \in Loops : InHands(j, fd)}}
           Waiting(k) == {<<"queued", k, i>> : i \in {j \in DOMAIN queue[k] : queue[k][j] = fd}}
<1>1. fd \in Fds /\ IsConn(fd)
  BY DEF OpenConns
<1>2. PICK l \in Loops : fd \in Has(l)
  BY <1>1 DEF Sound, Covered
<1>3. \A k \in Loops \ {l} : fd \notin Has(k)
  BY <1>2 DEF Sound, Apart
<1>4. LoopRight(l)
  BY DEF Sound
<1>5. \A k \in Loops : InHands(k, fd) <=> fd \in Handled(k)
  BY <1>1 DEF Handled
<1>6. \A k \in Loops \ {l} : /\ fd \notin io_events[k] /\ ~InHands(k, fd)
                             /\ \A i \in DOMAIN queue[k] : queue[k][i] # fd
  BY <1>3, <1>5 DEF Has, Queued
<1>7. Owners(fd) = Watching \cup Hands \cup UNION {Waiting(k) : k \in Loops}
  BY DEF Owners
<1>8. CASE fd \in io_events[l]
  <2>1. ~InHands(l, fd) /\ \A i \in DOMAIN queue[l] : queue[l][i] # fd
    BY <1>4, <1>5, <1>8 DEF LoopRight, Queued
  <2>2. Watching = {<<"registered", l, 0>>}
    BY <1>6, <1>8
  <2>3. Hands = {} /\ \A k \in Loops : Waiting(k) = {}
    BY <1>6, <2>1
  <2> HIDE DEF Watching, Hands, Waiting
  <2>4. Owners(fd) = {<<"registered", l, 0>>}
    BY <1>7, <2>2, <2>3
  <2>. QED
    BY <2>4
<1>9. CASE InHands(l, fd)
  <2>1. fd \notin io_events[l] /\ \A i \in DOMAIN queue[l] : queue[l][i] # fd
    BY <1>4, <1>5, <1>9 DEF LoopRight, Queued
  <2>2. Hands = {<<"hands", l, 0>>}
    BY <1>6, <1>9
  <2>3. Watching = {} /\ \A k \in Loops : Waiting(k) = {}
    BY <1>6, <2>1
  <2> HIDE DEF Watching, Hands, Waiting
  <2>4. Owners(fd) = {<<"hands", l, 0>>}
    BY <1>7, <2>2, <2>3
  <2>. QED
    BY <2>4
<1>10. CASE fd \in Queued(l)
  <2>1. fd \notin io_events[l] /\ ~InHands(l, fd)
    BY <1>4, <1>5, <1>10 DEF LoopRight
  <2>2. PICK i \in DOMAIN queue[l] : queue[l][i] = fd
    BY <1>10 DEF Queued
  <2>3. \A j \in DOMAIN queue[l] : queue[l][j] = fd => j = i
    BY <1>4, <2>2 DEF LoopRight
  <2>4. Watching = {} /\ Hands = {} /\ \A k \in Loops \ {l} : Waiting(k) = {}
    BY <1>6, <2>1
  <2>5. Waiting(l) = {<<"queued", l, i>>}
    BY <2>2, <2>3
  <2> HIDE DEF Watching, Hands, Waiting
  <2>6. Owners(fd) = {<<"queued", l, i>>}
    BY <1>7, <2>4, <2>5
  <2>. QED
    BY <2>6
<1>. QED
  BY <1>2, <1>5, <1>8, <1>9, <1>10 DEF Has

\* Until a descriptor is reused too early or the reserve is lost, what a loop
\* watches is the connection it was registered for, the count is that of the
\* registered connections, and an open connection has one owner.
THEOREM ConnectionsAccounted == Spec => []Accounted
<1>1. ASSUME IInv PROVE Accounted
  <2> USE <1>1
  <2>1. RegistrationsLive
    <3>1. SUFFICES ASSUME Undisturbed, NEW l \in Loops
                   PROVE  /\ io_events[l] = watched[l]
                          /\ \A fd \in io_events[l] :
                                /\ IsConn(fd)
                                /\ m_connections_pool[fd] = [m_connection_fd |-> fd, m_loop |-> l]
      BY DEF RegistrationsLive
    <3>2. TypeOK /\ Sound /\ LoopRight(l)
      BY <3>1 DEF IInv, Sound
    <3>3. ASSUME NEW fd \in io_events[l]
          PROVE  /\ IsConn(fd)
                 /\ m_connections_pool[fd] = [m_connection_fd |-> fd, m_loop |-> l]
      <4>1. fd \in Fds /\ fd \in Has(l)
        BY <3>2 DEF TypeOK, Has
      <4>2. IsConn(fd)
        BY <3>2, <4>1 DEF Sound, Covered
      <4>3. m_connections_pool[fd].m_connection_fd = fd /\ m_connections_pool[fd].m_loop = l
        BY <3>2 DEF LoopRight, Pointed
      <4>4. m_connections_pool[fd] \in [m_connection_fd : Fds \cup {NoFd}, m_loop : Loops \cup {-1}]
        BY <3>2, <4>1 DEF TypeOK
      <4>5. m_connections_pool[fd] = [m_connection_fd |-> fd, m_loop |-> l]
        BY <4>3, <4>4
      <4>. QED
        BY <4>2, <4>5
    <3>. QED
      BY <3>2, <3>3 DEF LoopRight
  <2>2. CountExact
    BY DEF IInv, Sound, Counting, Unregistering, CountExact
  <2>3. OneOwner
    BY OneHasIt DEF IInv, OneOwner
  <2>. QED
    BY <2>1, <2>2, <2>3 DEF Accounted
<1>. QED
  BY <1>1, SpecIInv, PTL

\* Without a pool, and while doAccept has its reserve descriptor, a connection
\* is refused only when max_connections are open.
THEOREM RefusedWhenFull == Spec => RefusedOnlyWhenFull
<1>1. ASSUME IInv, AcceptRefuse, Threads = {}, ~lost
      PROVE  Cardinality(OpenConns) >= max_connections
  <2>0. TypeOK /\ Loops = {Self} /\ max_connections \in Nat /\ m_curr_conns \in Int
    BY <1>1, ConfigFacts DEF IInv, TypeOK, Loops
  <2>1. Sound /\ queue[Self] = <<>> /\ pc[Self] = Idle
    BY <1>1, <2>0 DEF AcceptRefuse, Accepted, Accepting, Alive, IInv, Unpooled, Undisturbed
  <2>2. Has(Self) = io_events[Self]
    <3>1. Queued(Self) = {}
      BY <2>1 DEF Queued
    <3>2. Handled(Self) = {}
      BY <2>1 DEF Handled, InHands, Idle
    <3>. QED
      BY <3>1, <3>2 DEF Has
  <2>3. OpenConns = io_events[Self]
    <3>1. \A fd \in Fds : IsConn(fd) <=> fd \in io_events[Self]
      BY <2>0, <2>1, <2>2 DEF Sound, Covered
    <3>2. io_events[Self] \subseteq Fds
      BY <2>0 DEF TypeOK
    <3>. QED
      BY <3>1, <3>2 DEF OpenConns
  <2>4. Registrations = {Self} \X OpenConns
    <3>1. OpenConns \subseteq Fds
      BY DEF OpenConns
    <3>. QED
      BY <2>0, <2>3, <3>1 DEF Registrations
  <2>5. IsFiniteSet(OpenConns) /\ Cardinality(OpenConns) \in Nat
    <3>1. IsFiniteSet(Fds) /\ OpenConns \in SUBSET Fds
      BY <2>0, ConfigFacts DEF OpenConns, TypeOK
    <3>2. IsFiniteSet(OpenConns)
      BY <3>1, FS_Subset
    <3>. QED
      BY <3>2, FS_CardinalityType
  <2>6. Cardinality(Registrations) = Cardinality(OpenConns)
    <3>1. IsFiniteSet({Self}) /\ Cardinality({Self}) = 1
      BY FS_Singleton
    <3>2. Cardinality({Self} \X OpenConns) = 1 * Cardinality(OpenConns)
      BY <2>5, <3>1, FS_Product
    <3>. QED
      BY <2>4, <2>5, <3>2
  <2>7. Cardinality(Unregistering) = 0
    <3>1. Unregistering = {}
      BY <2>0, <2>1 DEF Unregistering, Idle
    <3>. QED
      BY <3>1, FS_EmptySet
  <2>8. m_curr_conns = Cardinality(OpenConns)
    BY <2>0, <2>1, <2>5, <2>6, <2>7 DEF Sound, Counting
  <2>. QED
    BY <1>1, <2>0, <2>5, <2>8 DEF AcceptRefuse, Full
<1>2. IInv => [AcceptRefuse /\ Threads = {} /\ ~lost => Cardinality(OpenConns) >= max_connections]_vars
  BY <1>1
<1>. QED
  BY <1>2, SpecIInv, PTL DEF RefusedOnlyWhenFull

=============================================================================
