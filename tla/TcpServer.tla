----------------------------- MODULE TcpServer -----------------------------
(***************************************************************************)
(* TcpServer.cpp with the life of its TcpConnections: accepting, the       *)
(* connection count and its limit, the reserve descriptor for EMFILE, the  *)
(* pool of connection objects indexed by descriptor, and the loops that    *)
(* serve the connections: the server's own loop when thread_num is 0, the  *)
(* loops of the ThreadPool otherwise.  The pool's queues are those of      *)
(* ThreadQueue, here a sequence per loop; which loop is next is left open. *)
(*                                                                         *)
(* What the threads share is the process' descriptor table, m_curr_conns   *)
(* and the connection objects.  Each action is the code between two        *)
(* accesses to those that another thread could come between; the reads of  *)
(* the count and the log calls next to an access commute with the others'  *)
(* steps and stay in its action.                                           *)
(*                                                                         *)
(* Descriptors are counted from the one the constructor got for            *)
(* m_reservfd, 0; what it had open before is not in the table.             *)
(***************************************************************************)
EXTENDS Integers, Sequences, FiniteSets, FiniteSetsExt

CONSTANTS
    Configs,         \* the servers: see Config
    MinCount         \* bound: the lowest m_curr_conns, in absolute value

(***************************************************************************)
(* A server: the ThreadPool's threads, none if thread_num = 0; the field   *)
(* max_connections of m_server_params; the descriptors RLIMIT_NOFILE       *)
(* leaves it, the reserve included; what its clients do; and a bound, the  *)
(* number of connections made to it.                                       *)
(***************************************************************************)
IsConfig(c) ==
    /\ c.max_connections \in Nat /\ c.clients \in Nat
    /\ c.inputs \subseteq {"message", "malformed", "closed"}
    /\ IsFiniteSet(c.threads) /\ 0 \notin c.threads
    /\ c.nfds \in Nat /\ c.nfds > 3 * Cardinality(c.threads)

ASSUME ServerAssumption == MinCount \in Nat /\ \A c \in Configs : IsConfig(c)

VARIABLES
    config,       \* the server, one of Configs
    files,        \* the descriptor table
    backlog,      \* connections the kernel holds for accept
    input,        \* per connection, what its socket has to read
    m_reservfd, m_curr_conns,
    phase,        \* m_running, which is false before startLoop and after stop
    m_connections_pool,  \* the TcpConnection made for each descriptor
    io_events,    \* per loop, the descriptors in m_io_events
    watched,      \* per loop, the descriptors in the kernel's epoll set
    queue,        \* per loop, NEW_CONN messages
    acceptor,     \* doAccept: where it is, and its local conn_full
    pc,           \* per loop, the function it is in, and for which object
    started,      \* threads that created their loop
    aborted,      \* what ended the process
    lost,         \* history: doAccept returned without the reserve descriptor
    reused        \* history: a descriptor was activated while another thread
                  \* was between closing it and setting m_connection_fd to -1

vars == <<config, files, backlog, input, m_reservfd, m_curr_conns, phase, m_connections_pool,
          io_events, watched, queue, acceptor, pc, started, aborted, lost, reused>>

Threads == config.threads
max_connections == config.max_connections
NFds == config.nfds
Inputs == config.inputs
Clients == config.clients

Self == 0                                  \* the server's own loop
Loops == IF Threads = {} THEN {Self} ELSE Threads
Fds == 0..(NFds - 1)
Free == 0  Reserve == -1  ThreadFile == -2 \* in files, next to the connections
Conns == 1..Clients
NoFd == -1
NoObject == [m_connection_fd |-> NoFd, m_loop |-> -1]

m_conns_size == max_connections + 1        \* next_fd is 1

FreeFds == {fd \in Fds : files[fd] = Free}
IsConn(fd) == files[fd] \in Conns
OpenConns == {fd \in Fds : IsConn(fd)}
Idle == [at |-> "idle", fd |-> NoFd]

\* ::close(fd): the kernel also takes the file out of the epoll sets.
CloseFd(fd) ==
    /\ files' = IF fd = NoFd THEN files ELSE [files EXCEPT ![fd] = Free]
    /\ watched' = [l \in Loops |-> watched[l] \ {fd}]

\* mutant: never counted down
decConnectionNot == m_curr_conns > -MinCount /\ UNCHANGED m_curr_conns

incConnection == m_curr_conns' = m_curr_conns + 1
decConnection == m_curr_conns > -MinCount /\ m_curr_conns' = m_curr_conns - 1

\* n files more, in the lowest free descriptors.
FilesOpened(n, file) ==
    [fd \in Fds |-> IF fd \in FreeFds /\ Cardinality({g \in FreeFds : g < fd}) < n
                    THEN file ELSE files[fd]]

Init ==
    /\ config \in Configs
    /\ files = [fd \in Fds |-> IF fd = 0 THEN Reserve ELSE Free]
    /\ backlog = <<>>
    /\ input = [k \in Conns |-> "new"]
    /\ m_reservfd = 0 /\ m_curr_conns = 0 /\ phase = "constructed"
    /\ m_connections_pool = [fd \in Fds |-> NoObject]
    /\ io_events = [l \in Loops |-> {}]
    /\ watched = [l \in Loops |-> {}]
    /\ queue = [l \in Loops |-> <<>>]
    /\ acceptor = [pc |-> "idle", conn_full |-> FALSE]
    /\ pc = [l \in Loops |-> Idle]
    /\ started = {}
    /\ aborted = "no" /\ lost = FALSE /\ reused = FALSE

-----------------------------------------------------------------------------
(* Starting and stopping *)

\* startLoop: the ThreadPool's constructor opens an eventfd per thread.
StartLoop ==
    /\ phase = "constructed"
    /\ phase' = "running"
    /\ files' = FilesOpened(Cardinality(Threads), ThreadFile)
    /\ started' = started \cup ({Self} \cap Loops)
    /\ UNCHANGED <<backlog, input, m_reservfd, m_curr_conns, m_connections_pool, io_events,
                   watched, queue, acceptor, pc, aborted, lost, reused>>

\* threadDomain: a thread creates its loop, with an epoll and a timer file.
\* There are descriptors for it: the run's clients come later, or are few.
ThreadDomain(l) ==
    /\ aborted = "no" /\ phase # "constructed"
    /\ l \in Threads \ started
    /\ Cardinality(FreeFds) >= 2
    /\ started' = started \cup {l}
    /\ files' = FilesOpened(2, ThreadFile)
    /\ UNCHANGED <<backlog, input, m_reservfd, m_curr_conns, phase, m_connections_pool,
                   io_events, watched, queue, acceptor, pc, aborted, lost, reused>>

Alive == aborted = "no" /\ phase = "running"

\* The server's thread is in its event loop, with nothing going on.
SelfIdle == acceptor.pc = "idle" /\ (Self \in Loops => pc[Self] = Idle)

\* stop(), from the server's loop.  The listening socket's backlog is reset.
\* The ThreadPool's threads are detached and go on.
Stop ==
    /\ Alive /\ SelfIdle
    /\ phase' = "stopped"
    /\ CloseFd(m_reservfd)
    /\ backlog' = <<>>
    /\ UNCHANGED <<input, m_reservfd, m_curr_conns, m_connections_pool, io_events, queue,
                   acceptor, pc, started, aborted, lost, reused>>

-----------------------------------------------------------------------------
(* doAccept *)

\* The loop finds the listening socket readable and calls doAccept.
DoAccept ==
    /\ Alive /\ SelfIdle
    /\ backlog # <<>>
    /\ acceptor' = [pc |-> "accept", conn_full |-> FALSE]
    /\ UNCHANGED <<files, backlog, input, m_reservfd, m_curr_conns, phase,
                   m_connections_pool, io_events, watched, queue, pc, started, aborted,
                   lost, reused>>

\* doAccept calls accept, in its loop.
Accepting == Alive /\ acceptor.pc = "accept" /\ (Self \in Loops => pc[Self] = Idle)

\* accept returns EMFILE, which the kernel finds out before it looks for a
\* connection: the reserve descriptor is closed.
AcceptEMFILE ==
    /\ Accepting
    /\ FreeFds = {}
    /\ acceptor' = [acceptor EXCEPT !.conn_full = TRUE]
    /\ CloseFd(m_reservfd)
    /\ UNCHANGED <<backlog, input, m_reservfd, m_curr_conns, phase, m_connections_pool,
                   io_events, queue, pc, started, aborted, lost, reused>>

\* accept returns EAGAIN: doAccept returns, and conn_full is forgotten.
AcceptEAGAIN ==
    /\ Accepting
    /\ FreeFds # {} /\ backlog = <<>>
    /\ acceptor' = [pc |-> "idle", conn_full |-> FALSE]
    /\ lost' = (lost \/ acceptor.conn_full)
    /\ UNCHANGED <<files, backlog, input, m_reservfd, m_curr_conns, phase,
                   m_connections_pool, io_events, watched, queue, pc, started, aborted, reused>>

connfd == Min(FreeFds)
Accepted == Accepting /\ FreeFds # {} /\ backlog # <<>> /\ backlog' = Tail(backlog)

\* close(connfd) and the reserve file opened again, in the same descriptor.
Reopened == [files EXCEPT ![connfd] = Reserve]

\* After EMFILE: the connection is closed and the reserve descriptor opened.
AcceptDrop ==
    /\ Accepted
    /\ acceptor.conn_full
    /\ files' = Reopened
    /\ m_reservfd' = connfd
    /\ acceptor' = [acceptor EXCEPT !.conn_full = FALSE]
    /\ UNCHANGED <<input, m_curr_conns, phase, m_connections_pool, io_events, watched,
                   queue, pc, started, aborted, lost, reused>>

\* getConnectionNum returns a size_t: a negative count is a huge one.
Full == m_curr_conns < 0 \/ m_curr_conns >= max_connections

\* The connection exceeds the maximum and is closed.
AcceptRefuse ==
    /\ Accepted
    /\ ~acceptor.conn_full /\ Full
    /\ UNCHANGED <<files, input, m_reservfd, m_curr_conns, phase, m_connections_pool,
                   io_events, watched, queue, acceptor, pc, started, aborted, lost, reused>>

\* The connection is given to a thread, or activated by the server's own.
AcceptDispatch ==
    /\ Accepted
    /\ ~acceptor.conn_full /\ ~Full
    /\ files' = [files EXCEPT ![connfd] = Head(backlog)]
    /\ \/ /\ connfd >= m_conns_size
          /\ aborted' = "assert"
          /\ UNCHANGED <<queue, pc>>
       \/ /\ connfd < m_conns_size
          /\ \/ \E l \in Threads : queue' = [queue EXCEPT ![l] = Append(@, connfd)]
                                   /\ UNCHANGED pc
             \/ /\ Threads = {}
                /\ pc' = [pc EXCEPT ![Self] = [at |-> "activate", fd |-> connfd]]
                /\ UNCHANGED queue
          /\ UNCHANGED aborted
    /\ UNCHANGED <<input, m_reservfd, m_curr_conns, phase, m_connections_pool, io_events,
                   watched, acceptor, started, lost, reused>>

-----------------------------------------------------------------------------
(* A loop and its connections.  The object for a descriptor is made once,  *)
(* when none is in the pool, and used again for every later connection     *)
(* with that descriptor: it is named by it.                                *)

Working(l) == aborted = "no" /\ l \in started
Obj(l) == m_connections_pool[pc[l].fd]
At(l, where) == Working(l) /\ pc[l].at = where
Goes(l, where) == pc' = [pc EXCEPT ![l].at = where]

\* onMsgComing: the next NEW_CONN.
OnMsgComing(l) ==
    /\ At(l, "idle") /\ l # Self
    /\ queue[l] # <<>>
    /\ queue' = [queue EXCEPT ![l] = Tail(@)]
    /\ pc' = [pc EXCEPT ![l] = [at |-> "activate", fd |-> Head(queue[l])]]
    /\ UNCHANGED <<files, backlog, input, m_reservfd, m_curr_conns, phase,
                   m_connections_pool, io_events, watched, acceptor, started, aborted, lost,
                   reused>>

\* getConnectionFromPool and activate's assignments.
Activate(l) ==
    /\ At(l, "activate")
    /\ m_connections_pool' = [m_connections_pool EXCEPT
                                 ![pc[l].fd] = [m_connection_fd |-> pc[l].fd, m_loop |-> l]]
    /\ reused' = (reused \/ \E k \in Loops \ {l} : pc[k] = [at |-> "forget", fd |-> pc[l].fd])
    /\ Goes(l, "register")
    /\ UNCHANGED <<files, backlog, input, m_reservfd, m_curr_conns, phase, io_events,
                   watched, queue, acceptor, started, aborted, lost>>

\* addIoEvent of fd on loop l: EPOLL_CTL_MOD if m_io_events has it, else ADD;
\* epoll_ctl fails for no file, and for MOD of one the kernel does not have.
AddIoEvent(l, fd) ==
    IF fd = NoFd \/ (fd \in io_events[l] /\ fd \notin watched[l])
    THEN aborted' = "epoll_ctl" /\ UNCHANGED <<io_events, watched>>
    ELSE /\ io_events' = [io_events EXCEPT ![l] = @ \cup {fd}]
         /\ watched' = [watched EXCEPT ![l] = @ \cup {fd}]
         /\ UNCHANGED aborted

\* mutant: the map entry goes, the epoll set keeps the descriptor
DelIoEventHalf(l, fd) ==
    io_events' = [io_events EXCEPT ![l] = @ \ {fd}] /\ UNCHANGED watched

\* delIoEvent of fd on loop l: nothing for a descriptor it does not have.
DelIoEvent(l, fd) ==
    /\ io_events' = [io_events EXCEPT ![l] = @ \ {fd}]
    /\ watched' = [watched EXCEPT ![l] = @ \ {fd}]

\* The rest of activate: incConnection and addIoEvent.
Register(l) ==
    /\ At(l, "register")
    /\ incConnection
    /\ AddIoEvent(l, Obj(l).m_connection_fd)
    /\ pc' = [pc EXCEPT ![l] = Idle]
    /\ UNCHANGED <<files, backlog, input, m_reservfd, phase, m_connections_pool, queue,
                   acceptor, started, lost, reused>>

\* epoll reports the file in descriptor fd.
ReadReady(l, fd) == /\ At(l, "idle") /\ (l = Self => SelfIdle)
                    /\ fd \in watched[l] /\ IsConn(fd)
                    /\ input[files[fd]] # "none"

\* handleRead of a message: the user's callback is called.
HandleRead(l, fd) ==
    /\ ReadReady(l, fd)
    /\ m_connections_pool[fd].m_connection_fd # NoFd
    /\ input[files[fd]] = "message"
    /\ input' = [input EXCEPT ![files[fd]] = "none"]
    /\ UNCHANGED <<files, backlog, m_reservfd, m_curr_conns, phase, m_connections_pool,
                   io_events, watched, queue, acceptor, pc, started, aborted, lost, reused>>

\* handleRead of a closed connection, of a malformed message or with
\* descriptor -1: cleanConnection, which first calls decConnection.
HandleReadCleans(l, fd) ==
    /\ ReadReady(l, fd)
    /\ \/ m_connections_pool[fd].m_connection_fd = NoFd
       \/ input[files[fd]] \in {"malformed", "closed"}
    /\ decConnection
    /\ pc' = [pc EXCEPT ![l] = [at |-> "unregister", fd |-> fd]]
    /\ UNCHANGED <<files, backlog, input, m_reservfd, phase, m_connections_pool, io_events,
                   watched, queue, acceptor, started, aborted, lost, reused>>

\* cleanConnection: m_loop->delIoEvent(m_connection_fd), ...
CleanUnregister(l) ==
    /\ At(l, "unregister")
    /\ DelIoEvent(Obj(l).m_loop, Obj(l).m_connection_fd)
    /\ Goes(l, "close")
    /\ UNCHANGED <<files, backlog, input, m_reservfd, m_curr_conns, phase,
                   m_connections_pool, queue, acceptor, started, aborted, lost, reused>>

\* mutant: the descriptor is left open
CleanLeavesOpen(l) ==
    /\ At(l, "close")
    /\ Goes(l, "forget")
    /\ UNCHANGED <<files, backlog, input, m_reservfd, m_curr_conns, phase,
                   m_connections_pool, io_events, watched, queue, acceptor, started, aborted,
                   lost, reused>>

\* ... ::close(m_connection_fd), ...
CleanClose(l) ==
    /\ At(l, "close")
    /\ CloseFd(Obj(l).m_connection_fd)
    /\ Goes(l, "forget")
    /\ UNCHANGED <<backlog, input, m_reservfd, m_curr_conns, phase, m_connections_pool,
                   io_events, queue, acceptor, started, aborted, lost, reused>>

\* ... m_connection_fd = -1.
CleanForget(l) ==
    /\ At(l, "forget")
    /\ m_connections_pool' = [m_connections_pool EXCEPT ![pc[l].fd].m_connection_fd = NoFd]
    /\ pc' = [pc EXCEPT ![l] = Idle]
    /\ UNCHANGED <<files, backlog, input, m_reservfd, m_curr_conns, phase, io_events,
                   watched, queue, acceptor, started, aborted, lost, reused>>

-----------------------------------------------------------------------------
(* The clients and the kernel *)

\* Client k connects, in the order of the numbers.
Connects(k) ==
    /\ Alive
    /\ input[k] = "new" /\ \A j \in 1..(k - 1) : input[j] # "new"
    /\ input' = [input EXCEPT ![k] = "none"]
    /\ backlog' = Append(backlog, k)
    /\ UNCHANGED <<files, m_reservfd, m_curr_conns, phase, m_connections_pool, io_events,
                   watched, queue, acceptor, pc, started, aborted, lost, reused>>

\* A connected client sends something, or closes.
ClientActs(k) ==
    /\ aborted = "no"
    /\ input[k] = "none"
    /\ k \in {files[fd] : fd \in Fds} \cup {backlog[i] : i \in DOMAIN backlog}
    /\ \E what \in Inputs : input' = [input EXCEPT ![k] = what]
    /\ UNCHANGED <<files, backlog, m_reservfd, m_curr_conns, phase, m_connections_pool,
                   io_events, watched, queue, acceptor, pc, started, aborted, lost, reused>>

LoopStep(l) ==
    \/ OnMsgComing(l) \/ Activate(l) \/ Register(l)
    \/ \E fd \in Fds : HandleRead(l, fd) \/ HandleReadCleans(l, fd)
    \/ CleanUnregister(l) \/ CleanClose(l) \/ CleanForget(l)

AcceptStep ==
    \/ DoAccept \/ AcceptEMFILE \/ AcceptEAGAIN \/ AcceptDrop \/ AcceptRefuse
    \/ AcceptDispatch

Next ==
    /\ \/ StartLoop \/ Stop \/ AcceptStep
       \/ \E l \in Loops : ThreadDomain(l) \/ LoopStep(l)
       \/ \E k \in Conns : Connects(k) \/ ClientActs(k)
    /\ UNCHANGED config

Spec == Init /\ [][Next]_vars

\* A step of a server without a pool, whose descriptors can be lost only by
\* doAccept.
Own(A) == Threads = {} /\ A /\ UNCHANGED config
OwnConfigs == {c \in Configs : c.threads = {}}

\* What its thread does next once it is in a function: one of these.
OwnStep == AcceptStep \/ Activate(Self) \/ Register(Self)
           \/ CleanUnregister(Self) \/ CleanClose(Self) \/ CleanForget(Self)

\* Its loop goes on, and comes to every descriptor that stays ready.  Neither stop
\* nor the clients have to do anything.
FairSpec ==
    /\ Spec
    /\ WF_vars(Own(OwnStep))
    /\ \A fd \in 0 .. Max({c.nfds : c \in OwnConfigs}) - 1 :
          SF_vars(Own(fd \in Fds /\ (HandleRead(Self, fd) \/ HandleReadCleans(Self, fd))))

-----------------------------------------------------------------------------
(* Properties *)

\* Two things can go wrong in a way the code does not notice: a descriptor is
\* used again by another thread before cleanConnection has set m_connection_fd
\* to -1, and a doAccept returns without the reserve descriptor, whose number
\* is closed again when a connection has it.  Nothing else does: until then the
\* properties below hold, whatever the threads do.
Undisturbed == aborted = "no" /\ ~reused /\ ~lost

\* What a loop has in its map is in its epoll set, is an open connection, and
\* its object knows the descriptor and the loop.
RegistrationsLive ==
    Undisturbed =>
        \A l \in Loops :
            /\ io_events[l] = watched[l]
            /\ \A fd \in io_events[l] :
                  /\ IsConn(fd)
                  /\ m_connections_pool[fd] = [m_connection_fd |-> fd, m_loop |-> l]

\* m_curr_conns counts the registered connections, less those cleanConnection
\* is working on, whichever threads count.
Registrations == {p \in Loops \X Fds : p[2] \in io_events[p[1]]}
CountExact ==
    Undisturbed =>
        m_curr_conns = Cardinality(Registrations)
                       - Cardinality({l \in Loops : pc[l].at = "unregister"})

\* Loop l is activating descriptor fd, or about to close it.
InHands(l, fd) == pc[l].fd = fd /\ pc[l].at \in {"activate", "register", "close"}

\* Who has the connection in descriptor fd: a loop it is registered with, a
\* place in a queue, a loop that has it in hands.
Owners(fd) ==
    {<<"registered", l, 0>> : l \in {k \in Loops : fd \in io_events[k]}}
    \cup {<<"hands", l, 0>> : l \in {k \in Loops : InHands(k, fd)}}
    \cup UNION {{<<"queued", l, i>> : i \in {j \in DOMAIN queue[l] : queue[l][j] = fd}} :
                l \in Loops}

\* No connection is forgotten or served twice: an open one has one owner.
OneOwner == Undisturbed => \A fd \in OpenConns : \E owner \in Owners(fd) : Owners(fd) = {owner}

\* A descriptor a loop watches is the connection it was registered for, the count
\* is that of the registered connections, and no two loops serve one
\* (TcpServer.cpp 219-289, TcpConnection.cpp 194-212).
Accounted == RegistrationsLive /\ CountExact /\ OneOwner

\* Without a pool, and as long as doAccept has its reserve descriptor, a
\* connection is refused only when max_connections are open (TcpServer.cpp 212).
\* (With one the count may run behind.)
RefusedOnlyWhenFull ==
    [][AcceptRefuse /\ Threads = {} /\ ~lost => Cardinality(OpenConns) >= max_connections]_vars

\* A connection the client has closed gives its descriptor back
\* (TcpConnection.cpp 194-212).
ClosedIsReleased ==
    \A k \in 1 .. Max({c.clients : c \in OwnConfigs}) :
        (Threads = {} /\ (\E fd \in Fds : files[fd] = k) /\ input[k] = "closed")
            ~> (aborted # "no" \/ ~\E fd \in Fds : files[fd] = k)

CONSTANTS t1, t2    \* for TLC

MCConfigs ==
    {[threads |-> {t1, t2}, max_connections |-> 8, nfds |-> 9, inputs |-> {"closed"}, clients |-> 2],
     [threads |-> {t1}, max_connections |-> 5, nfds |-> 7, inputs |-> {"closed"}, clients |-> 3],
     [threads |-> {}, max_connections |-> 2, nfds |-> 4,
      inputs |-> {"message", "malformed", "closed"}, clients |-> 3],
     [threads |-> {}, max_connections |-> 3, nfds |-> 3,
      inputs |-> {"closed"}, clients |-> 4]}

=============================================================================
