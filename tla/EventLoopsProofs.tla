-------------------------- MODULE EventLoopsProofs --------------------------
(***************************************************************************)
(* For any descriptors, events and calls of the users: the map of a loop   *)
(* and what the kernel or the library was told agree, tasks run in order,  *)
(* and an event goes astray only in a round that is out of date.           *)
(***************************************************************************)
EXTENDS EventLoops, SequenceTheorems, TLAPS

(***************************************************************************)
(* The invariant.                                                          *)
(***************************************************************************)
MapEntry == [mask : SUBSET Masks, callbacks : SUBSET Masks]
Event == [fd : Fds, events : Findings, opening : Nat]
Pollfd == [fd : Fds, events : SUBSET Masks, revents : Findings, fresh : BOOLEAN]
LibEvent == [fd : Fds, mask : Masks, leaked : BOOLEAN, opening : Nat]
Idle == {"nothing", "task", "setup"}

MapType == Registered \subseteq Fds /\ m_io_events \in [Registered -> MapEntry]

CoreType ==
  /\ MapType
  /\ opened \in [Fds -> [open : BOOLEAN, times : Nat]]
  /\ running \in Fds \cup Idle
  /\ stale \subseteq Fds

TasksType ==
  /\ m_pending_factors \in Seq(Nat) /\ ran \in Seq(Nat) /\ added \in Nat
  /\ it \in 0 .. Len(m_pending_factors) + 1

EpollType ==
  /\ epoll \in [Fds -> SUBSET Masks] /\ m_fired_events \in Seq(Event)
  /\ backend # "epoll" => m_fired_events = <<>>

PollType ==
  /\ m_fds \in Seq(Pollfd) /\ walk \in Nat /\ interrupted \in BOOLEAN
  /\ backend # "poll" => m_fds = <<>>

LibeventType ==
  /\ pointer \in [Fds -> [Masks -> {"null", "live", "freed"}]] /\ active \subseteq LibEvent
  /\ leaked \subseteq Fds \X Masks
  /\ backend # "libevent" => active = {}

BackendType == EpollType /\ PollType /\ LibeventType

(* The tasks that ran and those that are left are numbered without a gap.  *)
From == IF it = 0 THEN 1 ELSE it
Ordered ==
  /\ Len(ran) + (Len(m_pending_factors) + 1 - From) = added
  /\ \A i \in 1 .. Len(ran) : ran[i] = i
  /\ \A k \in From .. Len(m_pending_factors) : m_pending_factors[k] = Len(ran) + (k - From) + 1

(* A descriptor that is closed is not watched. *)
ClosedUnmasked == \A fd \in Fds : ~opened[fd].open => MaskOf(fd) = {}

(* An entry of the map has an event, and every event its callback. *)
Served(fd) == fd \in Registered =>
  MaskOf(fd) # {} /\ MaskOf(fd) \subseteq m_io_events[fd].callbacks

(* epoll: the kernel has the masks of the map.  The descriptors of a batch *)
(* are different ones, none of them is the one that is being served, and   *)
(* an event whose descriptor nobody touched since is still right.          *)
EventRight(ev) ==
  /\ ev.fd # running
  /\ ev.fd \notin stale =>
       /\ ev.events # {} /\ ev.events \subseteq MaskOf(ev.fd) \cup {"EPOLLHUP"}
       /\ MaskOf(ev.fd) # {} /\ ev.opening = opened[ev.fd].times

EpollInv ==
  /\ \A fd \in Fds : epoll[fd] = MaskOf(fd) /\ Served(fd)
  /\ \A i, j \in 1 .. Len(m_fired_events) : m_fired_events[i].fd = m_fired_events[j].fd => i = j
  /\ \A i \in 1 .. Len(m_fired_events) : EventRight(m_fired_events[i])

(* poll, until the array is overrun: it has an entry for each descriptor   *)
(* of the map, with its mask.  In a round that was not interrupted, what   *)
(* is left of it is new, touched, or right, and not the one that is served.*)
EntryRight(p) ==
  p.fd # running /\ (p.fd \notin stale => p.revents \subseteq p.events \cup {"EPOLLHUP"})

EntryAsked(p) == p.fd \in Registered /\ p.events = MaskOf(p.fd)

PollInv ==
  /\ \A j, k \in 1 .. Len(m_fds) : m_fds[j].fd = m_fds[k].fd => j = k
  /\ \A k \in 1 .. Len(m_fds) : EntryAsked(m_fds[k])
  /\ \A fd \in Fds : Served(fd)
  /\ \A fd \in Registered : \E k \in 1 .. Len(m_fds) : m_fds[k].fd = fd
  /\ walk # 0 /\ ~interrupted =>
       \A k \in walk .. Len(m_fds) : m_fds[k].fresh \/ EntryRight(m_fds[k])

(* libevent, until it has been given a pointer to no event: every mask of  *)
(* the map has an event and a callback, and an event in the queue that was *)
(* not leaked and is still asked for is about the file that is open.       *)
Pointed(fd) ==
  /\ \A mask \in MaskOf(fd) : pointer[fd][mask] = "live" /\ mask \in m_io_events[fd].callbacks
  /\ pointer[fd]["EPOLLIN"] = "live" => "EPOLLIN" \in MaskOf(fd)

Current(e) == ~e.leaked /\ e.mask \in MaskOf(e.fd) => e.opening = opened[e.fd].times

LibeventInv ==
  /\ \A fd \in Fds : Pointed(fd)
  /\ \A e \in active : Current(e)

IInv ==
  /\ CoreType /\ TasksType /\ BackendType /\ Ordered /\ ClosedUnmasked
  /\ backend \in Backends
  /\ backend = "epoll" => EpollInv
  /\ backend = "poll" /\ failed = "no" => PollInv
  /\ backend = "libevent" /\ failed = "no" => LibeventInv

-----------------------------------------------------------------------------
(* The map *)

(* What a change of one descriptor's entry leaves alone. *)
OthersKept(fd) ==
  \A f \in Fds \ {fd} : /\ f \in Registered' <=> f \in Registered
                        /\ f \in Registered => m_io_events'[f] = m_io_events[f]
                        /\ MaskOf(f)' = MaskOf(f)

\* An entry of the map that is left alone keeps its mask.
LEMMA OthersAre ==
  ASSUME NEW fd \in Fds,
         \A f \in Fds \ {fd} : /\ f \in Registered' <=> f \in Registered
                               /\ f \in Registered => m_io_events'[f] = m_io_events[f]
  PROVE  OthersKept(fd)
BY DEF OthersKept, MaskOf

(* After addIoEvent the descriptor has the mask and its callback.           *)
LEMMA MapAdded ==
  ASSUME MapType, NEW fd \in Fds, NEW mask \in Masks, MapAdd(fd, mask)
  PROVE  /\ MapType' /\ OthersKept(fd)
         /\ fd \in Registered' /\ MaskOf(fd)' = MaskOf(fd) \cup {mask}
         /\ mask \in m_io_events'[fd].callbacks
         /\ fd \in Registered => m_io_events[fd].callbacks \subseteq m_io_events'[fd].callbacks
<1> DEFINE old == IF fd \in Registered THEN m_io_events[fd].callbacks ELSE {}
           e == [mask |-> MaskOf(fd) \cup {mask}, callbacks |-> old \cup {mask}]
<1>1. e \in MapEntry
  BY DEF MapType, MapEntry, MaskOf
<1>2. m_io_events' = [f \in Registered \cup {fd} |-> IF f = fd THEN e ELSE m_io_events[f]]
  BY DEF MapAdd, With, Registered
<1> HIDE DEF e
<1>3. Registered' = Registered \cup {fd} /\ MapType'
  BY <1>1, <1>2 DEF MapType, Registered
<1>4. ASSUME NEW f \in Fds \ {fd}
      PROVE  /\ f \in Registered' <=> f \in Registered
             /\ f \in Registered => m_io_events'[f] = m_io_events[f]
  BY <1>2, <1>3
<1>5. m_io_events'[fd] = e
  BY <1>2
<1>6. e.mask = MaskOf(fd) \cup {mask} /\ e.callbacks = old \cup {mask}
  BY DEF e
<1>7. OthersKept(fd)
  BY <1>4, OthersAre, Zenon
<1> QED
  BY <1>3, <1>5, <1>6, <1>7 DEF MaskOf

(* After delIoEvent of a descriptor it has no entry. *)
LEMMA MapDeleted ==
  ASSUME MapType, NEW fd \in Fds, MapDel(fd)
  PROVE  /\ MapType' /\ OthersKept(fd)
         /\ fd \notin Registered' /\ MaskOf(fd)' = {}
<1>1. m_io_events' = [f \in Registered \ {fd} |-> m_io_events[f]]
  BY DEF MapDel, Without, Registered
<1>2. Registered' = Registered \ {fd} /\ MapType'
  BY <1>1 DEF MapType, Registered
<1>3. ASSUME NEW f \in Fds \ {fd}
      PROVE  /\ f \in Registered' <=> f \in Registered
             /\ f \in Registered => m_io_events'[f] = m_io_events[f]
  BY <1>1, <1>2
<1>4. OthersKept(fd)
  BY <1>3, OthersAre, Zenon
<1> QED
  BY <1>2, <1>4 DEF MaskOf

(* After delIoEvent of one event the mask is what is left, and the entry is *)
(* there if anything is.                                                    *)
LEMMA MapMaskDeleted ==
  ASSUME MapType, NEW fd \in Registered, NEW mask \in Masks, MapDelMask(fd, mask)
  PROVE  /\ MapType' /\ OthersKept(fd)
         /\ MaskOf(fd)' = MaskOf(fd) \ {mask}
         /\ fd \in Registered' <=> MaskOf(fd) \ {mask} # {}
         /\ fd \in Registered' => m_io_events'[fd].callbacks = m_io_events[fd].callbacks
<1> DEFINE left == m_io_events[fd].mask \ {mask}
<1>1. fd \in Fds /\ left = MaskOf(fd) \ {mask}
  BY DEF MapType, MaskOf
<1>2. CASE left = {}
  <2>1. MapDel(fd)
    BY <1>2 DEF MapDelMask, MapDel
  <2> QED
    BY <1>1, <1>2, <2>1, MapDeleted
<1>3. CASE left # {}
  <2>1. m_io_events' = [m_io_events EXCEPT ![fd].mask = left]
    BY <1>3 DEF MapDelMask
  <2>2. m_io_events[fd] \in MapEntry
    BY DEF MapType
  <2>3. [m_io_events[fd] EXCEPT !.mask = left] \in MapEntry
    BY <2>2 DEF MapEntry
  <2>4. Registered' = Registered /\ MapType'
    BY <2>1, <2>3 DEF MapType, Registered
  <2>5. ASSUME NEW f \in Fds \ {fd}
        PROVE  /\ f \in Registered' <=> f \in Registered
               /\ f \in Registered => m_io_events'[f] = m_io_events[f]
    BY <2>1, <2>4 DEF MapType
  <2>6. /\ m_io_events'[fd].mask = left
        /\ m_io_events'[fd].callbacks = m_io_events[fd].callbacks
    BY <2>1, <2>2 DEF MapEntry, MapType
  <2>7. OthersKept(fd)
    BY <1>1, <2>5, OthersAre, Zenon
  <2> QED
    BY <1>1, <1>3, <2>4, <2>6, <2>7 DEF MaskOf
<1> QED
  BY <1>2, <1>3

-----------------------------------------------------------------------------
(* Types, the tasks and the closed descriptors *)

(* Each call of a backend changes the map the same way. *)
LEMMA CallsOfMap ==
  ASSUME NEW fd \in Fds, NEW mask \in Masks
  PROVE  /\ addIoEvent(fd, mask) => MapAdd(fd, mask)
         /\ delMask(fd, mask) => MapDelMask(fd, mask)
         /\ delIoEvent(fd) => MapDel(fd)
BY DEF addIoEvent, delMask, delIoEvent, EpollAdd, PollAdd, LibeventAdd, EpollDelMask,
       PollDelMask, LibeventDelMask, EpollDel, PollDel, LibeventDel

(* A descriptor's own callback and another one's: nothing else is stale. *)
LEMMA TouchesType ==
  ASSUME CoreType, NEW fd \in Fds, Touches(fd)
  PROVE  stale' \subseteq Fds /\ stale \subseteq stale' /\ (fd \in stale' \/ fd = running)
BY DEF Touches, CoreType

(* The variables of the core keep their types. *)
LEMMA CallsCoreType ==
  ASSUME CoreType, NEW fd \in Fds, Calls(fd)
  PROVE  CoreType'
<1>1. ASSUME NEW mask \in Masks, AddIoEvent(fd, mask) PROVE CoreType'
  BY <1>1, CallsOfMap, MapAdded, TouchesType DEF AddIoEvent, CoreType
<1>2. ASSUME NEW mask \in Masks, DelIoEventMask(fd, mask) PROVE CoreType'
  BY <1>2, CallsOfMap, MapMaskDeleted, TouchesType DEF DelIoEventMask, CoreType
<1>3. ASSUME NEW mask \in Masks, OpenFd(fd, mask) PROVE CoreType'
  <2>1. opened' \in [Fds -> [open : BOOLEAN, times : Nat]]
    <3>1. opened[fd] \in [open : BOOLEAN, times : Nat]
      BY DEF CoreType
    <3>2. [open |-> TRUE, times |-> opened[fd].times + 1] \in [open : BOOLEAN, times : Nat]
      BY <3>1
    <3> QED
      BY <1>3, <3>2 DEF OpenFd, CoreType
  <2> QED
    BY <1>3, <2>1, CallsOfMap, MapAdded, TouchesType DEF OpenFd, CoreType
<1>4. ASSUME DelIoEvent(fd) PROVE CoreType'
  <2>1. MapDel(fd)
    BY <1>4, CallsOfMap DEF DelIoEvent, Masks
  <2> QED
    BY <1>4, <2>1, MapDeleted, TouchesType DEF DelIoEvent, CoreType
<1>5. ASSUME CloseFd(fd) PROVE CoreType'
  <2>1. opened' \in [Fds -> [open : BOOLEAN, times : Nat]]
    <3>1. opened[fd] \in [open : BOOLEAN, times : Nat]
      BY DEF CoreType
    <3>2. [opened[fd] EXCEPT !.open = FALSE] \in [open : BOOLEAN, times : Nat]
      BY <3>1
    <3> QED
      BY <1>5, <3>2 DEF CloseFd, CoreType
  <2>2. CASE fd \in Registered
    <3>1. MapDel(fd)
      BY <1>5, <2>2, CallsOfMap DEF CloseFd, Masks
    <3> QED
      BY <1>5, <2>1, <2>2, <3>1, MapDeleted, TouchesType DEF CloseFd, CoreType
  <2>3. CASE fd \notin Registered
    BY <1>5, <2>1, <2>3 DEF CloseFd, CoreType, MapType, Registered
  <2> QED
    BY <2>2, <2>3
<1> QED
  BY <1>1, <1>2, <1>3, <1>4, <1>5 DEF Calls

(* An entry that operator[] makes has no event. *)
LEMMA MapDefaulted ==
  ASSUME MapType, NEW fd \in Fds,
         m_io_events' = IF fd \in Registered THEN m_io_events
                        ELSE With(m_io_events, fd, [mask |-> {}, callbacks |-> {}])
  PROVE  /\ MapType'
         /\ \A f \in Fds : MaskOf(f)' = MaskOf(f)
         /\ \A f \in Registered : f \in Registered' /\ m_io_events'[f] = m_io_events[f]
<1>1. CASE fd \in Registered
  BY <1>1 DEF MapType, MaskOf, Registered
<1>2. CASE fd \notin Registered
  <2> DEFINE e == [mask |-> {}, callbacks |-> {}]
  <2>1. e \in MapEntry /\ e.mask = {}
    BY DEF MapEntry
  <2>2. m_io_events' = [f \in Registered \cup {fd} |-> IF f = fd THEN e ELSE m_io_events[f]]
    BY <1>2 DEF With, Registered
  <2> HIDE DEF e
  <2>3. Registered' = Registered \cup {fd} /\ MapType'
    BY <2>1, <2>2 DEF MapType, Registered
  <2>4. ASSUME NEW f \in Registered PROVE m_io_events'[f] = m_io_events[f] /\ f \in Registered'
    BY <1>2, <2>2, <2>3
  <2>5. m_io_events'[fd] = e
    BY <2>2
  <2> QED
    BY <1>2, <2>1, <2>3, <2>4, <2>5 DEF MaskOf
<1> QED
  BY <1>1, <1>2

\* A step of a loop's round keeps the types of the map and the files.
LEMMA RoundCoreType ==
  ASSUME CoreType, BackendType, Round
  PROVE  CoreType'
<1>1. CASE EpollWait \/ Poll \/ PollEnds \/ EventBaseLoop
  BY <1>1 DEF EpollWait, Poll, PollEnds, EventBaseLoop, core, tasks, CoreType, MapType, Registered
<1>2. CASE EpollDispatch
  <2>1. Head(m_fired_events).fd \in Fds
    <3>1. Head(m_fired_events) \in Event
      BY <1>2 DEF EpollDispatch, BackendType, EpollType
    <3> QED
      BY <3>1 DEF Event
  <2> QED
    BY <1>2, <2>1 DEF EpollDispatch, Serve, Unexpected, CoreType, MapType, Registered
<1>3. CASE PollDispatch
  <2>1. m_fds[walk].fd \in Fds
    <3>1. m_fds[walk] \in Pollfd
      BY <1>3 DEF PollDispatch, BackendType, PollType
    <3> QED
      BY <3>1 DEF Pollfd
  <2> QED
    BY <1>3, <2>1 DEF PollDispatch, Serve, Unexpected, CoreType, MapType, Registered
<1>4. ASSUME NEW e \in active, LibeventDispatch(e) PROVE CoreType'
  <2>1. e.fd \in Fds
    BY DEF BackendType, LibeventType, LibEvent
  <2>2. MapType'
    BY <1>4, <2>1, MapDefaulted DEF LibeventDispatch, CoreType
  <2> QED
    BY <1>4, <2>1, <2>2 DEF LibeventDispatch, CoreType
<1> QED
  BY <1>1, <1>2, <1>3, <1>4 DEF Round

\* So does a step of the tasks.
LEMMA TasksCoreType ==
  ASSUME CoreType, AddTask \/ Returns \/ RunTasks
  PROVE  CoreType'
BY DEF AddTask, addTask, Returns, RunTasks, BeginTasks, RunTask, EndTasks, CoreType, MapType,
       Registered, Idle

(* Whatever is added or run, the tasks that ran and those that are left are *)
(* the numbers up to the last that was added.                               *)
LEMMA OrderedStep ==
  ASSUME TasksType, Ordered, Next
  PROVE  TasksType' /\ Ordered'
<1>1. CASE UNCHANGED <<tasks, it, ran>>
  BY <1>1 DEF tasks, TasksType, Ordered, From
<1>2. CASE AddTask
  <2>1. /\ m_pending_factors' = Append(m_pending_factors, added + 1) /\ added' = added + 1
        /\ UNCHANGED <<it, ran>>
    BY <1>2 DEF AddTask, addTask
  <2>2. TasksType'
    BY <2>1 DEF TasksType
  <2>3. /\ Len(m_pending_factors') = Len(m_pending_factors) + 1
        /\ m_pending_factors'[Len(m_pending_factors) + 1] = added + 1
        /\ \A k \in 1 .. Len(m_pending_factors) : m_pending_factors'[k] = m_pending_factors[k]
    BY <2>1 DEF TasksType
  <2>4. From' = From /\ From \in 1 .. Len(m_pending_factors) + 1
    BY <2>1 DEF From, TasksType
  <2>5. Len(ran) \in Nat /\ Len(m_pending_factors) \in Nat
    BY DEF TasksType
  <2>6. added' = added + 1 /\ ran' = ran /\ added \in Nat
    BY <2>1 DEF TasksType
  <2> DEFINE n == Len(m_pending_factors)
             f == From
             r == Len(ran)
  <2>7. n \in Nat /\ f \in 1 .. n + 1 /\ r \in Nat /\ r + (n + 1 - f) = added
    BY <2>4, <2>5 DEF Ordered
  <2>8. \A k \in f .. n + 1 : m_pending_factors'[k] = r + (k - f) + 1
    <3> SUFFICES ASSUME NEW k \in f .. n + 1 PROVE m_pending_factors'[k] = r + (k - f) + 1
      OBVIOUS
    <3> HIDE DEF n, f, r
    <3>1. CASE k = n + 1
      BY <2>3, <2>7, <3>1 DEF n
    <3>2. CASE k # n + 1
      <4>1. k \in f .. n /\ k \in 1 .. n
        BY <2>7, <3>2
      <4> QED
        BY <2>3, <4>1 DEF Ordered, n, f, r
    <3> QED
      BY <3>1, <3>2
  <2>9. Ordered'
    <3>1. Len(m_pending_factors') = n + 1 /\ From' = f /\ Len(ran') = r
      BY <2>3, <2>4, <2>6
    <3>2. \A i \in 1 .. r : ran[i] = i
      BY DEF Ordered
    <3> HIDE DEF n, f, r
    <3> QED
      BY <2>6, <2>7, <2>8, <3>1, <3>2 DEF Ordered
  <2> QED
    BY <2>2, <2>9
<1>3. CASE BeginTasks
  <2>1. it = 0 /\ it' = 1 /\ m_pending_factors # <<>>
        /\ UNCHANGED <<m_pending_factors, added, ran>>
    BY <1>3 DEF BeginTasks, tasks
  <2>2. Len(m_pending_factors) \in Nat \ {0}
    BY <2>1 DEF TasksType
  <2> QED
    BY <2>1, <2>2 DEF TasksType, Ordered, From
<1>4. CASE RunTask
  <2>1. /\ it \in 1 .. Len(m_pending_factors) /\ it' = it + 1
        /\ ran' = Append(ran, m_pending_factors[it])
        /\ UNCHANGED <<m_pending_factors, added>>
    BY <1>4 DEF RunTask, tasks
  <2>2. m_pending_factors[it] = Len(ran) + 1 /\ From = it /\ From' = it + 1
    BY <2>1 DEF TasksType, Ordered, From
  <2>3. TasksType'
    BY <2>1 DEF TasksType
  <2>4. /\ Len(ran') = Len(ran) + 1 /\ ran'[Len(ran) + 1] = Len(ran) + 1
        /\ \A i \in 1 .. Len(ran) : ran'[i] = ran[i]
    BY <2>1, <2>2 DEF TasksType
  <2>5. Len(ran) \in Nat /\ Len(m_pending_factors) \in Nat
    BY DEF TasksType
  <2> QED
    BY <2>1, <2>2, <2>3, <2>4, <2>5 DEF Ordered
<1>5. CASE EndTasks
  <2>1. /\ it > Len(m_pending_factors) /\ it # 0 /\ it' = 0
        /\ m_pending_factors' = <<>> /\ UNCHANGED <<added, ran>>
    BY <1>5 DEF EndTasks
  <2>2. it = Len(m_pending_factors) + 1
    BY <2>1 DEF TasksType
  <2> QED
    BY <2>1, <2>2 DEF TasksType, Ordered, From
<1>6. ASSUME NEW fd \in Fds, Calls(fd) PROVE UNCHANGED <<tasks, it, ran>>
  BY <1>6 DEF Calls, AddIoEvent, DelIoEventMask, DelIoEvent, OpenFd, CloseFd
<1>7. CASE Round
  BY <1>1, <1>7 DEF Round, EpollWait, EpollDispatch, Poll, PollDispatch, PollEnds, EventBaseLoop,
                    LibeventDispatch, core
<1>8. CASE Returns
  BY <1>1, <1>8 DEF Returns
<1> QED
  BY <1>1, <1>2, <1>3, <1>4, <1>5, <1>6, <1>7, <1>8 DEF Next, RunTasks

(* A file is unregistered before it is closed, and opened to be registered. *)
LEMMA ClosedStep ==
  ASSUME CoreType, BackendType, ClosedUnmasked, Next
  PROVE  ClosedUnmasked'
<1>1. ASSUME NEW fd \in Fds, Calls(fd) PROVE ClosedUnmasked'
  <2>1. CASE opened' = opened /\ UNCHANGED m_io_events
    BY <2>1 DEF ClosedUnmasked, MaskOf, Registered
  <2>2. ASSUME OthersKept(fd), \A f \in Fds \ {fd} : opened'[f] = opened[f],
               opened'[fd].open \/ MaskOf(fd)' = {}
        PROVE  ClosedUnmasked'
    BY <2>2 DEF ClosedUnmasked, OthersKept
  <2>3. ASSUME NEW mask \in Masks, AddIoEvent(fd, mask) PROVE ClosedUnmasked'
    BY <2>2, <2>3, CallsOfMap, MapAdded DEF AddIoEvent, CoreType
  <2>4. ASSUME NEW mask \in Masks, DelIoEventMask(fd, mask) PROVE ClosedUnmasked'
    <3>1. MaskOf(fd)' \subseteq MaskOf(fd) /\ OthersKept(fd) /\ opened' = opened
      BY <2>4, CallsOfMap, MapMaskDeleted DEF DelIoEventMask, CoreType
    <3> QED
      BY <2>2, <3>1 DEF ClosedUnmasked
  <2>5. ASSUME NEW mask \in Masks, OpenFd(fd, mask) PROVE ClosedUnmasked'
    <3>1. opened'[fd].open /\ \A f \in Fds \ {fd} : opened'[f] = opened[f]
      BY <2>5 DEF OpenFd, CoreType
    <3>2. OthersKept(fd)
      BY <2>5, CallsOfMap, MapAdded DEF OpenFd, CoreType
    <3> QED
      BY <2>2, <3>1, <3>2
  <2>6. ASSUME DelIoEvent(fd) PROVE ClosedUnmasked'
    <3>1. MapDel(fd) /\ opened' = opened
      BY <2>6, CallsOfMap DEF DelIoEvent, Masks
    <3> QED
      BY <2>2, <3>1, MapDeleted DEF CoreType
  <2>7. ASSUME CloseFd(fd) PROVE ClosedUnmasked'
    <3>1. \A f \in Fds \ {fd} : opened'[f] = opened[f]
      BY <2>7 DEF CloseFd, CoreType
    <3>2. CASE fd \in Registered
      <4>1. MapDel(fd)
        BY <2>7, <3>2, CallsOfMap DEF CloseFd, Masks
      <4> QED
        BY <2>2, <3>1, <4>1, MapDeleted DEF CoreType
    <3>3. CASE fd \notin Registered
      <4>1. MaskOf(fd)' = {} /\ UNCHANGED m_io_events
        BY <2>7, <3>3 DEF CloseFd, MaskOf, Registered
      <4> QED
        BY <3>1, <4>1 DEF ClosedUnmasked, MaskOf, Registered
    <3> QED
      BY <3>2, <3>3
  <2> QED
    BY <1>1, <2>3, <2>4, <2>5, <2>6, <2>7 DEF Calls
<1>2. CASE opened' = opened /\ \A f \in Fds : MaskOf(f)' = MaskOf(f)
  BY <1>2 DEF ClosedUnmasked
<1>3. CASE Round
  <2>1. CASE \E e \in active : LibeventDispatch(e)
    <3>1. PICK e \in active : LibeventDispatch(e)
      BY <2>1
    <3>2. e.fd \in Fds
      BY DEF BackendType, LibeventType, LibEvent
    <3> QED
      BY <1>2, <3>1, <3>2, MapDefaulted DEF LibeventDispatch, CoreType
  <2>2. CASE ~\E e \in active : LibeventDispatch(e)
    <3>1. UNCHANGED <<opened, m_io_events>>
      BY <1>3, <2>2 DEF Round, EpollWait, EpollDispatch, Poll, PollDispatch, PollEnds,
                        EventBaseLoop, core
    <3> QED
      BY <1>2, <3>1 DEF MaskOf, Registered
  <2> QED
    BY <2>1, <2>2
<1>4. CASE AddTask \/ Returns \/ RunTasks
  <2>1. UNCHANGED <<opened, m_io_events>>
    BY <1>4 DEF AddTask, Returns, RunTasks, BeginTasks, RunTask, EndTasks
  <2> QED
    BY <1>2, <2>1 DEF MaskOf, Registered
<1> QED
  BY <1>1, <1>3, <1>4 DEF Next

-----------------------------------------------------------------------------
(* epoll *)

(* An event of the batch is about a descriptor.                             *)
LEMMA EventsTyped ==
  ASSUME EpollType, NEW i \in 1 .. Len(m_fired_events)
  PROVE  m_fired_events[i] \in Event /\ m_fired_events[i].fd \in Fds
<1>1. m_fired_events[i] \in Event
  BY DEF EpollType
<1> QED
  BY <1>1 DEF Event

(* A call that tells the kernel the new mask of a descriptor, wherever in   *)
(* the round it is made.                                                    *)
LEMMA EpollCall ==
  ASSUME NEW fd \in Fds, CoreType, CoreType', EpollType, EpollInv, OthersKept(fd),
         epoll' = [epoll EXCEPT ![fd] = MaskOf(fd)'], Served(fd)',
         UNCHANGED <<m_fired_events, running, backend>>,
         stale \subseteq stale', fd \in stale' \/ fd = running,
         \A f \in Fds \ {fd} : opened'[f] = opened[f]
  PROVE  EpollType' /\ EpollInv'
<1>1. MaskOf(fd)' \in SUBSET Masks
  BY DEF CoreType, MapType, MapEntry, MaskOf
<1>2. EpollType'
  BY <1>1 DEF EpollType
<1>3. ASSUME NEW f \in Fds PROVE epoll'[f] = MaskOf(f)' /\ Served(f)'
  <2>1. CASE f = fd
    BY <2>1 DEF EpollType
  <2>2. CASE f # fd
    <3>1. epoll[f] = MaskOf(f) /\ Served(f) /\ epoll'[f] = epoll[f]
      BY <2>2 DEF EpollInv, EpollType
    <3> QED
      BY <2>2, <3>1 DEF OthersKept, Served
  <2> QED
    BY <2>1, <2>2
<1>4. ASSUME NEW i \in 1 .. Len(m_fired_events), NEW ev, ev = m_fired_events[i]
      PROVE  EventRight(ev)'
  <2>1. EventRight(ev)
    BY <1>4 DEF EpollInv
  <2>2. ev.fd \in Fds
    BY <1>4, EventsTyped
  <2>3. ev.fd \notin stale' => MaskOf(ev.fd)' = MaskOf(ev.fd) /\ opened'[ev.fd] = opened[ev.fd]
    BY <2>1, <2>2 DEF OthersKept, EventRight
  <2> QED
    BY <2>1, <2>3 DEF EventRight
<1> QED
  BY <1>2, <1>3, <1>4 DEF EpollInv

(* Every call is such a call. *)
LEMMA EpollCalls ==
  ASSUME NEW fd \in Fds, CoreType, CoreType', EpollType, EpollInv, Calls(fd),
         backend = "epoll", UNCHANGED backend
  PROVE  EpollType' /\ EpollInv'
<1> USE DEF CoreType
<1>1. ASSUME NEW mask \in Masks, EpollAdd(fd, mask), Touches(fd), UNCHANGED running,
             \A f \in Fds \ {fd} : opened'[f] = opened[f]
      PROVE  EpollType' /\ EpollInv'
  <2>1. /\ OthersKept(fd) /\ fd \in Registered' /\ MaskOf(fd)' = MaskOf(fd) \cup {mask}
        /\ mask \in m_io_events'[fd].callbacks
        /\ fd \in Registered => m_io_events[fd].callbacks \subseteq m_io_events'[fd].callbacks
    BY <1>1, MapAdded DEF EpollAdd
  <2>2. Served(fd)'
    BY <2>1 DEF EpollInv, Served, MaskOf
  <2>3. epoll' = [epoll EXCEPT ![fd] = MaskOf(fd)'] /\ UNCHANGED m_fired_events
    BY <1>1, <2>1 DEF EpollAdd
  <2> QED
    BY <1>1, <2>1, <2>2, <2>3, TouchesType, EpollCall
<1>2. ASSUME NEW mask \in Masks, DelIoEventMask(fd, mask) PROVE EpollType' /\ EpollInv'
  <2>1. /\ fd \in Registered /\ EpollDelMask(fd, mask) /\ Touches(fd)
        /\ UNCHANGED <<running, opened>>
    BY <1>2 DEF DelIoEventMask, delMask, OnPoll, OnLibevent
  <2>2. /\ OthersKept(fd) /\ MaskOf(fd)' = MaskOf(fd) \ {mask}
        /\ fd \in Registered' <=> MaskOf(fd) \ {mask} # {}
        /\ fd \in Registered' => m_io_events'[fd].callbacks = m_io_events[fd].callbacks
    BY <2>1, MapMaskDeleted DEF EpollDelMask
  <2>3. Served(fd)'
    BY <2>1, <2>2 DEF EpollInv, Served
  <2>4. epoll' = [epoll EXCEPT ![fd] = MaskOf(fd)'] /\ UNCHANGED m_fired_events
    BY <2>1, <2>2 DEF EpollDelMask
  <2> QED
    BY <2>1, <2>2, <2>3, <2>4, TouchesType, EpollCall
<1>3. ASSUME EpollDel(fd), Touches(fd), UNCHANGED running,
             \A f \in Fds \ {fd} : opened'[f] = opened[f]
      PROVE  EpollType' /\ EpollInv'
  <2>1. OthersKept(fd) /\ fd \notin Registered' /\ MaskOf(fd)' = {}
    BY <1>3, MapDeleted DEF EpollDel
  <2>2. Served(fd)'
    BY <2>1 DEF Served
  <2>3. epoll' = [epoll EXCEPT ![fd] = MaskOf(fd)'] /\ UNCHANGED m_fired_events
    BY <1>3, <2>1 DEF EpollDel
  <2> QED
    BY <1>3, <2>1, <2>2, <2>3, TouchesType, EpollCall
<1>4. ASSUME NEW mask \in Masks, AddIoEvent(fd, mask) PROVE EpollType' /\ EpollInv'
  <2>1. EpollAdd(fd, mask) /\ Touches(fd) /\ UNCHANGED <<running, opened>>
    BY <1>4 DEF AddIoEvent, addIoEvent, OnPoll, OnLibevent
  <2> QED
    BY <1>1, <2>1
<1>5. ASSUME NEW mask \in Masks, OpenFd(fd, mask) PROVE EpollType' /\ EpollInv'
  <2>1. /\ EpollAdd(fd, mask) /\ Touches(fd) /\ UNCHANGED running
        /\ \A f \in Fds \ {fd} : opened'[f] = opened[f]
    BY <1>5 DEF OpenFd, addIoEvent, OnPoll, OnLibevent
  <2> QED
    BY <1>1, <2>1
<1>6. ASSUME DelIoEvent(fd) PROVE EpollType' /\ EpollInv'
  <2>1. EpollDel(fd) /\ Touches(fd) /\ UNCHANGED <<running, opened>>
    BY <1>6 DEF DelIoEvent, delIoEvent, OnPoll, OnLibevent
  <2> QED
    BY <1>3, <2>1
<1>7. ASSUME CloseFd(fd) PROVE EpollType' /\ EpollInv'
  <2>1. /\ UNCHANGED running /\ \A f \in Fds \ {fd} : opened'[f] = opened[f]
        /\ opened'[fd].times = opened[fd].times
    BY <1>7 DEF CloseFd
  <2>2. CASE fd \in Registered
    <3>1. EpollDel(fd) /\ Touches(fd)
      BY <1>7, <2>2 DEF CloseFd, delIoEvent, OnPoll, OnLibevent
    <3> QED
      BY <1>3, <2>1, <3>1
  <2>3. CASE fd \notin Registered
    <3>1. UNCHANGED <<m_io_events, epoll, m_fired_events, stale>>
      BY <1>7, <2>3 DEF CloseFd, epollVars
    <3>2. \A f \in Fds : opened'[f].times = opened[f].times
      BY <2>1
    <3>3. \A f : MaskOf(f)' = MaskOf(f) /\ (Served(f)' <=> Served(f))
      BY <3>1 DEF MaskOf, Registered, Served
    <3>4. \A i \in 1 .. Len(m_fired_events) : m_fired_events[i].fd \in Fds
      BY EventsTyped
    <3>5. EpollType'
      BY <3>1 DEF EpollType
    <3>6. EpollInv'
      BY <2>1, <3>1, <3>2, <3>3, <3>4 DEF EpollInv, EventRight
    <3> QED
      BY <3>5, <3>6
  <2> QED
    BY <2>2, <2>3
<1> QED
  BY <1>2, <1>4, <1>5, <1>6, <1>7 DEF Calls

(* The steps of the round: what epoll_wait copies out is right, and stays   *)
(* so for the rest of the batch while one event of it is served.            *)
LEMMA EpollRound ==
  ASSUME CoreType, EpollType, EpollInv, EpollWait \/ EpollDispatch,
         backend = "epoll", UNCHANGED backend
  PROVE  EpollType' /\ EpollInv'
<1>1. UNCHANGED <<m_io_events, opened, epoll>>
  BY DEF EpollWait, EpollDispatch
<1>2. \A f : MaskOf(f)' = MaskOf(f) /\ (Served(f)' <=> Served(f))
  BY <1>1 DEF MaskOf, Registered, Served
<1>3. \A f \in Fds : epoll'[f] = MaskOf(f)' /\ Served(f)'
  BY <1>1, <1>2 DEF EpollInv
<1>4. CASE EpollWait
  <2>1. PICK fds \in SUBSET {fd \in Fds : epoll[fd] # {}} :
             /\ Cardinality(fds) \in 1 .. MAX_EVENTS
             /\ \E order \in SetToSeqs(fds), found \in [fds -> Findings \ {{}}] :
                   /\ \A fd \in fds : found[fd] \in Answers(epoll[fd])
                   /\ m_fired_events' = [i \in DOMAIN order |->
                                            [fd |-> order[i], events |-> found[order[i]],
                                             opening |-> opened[order[i]].times]]
    BY <1>4 DEF EpollWait
  <2>2. PICK order \in SetToSeqs(fds), found \in [fds -> Findings \ {{}}] :
                   /\ \A fd \in fds : found[fd] \in Answers(epoll[fd])
                   /\ m_fired_events' = [i \in DOMAIN order |->
                                            [fd |-> order[i], events |-> found[order[i]],
                                             opening |-> opened[order[i]].times]]
    BY <2>1
  <2> DEFINE n == Cardinality(fds)
  <2>3. /\ n \in Nat /\ order \in [1 .. n -> fds]
        /\ \A i, j \in 1 .. n : order[i] = order[j] => i = j
    BY <2>1, <2>2, LoopAssumption DEF SetToSeqs
  <2> DEFINE ev(i) == [fd |-> order[i], events |-> found[order[i]],
                       opening |-> opened[order[i]].times]
  <2>4. ASSUME NEW i \in 1 .. n
        PROVE  /\ ev(i) \in Event /\ ev(i).fd = order[i]
               /\ ev(i).events # {} /\ ev(i).events \subseteq MaskOf(order[i]) \cup {"EPOLLHUP"}
               /\ MaskOf(order[i]) # {} /\ ev(i).opening = opened[order[i]].times
    <3>1. order[i] \in fds /\ order[i] \in Fds /\ epoll[order[i]] # {}
      BY <2>3
    <3>2. opened[order[i]].times \in Nat
      BY <3>1 DEF CoreType
    <3>3. /\ found[order[i]] \in Findings /\ found[order[i]] # {}
          /\ found[order[i]] \subseteq epoll[order[i]] \cup {"EPOLLHUP"}
      BY <2>2, <3>1 DEF Answers
    <3>4. epoll[order[i]] = MaskOf(order[i])
      BY <3>1 DEF EpollInv
    <3> QED
      BY <3>1, <3>2, <3>3, <3>4 DEF Event
  <2>5. m_fired_events' = [i \in 1 .. n |-> ev(i)]
    BY <2>2, <2>3
  <2> HIDE DEF ev, n
  <2>6. m_fired_events' \in Seq(Event) /\ Len(m_fired_events') = n
    BY <2>3, <2>4, <2>5
  <2>7. running = "nothing" /\ running' = running /\ running \notin Fds
    BY <1>4, LoopAssumption DEF EpollWait, RoundBegins, LoopRuns
  <2>8. EpollType'
    BY <1>1, <2>6 DEF EpollType
  <2>9. \A i \in 1 .. n : m_fired_events'[i] = ev(i) /\ m_fired_events'[i].fd = order[i]
    BY <2>4, <2>5
  <2>10. ASSUME NEW i \in 1 .. n, NEW e, e = m_fired_events'[i]
         PROVE  EventRight(e)'
    <3>1. e = ev(i) /\ e.fd = order[i] /\ order[i] \in Fds
      BY <2>3, <2>9, <2>10
    <3> QED
      BY <1>1, <1>2, <2>4, <2>7, <3>1 DEF EventRight
  <2>11. EpollInv'
    BY <1>3, <2>3, <2>6, <2>9, <2>10 DEF EpollInv
  <2> QED
    BY <2>8, <2>11
<1>5. CASE EpollDispatch
  <2> DEFINE n == Len(m_fired_events)
             h == m_fired_events[1]
  <2>1. /\ m_fired_events # <<>> /\ m_fired_events' = Tail(m_fired_events)
        /\ UNCHANGED stale /\ running = "nothing"
        /\ Serve(Head(m_fired_events).fd, Head(m_fired_events).events)
    BY <1>5 DEF EpollDispatch, LoopRuns
  <2>2. /\ n \in Nat \ {0} /\ Len(m_fired_events') = n - 1
        /\ m_fired_events' \in Seq(Event)
        /\ \A i \in 1 .. n - 1 : m_fired_events'[i] = m_fired_events[i + 1] /\ i + 1 \in 1 .. n
    BY <2>1 DEF EpollType
  <2>3. running' = h.fd \/ (running' = running /\ running \notin Fds)
    BY <2>1, LoopAssumption DEF Serve, Unexpected, EpollType
  <2>4. EpollType'
    BY <1>1, <2>2 DEF EpollType
  <2>5. ASSUME NEW i \in 1 .. n - 1, NEW ev, ev = m_fired_events'[i]
        PROVE  EventRight(ev)'
    <3>1. ev = m_fired_events[i + 1] /\ i + 1 \in 1 .. n /\ i + 1 # 1
      BY <2>2, <2>5
    <3>2. EventRight(ev) /\ ev.fd \in Fds
      BY <3>1, EventsTyped DEF EpollInv
    <3>3. h.fd # ev.fd
      BY <2>2, <3>1 DEF EpollInv
    <3> HIDE DEF n, h
    <3> QED
      BY <1>1, <1>2, <2>1, <2>3, <3>2, <3>3 DEF EventRight
  <2>6. ASSUME NEW i \in 1 .. n - 1, NEW j \in 1 .. n - 1,
               m_fired_events'[i].fd = m_fired_events'[j].fd
        PROVE  i = j
    <3>1. i + 1 = j + 1
      BY <2>2, <2>6 DEF EpollInv
    <3> QED
      BY <3>1
  <2>7. EpollInv'
    BY <1>3, <2>2, <2>5, <2>6 DEF EpollInv
  <2> QED
    BY <2>4, <2>7
<1> QED
  BY <1>4, <1>5

(* Between the calls, and on another backend, epoll is not involved. *)
LEMMA EpollStep ==
  ASSUME CoreType, CoreType', EpollType, backend = "epoll" => EpollInv, Next
  PROVE  EpollType' /\ (backend' = "epoll" => EpollInv')
<1>1. backend' = backend
  BY DEF Next
<1>2. ASSUME UNCHANGED epollVars PROVE EpollType'
  BY <1>1, <1>2 DEF EpollType, epollVars
<1>3. ASSUME NEW fd \in Fds, Calls(fd) PROVE EpollType' /\ (backend' = "epoll" => EpollInv')
  <2>1. CASE backend = "epoll"
    BY <1>1, <1>3, <2>1, EpollCalls
  <2>2. CASE backend # "epoll"
    <3>1. UNCHANGED epollVars
      BY <1>3, <2>2 DEF Calls, AddIoEvent, DelIoEventMask, DelIoEvent, OpenFd, CloseFd, addIoEvent,
                        delMask, delIoEvent, OnEpoll, OnPoll, OnLibevent
    <3> QED
      BY <1>1, <1>2, <2>2, <3>1
  <2> QED
    BY <2>1, <2>2
<1>4. CASE Round
  <2>1. CASE backend = "epoll"
    <3>1. EpollWait \/ EpollDispatch
      BY <1>4, <2>1 DEF Round, OnPoll, OnLibevent
    <3> QED
      BY <1>1, <2>1, <3>1, EpollRound
  <2>2. CASE backend # "epoll"
    <3>1. UNCHANGED epollVars
      BY <1>4, <2>2 DEF Round, OnEpoll, OnPoll, OnLibevent
    <3> QED
      BY <1>1, <1>2, <2>2, <3>1
  <2> QED
    BY <2>1, <2>2
<1>5. ASSUME AddTask \/ Returns \/ RunTasks, UNCHANGED epollVars
      PROVE  EpollType' /\ (backend' = "epoll" => EpollInv')
  <2>1. UNCHANGED <<m_io_events, opened, epoll, m_fired_events, stale>>
    BY <1>5 DEF AddTask, Returns, RunTasks, BeginTasks, RunTask, EndTasks, epollVars
  <2>2. running' = running \/ running' \notin Fds
    BY <1>5, LoopAssumption DEF AddTask, Returns, RunTasks, BeginTasks, RunTask, EndTasks
  <2>3. \A f : MaskOf(f)' = MaskOf(f) /\ (Served(f)' <=> Served(f))
    BY <2>1 DEF MaskOf, Registered, Served
  <2>4. \A i \in 1 .. Len(m_fired_events) : m_fired_events[i].fd \in Fds
    BY EventsTyped
  <2>5. backend = "epoll" => EpollInv'
    BY <2>1, <2>2, <2>3, <2>4 DEF EpollInv, EventRight
  <2> QED
    BY <1>1, <1>2, <1>5, <2>5
<1> QED
  BY <1>3, <1>4, <1>5 DEF Next

-----------------------------------------------------------------------------
(* poll *)

\* An entry of the array of poll is about a descriptor.
LEMMA PollfdsTyped ==
  ASSUME PollType, NEW k \in 1 .. Len(m_fds)
  PROVE  m_fds[k] \in Pollfd /\ m_fds[k].fd \in Fds
<1>1. m_fds[k] \in Pollfd
  BY DEF PollType
<1> QED
  BY <1>1 DEF Pollfd

(* The entry of a registered descriptor. *)
LEMMA EntryIs ==
  ASSUME PollType, PollInv, NEW fd \in Registered
  PROVE  Entry(fd) \in 1 .. Len(m_fds) /\ m_fds[Entry(fd)].fd = fd
<1>1. PICK k \in 1 .. Len(m_fds) : m_fds[k].fd = fd
  BY DEF PollInv
<1>2. DOMAIN m_fds = 1 .. Len(m_fds) /\ Len(m_fds) \in Nat
  BY DEF PollType
<1>3. \A j \in 1 .. k - 1 : m_fds[j].fd # fd
  BY <1>1, <1>2 DEF PollInv
<1> QED
  BY <1>1, <1>2, <1>3 DEF Entry

(* What the callbacks of a round do to the array that is walked through:    *)
(* every entry is a new one of the descriptor, or an old one that did not   *)
(* move to the right, and has the mask of its descriptor.                   *)
Kept(k, mask) ==
  \E j \in 1 .. Len(m_fds) :
     /\ k <= j /\ m_fds'[k].fd = m_fds[j].fd /\ m_fds'[k].revents = m_fds[j].revents
     /\ m_fds'[k].fresh = m_fds[j].fresh
     /\ m_fds'[k].events = mask[m_fds[j].fd]

\* A call that leaves every entry of the array either fresh and about its own
\* descriptor, or as it was, keeps what poll's invariant says, as long as the
\* array covers the map.
LEMMA PollCall ==
  ASSUME NEW fd \in Fds, CoreType, CoreType', PollType, PollInv, OthersKept(fd), Served(fd)',
         m_fds' \in Seq(Pollfd),
         \A j, k \in 1 .. Len(m_fds') : m_fds'[j].fd = m_fds'[k].fd => j = k,
         NEW mask, \A f \in Fds : mask[f] = MaskOf(f)',
         \A k \in 1 .. Len(m_fds') :
            \/ m_fds'[k].fd = fd /\ m_fds'[k].fresh /\ m_fds'[k].events = mask[fd]
            \/ Kept(k, mask),
         \A k \in 1 .. Len(m_fds') : m_fds'[k].fd \in Registered',
         \A f \in Registered' : \E k \in 1 .. Len(m_fds') : m_fds'[k].fd = f,
         UNCHANGED <<walk, interrupted, running, backend>>, backend = "poll",
         stale \subseteq stale', fd \in stale' \/ fd = running
  PROVE  PollType' /\ PollInv'
<1>1. PollType'
  BY DEF PollType
<1>2. ASSUME NEW f \in Fds PROVE Served(f)'
  BY DEF PollInv, OthersKept, Served
<1>3. Len(m_fds') \in Nat /\ Len(m_fds) \in Nat
  BY DEF PollType
<1>4. ASSUME NEW k \in 1 .. Len(m_fds'), NEW p, p = m_fds'[k] PROVE EntryAsked(p)'
  <2>1. p.fd \in Registered' /\ p.fd \in Fds
    BY <1>4 DEF CoreType, MapType
  <2>2. p.events = mask[p.fd]
    BY <1>4 DEF Kept
  <2> QED
    BY <2>1, <2>2 DEF EntryAsked
<1>5. ASSUME walk # 0, ~interrupted, NEW k \in walk .. Len(m_fds'), NEW p, p = m_fds'[k], ~p.fresh
      PROVE  EntryRight(p)'
  <2>1. k \in 1 .. Len(m_fds') /\ walk \in Nat
    BY <1>3, <1>5 DEF PollType
  <2>2. Kept(k, mask)
    BY <1>5, <2>1
  <2>3. PICK j \in 1 .. Len(m_fds) :
             /\ k <= j /\ p.fd = m_fds[j].fd /\ p.revents = m_fds[j].revents
             /\ p.fresh = m_fds[j].fresh
             /\ p.events = mask[m_fds[j].fd]
    BY <1>5, <2>2 DEF Kept
  <2>4. j \in walk .. Len(m_fds)
    BY <1>3, <2>1, <2>3
  <2>5. EntryRight(m_fds[j]) /\ EntryAsked(m_fds[j]) /\ p.fd \in Fds
    BY <1>5, <2>3, <2>4, PollfdsTyped DEF PollInv
  <2>6. p.fd \notin stale' => MaskOf(p.fd)' = MaskOf(p.fd) /\ p.fd # fd
    BY <2>3, <2>5 DEF OthersKept, EntryRight
  <2> QED
    BY <2>3, <2>5, <2>6 DEF EntryRight, EntryAsked
<1> QED
  BY <1>1, <1>2, <1>4, <1>5 DEF PollInv

\* A call of the users on poll: what it does to the rest of the state.
PollTouched(fd) ==
  /\ OthersKept(fd) /\ Served(fd)'
  /\ stale \subseteq stale' /\ (fd \in stale' \/ fd = running)
  /\ UNCHANGED <<walk, interrupted, running, backend>> /\ backend = "poll"

(* The mask of a registered descriptor changes in place. *)
LEMMA PollSets ==
  ASSUME NEW fd \in Fds, CoreType, CoreType', PollType, PollInv, PollTouched(fd),
         fd \in Registered, fd \in Registered',
         NEW M, M = MaskOf(fd)', m_fds' = SetEvents(fd, M)
  PROVE  PollType' /\ PollInv'
<1> DEFINE i == Entry(fd)
           n == Len(m_fds)
           mask == [f \in Fds |-> MaskOf(f)']
<1>1. i \in 1 .. n /\ m_fds[i].fd = fd /\ n \in Nat
  BY EntryIs DEF PollType
<1>2. M \in SUBSET Masks
  BY DEF CoreType, MapType, MapEntry, MaskOf
<1>3. [m_fds[i] EXCEPT !.events = M] \in Pollfd
  <2>1. m_fds[i] \in Pollfd
    BY <1>1, PollfdsTyped
  <2> QED
    BY <1>2, <2>1 DEF Pollfd
<1>4. m_fds' = [m_fds EXCEPT ![i] = [m_fds[i] EXCEPT !.events = M]]
  BY DEF SetEvents
<1>5. m_fds' \in Seq(Pollfd) /\ Len(m_fds') = n
  BY <1>1, <1>3, <1>4 DEF PollType
<1>6. ASSUME NEW k \in 1 .. n
      PROVE  /\ m_fds'[k].fd = m_fds[k].fd /\ m_fds'[k].revents = m_fds[k].revents
             /\ m_fds'[k].fresh = m_fds[k].fresh
             /\ m_fds'[k].events = IF k = i THEN M ELSE m_fds[k].events
  <2>1. m_fds[k] \in Pollfd
    BY PollfdsTyped
  <2>2. m_fds'[k] = IF k = i THEN [m_fds[i] EXCEPT !.events = M] ELSE m_fds[k]
    BY <1>1, <1>4 DEF PollType
  <2> QED
    BY <2>1, <2>2 DEF Pollfd
<1> HIDE DEF i, n
<1>7. \A j, k \in 1 .. n : m_fds'[j].fd = m_fds'[k].fd => j = k
  BY <1>6 DEF PollInv, n
<1>8. ASSUME NEW k \in 1 .. n PROVE Kept(k, mask) /\ m_fds'[k].fd \in Registered'
  <2>1. m_fds[k].fd \in Fds /\ EntryAsked(m_fds[k])
    BY PollfdsTyped DEF PollInv, n
  <2>2. m_fds'[k].events = mask[m_fds[k].fd]
    <3>1. CASE k = i
      BY <1>1, <1>6, <2>1, <3>1
    <3>2. CASE k # i
      <4>1. m_fds[k].fd # fd
        BY <1>1, <3>2 DEF PollInv, n
      <4> QED
        BY <1>6, <2>1, <3>2, <4>1 DEF PollTouched, OthersKept, EntryAsked
    <3> QED
      BY <3>1, <3>2
  <2>3. m_fds'[k].fd \in Registered'
    BY <1>6, <2>1 DEF PollTouched, OthersKept, EntryAsked
  <2> HIDE DEF mask
  <2>4. k <= k
    BY <1>1
  <2> QED
    BY <1>6, <2>2, <2>3, <2>4 DEF Kept, n
<1>9. ASSUME NEW f \in Registered' PROVE \E k \in 1 .. n : m_fds'[k].fd = f
  <2>1. f \in Registered
    BY DEF PollTouched, OthersKept, CoreType, MapType
  <2>2. PICK k \in 1 .. n : m_fds[k].fd = f
    BY <2>1 DEF PollInv, n
  <2> QED
    BY <1>6, <2>2
<1>10. \A f \in Fds : mask[f] = MaskOf(f)'
  OBVIOUS
<1> HIDE DEF mask
<1> QED
  BY <1>5, <1>7, <1>8, <1>9, <1>10, PollCall DEF PollTouched

(* A new entry at the end of the array. *)
LEMMA PollAppends ==
  ASSUME NEW fd \in Fds, CoreType, CoreType', PollType, PollInv, PollTouched(fd),
         fd \notin Registered, fd \in Registered',
         NEW p \in Pollfd, p.fd = fd, p.fresh, NEW M, M = MaskOf(fd)', p.events = M,
         m_fds' = Append(m_fds, p)
  PROVE  PollType' /\ PollInv'
<1> DEFINE n == Len(m_fds)
           mask == [f \in Fds |-> MaskOf(f)']
<1>1. /\ n \in Nat /\ m_fds' \in Seq(Pollfd) /\ Len(m_fds') = n + 1 /\ m_fds'[n + 1] = p
      /\ \A k \in 1 .. n : m_fds'[k] = m_fds[k]
  BY DEF PollType
<1>2. ASSUME NEW k \in 1 .. n
      PROVE  /\ m_fds[k].fd # fd /\ m_fds[k].fd \in Registered' /\ m_fds[k].fd \in Fds
             /\ m_fds[k].events = mask[m_fds[k].fd]
  <2>1. m_fds[k].fd \in Fds /\ EntryAsked(m_fds[k])
    BY PollfdsTyped DEF PollInv
  <2> QED
    BY <2>1 DEF EntryAsked, PollTouched, OthersKept
<1>3. \A f \in Fds : mask[f] = MaskOf(f)'
  OBVIOUS
<1> HIDE DEF n, mask
<1>4. ASSUME NEW j \in 1 .. n + 1, NEW k \in 1 .. n + 1, m_fds'[j].fd = m_fds'[k].fd PROVE j = k
  <2>1. CASE j \in 1 .. n /\ k \in 1 .. n
    BY <1>1, <1>4, <2>1 DEF PollInv, n
  <2>2. CASE j = n + 1 /\ k \in 1 .. n
    BY <1>1, <1>2, <1>4, <2>2
  <2>3. CASE k = n + 1 /\ j \in 1 .. n
    BY <1>1, <1>2, <1>4, <2>3
  <2> QED
    BY <1>1, <2>1, <2>2, <2>3
<1>5. ASSUME NEW k \in 1 .. n + 1
      PROVE  /\ m_fds'[k].fd \in Registered'
             /\ \/ m_fds'[k].fd = fd /\ m_fds'[k].fresh /\ m_fds'[k].events = mask[fd]
                \/ Kept(k, mask)
  <2>1. CASE k = n + 1
    BY <1>1, <1>3, <2>1
  <2>2. CASE k \in 1 .. n
    <3>1. k <= k
      BY <2>2
    <3> QED
      BY <1>1, <1>2, <2>2, <3>1 DEF Kept, n
  <2> QED
    BY <1>1, <2>1, <2>2
<1>6. ASSUME NEW f \in Registered' PROVE \E k \in 1 .. n + 1 : m_fds'[k].fd = f
  <2>1. CASE f = fd
    BY <1>1, <2>1
  <2>2. CASE f # fd
    <3>1. f \in Registered
      BY <2>2 DEF PollTouched, OthersKept, CoreType, MapType
    <3>2. PICK k \in 1 .. n : m_fds[k].fd = f
      BY <3>1 DEF PollInv, n
    <3> QED
      BY <1>1, <3>2
  <2> QED
    BY <2>1, <2>2
<1> QED
  BY <1>1, <1>3, <1>4, <1>5, <1>6, PollCall DEF PollTouched

(* RemoveAt of the community modules. *)
LEMMA RemoveAtIs ==
  ASSUME NEW S, NEW s \in Seq(S), NEW i \in 1 .. Len(s)
  PROVE  /\ RemoveAt(s, i) \in Seq(S) /\ Len(RemoveAt(s, i)) = Len(s) - 1
         /\ \A k \in 1 .. Len(s) - 1 : RemoveAt(s, i)[k] = IF k < i THEN s[k] ELSE s[k + 1]
<1> DEFINE a == SubSeq(s, 1, i - 1)
           b == SubSeq(s, i + 1, Len(s))
           n == Len(s)
<1>1. n \in Nat /\ i \in 1 .. n
  OBVIOUS
<1>2. a \in Seq(S) /\ Len(a) = i - 1 /\ \A k \in 1 .. i - 1 : a[k] = s[k]
  BY <1>1, SubSeqProperties
<1>3. b \in Seq(S) /\ Len(b) = n - i /\ \A k \in 1 .. n - i : b[k] = s[k + i]
  BY <1>1, SubSeqProperties
<1> HIDE DEF a, b, n
<1>4. /\ a \o b \in Seq(S) /\ Len(a \o b) = n - 1
      /\ \A k \in 1 .. n - 1 : (a \o b)[k] = IF k <= i - 1 THEN a[k] ELSE b[k - (i - 1)]
  <2>1. Len(a) + Len(b) = n - 1
    BY <1>1, <1>2, <1>3
  <2>2. /\ a \o b \in Seq(S) /\ Len(a \o b) = Len(a) + Len(b)
        /\ \A k \in 1 .. Len(a) + Len(b) :
              (a \o b)[k] = IF k <= Len(a) THEN a[k] ELSE b[k - Len(a)]
    BY <1>2, <1>3, ConcatProperties
  <2> QED
    BY <1>2, <2>1, <2>2
<1>5. ASSUME NEW k \in 1 .. n - 1 PROVE (a \o b)[k] = IF k < i THEN s[k] ELSE s[k + 1]
  <2>1. CASE k <= i - 1
    BY <1>1, <1>2, <1>4, <2>1
  <2>2. CASE ~(k <= i - 1)
    <3>1. k - (i - 1) \in 1 .. n - i /\ (k - (i - 1)) + i = k + 1 /\ ~(k < i)
      BY <1>1, <2>2
    <3> QED
      BY <1>3, <1>4, <2>2, <3>1
  <2> QED
    BY <2>1, <2>2
<1> QED
  BY <1>4, <1>5 DEF RemoveAt, a, b, n

(* The rest of the array moves to the left over the entry that goes. *)
LEMMA PollShifts ==
  ASSUME NEW fd \in Fds, CoreType, CoreType', PollType, PollInv, PollTouched(fd),
         fd \in Registered, fd \notin Registered', m_fds' = Shifted(fd)
  PROVE  PollType' /\ PollInv'
<1> DEFINE i == Entry(fd)
           n == Len(m_fds)
           mask == [f \in Fds |-> MaskOf(f)']
           from(k) == IF k < i THEN k ELSE k + 1
<1>1. i \in 1 .. n /\ m_fds[i].fd = fd /\ n \in Nat
  BY EntryIs DEF PollType
<1>2. /\ m_fds' \in Seq(Pollfd) /\ Len(m_fds') = n - 1
      /\ \A k \in 1 .. n - 1 : m_fds'[k] = IF k < i THEN m_fds[k] ELSE m_fds[k + 1]
  BY <1>1, RemoveAtIs DEF Shifted, PollType
<1>3. \A f \in Fds : mask[f] = MaskOf(f)'
  OBVIOUS
<1> HIDE DEF i, n, mask
<1>4. ASSUME NEW k \in 1 .. n - 1
      PROVE  m_fds'[k] = m_fds[from(k)] /\ from(k) \in 1 .. n /\ k <= from(k) /\ from(k) # i
  BY <1>1, <1>2
<1>5. ASSUME NEW j \in 1 .. n - 1, NEW k \in 1 .. n - 1, from(j) = from(k) PROVE j = k
  BY <1>1, <1>5
<1> HIDE DEF from
<1>6. ASSUME NEW j \in 1 .. n - 1, NEW k \in 1 .. n - 1, m_fds'[j].fd = m_fds'[k].fd PROVE j = k
  BY <1>4, <1>5, <1>6 DEF PollInv, n
<1>7. ASSUME NEW k \in 1 .. n - 1 PROVE Kept(k, mask) /\ m_fds'[k].fd \in Registered'
  <2>1. /\ m_fds[from(k)].fd \in Fds /\ EntryAsked(m_fds[from(k)])
        /\ m_fds[from(k)].fd # fd
    BY <1>1, <1>4, PollfdsTyped DEF PollInv, n
  <2>2. m_fds[from(k)].events = mask[m_fds[from(k)].fd] /\ m_fds[from(k)].fd \in Registered'
    BY <1>3, <2>1 DEF PollTouched, OthersKept, EntryAsked
  <2> QED
    BY <1>4, <2>2 DEF Kept, n
<1>8. ASSUME NEW f \in Registered' PROVE \E k \in 1 .. n - 1 : m_fds'[k].fd = f
  <2>1. f \in Registered /\ f # fd
    BY DEF PollTouched, OthersKept, CoreType, MapType
  <2>2. PICK j \in 1 .. n : m_fds[j].fd = f
    BY <2>1 DEF PollInv, n
  <2>3. j # i
    BY <1>1, <2>1, <2>2
  <2>4. CASE j < i
    BY <1>1, <1>2, <2>2, <2>4
  <2>5. CASE ~(j < i)
    <3>1. j - 1 \in 1 .. n - 1 /\ ~(j - 1 < i) /\ (j - 1) + 1 = j
      BY <1>1, <2>3, <2>5
    <3> QED
      BY <1>2, <2>2, <3>1
  <2> QED
    BY <2>4, <2>5
<1> QED
  BY <1>2, <1>3, <1>6, <1>7, <1>8, PollCall DEF PollTouched

\* Each call of a user, made from a callback or a task, is such a call.
LEMMA PollCalls ==
  ASSUME NEW fd \in Fds, CoreType, CoreType', PollType, PollInv, Calls(fd),
         backend = "poll", UNCHANGED backend
  PROVE  PollType' /\ (failed' = "no" => PollInv')
<1> USE DEF CoreType
<1>1. ASSUME NEW mask \in Masks, PollAdd(fd, mask), Touches(fd), UNCHANGED running
      PROVE  PollType' /\ (failed' = "no" => PollInv')
  <2>1. /\ OthersKept(fd) /\ fd \in Registered' /\ MaskOf(fd)' = MaskOf(fd) \cup {mask}
        /\ mask \in m_io_events'[fd].callbacks
        /\ fd \in Registered => m_io_events[fd].callbacks \subseteq m_io_events'[fd].callbacks
    BY <1>1, MapAdded DEF PollAdd
  <2>2. Served(fd)'
    <3>1. Served(fd)
      BY DEF PollInv
    <3> QED
      BY <2>1, <3>1 DEF Served, MaskOf
  <2>3. PollTouched(fd)
    BY <1>1, <2>1, <2>2, TouchesType DEF PollTouched, PollAdd
  <2>4. CASE fd \in Registered
    <3>1. m_fds' = SetEvents(fd, MaskOf(fd) \cup {mask})
      BY <1>1, <2>4 DEF PollAdd
    <3> QED
      BY <2>1, <2>3, <2>4, <3>1, PollSets
  <2>5. CASE failed' = "overrun" /\ UNCHANGED m_fds
    BY <1>1, <2>5 DEF PollAdd, PollType
  <2>6. CASE fd \notin Registered /\ ~(failed' = "overrun" /\ UNCHANGED m_fds)
    <3>1. PICK bits \in Findings :
            m_fds' = Append(m_fds, [fd |-> fd, events |-> {mask}, revents |-> bits, fresh |-> TRUE])
      BY <1>1, <2>6 DEF PollAdd
    <3> DEFINE p == [fd |-> fd, events |-> {mask}, revents |-> bits, fresh |-> TRUE]
    <3>2. p \in Pollfd /\ p.fd = fd /\ p.fresh /\ p.events = {mask}
      BY DEF Pollfd
    <3>3. MaskOf(fd)' = {mask}
      BY <2>1, <2>6 DEF MaskOf
    <3> HIDE DEF p
    <3>4. m_fds' = Append(m_fds, p)
      BY <3>1 DEF p
    <3> QED
      BY <2>1, <2>3, <2>6, <3>2, <3>3, <3>4, PollAppends
  <2> QED
    BY <2>4, <2>5, <2>6
<1>2. ASSUME NEW mask \in Masks, DelIoEventMask(fd, mask) PROVE PollType' /\ (failed' = "no" => PollInv')
  <2>1. /\ fd \in Registered /\ PollDelMask(fd, mask) /\ Touches(fd)
        /\ UNCHANGED <<running, opened>>
    BY <1>2 DEF DelIoEventMask, delMask, OnEpoll, OnLibevent
  <2>2. /\ OthersKept(fd) /\ MaskOf(fd)' = MaskOf(fd) \ {mask}
        /\ fd \in Registered' <=> MaskOf(fd) \ {mask} # {}
        /\ fd \in Registered' => m_io_events'[fd].callbacks = m_io_events[fd].callbacks
    BY <2>1, MapMaskDeleted DEF PollDelMask
  <2>3. Served(fd)'
    BY <2>1, <2>2 DEF PollInv, Served
  <2>4. PollTouched(fd)
    BY <1>2, <2>1, <2>2, <2>3, TouchesType DEF PollTouched, PollDelMask
  <2>5. m_io_events[fd].mask = MaskOf(fd)
    BY <2>1 DEF MaskOf
  <2>6. CASE MaskOf(fd) \ {mask} = {}
    <3>1. m_fds' = Shifted(fd)
      BY <2>1, <2>5, <2>6 DEF PollDelMask
    <3> QED
      BY <2>1, <2>2, <2>4, <2>6, <3>1, PollShifts
  <2>7. CASE MaskOf(fd) \ {mask} # {}
    <3>1. m_fds' = SetEvents(fd, MaskOf(fd) \ {mask})
      BY <2>1, <2>5, <2>7 DEF PollDelMask
    <3> QED
      BY <2>1, <2>2, <2>4, <2>7, <3>1, PollSets
  <2> QED
    BY <2>6, <2>7
<1>3. ASSUME PollDel(fd), Touches(fd), UNCHANGED running, fd \in Registered
      PROVE  PollType' /\ (failed' = "no" => PollInv')
  <2>1. OthersKept(fd) /\ fd \notin Registered' /\ MaskOf(fd)' = {}
    BY <1>3, MapDeleted DEF PollDel
  <2>2. Served(fd)'
    BY <2>1 DEF Served
  <2>3. PollTouched(fd) /\ m_fds' = Shifted(fd)
    BY <1>3, <2>1, <2>2, TouchesType DEF PollTouched, PollDel
  <2> QED
    BY <1>3, <2>1, <2>3, PollShifts
<1>4. ASSUME NEW mask \in Masks, AddIoEvent(fd, mask) PROVE PollType' /\ (failed' = "no" => PollInv')
  <2>1. PollAdd(fd, mask) /\ Touches(fd) /\ UNCHANGED running
    BY <1>4 DEF AddIoEvent, addIoEvent, OnEpoll, OnLibevent
  <2> QED
    BY <1>1, <2>1
<1>5. ASSUME NEW mask \in Masks, OpenFd(fd, mask) PROVE PollType' /\ (failed' = "no" => PollInv')
  <2>1. PollAdd(fd, mask) /\ Touches(fd) /\ UNCHANGED running
    BY <1>5 DEF OpenFd, addIoEvent, OnEpoll, OnLibevent
  <2> QED
    BY <1>1, <2>1
<1>6. ASSUME DelIoEvent(fd) PROVE PollType' /\ (failed' = "no" => PollInv')
  <2>1. PollDel(fd) /\ Touches(fd) /\ UNCHANGED running /\ fd \in Registered
    BY <1>6 DEF DelIoEvent, delIoEvent, OnEpoll, OnLibevent
  <2> QED
    BY <1>3, <2>1
<1>7. ASSUME CloseFd(fd) PROVE PollType' /\ (failed' = "no" => PollInv')
  <2>1. CASE fd \in Registered
    <3>1. PollDel(fd) /\ Touches(fd) /\ UNCHANGED running
      BY <1>7, <2>1 DEF CloseFd, delIoEvent, OnEpoll, OnLibevent
    <3> QED
      BY <1>3, <2>1, <3>1
  <2>2. CASE fd \notin Registered
    <3>1. UNCHANGED <<m_io_events, m_fds, walk, interrupted, stale, running>>
      BY <1>7, <2>2 DEF CloseFd, pollVars
    <3>2. Registered' = Registered
          /\ \A f : MaskOf(f)' = MaskOf(f) /\ (Served(f)' <=> Served(f))
      BY <3>1 DEF MaskOf, Registered, Served
    <3>3. PollType'
      BY <3>1 DEF PollType
    <3>4. PollInv'
      BY <3>1, <3>2 DEF PollInv, EntryRight, EntryAsked
    <3> QED
      BY <3>3, <3>4
  <2> QED
    BY <2>1, <2>2
<1> QED
  BY <1>2, <1>4, <1>5, <1>6, <1>7 DEF Calls

(* The steps of the round.  poll writes what is right in every entry, and   *)
(* the walk leaves what it has served behind.                               *)
LEMMA PollRound ==
  ASSUME CoreType, PollType, PollInv, Poll \/ PollDispatch \/ PollEnds,
         backend = "poll", UNCHANGED backend
  PROVE  PollType' /\ PollInv'
<1>1. UNCHANGED m_io_events
  BY DEF Poll, PollDispatch, PollEnds, core
<1>2. Registered' = Registered /\ \A f : MaskOf(f)' = MaskOf(f) /\ (Served(f)' <=> Served(f))
  BY <1>1 DEF MaskOf, Registered, Served
<1> DEFINE n == Len(m_fds)
<1>3. n \in Nat /\ DOMAIN m_fds = 1 .. n /\ walk \in Nat
  BY DEF PollType
<1>4. CASE Poll
  <2>1. running = "nothing" /\ running' = running /\ running \notin Fds
    BY <1>4, LoopAssumption DEF Poll, RoundBegins, LoopRuns
  <2>2. CASE interrupted' = TRUE /\ UNCHANGED m_fds
    <3>1. PollType'
      BY <1>4, <2>2 DEF Poll, PollType
    <3>2. PollInv'
      BY <1>2, <2>2 DEF PollInv, EntryAsked
    <3> QED
      BY <3>1, <3>2
  <2>3. CASE ~(interrupted' = TRUE /\ UNCHANGED m_fds)
    <3>1. PICK found \in [1 .. n -> Findings] :
            /\ \A k \in 1 .. n : found[k] \in Answers(m_fds[k].events)
            /\ m_fds' = [k \in 1 .. n |-> [m_fds[k] EXCEPT !.revents = found[k], !.fresh = FALSE]]
      BY <1>3, <1>4, <2>3 DEF Poll
    <3>2. ASSUME NEW k \in 1 .. n
          PROVE  /\ m_fds'[k] \in Pollfd /\ m_fds'[k].fd = m_fds[k].fd
                 /\ m_fds'[k].events = m_fds[k].events /\ m_fds'[k].revents = found[k]
      <4>1. m_fds[k] \in Pollfd
        BY PollfdsTyped
      <4>2. m_fds'[k] = [m_fds[k] EXCEPT !.revents = found[k], !.fresh = FALSE]
        BY <3>1
      <4> QED
        BY <4>1, <4>2 DEF Pollfd
    <3> HIDE DEF n
    <3>3. m_fds' \in Seq(Pollfd) /\ Len(m_fds') = n
      <4>1. m_fds' = [k \in 1 .. n |-> m_fds'[k]]
        BY <3>1, Zenon
      <4>2. m_fds' \in [1 .. n -> Pollfd]
        BY <3>2, <4>1
      <4> QED
        BY <1>3, <4>2
    <3>4. PollType'
      BY <1>4, <2>3, <3>3 DEF Poll, PollType
    <3>5. ASSUME NEW k \in 1 .. n, NEW p, p = m_fds'[k] PROVE EntryAsked(p)' /\ EntryRight(p)'
      <4>1. EntryAsked(m_fds[k]) /\ p.fd = m_fds[k].fd /\ p.events = m_fds[k].events
            /\ p.revents = found[k] /\ p.fd \in Fds
        BY <3>2, <3>5, PollfdsTyped DEF PollInv, n
      <4>2. found[k] \subseteq p.events \cup {"EPOLLHUP"}
        BY <3>1, <4>1 DEF Answers
      <4> QED
        BY <1>2, <2>1, <4>1, <4>2 DEF EntryAsked, EntryRight
    <3>6. \A j, k \in 1 .. n : m_fds'[j].fd = m_fds'[k].fd => j = k
      BY <3>2 DEF PollInv, n
    <3>7. \A f \in Registered' : \E k \in 1 .. n : m_fds'[k].fd = f
      BY <1>2, <3>2 DEF PollInv, n
    <3>8. walk' = 1
      BY <1>4 DEF Poll
    <3>9. PollInv'
      BY <1>2, <3>3, <3>5, <3>6, <3>7, <3>8 DEF PollInv
    <3> QED
      BY <3>4, <3>9
  <2> QED
    BY <2>2, <2>3
<1>5. CASE PollDispatch
  <2>1. /\ walk \in 1 .. n /\ walk' = walk + 1 /\ UNCHANGED <<m_fds, interrupted, stale>>
        /\ running = "nothing"
    BY <1>3, <1>5 DEF PollDispatch, LoopRuns
  <2>2. running' = m_fds[walk].fd \/ (running' = running /\ running \notin Fds)
    BY <1>5, <2>1, LoopAssumption DEF PollDispatch, Serve, Unexpected
  <2>3. PollType'
    BY <1>3, <2>1 DEF PollType
  <2>4. ASSUME ~interrupted, NEW k \in walk + 1 .. n, ~m_fds[k].fresh PROVE EntryRight(m_fds[k])'
    <3>1. k \in walk .. n /\ k \in 1 .. n /\ k # walk
      BY <1>3, <2>1
    <3>2. EntryRight(m_fds[k]) /\ m_fds[k].fd # m_fds[walk].fd /\ m_fds[k].fd \in Fds
      BY <2>1, <2>4, <3>1, PollfdsTyped DEF PollInv
    <3> QED
      BY <2>1, <2>2, <3>2 DEF EntryRight
  <2>5. PollInv'
    BY <1>2, <2>1, <2>4 DEF PollInv, EntryAsked
  <2> QED
    BY <2>3, <2>5
<1>6. CASE PollEnds
  <2>1. walk' = 0 /\ UNCHANGED <<m_fds, interrupted, stale, running>>
    BY <1>6 DEF PollEnds, core
  <2>2. PollType'
    BY <2>1 DEF PollType
  <2>3. PollInv'
    BY <1>2, <2>1 DEF PollInv, EntryAsked
  <2> QED
    BY <2>2, <2>3
<1> QED
  BY <1>4, <1>5, <1>6

\* Every step of the loops keeps poll's invariant.
LEMMA PollStep ==
  ASSUME CoreType, CoreType', PollType, backend = "poll" /\ failed = "no" => PollInv,
         Next
  PROVE  PollType' /\ (backend' = "poll" /\ failed' = "no" => PollInv')
<1>1. backend' = backend /\ failed = "no"
  BY DEF Next, Calls, AddIoEvent, DelIoEventMask, DelIoEvent, OpenFd, CloseFd, UserCode, Round,
         EpollWait, EpollDispatch, Poll, PollDispatch, PollEnds, EventBaseLoop, LibeventDispatch,
         RoundBegins, LoopRuns, AddTask, Returns, RunTasks, BeginTasks, RunTask, EndTasks
<1>2. ASSUME UNCHANGED pollVars PROVE PollType'
  BY <1>1, <1>2 DEF PollType, pollVars
<1>3. ASSUME NEW fd \in Fds, Calls(fd) PROVE PollType' /\ (backend' = "poll" /\ failed' = "no" => PollInv')
  <2>1. CASE backend = "poll"
    BY <1>1, <1>3, <2>1, PollCalls
  <2>2. CASE backend # "poll"
    <3>1. UNCHANGED pollVars
      BY <1>3, <2>2 DEF Calls, AddIoEvent, DelIoEventMask, DelIoEvent, OpenFd, CloseFd, addIoEvent,
                        delMask, delIoEvent, OnEpoll, OnPoll, OnLibevent
    <3> QED
      BY <1>1, <1>2, <2>2, <3>1
  <2> QED
    BY <2>1, <2>2
<1>4. CASE Round
  <2>1. CASE backend = "poll"
    <3>1. Poll \/ PollDispatch \/ PollEnds
      BY <1>4, <2>1 DEF Round, OnEpoll, OnLibevent
    <3> QED
      BY <1>1, <2>1, <3>1, PollRound
  <2>2. CASE backend # "poll"
    <3>1. UNCHANGED pollVars
      BY <1>4, <2>2 DEF Round, OnEpoll, OnPoll, OnLibevent
    <3> QED
      BY <1>1, <1>2, <2>2, <3>1
  <2> QED
    BY <2>1, <2>2
<1>5. ASSUME AddTask \/ Returns \/ RunTasks, UNCHANGED pollVars
      PROVE  PollType' /\ (backend' = "poll" /\ failed' = "no" => PollInv')
  <2>1. UNCHANGED <<m_io_events, m_fds, walk, interrupted, stale>>
    BY <1>5 DEF AddTask, Returns, RunTasks, BeginTasks, RunTask, EndTasks, pollVars
  <2>2. running' = running \/ running' \notin Fds
    BY <1>5, LoopAssumption DEF AddTask, Returns, RunTasks, BeginTasks, RunTask, EndTasks
  <2>3. Registered' = Registered /\ \A f : MaskOf(f)' = MaskOf(f) /\ (Served(f)' <=> Served(f))
    BY <2>1 DEF MaskOf, Registered, Served
  <2>4. ASSUME backend = "poll" PROVE PollInv'
    <3>1. ASSUME NEW k \in 1 .. Len(m_fds), EntryRight(m_fds[k]) PROVE EntryRight(m_fds[k])'
      BY <2>1, <2>2, <3>1, PollfdsTyped DEF EntryRight
    <3>2. \A k \in walk .. Len(m_fds) : walk # 0 => k \in 1 .. Len(m_fds)
      BY DEF PollType
    <3> QED
      BY <2>1, <2>3, <2>4, <3>1, <3>2, <1>1 DEF PollInv, EntryAsked
  <2> QED
    BY <1>1, <1>2, <1>5, <2>4
<1> QED
  BY <1>3, <1>4, <1>5 DEF Next

-----------------------------------------------------------------------------
(* libevent *)

\* What is in libevent's queue is an event.
LEMMA ActiveTyped ==
  ASSUME LibeventType, NEW e \in active
  PROVE  e \in LibEvent /\ e.fd \in Fds /\ e.mask \in Masks /\ e.leaked \in BOOLEAN /\ e.opening \in Nat
<1>1. e \in LibEvent
  BY DEF LibeventType
<1> QED
  BY <1>1 DEF LibEvent

(* A mask of a descriptor is live in libevent once it was asked for, and an *)
(* older event of it that is in the queue is marked as one that leaked.     *)
LEMMA LibeventAdds ==
  ASSUME NEW fd \in Fds, NEW mask \in Masks, CoreType, CoreType', ClosedUnmasked, LibeventType,
         LibeventInv, LibeventAdd(fd, mask), UNCHANGED backend,
         \A f \in Fds \ {fd} : opened'[f] = opened[f],
         opened'[fd] = opened[fd] \/ ~opened[fd].open,
         backend = "libevent"
  PROVE  LibeventType' /\ LibeventInv'
<1>1. /\ OthersKept(fd) /\ fd \in Registered' /\ MaskOf(fd)' = MaskOf(fd) \cup {mask}
      /\ mask \in m_io_events'[fd].callbacks
      /\ fd \in Registered => m_io_events[fd].callbacks \subseteq m_io_events'[fd].callbacks
  BY MapAdded DEF LibeventAdd, CoreType
<1>2. /\ pointer' \in [Fds -> [Masks -> {"null", "live", "freed"}]]
      /\ \A f \in Fds \ {fd} : pointer'[f] = pointer[f]
      /\ pointer'[fd] = [pointer[fd] EXCEPT ![mask] = "live"]
      /\ pointer[fd] \in [Masks -> {"null", "live", "freed"}]
  BY DEF LibeventAdd, LibeventType
<1> DEFINE marked(e) == [e EXCEPT !.leaked = @ \/ (e.fd = fd /\ e.mask = mask)]
<1>3. active' = {marked(e) : e \in active}
  BY DEF LibeventAdd
<1>4. ASSUME NEW e \in active
      PROVE  /\ marked(e) \in LibEvent /\ marked(e).fd = e.fd /\ marked(e).mask = e.mask
             /\ marked(e).opening = e.opening
             /\ ~marked(e).leaked => ~e.leaked /\ (e.fd # fd \/ e.mask # mask)
  <2>1. e \in LibEvent /\ e.leaked \in BOOLEAN
    BY ActiveTyped
  <2>2. ASSUME NEW b, b = (e.leaked \/ (e.fd = fd /\ e.mask = mask)), b \in BOOLEAN
        PROVE  /\ [e EXCEPT !.leaked = b] \in LibEvent /\ [e EXCEPT !.leaked = b].fd = e.fd
               /\ [e EXCEPT !.leaked = b].mask = e.mask
               /\ [e EXCEPT !.leaked = b].opening = e.opening
               /\ [e EXCEPT !.leaked = b].leaked = b
    BY <2>1, <2>2 DEF LibEvent
  <2>3. (e.leaked \/ (e.fd = fd /\ e.mask = mask)) \in BOOLEAN
    BY <2>1
  <2> QED
    BY <2>1, <2>2, <2>3
<1> HIDE DEF marked
<1>5. LibeventType'
  <2>1. leaked' \subseteq Fds \X Masks
    BY DEF LibeventAdd, LibeventType
  <2> QED
    BY <1>2, <1>3, <1>4, <2>1 DEF LibeventType
<1>6. ASSUME NEW f \in Fds PROVE Pointed(f)'
  <2>1. Pointed(f)
    BY DEF LibeventInv
  <2>2. CASE f # fd
    BY <1>1, <1>2, <2>1, <2>2 DEF Pointed, OthersKept, MaskOf
  <2>3. CASE f = fd
    <3>1. MaskOf(fd) \subseteq Masks
      BY DEF CoreType, MapType, MapEntry, MaskOf
    <3>2. fd \notin Registered => MaskOf(fd) = {}
      BY DEF MaskOf
    <3> QED
      BY <1>1, <1>2, <2>1, <2>3, <3>1, <3>2 DEF Pointed, Masks
  <2> QED
    BY <2>2, <2>3
<1>7. ASSUME NEW d \in active' PROVE Current(d)'
  <2>1. PICK e \in active : d = marked(e)
    BY <1>3
  <2>2. Current(e) /\ e.fd \in Fds
    BY ActiveTyped DEF LibeventInv
  <2>3. CASE e.fd # fd
    BY <1>1, <1>4, <2>1, <2>2, <2>3 DEF Current, OthersKept
  <2>4. CASE e.fd = fd
    <3>1. opened'[fd] = opened[fd] \/ MaskOf(fd) = {}
      BY DEF ClosedUnmasked
    <3> QED
      BY <1>1, <1>4, <2>1, <2>2, <2>4, <3>1 DEF Current
  <2> QED
    BY <2>3, <2>4
<1> QED
  BY <1>5, <1>6, <1>7 DEF LibeventInv

(* Events go: those that the entry has lost, and no other one for reading. *)
LEMMA LibeventFrees ==
  ASSUME NEW fd \in Fds, NEW masks \in SUBSET Masks, CoreType, CoreType', LibeventType, LibeventInv,
         OthersKept(fd), Free(fd, masks), UNCHANGED backend, backend = "libevent",
         \A f \in Fds : opened'[f].times = opened[f].times,
         MaskOf(fd)' \subseteq MaskOf(fd) \ masks,
         fd \in Registered' => m_io_events'[fd].callbacks = m_io_events[fd].callbacks,
         pointer[fd]["EPOLLIN"] = "live" => "EPOLLIN" \in masks \cup MaskOf(fd)'
  PROVE  LibeventType' /\ (failed' = "no" => LibeventInv')
<1>1. CASE failed' = "bad event" /\ UNCHANGED libeventVars
  BY <1>1 DEF LibeventType, libeventVars
<1>2. CASE ~(failed' = "bad event" /\ UNCHANGED libeventVars)
  <2>1. /\ pointer' = [pointer EXCEPT ![fd] = [mask \in Masks |->
                          IF mask \in masks THEN "freed" ELSE @[mask]]]
        /\ active' = {e \in active : e.leaked \/ e.fd # fd \/ e.mask \notin masks}
        /\ UNCHANGED leaked
    BY <1>2 DEF Free
  <2>2. /\ pointer' \in [Fds -> [Masks -> {"null", "live", "freed"}]]
        /\ \A f \in Fds \ {fd} : pointer'[f] = pointer[f]
        /\ \A mask \in Masks : pointer'[fd][mask] = IF mask \in masks THEN "freed" ELSE pointer[fd][mask]
    <3>1. pointer[fd] \in [Masks -> {"null", "live", "freed"}]
      BY DEF LibeventType
    <3>2. pointer' = [pointer EXCEPT ![fd] = [mask \in Masks |->
                          IF mask \in masks THEN "freed" ELSE pointer[fd][mask]]]
      BY <2>1 DEF LibeventType
    <3>3. [mask \in Masks |-> IF mask \in masks THEN "freed" ELSE pointer[fd][mask]]
             \in [Masks -> {"null", "live", "freed"}]
      BY <3>1
    <3> QED
      BY <3>2, <3>3 DEF LibeventType
  <2>3. LibeventType'
    BY <2>1, <2>2 DEF LibeventType
  <2>4. ASSUME NEW f \in Fds PROVE Pointed(f)'
    <3>1. Pointed(f)
      BY DEF LibeventInv
    <3>2. CASE f # fd
      BY <2>2, <3>1, <3>2 DEF Pointed, OthersKept, MaskOf
    <3>3. CASE f = fd
      <4>1. MaskOf(fd)' \subseteq Masks
        BY DEF CoreType, MapType, MapEntry, MaskOf
      <4>2. fd \notin Registered' => MaskOf(fd)' = {}
        BY DEF MaskOf
      <4> QED
        BY <2>2, <3>1, <3>3, <4>1, <4>2 DEF Pointed, Masks
    <3> QED
      BY <3>2, <3>3
  <2>5. ASSUME NEW e \in active' PROVE Current(e)'
    <3>1. e \in active /\ Current(e) /\ e.fd \in Fds
      BY <2>1, ActiveTyped DEF LibeventInv
    <3>2. MaskOf(e.fd)' \subseteq MaskOf(e.fd)
      BY <3>1 DEF OthersKept
    <3> QED
      BY <3>1, <3>2 DEF Current
  <2> QED
    BY <2>3, <2>4, <2>5 DEF LibeventInv
<1> QED
  BY <1>1, <1>2

\* A call of a user keeps libevent's invariant, or hands libevent a pointer
\* to no event.
LEMMA LibeventCalls ==
  ASSUME NEW fd \in Fds, CoreType, CoreType', ClosedUnmasked, LibeventType, LibeventInv, Calls(fd),
         backend = "libevent", UNCHANGED backend
  PROVE  LibeventType' /\ (failed' = "no" => LibeventInv')
<1> USE DEF CoreType
<1>1. ASSUME NEW mask \in Masks, AddIoEvent(fd, mask) PROVE LibeventType' /\ LibeventInv'
  <2>1. LibeventAdd(fd, mask) /\ UNCHANGED opened
    BY <1>1 DEF AddIoEvent, addIoEvent, OnEpoll, OnPoll
  <2> QED
    BY <2>1, LibeventAdds
<1>2. ASSUME NEW mask \in Masks, OpenFd(fd, mask) PROVE LibeventType' /\ LibeventInv'
  <2>1. /\ LibeventAdd(fd, mask) /\ ~opened[fd].open
        /\ \A f \in Fds \ {fd} : opened'[f] = opened[f]
    BY <1>2 DEF OpenFd, addIoEvent, OnEpoll, OnPoll
  <2> QED
    BY <2>1, LibeventAdds
<1>3. ASSUME NEW mask \in Masks, DelIoEventMask(fd, mask)
      PROVE  LibeventType' /\ (failed' = "no" => LibeventInv')
  <2>1. fd \in Registered /\ LibeventDelMask(fd, mask) /\ UNCHANGED opened
    BY <1>3 DEF DelIoEventMask, delMask, OnEpoll, OnPoll
  <2>2. /\ OthersKept(fd) /\ MaskOf(fd)' = MaskOf(fd) \ {mask}
        /\ fd \in Registered' => m_io_events'[fd].callbacks = m_io_events[fd].callbacks
    BY <2>1, MapMaskDeleted DEF LibeventDelMask
  <2> DEFINE masks == Masks \ (MaskOf(fd) \ {mask})
  <2>3. masks \in SUBSET Masks /\ Free(fd, masks)
    BY <2>1 DEF LibeventDelMask
  <2>4. MaskOf(fd)' \subseteq MaskOf(fd) \ masks /\ "EPOLLIN" \in masks \cup MaskOf(fd)'
    BY <2>2 DEF Masks
  <2> HIDE DEF masks
  <2> QED
    BY <2>1, <2>2, <2>3, <2>4, LibeventFrees
<1>4. ASSUME fd \in Registered, LibeventDel(fd), \A f \in Fds : opened'[f].times = opened[f].times
      PROVE  LibeventType' /\ (failed' = "no" => LibeventInv')
  <2>1. OthersKept(fd) /\ fd \notin Registered' /\ MaskOf(fd)' = {}
    BY <1>4, MapDeleted DEF LibeventDel
  <2> DEFINE masks == IF pointer[fd]["EPOLLIN"] # "null" THEN {"EPOLLIN"}
                      ELSE IF pointer[fd]["EPOLLOUT"] # "null" THEN {"EPOLLOUT"} ELSE {}
  <2>2. masks \in SUBSET Masks /\ Free(fd, masks)
        /\ (pointer[fd]["EPOLLIN"] = "live" => "EPOLLIN" \in masks \cup MaskOf(fd)')
    BY <1>4 DEF LibeventDel, Masks
  <2> HIDE DEF masks
  <2> QED
    BY <1>4, <2>1, <2>2, LibeventFrees
<1>5. ASSUME DelIoEvent(fd) PROVE LibeventType' /\ (failed' = "no" => LibeventInv')
  BY <1>4, <1>5 DEF DelIoEvent, delIoEvent, OnEpoll, OnPoll
<1>6. ASSUME CloseFd(fd) PROVE LibeventType' /\ (failed' = "no" => LibeventInv')
  <2>1. \A f \in Fds : opened'[f].times = opened[f].times
    <3>1. opened[fd] \in [open : BOOLEAN, times : Nat]
      OBVIOUS
    <3>2. opened' = [opened EXCEPT ![fd] = [opened[fd] EXCEPT !.open = FALSE]]
      BY <1>6 DEF CloseFd
    <3> QED
      BY <3>1, <3>2
  <2>2. CASE fd \in Registered
    BY <1>4, <1>6, <2>1, <2>2 DEF CloseFd, delIoEvent, OnEpoll, OnPoll
  <2>3. CASE fd \notin Registered
    <3>1. UNCHANGED <<m_io_events, pointer, leaked, active>>
      BY <1>6, <2>3 DEF CloseFd, libeventVars
    <3>2. LibeventType'
      BY <3>1 DEF LibeventType
    <3>3. \A f \in Fds : Pointed(f)'
      BY <3>1 DEF LibeventInv, Pointed, MaskOf, Registered
    <3>4. \A e \in active : Current(e)'
      BY <2>1, <3>1, ActiveTyped DEF LibeventInv, Current, MaskOf, Registered
    <3> QED
      BY <3>1, <3>2, <3>3, <3>4 DEF LibeventInv
  <2> QED
    BY <2>2, <2>3
<1> QED
  BY <1>1, <1>2, <1>3, <1>5, <1>6 DEF Calls

\* libevent's round finds events of files that are open, and serving one adds
\* none.
LEMMA LibeventRound ==
  ASSUME CoreType, CoreType', LibeventType, LibeventInv, backend = "libevent", UNCHANGED backend,
         EventBaseLoop \/ \E e \in active : LibeventDispatch(e)
  PROVE  LibeventType' /\ LibeventInv'
<1>1. CASE EventBaseLoop
  <2>1. UNCHANGED <<m_io_events, opened, pointer, leaked>>
    BY <1>1 DEF EventBaseLoop
  <2>2. ASSUME NEW e \in active'
        PROVE  e \in LibEvent /\ (e.opening = opened[e.fd].times)
    <3>1. PICK d \in Fds \X Masks, b \in BOOLEAN :
                  e = [fd |-> d[1], mask |-> d[2], leaked |-> b, opening |-> opened[d[1]].times]
      BY <1>1 DEF EventBaseLoop, Entries, Live, LibeventType
    <3>2. d[1] \in Fds /\ d[2] \in Masks
      OBVIOUS
    <3>3. opened[d[1]].times \in Nat
      BY <3>2 DEF CoreType
    <3> QED
      BY <3>1, <3>2, <3>3 DEF LibEvent
  <2>3. LibeventType'
    BY <2>1, <2>2 DEF LibeventType
  <2>4. \A f \in Fds : Pointed(f)'
    BY <2>1 DEF LibeventInv, Pointed, MaskOf, Registered
  <2>5. \A e \in active' : Current(e)'
    BY <2>1, <2>2 DEF Current
  <2> QED
    BY <2>3, <2>4, <2>5 DEF LibeventInv
<1>2. ASSUME NEW d \in active, LibeventDispatch(d) PROVE LibeventType' /\ LibeventInv'
  <2>1. /\ UNCHANGED <<opened, pointer, leaked>> /\ active' \subseteq active
        /\ \A f \in Fds : MaskOf(f)' = MaskOf(f)
        /\ \A f \in Registered : f \in Registered' /\ m_io_events'[f] = m_io_events[f]
    BY <1>2, ActiveTyped, MapDefaulted DEF LibeventDispatch, CoreType
  <2>2. LibeventType'
    BY <2>1 DEF LibeventType
  <2>3. ASSUME NEW f \in Fds PROVE Pointed(f)'
    <3>1. Pointed(f) /\ (f \notin Registered => MaskOf(f) = {})
      BY DEF LibeventInv, MaskOf
    <3> QED
      BY <2>1, <3>1 DEF Pointed
  <2>4. ASSUME NEW e \in active' PROVE Current(e)'
    <3>1. Current(e) /\ e.fd \in Fds
      BY <2>1, ActiveTyped DEF LibeventInv
    <3> QED
      BY <2>1, <3>1 DEF Current
  <2> QED
    BY <2>2, <2>3, <2>4 DEF LibeventInv
<1> QED
  BY <1>1, <1>2

\* Every step of the loops keeps libevent's invariant.
LEMMA LibeventStep ==
  ASSUME CoreType, CoreType', ClosedUnmasked, LibeventType,
         backend = "libevent" /\ failed = "no" => LibeventInv, Next
  PROVE  LibeventType' /\ (backend' = "libevent" /\ failed' = "no" => LibeventInv')
<1>1. backend' = backend
  BY DEF Next
<1>2. ASSUME UNCHANGED libeventVars PROVE LibeventType'
  BY <1>1, <1>2 DEF LibeventType, libeventVars
<1>3. ASSUME NEW fd \in Fds, Calls(fd)
      PROVE  LibeventType' /\ (backend' = "libevent" /\ failed' = "no" => LibeventInv')
  <2>1. CASE backend = "libevent"
    <3>1. failed = "no"
      BY <1>3 DEF Calls, AddIoEvent, DelIoEventMask, DelIoEvent, OpenFd, CloseFd, UserCode
    <3> QED
      BY <1>1, <1>3, <2>1, <3>1, LibeventCalls
  <2>2. CASE backend # "libevent"
    <3>1. UNCHANGED libeventVars
      BY <1>3, <2>2 DEF Calls, AddIoEvent, DelIoEventMask, DelIoEvent, OpenFd, CloseFd, addIoEvent,
                        delMask, delIoEvent, OnEpoll, OnPoll, OnLibevent
    <3> QED
      BY <1>1, <1>2, <2>2, <3>1
  <2> QED
    BY <2>1, <2>2
<1>4. CASE Round
  <2>1. CASE backend = "libevent"
    <3>1. EventBaseLoop \/ \E e \in active : LibeventDispatch(e)
      BY <1>4, <2>1 DEF Round, OnEpoll, OnPoll
    <3>2. failed = "no"
      BY <3>1 DEF EventBaseLoop, LibeventDispatch, RoundBegins, LoopRuns
    <3> QED
      BY <1>1, <2>1, <3>1, <3>2, LibeventRound
  <2>2. CASE backend # "libevent"
    <3>1. UNCHANGED libeventVars
      BY <1>4, <2>2 DEF Round, OnEpoll, OnPoll, OnLibevent
    <3> QED
      BY <1>1, <1>2, <2>2, <3>1
  <2> QED
    BY <2>1, <2>2
<1>5. ASSUME AddTask \/ Returns \/ RunTasks, UNCHANGED libeventVars
      PROVE  LibeventType' /\ (backend' = "libevent" /\ failed' = "no" => LibeventInv')
  <2>1. failed = "no" /\ UNCHANGED <<m_io_events, opened, pointer, leaked, active>>
    BY <1>5 DEF AddTask, Returns, RunTasks, BeginTasks, RunTask, EndTasks, UserCode, LoopRuns,
                libeventVars
  <2>2. \A f : Pointed(f)' <=> Pointed(f)
    BY <2>1 DEF Pointed, MaskOf, Registered
  <2>3. \A e : Current(e)' <=> Current(e)
    BY <2>1 DEF Current, MaskOf, Registered
  <2> QED
    BY <1>1, <1>2, <1>5, <2>1, <2>2, <2>3 DEF LibeventInv
<1> QED
  BY <1>3, <1>4, <1>5 DEF Next

-----------------------------------------------------------------------------
(* The theorems *)

\* The invariant holds at the start.
LEMMA InitIInv == Init => IInv
<1> SUFFICES ASSUME Init PROVE IInv
  OBVIOUS
<1> USE DEF Init, CoreInit, EpollInit, PollInit, LibeventInit
<1>1. Registered = {} /\ \A fd : MaskOf(fd) = {}
  BY DEF Registered, MaskOf
<1>2. CoreType
  <2>1. m_io_events \in [Registered -> MapEntry]
    BY <1>1 DEF Registered
  <2> QED
    BY <1>1, <2>1 DEF CoreType, MapType, Idle
<1>3. TasksType /\ Ordered
  BY DEF TasksType, Ordered, From
<1>4. EpollType /\ PollType /\ LibeventType
  <2>1. epoll \in [Fds -> SUBSET Masks] /\ m_fired_events = <<>> /\ m_fds = <<>>
    OBVIOUS
  <2>2. pointer \in [Fds -> [Masks -> {"null", "live", "freed"}]] /\ active = {} /\ leaked = {}
    OBVIOUS
  <2>3. walk \in Nat /\ interrupted \in BOOLEAN
    BY Zenon
  <2>4. <<>> \in Seq(Event) /\ <<>> \in Seq(Pollfd)
    BY EmptySeq
  <2>5. EpollType
    BY <2>1, <2>4 DEF EpollType
  <2>6. PollType
    BY <2>1, <2>3, <2>4 DEF PollType
  <2>7. LibeventType
    BY <2>2 DEF LibeventType
  <2> QED
    BY <2>5, <2>6, <2>7
<1>5. EpollInv
  BY <1>1 DEF EpollInv, Served
<1>6. PollInv
  BY <1>1 DEF PollInv, Served
<1>7. LibeventInv
  BY <1>1 DEF LibeventInv, Pointed, Masks
<1> QED
  BY <1>1, <1>2, <1>3, <1>4, <1>5, <1>6, <1>7 DEF IInv, BackendType, ClosedUnmasked

\* Every step keeps the invariant.
LEMMA NextIInv == IInv /\ Next => IInv'
<1> SUFFICES ASSUME IInv, Next PROVE IInv'
  OBVIOUS
<1> USE DEF IInv
<1>1. CoreType'
  BY CallsCoreType, RoundCoreType, TasksCoreType DEF Next
<1> USE DEF BackendType
<1>2. TasksType' /\ Ordered' /\ ClosedUnmasked'
  BY OrderedStep, ClosedStep
<1>3. EpollType' /\ (backend' = "epoll" => EpollInv')
  BY <1>1, EpollStep
<1>4. PollType' /\ (backend' = "poll" /\ failed' = "no" => PollInv')
  BY <1>1, PollStep
<1>5. LibeventType' /\ (backend' = "libevent" /\ failed' = "no" => LibeventInv')
  BY <1>1, LibeventStep
<1>6. backend' \in Backends
  BY DEF Next
<1> QED
  BY <1>1, <1>2, <1>3, <1>4, <1>5, <1>6

\* The invariant depends on the variables alone.
LEMMA StutterIInv == IInv /\ UNCHANGED vars => IInv'
<1> SUFFICES ASSUME IInv, UNCHANGED vars PROVE IInv'
  OBVIOUS
<1> USE DEF vars, core, tasks, epollVars, pollVars, libeventVars
<1>1. Registered' = Registered /\ \A f : MaskOf(f)' = MaskOf(f) /\ (Served(f)' <=> Served(f))
  BY DEF Registered, MaskOf, Served
<1>2. CoreType' /\ TasksType' /\ Ordered' /\ ClosedUnmasked'
  BY <1>1 DEF IInv, CoreType, MapType, TasksType, Ordered, From, ClosedUnmasked
<1>3. BackendType'
  BY DEF IInv, BackendType, EpollType, PollType, LibeventType
<1>4. backend = "epoll" => EpollInv'
  BY <1>1 DEF IInv, EpollInv, EventRight
<1>5. backend = "poll" /\ failed = "no" => PollInv'
  BY <1>1 DEF IInv, PollInv, EntryRight, EntryAsked
<1>6. backend = "libevent" /\ failed = "no" => LibeventInv'
  BY <1>1 DEF IInv, LibeventInv, Pointed, Current
<1> QED
  BY <1>2, <1>3, <1>4, <1>5, <1>6 DEF IInv

\* The invariant always holds.
LEMMA SpecIInv == Spec => []IInv
<1>1. IInv /\ [Next]_vars => IInv'
  BY NextIInv, StutterIInv
<1> QED
  BY InitIInv, <1>1, PTL DEF Spec

(* Every backend's table of descriptors agrees with the map of the loop.   *)
THEOREM MapsAgree == Spec => []MapIsKernelSet
<1>1. IInv => MapIsKernelSet
  <2> SUFFICES ASSUME IInv, failed = "no", NEW fd \in Fds
               PROVE
            CASE backend = "epoll" ->
                   /\ epoll[fd] = MaskOf(fd)
                   /\ fd \in Registered => epoll[fd] \subseteq m_io_events[fd].callbacks
              [] backend = "poll" ->
                   LET mine == {k \in DOMAIN m_fds : m_fds[k].fd = fd}
                   IN  IF fd \notin Registered THEN mine = {}
                       ELSE \E k \in mine : mine = {k} /\ m_fds[k].events = MaskOf(fd)
              [] backend = "libevent" ->
                   /\ \A mask \in MaskOf(fd) : pointer[fd][mask] = "live"
                   /\ pointer[fd]["EPOLLIN"] = "live" => "EPOLLIN" \in MaskOf(fd)
    BY DEF MapIsKernelSet
  <2>1. CASE backend = "epoll"
    BY <2>1 DEF IInv, EpollInv, Served
  <2>2. CASE backend = "poll"
    <3> DEFINE mine == {k \in DOMAIN m_fds : m_fds[k].fd = fd}
    <3>1. DOMAIN m_fds = 1 .. Len(m_fds)
      BY DEF IInv, BackendType, PollType
    <3>2. CASE fd \notin Registered
      <4>1. mine = {}
        BY <2>2, <3>1, <3>2 DEF IInv, PollInv, EntryAsked
      <4> QED
        BY <2>2, <3>2, <4>1
    <3>3. CASE fd \in Registered
      <4>1. PICK k \in 1 .. Len(m_fds) : m_fds[k].fd = fd
        BY <2>2, <3>3 DEF IInv, PollInv
      <4>2. mine = {k} /\ m_fds[k].events = MaskOf(fd)
        BY <2>2, <3>1, <4>1 DEF IInv, PollInv, EntryAsked
      <4> QED
        BY <2>2, <3>3, <4>2
    <3> QED
      BY <3>2, <3>3
  <2>3. CASE backend = "libevent"
    BY <2>3 DEF IInv, LibeventInv, Pointed
  <2>4. backend \in {"epoll", "poll", "libevent"}
    BY LoopAssumption DEF IInv
  <2> QED
    BY <2>1, <2>2, <2>3, <2>4
<1> QED
  BY SpecIInv, <1>1, PTL

(* Every task that was added runs once, in the order of the additions.     *)
THEOREM TasksOrdered == Spec => []TasksInOrder
<1>1. IInv => TasksInOrder
  <2> SUFFICES ASSUME IInv
               PROVE  ran \o SubSeq(m_pending_factors, From, Len(m_pending_factors))
                         = [i \in 1 .. added |-> i]
    BY DEF TasksInOrder, From
  <2> DEFINE n == Len(m_pending_factors)
             f == From
             r == Len(ran)
             rest == SubSeq(m_pending_factors, f, n)
  <2>1. /\ n \in Nat /\ f \in 1 .. n + 1 /\ r \in Nat /\ added \in Nat
        /\ m_pending_factors \in Seq(Nat) /\ ran \in Seq(Nat)
    BY DEF IInv, TasksType, From
  <2>2. /\ r + (n + 1 - f) = added
        /\ \A i \in 1 .. r : ran[i] = i
        /\ \A k \in f .. n : m_pending_factors[k] = r + (k - f) + 1
    BY DEF IInv, Ordered
  <2> HIDE DEF n, f, r
  <2>3. /\ rest \in Seq(Nat) /\ Len(rest) = n + 1 - f
        /\ \A i \in 1 .. n - f + 1 : rest[i] = m_pending_factors[f + i - 1]
    <3>1. \A k \in f .. n : m_pending_factors[k] \in Nat
      BY <2>1 DEF n
    <3> QED
      BY <2>1, <3>1, SubSeqProperties
  <2> HIDE DEF rest
  <2>4. /\ Len(ran \o rest) = added /\ ran \o rest \in Seq(Nat)
        /\ \A i \in 1 .. added : (ran \o rest)[i] = IF i <= r THEN ran[i] ELSE rest[i - r]
    <3>1. Len(ran) + Len(rest) = added /\ Len(ran) = r
      BY <2>1, <2>2, <2>3 DEF r
    <3> QED
      BY <2>1, <2>3, <3>1, ConcatProperties
  <2>5. ASSUME NEW i \in 1 .. added PROVE (ran \o rest)[i] = i
    <3>1. CASE i <= r
      BY <2>1, <2>2, <2>4, <3>1
    <3>2. CASE ~(i <= r)
      <4>1. i - r \in 1 .. n - f + 1 /\ f + (i - r) - 1 \in f .. n
        BY <2>1, <2>2, <3>2
      <4>2. rest[i - r] = m_pending_factors[f + (i - r) - 1]
        BY <2>3, <4>1
      <4>3. m_pending_factors[f + (i - r) - 1] = r + ((f + (i - r) - 1) - f) + 1
        BY <2>2, <4>1
      <4>4. r + ((f + (i - r) - 1) - f) + 1 = i
        BY <2>1
      <4> QED
        BY <2>4, <3>2, <4>2, <4>3, <4>4
    <3> QED
      BY <3>1, <3>2
  <2>6. ran \o rest = [i \in 1 .. added |-> (ran \o rest)[i]]
    <3>1. \A s \in Seq(Nat) : s = [i \in 1 .. Len(s) |-> s[i]]
      OBVIOUS
    <3> QED
      BY <2>4, <3>1
  <2> QED
    BY <2>5, <2>6 DEF rest, n, f
<1> QED
  BY SpecIInv, <1>1, PTL

(* An event that goes astray is of a round that is out of date. *)
LEMMA EpollDispatchRight ==
  ASSUME IInv, EpollDispatch
  PROVE  LET ev == Head(m_fired_events)
         IN  \/ ev.fd \in stale
             \/ AskedFor(ev.fd, ev.events) /\ ev.opening = opened[ev.fd].times
<1> DEFINE ev == m_fired_events[1]
<1>1. backend = "epoll" /\ m_fired_events # <<>>
  BY DEF EpollDispatch, IInv, BackendType, EpollType
<1>2. 1 \in 1 .. Len(m_fired_events) /\ Head(m_fired_events) = ev
  BY <1>1 DEF IInv, BackendType, EpollType
<1>3. EventRight(ev) /\ Served(ev.fd) /\ ev.events \in Findings
  BY <1>1, <1>2, EventsTyped DEF IInv, BackendType, EpollInv, Event
<1>4. Serve(ev.fd, ev.events) /\ failed = "no"
  BY <1>2 DEF EpollDispatch, LoopRuns
<1> HIDE DEF ev
<1>5. ASSUME ev.fd \notin stale PROVE AskedFor(ev.fd, ev.events)
  <2>1. /\ ev.events # {} /\ ev.events \subseteq MaskOf(ev.fd) \cup {"EPOLLHUP"} /\ MaskOf(ev.fd) # {}
    BY <1>3, <1>5 DEF EventRight
  <2>2. ev.fd \in Registered /\ MaskOf(ev.fd) \subseteq m_io_events[ev.fd].callbacks
    BY <1>3, <2>1 DEF MaskOf, Served
  <2>3. MaskOf(ev.fd) \subseteq Masks
    BY <2>2 DEF MaskOf, IInv, CoreType, MapType, MapEntry
  <2>4. "EPOLLHUP" \in ev.events \/ CallbackFor(ev.fd, ev.events) \in MaskOf(ev.fd)
    BY <1>3, <2>1 DEF CallbackFor, Findings
  <2>5. CallbackFor(ev.fd, ev.events) \in m_io_events[ev.fd].callbacks
    BY <1>3, <2>1, <2>2, <2>3 DEF CallbackFor, Findings, Masks
  <2> QED
    BY <1>4, <2>2, <2>4, <2>5 DEF AskedFor, Serve, Unexpected
<1> QED
  BY <1>2, <1>3, <1>5 DEF EventRight

\* What poll's loop serves is of a new or touched entry, of a round
\* interrupted by a change of the array, or was asked for
\* (EventLoopPoll.cpp).
LEMMA PollDispatchRight ==
  ASSUME IInv, PollDispatch
  PROVE  LET p == m_fds[walk]
         IN  \/ p.revents = {} \/ p.fd \in stale \/ p.fresh \/ interrupted
             \/ AskedFor(p.fd, p.revents)
<1> DEFINE p == m_fds[walk]
<1>1. /\ backend = "poll" /\ failed = "no"
      /\ walk \in 1 .. Len(m_fds) /\ walk # 0 /\ walk \in walk .. Len(m_fds)
  BY DEF PollDispatch, LoopRuns, IInv, BackendType, PollType
<1>2. p.fresh \/ interrupted \/ EntryRight(p)
  BY <1>1 DEF IInv, PollInv
<1>3. EntryAsked(p) /\ p.fd \in Fds /\ p.revents \in Findings
  BY <1>1, PollfdsTyped DEF IInv, BackendType, PollInv, Pollfd
<1>4. failed = "no" /\ (p.revents # {} => Serve(p.fd, p.revents))
  BY DEF PollDispatch, LoopRuns
<1>5. Served(p.fd)
  BY <1>1, <1>3 DEF IInv, PollInv
<1> HIDE DEF p
<1>6. ASSUME EntryRight(p), p.fd \notin stale, p.revents # {} PROVE AskedFor(p.fd, p.revents)
  <2>1. p.revents \subseteq MaskOf(p.fd) \cup {"EPOLLHUP"}
    BY <1>3, <1>6 DEF EntryRight, EntryAsked
  <2>2. /\ p.fd \in Registered /\ MaskOf(p.fd) \subseteq m_io_events[p.fd].callbacks
        /\ MaskOf(p.fd) # {}
    BY <1>3, <1>5 DEF EntryAsked, Served
  <2>3. MaskOf(p.fd) \subseteq Masks
    BY <2>2 DEF MaskOf, IInv, CoreType, MapType, MapEntry
  <2>4. "EPOLLHUP" \in p.revents \/ CallbackFor(p.fd, p.revents) \in MaskOf(p.fd)
    BY <1>3, <1>6, <2>1 DEF CallbackFor, Findings
  <2>5. CallbackFor(p.fd, p.revents) \in m_io_events[p.fd].callbacks
    BY <1>3, <1>6, <2>1, <2>2, <2>3 DEF CallbackFor, Findings, Masks
  <2> QED
    BY <1>4, <1>6, <2>2, <2>4, <2>5 DEF AskedFor, Serve, Unexpected
<1> QED
  BY <1>2, <1>6 DEF p

\* What libevent serves was leaked, or is no longer asked for, or is about
\* the file its descriptor has open (EventLoopLibevent.cpp).
LEMMA LibeventDispatchRight ==
  ASSUME IInv, NEW e \in active, LibeventDispatch(e)
  PROVE  \/ e.leaked \/ e.mask \notin MaskOf(e.fd)
         \/ running' = e.fd /\ e.opening = opened[e.fd].times
<1>1. backend = "libevent" /\ failed = "no"
  BY DEF IInv, BackendType, LibeventType, LibeventDispatch, LoopRuns
<1>2. e.fd \in Fds /\ Pointed(e.fd) /\ Current(e)
  BY <1>1, ActiveTyped DEF IInv, BackendType, LibeventInv
<1>3. ASSUME e.mask \in MaskOf(e.fd) PROVE running' = e.fd
  BY <1>2, <1>3 DEF Pointed, MaskOf, LibeventDispatch
<1> QED
  BY <1>2, <1>3 DEF Current

\* An event reaches a callback that did not ask for it, or that asked for it on
\* another file, only in a round that is out of date, whatever the users call: a
\* callback of the round touched the descriptor, poll's entry is new or its round
\* was interrupted, libevent's event had leaked (EventLoopEpoll.cpp 52-98,
\* EventLoopPoll.cpp 45-99, EventLoopLibevent.cpp 44-88).
THEOREM OnlyWhenStale == Spec => MisdirectedOnlyWhenStale
<1> DEFINE Right ==
       /\ EpollDispatch =>
             LET ev == Head(m_fired_events)
             IN  \/ ev.fd \in stale
                 \/ AskedFor(ev.fd, ev.events) /\ ev.opening = opened[ev.fd].times
       /\ PollDispatch =>
             LET p == m_fds[walk]
             IN  \/ p.revents = {} \/ p.fd \in stale \/ p.fresh \/ interrupted
                 \/ AskedFor(p.fd, p.revents)
       /\ \A e \in active : LibeventDispatch(e) =>
             \/ e.leaked \/ e.mask \notin MaskOf(e.fd)
             \/ running' = e.fd /\ e.opening = opened[e.fd].times
<1>1. IInv => Right
  BY EpollDispatchRight, PollDispatchRight, LibeventDispatchRight
<1>2. IInv /\ [Next]_vars => [Right]_vars
  BY <1>1
<1> QED
  BY SpecIInv, <1>2, PTL DEF Spec, MisdirectedOnlyWhenStale

=============================================================================
