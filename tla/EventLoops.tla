----------------------------- MODULE EventLoops -----------------------------
(***************************************************************************)
(* The event loop IEventLoop::create makes, by the flag it is given, and   *)
(* the users that call it.                                                 *)
(*                                                                         *)
(* A callback or task is the user's code: between the steps of the loop it *)
(* may call addIoEvent, delIoEvent and addTask, for its own descriptor or  *)
(* for another, close a descriptor that it has unregistered and open one   *)
(* that gets the same number.  What is interesting is what those calls do  *)
(* to the rest of the round, and to the list runTask is walking through.   *)
(***************************************************************************)
EXTENDS EpollLoop, PollLoop, LibeventLoop

CONSTANT Backends      \* the flags: a subset of {"epoll", "poll", "libevent"}

ASSUME LoopAssumption ==
    /\ MAX_EVENTS \in Nat \ {0}
    /\ MaxTasks \in Nat /\ MaxOpens \in Nat /\ MaxCalls \in Nat /\ MaxActive \in Nat \ {0}
    /\ Backends \subseteq {"epoll", "poll", "libevent"}
    /\ Fds \cap {"nothing", "task", "setup"} = {}

VARIABLE backend

vars == <<core, epollVars, pollVars, libeventVars, backend>>

Init == /\ CoreInit /\ EpollInit /\ PollInit /\ LibeventInit
        /\ backend \in Backends

OnEpoll == backend = "epoll" /\ UNCHANGED <<pollVars, libeventVars>>
OnPoll == backend = "poll" /\ UNCHANGED <<epollVars, libeventVars>>
OnLibevent == backend = "libevent" /\ UNCHANGED <<epollVars, pollVars>>

addIoEvent(fd, mask) == \/ OnEpoll /\ EpollAdd(fd, mask)
                        \/ OnPoll /\ PollAdd(fd, mask)
                        \/ OnLibevent /\ LibeventAdd(fd, mask)

delMask(fd, mask) == \/ OnEpoll /\ EpollDelMask(fd, mask)
                     \/ OnPoll /\ PollDelMask(fd, mask)
                     \/ OnLibevent /\ LibeventDelMask(fd, mask)

delIoEvent(fd) == \/ OnEpoll /\ EpollDel(fd)
                  \/ OnPoll /\ PollDel(fd)
                  \/ OnLibevent /\ LibeventDel(fd)

AddIoEvent(fd, mask) ==
    /\ UserCode /\ Counted
    /\ opened[fd].open
    /\ addIoEvent(fd, mask)
    /\ Touches(fd)
    /\ UNCHANGED <<opened, tasks, it, first, running, ran>>

DelIoEventMask(fd, mask) ==
    /\ UserCode /\ Counted
    /\ fd \in Registered
    /\ delMask(fd, mask)
    /\ Touches(fd)
    /\ UNCHANGED <<opened, tasks, it, first, running, ran>>

DelIoEvent(fd) ==
    /\ UserCode /\ Counted
    /\ fd \in Registered
    /\ delIoEvent(fd)
    /\ Touches(fd)
    /\ UNCHANGED <<opened, tasks, it, first, running, ran>>

\* What the owner of a file does when it is done with it: unregister, if it is
\* registered, and close ...
CloseFd(fd) ==
    /\ UserCode /\ Counted
    /\ opened[fd].open
    /\ IF fd \in Registered THEN delIoEvent(fd) /\ Touches(fd)
       ELSE UNCHANGED <<m_io_events, epollVars, pollVars, libeventVars, stale, failed>>
    /\ opened' = [opened EXCEPT ![fd].open = FALSE]
    /\ UNCHANGED <<tasks, it, first, running, ran>>

\* ... and with a new one, which got the same number: open and register.
OpenFd(fd, mask) ==
    /\ UserCode /\ Counted
    /\ ~opened[fd].open /\ opened[fd].times < MaxOpens
    /\ opened' = [opened EXCEPT ![fd] = [open |-> TRUE, times |-> @.times + 1]]
    /\ addIoEvent(fd, mask)
    /\ Touches(fd)
    /\ UNCHANGED <<tasks, it, first, running, ran>>

Calls(fd) ==
    \/ \E mask \in Masks : AddIoEvent(fd, mask) \/ DelIoEventMask(fd, mask) \/ OpenFd(fd, mask)
    \/ DelIoEvent(fd) \/ CloseFd(fd)

\* processEvents between two rounds, or in one.
Round == \/ OnEpoll /\ (EpollWait \/ EpollDispatch)
         \/ OnPoll /\ (Poll \/ PollDispatch \/ PollEnds)
         \/ OnLibevent /\ (EventBaseLoop \/ \E e \in active : LibeventDispatch(e))

InRound == m_fired_events # <<>> \/ walk # 0 \/ active # {}

RunTasks == ~InRound /\ (BeginTasks \/ RunTask \/ EndTasks)

Next ==
    /\ \/ \E fd \in Fds : Calls(fd)
       \/ Round
       \/ /\ AddTask \/ Returns \/ RunTasks
          /\ UNCHANGED <<epollVars, pollVars, libeventVars>>
    /\ UNCHANGED backend

Spec == Init /\ [][Next]_vars

-----------------------------------------------------------------------------
(* Properties *)

\* After any sequence of calls the map and what the kernel or the library was
\* told agree, also when a callback makes them in the middle of a round.  The
\* epoll set has the masks of the map, and every event that may be reported has
\* its callback; the array of poll has one entry for each descriptor of the
\* map, with its mask; libevent has an event for each mask, and keeps none for
\* reading that was not asked for.  (One for writing it may keep:
\* delIoEvent(fd) frees only one of the two, EventLoopLibevent.cpp:234.)
MapIsKernelSet ==
    failed = "no" =>
        \A fd \in Fds :
            CASE backend = "epoll" ->
                   /\ epoll[fd] = MaskOf(fd)
                   /\ fd \in Registered => epoll[fd] \subseteq m_io_events[fd].callbacks
              [] backend = "poll" ->
                   LET mine == {k \in DOMAIN m_fds : m_fds[k].fd = fd}
                   IN  IF fd \notin Registered THEN mine = {}
                       ELSE \E k \in mine : mine = {k} /\ m_fds[k].events = MaskOf(fd)
              [] backend = "libevent" ->
                   /\ \A mask \in MaskOf(fd) : pointer[fd][mask] = "live"
                   /\ pointer[fd]["EPOLLIN"] = "live" => "EPOLLIN" \in MaskOf(fd)

\* A callback was asked for: its entry is there, with the condition in its mask.
AskedFor(fd, events) ==
    /\ failed' = "no"
    /\ "EPOLLHUP" \in events \/ CallbackFor(fd, events) \in MaskOf(fd)

\* An event without an entry, without a callback, not asked for or about a file
\* that was closed since comes only from a round that is out of date.  In the
\* batch of epoll and in the array of poll: another callback changed the
\* descriptor's registration after the wait; with poll also, the entry is new
\* in this round and its revents was never written, or poll was interrupted.
\* What a callback does to its own descriptor never harms a later event, and
\* no event of libevent is out of date but one the loop failed to free.
MisdirectedOnlyWhenStale ==
    [][/\ EpollDispatch =>
             LET ev == Head(m_fired_events)
             IN  \/ ev.fd \in stale
                 \/ AskedFor(ev.fd, ev.events) /\ ev.opening = opened[ev.fd].times
       /\ PollDispatch =>
             LET p == m_fds[walk]
             IN  \/ p.revents = {} \/ p.fd \in stale \/ p.fresh \/ interrupted
                 \/ AskedFor(p.fd, p.revents)
       /\ \A e \in active : LibeventDispatch(e) =>
             \/ e.leaked \/ e.mask \notin MaskOf(e.fd)
             \/ running' = e.fd /\ e.opening = opened[e.fd].times]_vars

\* Tasks run in the order they were added, each once, whatever callbacks add
\* while others are pending.
TasksInOrder ==
    failed \in {"no", "assert", "bad_function_call", "bad event"} =>
        ran \o SubSeq(m_pending_factors, IF it = 0 THEN 1 ELSE it, Len(m_pending_factors))
            = [i \in 1..added |-> i]

\* For TLC: the descriptors are alike.
Symmetry == Permutations(Fds)

=============================================================================
