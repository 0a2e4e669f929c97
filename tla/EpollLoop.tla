----------------------------- MODULE EpollLoop -----------------------------
(***************************************************************************)
(* EventLoopEpoll.cpp: the kernel's epoll set beside the map, and the batch*)
(* of events that epoll_wait has copied out.                               *)
(***************************************************************************)
EXTENDS LoopCore

CONSTANT MAX_EVENTS    \* the size of m_fired_events

VARIABLES
    epoll,         \* the kernel's epoll set: the mask per descriptor
    m_fired_events \* the rest of the batch, with (history) the opening it is about

epollVars == <<epoll, m_fired_events>>

EpollInit == epoll = [fd \in Fds |-> {}] /\ m_fired_events = <<>>

\* addIoEvent: EPOLL_CTL_ADD or MOD.
EpollAdd(fd, mask) ==
    /\ MapAdd(fd, mask)
    /\ epoll' = [epoll EXCEPT ![fd] = MaskOf(fd) \cup {mask}]
    /\ UNCHANGED <<m_fired_events, failed>>

\* mutant: the entry goes although the other event is still registered
EpollDelMaskAll(fd, mask) ==
    /\ MapDel(fd)
    /\ epoll' = [epoll EXCEPT ![fd] = @ \ {mask}]
    /\ UNCHANGED <<m_fired_events, failed>>

\* delIoEvent(fd, mask): EPOLL_CTL_MOD or DEL.
EpollDelMask(fd, mask) ==
    /\ MapDelMask(fd, mask)
    /\ epoll' = [epoll EXCEPT ![fd] = MaskOf(fd) \ {mask}]
    /\ UNCHANGED <<m_fired_events, failed>>

\* delIoEvent(fd): EPOLL_CTL_DEL.
EpollDel(fd) ==
    /\ MapDel(fd)
    /\ epoll' = [epoll EXCEPT ![fd] = {}]
    /\ UNCHANGED <<m_fired_events, failed>>

\* epoll_wait: at most MAX_EVENTS of the ready descriptors, each once.
EpollWait ==
    /\ RoundBegins /\ m_fired_events = <<>>
    /\ \E fds \in SUBSET {fd \in Fds : epoll[fd] # {}} :
          /\ Cardinality(fds) \in 1..MAX_EVENTS
          /\ \E order \in SetToSeqs(fds), found \in [fds -> Findings \ {{}}] :
                /\ \A fd \in fds : found[fd] \in Answers(epoll[fd])
                /\ m_fired_events' = [i \in DOMAIN order |->
                                         [fd |-> order[i], events |-> found[order[i]],
                                          opening |-> opened[order[i]].times]]
    /\ stale' = {} /\ first' = FALSE
    /\ UNCHANGED <<m_io_events, opened, epoll, tasks, it, running, calls, ran, failed>>

\* The next event of the batch.
EpollDispatch ==
    /\ LoopRuns /\ m_fired_events # <<>>
    /\ Serve(Head(m_fired_events).fd, Head(m_fired_events).events)
    /\ m_fired_events' = Tail(m_fired_events)
    /\ UNCHANGED <<m_io_events, opened, epoll, tasks, it, first, calls, ran, stale>>
=============================================================================
