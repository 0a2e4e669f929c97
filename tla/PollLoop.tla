------------------------------ MODULE PollLoop ------------------------------
(***************************************************************************)
(* EventLoopPoll.cpp: the array m_fds, which is the kernel's view and the  *)
(* batch at once.  processEvents walks through it while the callbacks add  *)
(* entries at its end and shift it over those they delete.                 *)
(***************************************************************************)
EXTENDS LoopCore

VARIABLES
    m_fds,         \* the pollfds in use, with (history) the opening each is about
    walk,          \* processEvents' i when a callback has returned, 0 outside the walk
    interrupted    \* poll failed: no revents was written in this round

pollVars == <<m_fds, walk, interrupted>>

PollInit == m_fds = <<>> /\ walk = 0 /\ interrupted = FALSE

\* The first entry of a descriptor.
Entry(fd) == CHOOSE k \in DOMAIN m_fds : m_fds[k].fd = fd /\ \A j \in 1..k - 1 : m_fds[j].fd # fd

SetEvents(fd, mask) == [m_fds EXCEPT ![Entry(fd)].events = mask]

\* delIoEvent shifts the rest of the array to the left.
Shifted(fd) == RemoveAt(m_fds, Entry(fd))

\* addIoEvent: the revents of a new entry is not initialised.  The array has room
\* for 1024 (IEventLoop.hpp:43), which nobody checks: when other descriptors, which
\* are not followed here, have taken the rest of it, the entry is written past it.
PollAdd(fd, mask) ==
    /\ MapAdd(fd, mask)
    /\ \/ fd \in Registered /\ m_fds' = SetEvents(fd, MaskOf(fd) \cup {mask})
          /\ UNCHANGED failed
       \/ /\ fd \notin Registered
          /\ \E bits \in Findings :
                m_fds' = Append(m_fds, [fd |-> fd, events |-> {mask}, revents |-> bits,
                                        fresh |-> TRUE])
          /\ UNCHANGED failed
       \/ fd \notin Registered /\ failed' = "overrun" /\ UNCHANGED m_fds
    /\ UNCHANGED <<walk, interrupted>>

\* mutant: the array keeps the entry
PollDelKeeps(fd) ==
    /\ MapDel(fd)
    /\ UNCHANGED <<m_fds, walk, interrupted, failed>>

\* delIoEvent(fd)
PollDel(fd) ==
    /\ MapDel(fd)
    /\ m_fds' = Shifted(fd)
    /\ UNCHANGED <<walk, interrupted, failed>>

\* delIoEvent(fd, mask)
PollDelMask(fd, mask) ==
    LET left == m_io_events[fd].mask \ {mask}
    IN  /\ MapDelMask(fd, mask)
        /\ m_fds' = IF left = {} THEN Shifted(fd) ELSE SetEvents(fd, left)
        /\ UNCHANGED <<walk, interrupted, failed>>

\* poll waits until an entry is ready, and writes the revents of every one; or
\* a signal makes it fail, which processEvents does not look at.
Poll ==
    /\ RoundBegins /\ walk = 0
    /\ \/ /\ interrupted' = FALSE
          /\ \E found \in [DOMAIN m_fds -> Findings] :
                /\ \A k \in DOMAIN m_fds : found[k] \in Answers(m_fds[k].events)
                /\ \E k \in DOMAIN m_fds : found[k] # {}
                /\ m_fds' = [k \in DOMAIN m_fds |->
                                [m_fds[k] EXCEPT !.revents = found[k], !.fresh = FALSE]]
       \/ interrupted' = TRUE /\ UNCHANGED m_fds
    /\ walk' = 1 /\ stale' = {} /\ first' = FALSE
    /\ UNCHANGED <<m_io_events, opened, tasks, it, running, calls, ran, failed>>

\* One step of the walk.  A descriptor without a condition is passed over.
PollDispatch ==
    /\ LoopRuns /\ walk \in DOMAIN m_fds
    /\ IF m_fds[walk].revents = {} THEN UNCHANGED <<running, failed>>
       ELSE Serve(m_fds[walk].fd, m_fds[walk].revents)
    /\ walk' = walk + 1
    /\ UNCHANGED <<m_io_events, opened, m_fds, interrupted, tasks, it, first, calls, ran, stale>>

PollEnds ==
    /\ LoopRuns /\ walk > Len(m_fds)
    /\ walk' = 0
    /\ UNCHANGED <<core, m_fds, interrupted>>
=============================================================================
