---------------------------- MODULE LibeventLoop ----------------------------
(***************************************************************************)
(* EventLoopLibevent.cpp: an event object of the libevent library for each *)
(* descriptor and mask that is registered, and m_libevent_io_events with a *)
(* pointer to it.  A pointer is not reset when its event is freed, and its *)
(* entry of the map is never erased.  The library is external: it keeps    *)
(* the events that were added until event_del, queues those that are ready *)
(* and calls them in turn, but no event that was deleted meanwhile.        *)
(***************************************************************************)
EXTENDS LoopCore

CONSTANT MaxActive     \* bound: events in the queue

VARIABLES
    pointer,       \* m_libevent_io_events: null, live or freed
    leaked,        \* events that were added and have no pointer any more
    active         \* the queue of event_base_loop, with (history) the opening
                   \* each event is about; its order is up to the library

libeventVars == <<pointer, leaked, active>>

LibeventInit ==
    /\ pointer = [fd \in Fds |-> [mask \in Masks |-> "null"]]
    /\ leaked = {} /\ active = {}

\* addIoEvent: a new event, whose address replaces the pointer to an old one.
LibeventAdd(fd, mask) ==
    /\ MapAdd(fd, mask)
    /\ pointer' = [pointer EXCEPT ![fd][mask] = "live"]
    /\ leaked' = IF pointer[fd][mask] = "live" THEN leaked \cup {<<fd, mask>>} ELSE leaked
    /\ active' = {[e EXCEPT !.leaked = @ \/ (e.fd = fd /\ e.mask = mask)] : e \in active}
    /\ UNCHANGED failed

\* event_del and event_free of the events that the pointers of these masks
\* point to: fatal for a null pointer, and for one to a freed event.
Free(fd, masks) ==
    IF \A mask \in masks : pointer[fd][mask] = "live"
    THEN /\ pointer' = [pointer EXCEPT ![fd] = [mask \in Masks |->
                           IF mask \in masks THEN "freed" ELSE @[mask]]]
         /\ active' = {e \in active : e.leaked \/ e.fd # fd \/ e.mask \notin masks}
         /\ UNCHANGED <<failed, leaked>>
    ELSE failed' = "bad event" /\ UNCHANGED libeventVars

\* delIoEvent(fd, mask): with the last event both go, else the one that is
\* not left.
LibeventDelMask(fd, mask) ==
    /\ MapDelMask(fd, mask)
    /\ Free(fd, Masks \ (MaskOf(fd) \ {mask}))

\* delIoEvent(fd): the event for reading, or else the one for writing.
LibeventDel(fd) ==
    /\ MapDel(fd)
    /\ Free(fd, IF pointer[fd]["EPOLLIN"] # "null" THEN {"EPOLLIN"}
                ELSE IF pointer[fd]["EPOLLOUT"] # "null" THEN {"EPOLLOUT"} ELSE {})

\* Which events are ready is up to the kernel: also a hangup is an event to read
\* or to write.  One that was not freed may be reported for a later file.
Live == {e \in Fds \X Masks : pointer[e[1]][e[2]] = "live"}
Entries(events, lost) == {[fd |-> e[1], mask |-> e[2], leaked |-> lost,
                           opening |-> opened[e[1]].times] : e \in events}

\* event_base_loop(EVLOOP_ONCE)
EventBaseLoop ==
    /\ RoundBegins /\ active = {}
    /\ active' \in SUBSET (Entries(Live, FALSE) \cup Entries(leaked, TRUE))
    /\ Cardinality(active') \in 1..MaxActive
    /\ stale' = {} /\ first' = FALSE
    /\ UNCHANGED <<m_io_events, opened, pointer, leaked, tasks, it, running, calls, ran,
                   failed>>

\* lib_callback: operator[] makes an entry if there is none; a callback that is
\* not set is only reported.
LibeventDispatch(e) ==
    /\ LoopRuns
    /\ m_io_events' = IF e.fd \in Registered THEN m_io_events
                      ELSE With(m_io_events, e.fd, [mask |-> {}, callbacks |-> {}])
    /\ IF e.fd \in Registered /\ e.mask \in m_io_events[e.fd].callbacks
       THEN running' = e.fd ELSE UNCHANGED running
    /\ active' = active \ {e}
    /\ UNCHANGED <<opened, pointer, leaked, tasks, it, first, calls, ran, stale, failed>>
=============================================================================
