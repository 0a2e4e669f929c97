------------------------------ MODULE LoopCore ------------------------------
(***************************************************************************)
(* What the three event loops of src/bsp/bsp_sockets/impl have in common:  *)
(* EventLoopParams with its map from descriptors to callbacks and its list *)
(* of pending tasks, the same code in EventLoopEpoll.cpp, EventLoopPoll.cpp*)
(* and EventLoopLibevent.cpp, and the user's code that runs in callbacks   *)
(* and tasks.                                                              *)
(***************************************************************************)
EXTENDS Naturals, Sequences, SequencesExt, FiniteSets, TLC

CONSTANTS
    Fds,           \* descriptors the users of the loop register
    MaxTasks,      \* bound: tasks added
    MaxOpens,      \* bound: how often each descriptor is opened
    MaxCalls       \* bound: calls a callback or task makes

VARIABLES
    m_io_events,   \* per registered descriptor: mask and which callbacks are set
    opened,        \* per descriptor: open or not, and how often it was opened
    m_pending_factors, \* the pending tasks, numbered as they were added
    capacity,      \* of the vector m_pending_factors
    it,            \* runTask's iterator, 0 outside runTask
    first,         \* no round of processEvents has begun
    running,       \* the user's code that runs: nothing, a callback, or a task
    calls,         \* calls it has made so far
    added, ran,    \* history: tasks added; the tasks run, in order
    stale,         \* history: descriptors whose registration was touched, by
                   \* another descriptor's callback, since the round began
    failed         \* how the process ended

tasks == <<m_pending_factors, capacity, added>>
core == <<m_io_events, opened, tasks, it, first, running, calls, ran, stale, failed>>

Masks == {"EPOLLIN", "EPOLLOUT"}

\* What the wait of a loop may find for a descriptor.  A loop looks at the first
\* of EPOLLIN, EPOLLOUT and EPOLLHUP that is set, so one stands for all the sets
\* that begin with it.
Findings == {{}, {"EPOLLIN"}, {"EPOLLOUT"}, {"EPOLLHUP"}}

\* A condition is reported for what was asked for, a hangup for everything.
Answers(mask) == {f \in Findings : f \subseteq mask \cup {"EPOLLHUP"}}
Registered == DOMAIN m_io_events

CoreInit ==
    /\ m_io_events = <<>>
    /\ opened = [fd \in Fds |-> [open |-> TRUE, times |-> 1]]
    /\ m_pending_factors = <<>> /\ capacity = 0 /\ it = 0 /\ first = TRUE
    /\ running = "setup" /\ calls = 0
    /\ added = 0 /\ ran = <<>>
    /\ stale = {}
    /\ failed = "no"

-----------------------------------------------------------------------------
(* The map *)

Without(events, fd) == [f \in DOMAIN events \ {fd} |-> events[f]]
With(events, fd, e) == [f \in DOMAIN events \cup {fd} |-> IF f = fd THEN e ELSE events[f]]
MaskOf(fd) == IF fd \in Registered THEN m_io_events[fd].mask ELSE {}

\* addIoEvent: the mask is added, the callback for it is set, the other one
\* stays as it was, null in a new entry.
MapAdd(fd, mask) ==
    LET old == IF fd \in Registered THEN m_io_events[fd].callbacks ELSE {}
    IN  m_io_events' = With(m_io_events, fd, [mask |-> MaskOf(fd) \cup {mask},
                                             callbacks |-> old \cup {mask}])

\* delIoEvent(fd, mask): the entry goes with its last event.
MapDelMask(fd, mask) ==
    LET left == m_io_events[fd].mask \ {mask}
    IN  m_io_events' = IF left = {} THEN Without(m_io_events, fd)
                       ELSE [m_io_events EXCEPT ![fd].mask = left]

\* delIoEvent(fd)
MapDel(fd) == m_io_events' = Without(m_io_events, fd)

-----------------------------------------------------------------------------
(* The pending tasks *)

LoopRuns == failed = "no" /\ running = "nothing"

\* addTask: push_back, which moves the vector when it is full.
\* A running runTask then goes on with an iterator into freed memory.
addTask ==
    /\ added < MaxTasks
    /\ added' = added + 1
    /\ m_pending_factors' = Append(m_pending_factors, added + 1)
    /\ LET full == Len(m_pending_factors) = capacity
       IN  /\ capacity' = IF ~full THEN capacity ELSE IF capacity = 0 THEN 1 ELSE 2 * capacity
           /\ failed' = IF full /\ it # 0 THEN "iterator" ELSE failed

\* The round is over, or there was none before the first: runTask begins.
BeginTasks ==
    /\ LoopRuns /\ it = 0 /\ m_pending_factors # <<>>
    /\ it' = 1 /\ first' = FALSE
    /\ UNCHANGED <<m_io_events, opened, tasks, running, calls, ran, stale, failed>>

RunTask ==
    /\ LoopRuns /\ it \in 1..Len(m_pending_factors)
    /\ ran' = Append(ran, m_pending_factors[it])
    /\ it' = it + 1
    /\ running' = "task"
    /\ UNCHANGED <<m_io_events, opened, tasks, first, calls, stale, failed>>

\* mutant: the list is not cleared
EndTasksKeeps ==
    /\ LoopRuns /\ it > Len(m_pending_factors) /\ it # 0
    /\ it' = 0
    /\ UNCHANGED <<m_io_events, opened, tasks, first, running, calls, ran, stale, failed>>

EndTasks ==
    /\ LoopRuns /\ it > Len(m_pending_factors) /\ it # 0
    /\ m_pending_factors' = <<>>
    /\ it' = 0
    /\ UNCHANGED <<m_io_events, opened, first, capacity, running, calls, added, ran,
                   stale, failed>>

\* A round may begin.  Only the first can find tasks pending, those that were
\* added before the loop ran.
RoundBegins == LoopRuns /\ it = 0 /\ (first \/ m_pending_factors = <<>>)

-----------------------------------------------------------------------------
(* The user's code *)

UserCode == failed = "no" /\ running # "nothing" /\ calls < MaxCalls
Counted == calls' = calls + 1

\* The running callback was called for another descriptor.
Touches(fd) == stale' = IF running = fd THEN stale ELSE stale \cup {fd}

AddTask ==
    /\ UserCode /\ Counted
    /\ addTask
    /\ UNCHANGED <<m_io_events, opened, it, first, running, ran, stale>>

\* The callback, or the task, returns.
Returns ==
    /\ failed = "no" /\ running # "nothing"
    /\ running' = "nothing"
    /\ calls' = 0
    /\ UNCHANGED <<m_io_events, opened, tasks, it, first, ran, stale, failed>>

Unexpected(how) == failed' = how /\ UNCHANGED running

\* EPOLLIN, else EPOLLOUT: one callback per event.  A hangup without either
\* goes to the callback that is set, the read callback first: an entry has one.
CallbackFor(fd, events) ==
    IF "EPOLLIN" \in events THEN "EPOLLIN"
    ELSE IF "EPOLLOUT" \in events THEN "EPOLLOUT"
    ELSE IF "EPOLLIN" \in m_io_events[fd].callbacks THEN "EPOLLIN" ELSE "EPOLLOUT"

\* processEvents dispatches an event: the assertion, the callback.
Serve(fd, events) ==
    \/ fd \notin Registered /\ Unexpected("assert")
    \/ /\ fd \in Registered
       /\ LET what == CallbackFor(fd, events)
          IN  \/ what \notin m_io_events[fd].callbacks /\ Unexpected("bad_function_call")
              \/ /\ what \in m_io_events[fd].callbacks
                 /\ running' = fd
                 /\ UNCHANGED failed
=============================================================================
