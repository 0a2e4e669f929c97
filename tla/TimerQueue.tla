----------------------------- MODULE TimerQueue -----------------------------
(***************************************************************************)
(* TimerQueue.cpp, the timers of an event loop: a binary heap of timers, a *)
(* map from timer ids to heap positions, and one timerfd armed for         *)
(* m_pioneer.  Around it, what the event loop does with it                 *)
(* (EventLoopEpoll.cpp): epoll_wait reports the timerfd as one event of a  *)
(* batch, other callbacks of the batch may add and delete timers before    *)
(* the timer callback runs, and that callback works on a copy of the       *)
(* fired timers.                                                           *)
(*                                                                         *)
(* The object is one record, tq, so that addTimer can be used both as a    *)
(* call and inside getFiredTimerEvents.  Times are milliseconds counted    *)
(* from a start above 0; Never is the sentinel (uint64_t)-1.               *)
(***************************************************************************)
EXTENDS Naturals, Sequences, SequencesExt

CONSTANTS Never,      \* (uint64_t)-1: no timer is armed
          Delays,     \* delays callers ask for, of timers that fire once
          Intervals,  \* intervals callers ask for, of periodic timers
          MaxNow,     \* bound of the clock
          MaxTimers   \* bound of the ids callers get (not of renewed timers)

ASSUME TimerAssumption ==
    /\ Delays \subseteq Nat /\ Intervals \subseteq Nat \ {0}
    /\ MaxNow \in Nat /\ MaxTimers \in Nat /\ Never \in Nat
    /\ \A d \in Delays \cup Intervals : MaxNow + d < Never

VARIABLES
    tq,         \* the TimerQueue object
    now,        \* the clock, CLOCK_REALTIME
    in_batch,   \* epoll_wait has reported the timerfd; its callback has not run yet
    fired_evs,  \* timerQueueCallback's local copy: callbacks still to be called
    emptied,    \* history: delTimer emptied the queue since epoll_wait returned
    early,      \* history: timers that fired before their time
    crashed     \* a null m_logger was dereferenced

vars == <<tq, now, in_batch, fired_evs, emptied, early, crashed>>

-----------------------------------------------------------------------------
(* The heap.  Positions are those of the C++ vector, from 0. *)

At(q, i) == q.m_event_list[i + 1]
Count(q) == Len(q.m_event_list)

\* std::swap of two entries and the update of their positions.
SwapEntries(q, i, j) ==
    [q EXCEPT !.m_event_list = [@ EXCEPT ![i + 1] = At(q, j), ![j + 1] = At(q, i)],
              !.m_position = (At(q, j).timer_id :> i) @@ (At(q, i).timer_id :> j) @@ @]

\* Iterate a step on [q, pos] often enough to walk from a leaf to the root.
Walk(step(_), q, pos) ==
    FoldLeft(LAMBDA st, k : step(st), [q |-> q, pos |-> pos],
             [k \in 1..Count(q) |-> k]).q

\* heapAdd's loop: swap with the parent while earlier than it.
FloatStep(st) ==
    LET parent == (st.pos - 1) \div 2
    IN  IF st.pos > 0 /\ At(st.q, st.pos).ts < At(st.q, parent).ts
        THEN [q |-> SwapEntries(st.q, st.pos, parent), pos |-> parent]
        ELSE st

heapAdd(q, te) ==
    Walk(FloatStep,
         [q EXCEPT !.m_event_list = Append(@, te),
                   !.m_position = (te.timer_id :> Count(q)) @@ @],
         Count(q))

\* mutant: the right child is not looked at
SinkToLeft(q, pos) ==
    IF 2 * pos + 1 < Count(q) /\ At(q, pos).ts > At(q, 2 * pos + 1).ts THEN 2 * pos + 1 ELSE pos

\* heapHold: the position to go on from, the left child when both are equal.
SinkTo(q, pos) ==
    LET left == 2 * pos + 1
        right == 2 * pos + 2
        m == IF left < Count(q) /\ At(q, pos).ts > At(q, left).ts THEN left ELSE pos
    IN  IF right < Count(q) /\ At(q, m).ts > At(q, right).ts THEN right ELSE m

SinkStep(st) ==
    LET m == SinkTo(st.q, st.pos)
    IN  IF m # st.pos THEN [q |-> SwapEntries(st.q, m, st.pos), pos |-> m] ELSE st

heapHold(q, pos) == Walk(SinkStep, q, pos)

Without(position, id) == [i \in DOMAIN position \ {id} |-> position[i]]

\* heapDel: the rear entry takes the place of the deleted one and sinks.
heapDel(q, pos) ==
    LET rear == At(q, Count(q) - 1)
        list == [q.m_event_list EXCEPT ![pos + 1] = rear]
        position == (rear.timer_id :> pos) @@ q.m_position
    IN  heapHold([q EXCEPT !.m_event_list = Front(list),
                           !.m_position = Without(position, At(q, pos).timer_id)], pos)

heapPop(q) ==
    LET position == Without(q.m_position, At(q, 0).timer_id)
        rear == At(q, Count(q) - 1)
    IN  IF Count(q) > 1
        THEN heapHold([q EXCEPT !.m_event_list = Front([@ EXCEPT ![1] = rear]),
                                !.m_position = (rear.timer_id :> 0) @@ position], 0)
        ELSE [q EXCEPT !.m_event_list = <<>>, !.m_position = position]

-----------------------------------------------------------------------------
(* The operations of TimerQueue *)

\* resetTimerQueue: timerfd_settime to m_pioneer; a zero value disarms, which
\* is what Never is turned into.
resetTimerQueue(q, pioneer) ==
    [q EXCEPT !.m_pioneer = pioneer,
              !.m_timer_fd = IF pioneer = Never THEN 0 ELSE pioneer]

NewTimerQueue == [m_event_list |-> <<>>, m_position |-> <<>>, m_next_timer_id |-> 0,
                  m_timer_fd |-> 0, m_pioneer |-> 0]

\* Rearm if the root is earlier than what the timerfd is armed for.
RearmIfEarlier(q) ==
    IF At(q, 0).ts < q.m_pioneer THEN resetTimerQueue(q, At(q, 0).ts) ELSE q

\* mutant: adding does not look at the timerfd
addTimerUnarmed(q, ts, interval) ==
    heapAdd([q EXCEPT !.m_next_timer_id = @ + 1],
            [timer_id |-> q.m_next_timer_id, ts |-> ts, interval |-> interval])

addTimer(q, ts, interval) ==
    RearmIfEarlier(heapAdd([q EXCEPT !.m_next_timer_id = @ + 1],
        [timer_id |-> q.m_next_timer_id, ts |-> ts, interval |-> interval]))

delTimer(q, timer_id) ==
    LET d == heapDel(q, q.m_position[timer_id])
    IN  IF Count(d) = 0 THEN resetTimerQueue(d, Never) ELSE RearmIfEarlier(d)

\* mutant: every timer of the queue is taken to be due
PopEvery(st) ==
    IF Count(st.q) # 0
    THEN [q |-> heapPop(st.q), fired |-> Append(st.fired, At(st.q, 0))]
    ELSE st

\* getFiredTimerEvents: pop every timer due at m_pioneer, ...
PopFired(st) ==
    IF Count(st.q) # 0 /\ st.q.m_pioneer = At(st.q, 0).ts
    THEN [q |-> heapPop(st.q), fired |-> Append(st.fired, At(st.q, 0))]
    ELSE st

\* mutant: a periodic timer is added again for the time it has just fired at
RenewSameTs(q, te) == IF te.interval > 0 THEN addTimer(q, te.ts, te.interval) ELSE q

\* ... add the periodic ones again, with new ids, and arm for the root.
Renew(q, te) == IF te.interval > 0 THEN addTimer(q, te.ts + te.interval, te.interval) ELSE q

\* mutant: the timerfd is rearmed only when the queue is empty
getFiredNoRearm(q) ==
    LET popped == FoldLeft(LAMBDA st, k : PopFired(st), [q |-> q, fired |-> <<>>],
                           [k \in 1..Count(q) |-> k])
        renewed == FoldLeft(Renew, popped.q, popped.fired)
    IN  [fired |-> popped.fired,
         q |-> IF Count(renewed) = 0 THEN resetTimerQueue(renewed, Never) ELSE renewed]

getFiredTimerEvents(q) ==
    LET popped == FoldLeft(LAMBDA st, k : PopFired(st), [q |-> q, fired |-> <<>>],
                           [k \in 1..Count(q) |-> k])
        renewed == FoldLeft(Renew, popped.q, popped.fired)
    IN  [fired |-> popped.fired,
         q |-> resetTimerQueue(renewed, IF Count(renewed) = 0 THEN Never
                                        ELSE At(renewed, 0).ts)]

-----------------------------------------------------------------------------
(* The event loop and its callbacks *)

Init == /\ tq = NewTimerQueue
        /\ now = 1
        /\ in_batch = FALSE
        /\ fired_evs = <<>>
        /\ emptied = FALSE
        /\ early = {}
        /\ crashed = FALSE

\* runAfter, and runAt with the time it computes: one shot.
RunAfter(d) == /\ ~crashed /\ tq.m_next_timer_id < MaxTimers
               /\ tq' = addTimer(tq, now + d, 0)
               /\ UNCHANGED <<now, in_batch, fired_evs, emptied, early, crashed>>

\* runEvery: first after one interval.
RunEvery(d) == /\ ~crashed /\ tq.m_next_timer_id < MaxTimers
               /\ tq' = addTimer(tq, now + d, d)
               /\ UNCHANGED <<now, in_batch, fired_evs, emptied, early, crashed>>

\* delTimer of a pending timer.
DelTimer(id) == /\ ~crashed
                /\ id \in DOMAIN tq.m_position
                /\ tq' = delTimer(tq, id)
                /\ emptied' = (emptied \/ Count(tq') = 0)
                /\ UNCHANGED <<now, in_batch, fired_evs, early, crashed>>

\* delTimer of an id that was given out and is not pending any more: the
\* error is logged through m_logger, which no constructor sets.
DelStaleTimer(id) == /\ ~crashed
                     /\ id \notin DOMAIN tq.m_position
                     /\ crashed' = TRUE
                     /\ UNCHANGED <<tq, now, in_batch, fired_evs, emptied, early>>

Readable == tq.m_timer_fd # 0 /\ tq.m_timer_fd <= now

\* epoll_wait returns a batch that holds the timerfd.  A batch without it
\* changes nothing here: its callbacks are the calls above.
Poll == /\ ~crashed
        /\ ~in_batch /\ fired_evs = <<>>
        /\ Readable
        /\ in_batch' = TRUE
        /\ emptied' = FALSE
        /\ UNCHANGED <<tq, now, fired_evs, early, crashed>>

\* timerQueueCallback, when the batch gets to the timerfd.
TimerQueueCallback ==
    /\ ~crashed
    /\ in_batch
    /\ in_batch' = FALSE
    /\ LET r == getFiredTimerEvents(tq) IN
        /\ tq' = r.q
        /\ fired_evs' = r.fired
        /\ early' = early \cup {te \in ToSet(r.fired) : te.ts > now}
    /\ UNCHANGED <<now, emptied, crashed>>

\* it->cb: the timer's callback; the calls it makes are the actions above.
CallBack == /\ ~crashed
            /\ fired_evs # <<>>
            /\ fired_evs' = Tail(fired_evs)
            /\ UNCHANGED <<tq, now, in_batch, emptied, early, crashed>>

Tick == /\ now < MaxNow
        /\ now' = now + 1
        /\ UNCHANGED <<tq, in_batch, fired_evs, emptied, early, crashed>>

Ids == 0..(tq.m_next_timer_id - 1)

Next == \/ \E d \in Delays : RunAfter(d)
        \/ \E d \in Intervals : RunEvery(d)
        \/ \E id \in Ids : DelTimer(id) \/ DelStaleTimer(id)
        \/ Poll \/ TimerQueueCallback \/ CallBack
        \/ Tick

Spec == Init /\ [][Next]_vars

\* A reported timerfd gets its callback: only TimerQueueCallback takes such a
\* step, which this names without computing the heap it leaves behind.
BatchGoesOn == ~crashed /\ in_batch /\ in_batch' = FALSE

\* The loop never stops and time goes on; nobody has to add or delete timers.
FairSpec == /\ Spec
            /\ WF_vars(Poll) /\ WF_in_batch(BatchGoesOn) /\ WF_vars(CallBack)
            /\ WF_vars(Tick)

-----------------------------------------------------------------------------
(* Properties *)

Pending == ToSet(tq.m_event_list)

\* Every entry is no earlier than its parent, so the root is an earliest timer.
HeapOrdered ==
    \A i \in 1..(Count(tq) - 1) : At(tq, (i - 1) \div 2).ts <= At(tq, i).ts

\* The order is lost only by a delTimer whose rear entry, put where the deleted
\* one was, is earlier than the parent there: heapDel sinks it and never lets
\* it rise.  No addTimer, expiry or renewal, and no other deletion, loses it.
DisorderOnlyByRisingRear ==
    [][HeapOrdered /\ ~HeapOrdered' =>
          \E id \in DOMAIN tq.m_position :
             LET pos == tq.m_position[id]
             IN  /\ id \notin DOMAIN tq'.m_position
                 /\ pos > 0
                 /\ At(tq, Count(tq) - 1).ts < At(tq, (pos - 1) \div 2).ts]_vars

\* The timer event of a batch can be out of date: a timer may fire before its
\* time, but only when a delTimer emptied the queue after epoll_wait returned.
EarlyOnlyAfterEmptying ==
    [][early' # early => emptied]_vars

\* On a queue that was armed once, timers fire, or are deleted, once their time
\* has come: in the end none that is due at t is pending, for any t.
PendingTimersFire ==
    \A t \in 1..MaxNow :
        (tq.m_pioneer # 0 /\ \E te \in Pending : te.ts <= t)
            ~> (crashed \/ ~\E te \in Pending : te.ts <= t)

\* The heap and the map implement a set of pending timers.
T == INSTANCE Timers WITH pending <- Pending, due <- fired_evs,
                          fresh <- tq.m_next_timer_id,
                          Time <- 0..Never, Period <- Intervals \cup {0}
ImplementsTimers == T!TSpec
=============================================================================
