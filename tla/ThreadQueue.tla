---------------------------- MODULE ThreadQueue ----------------------------
(***************************************************************************)
(* How bsp_sockets hands work to the threads of its pool: ThreadQueue.hpp  *)
(* (a std::queue, a mutex and an eventfd per worker), ThreadPool.cpp       *)
(* (round robin, broadcast, the worker's callback onMsgComing) and the     *)
(* part of the worker's event loop that decides when the callback runs.    *)
(*                                                                         *)
(* The acceptor thread hands over each accepted connection once; posters   *)
(* are application threads that call ThreadPool::runTask.  sendMsg and     *)
(* recvMsg are two steps each, made under the queue's mutex, because the   *)
(* order of the eventfd access and the queue access is what matters.       *)
(***************************************************************************)
EXTENDS Naturals, Sequences, FiniteSets

CONSTANTS ThreadCnt,   \* m_thread_cnt: the number of workers
          Acceptor,    \* the thread that runs TcpServer::doAccept
          Posters,     \* application threads that call runTask
          Conns,       \* connection fds the acceptor may get (bounds the run)
          Tasks,       \* tasks that may be posted, each by one call (bounds the run)
          Nobody       \* the owner of a mutex that is not held

Workers == 0..(ThreadCnt - 1)
Senders == Posters \cup {Acceptor}

ASSUME PoolAssumption ==
    /\ ThreadCnt \in 1..30
    /\ Acceptor \notin Posters
    /\ Nobody \notin Senders
    /\ Senders \cap Workers = {}
    /\ Nobody \notin Workers

NewConn(c) == [cmd_type |-> "NEW_CONN", payload |-> c]
NewTask(t) == [cmd_type |-> "NEW_TASK", payload |-> t]
Msg == [cmd_type : {"NEW_CONN"}, payload : Conns]
         \cup [cmd_type : {"NEW_TASK"}, payload : Tasks]

VARIABLES
    m_queue,       \* m_queue[w]: the shared queue of worker w
    m_event_fd,    \* m_event_fd[w]: the counter of its eventfd
    m_mutex,       \* m_mutex[w]: the thread that holds its mutex
    m_curr_index,  \* ThreadPool's round-robin index
    outbox,        \* outbox[s]: <<worker, message>> pairs s's current call has still to send
    wstate,        \* where worker w is in its loop
    msgs,          \* msgs[w]: the local queue recvMsg swapped out
    m_pending_factors, \* m_pending_factors[w]: tasks added to w's loop
    expired,       \* the TcpServer object has been destroyed
    used,          \* connections accepted and tasks posted so far
    handled,       \* handled[w]: messages worker w has taken, in order (history)
    ran            \* ran[w]: tasks worker w has executed, in order (history)

qvars == <<m_queue, m_event_fd, m_mutex>>
vars == <<m_queue, m_event_fd, m_mutex, m_curr_index, outbox, wstate, msgs,
          m_pending_factors, expired, used, handled, ran>>

Init ==
    /\ m_queue = [w \in Workers |-> <<>>]
    /\ m_event_fd = [w \in Workers |-> 0]
    /\ m_mutex = [w \in Workers |-> Nobody]
    /\ m_curr_index = 0
    /\ outbox = [s \in Senders |-> <<>>]
    /\ wstate = [w \in Workers |-> "starting"]
    /\ msgs = [w \in Workers |-> <<>>]
    /\ m_pending_factors = [w \in Workers |-> <<>>]
    /\ expired = FALSE
    /\ used = {}
    /\ handled = [w \in Workers |-> <<>>]
    /\ ran = [w \in Workers |-> <<>>]

-----------------------------------------------------------------------------
(* The senders *)

\* getNextThread: the index to use, and the index left behind.
NextThread(i) == IF i >= ThreadCnt THEN 0 ELSE i
IndexAfter(i) == NextThread(i) + 1

\* doAccept got a connection and addresses it to the next worker.
Accept(c) ==
    /\ outbox[Acceptor] = <<>>
    /\ c \notin used
    /\ ~expired
    /\ outbox' = [outbox EXCEPT ![Acceptor] = <<[to |-> NextThread(m_curr_index),
                                                msg |-> NewConn(c)]>>]
    /\ m_curr_index' = IndexAfter(m_curr_index)
    /\ used' = used \cup {c}
    /\ UNCHANGED <<qvars, wstate, msgs, m_pending_factors, expired, handled, ran>>

\* runTask(thd_index, task, args): one worker.
PostTask(s, w, t) ==
    /\ outbox[s] = <<>>
    /\ t \notin used
    /\ outbox' = [outbox EXCEPT ![s] = <<[to |-> w, msg |-> NewTask(t)]>>]
    /\ used' = used \cup {t}
    /\ UNCHANGED <<qvars, m_curr_index, wstate, msgs, m_pending_factors, expired,
                   handled, ran>>

\* runTask(task, args): every worker, in index order, one sendMsg after another.
PostTaskToAll(s, t) ==
    /\ outbox[s] = <<>>
    /\ t \notin used
    /\ outbox' = [outbox EXCEPT ![s] = [i \in 1..ThreadCnt |->
                                          [to |-> i - 1, msg |-> NewTask(t)]]]
    /\ used' = used \cup {t}
    /\ UNCHANGED <<qvars, m_curr_index, wstate, msgs, m_pending_factors, expired,
                   handled, ran>>

\* sendMsg, first half: take the lock and push.
SendPush(s) ==
    /\ outbox[s] # <<>>
    /\ LET w == Head(outbox[s]).to IN
        /\ m_mutex[w] = Nobody
        /\ m_mutex' = [m_mutex EXCEPT ![w] = s]
        /\ m_queue' = [m_queue EXCEPT ![w] = Append(@, Head(outbox[s]).msg)]
    /\ UNCHANGED <<m_event_fd, m_curr_index, outbox, wstate, msgs,
                   m_pending_factors, expired, used, handled, ran>>

\* sendMsg, second half: write 1 to the eventfd and release the lock.
SendWrite(s) ==
    /\ outbox[s] # <<>>
    /\ LET w == Head(outbox[s]).to IN
        /\ m_mutex[w] = s
        /\ m_event_fd' = [m_event_fd EXCEPT ![w] = @ + 1]
        /\ m_mutex' = [m_mutex EXCEPT ![w] = Nobody]
    /\ outbox' = [outbox EXCEPT ![s] = Tail(@)]
    /\ UNCHANGED <<m_queue, m_curr_index, wstate, msgs, m_pending_factors,
                   expired, used, handled, ran>>

-----------------------------------------------------------------------------
(* The workers *)

\* threadDomain: register the eventfd with the new loop, enter processEvents.
\* It asks the server for the kind of loop: without one the process ends there.
SetLoop(w) ==
    /\ wstate[w] = "starting"
    /\ ~expired
    /\ wstate' = [wstate EXCEPT ![w] = "polling"]
    /\ UNCHANGED <<qvars, m_curr_index, outbox, msgs, m_pending_factors, expired,
                   used, handled, ran>>

\* The eventfd is readable, so the loop calls onMsgComing -> recvMsg, first
\* half: take the lock and read the eventfd, which resets its counter.
RecvRead(w) ==
    /\ wstate[w] = "polling"
    /\ m_event_fd[w] > 0
    /\ m_mutex[w] = Nobody
    /\ m_mutex' = [m_mutex EXCEPT ![w] = w]
    /\ m_event_fd' = [m_event_fd EXCEPT ![w] = 0]
    /\ wstate' = [wstate EXCEPT ![w] = "receiving"]
    /\ UNCHANGED <<m_queue, m_curr_index, outbox, msgs, m_pending_factors,
                   expired, used, handled, ran>>

\* mutant: recvMsg takes one message and leaves the others behind
RecvOne(w) ==
    /\ wstate[w] = "receiving"
    /\ msgs' = [msgs EXCEPT ![w] = IF m_queue[w] = <<>> THEN <<>> ELSE <<Head(m_queue[w])>>]
    /\ m_queue' = [m_queue EXCEPT ![w] = IF @ = <<>> THEN <<>> ELSE Tail(@)]
    /\ m_mutex' = [m_mutex EXCEPT ![w] = Nobody]
    /\ wstate' = [wstate EXCEPT ![w] = "draining"]
    /\ UNCHANGED <<m_event_fd, m_curr_index, outbox, m_pending_factors, expired,
                   used, handled, ran>>

\* mutant: the queue is copied out and not emptied
RecvCopy(w) ==
    /\ wstate[w] = "receiving"
    /\ msgs' = [msgs EXCEPT ![w] = m_queue[w]]
    /\ m_mutex' = [m_mutex EXCEPT ![w] = Nobody]
    /\ wstate' = [wstate EXCEPT ![w] = "draining"]
    /\ UNCHANGED <<m_queue, m_event_fd, m_curr_index, outbox, m_pending_factors,
                   expired, used, handled, ran>>

\* recvMsg, second half: swap the whole queue with the empty local one.
RecvSwap(w) ==
    /\ wstate[w] = "receiving"
    /\ msgs' = [msgs EXCEPT ![w] = m_queue[w]]
    /\ m_queue' = [m_queue EXCEPT ![w] = msgs[w]]
    /\ m_mutex' = [m_mutex EXCEPT ![w] = Nobody]
    /\ wstate' = [wstate EXCEPT ![w] = "draining"]
    /\ UNCHANGED <<m_event_fd, m_curr_index, outbox, m_pending_factors, expired,
                   used, handled, ran>>

\* One turn of onMsgComing's loop: a connection is activated on the spot, a
\* task is only added to the loop's pending list.
HandleMsg(w) ==
    /\ wstate[w] = "draining"
    /\ msgs[w] # <<>>
    /\ ~expired
    /\ LET m == Head(msgs[w]) IN
        /\ handled' = [handled EXCEPT ![w] = Append(@, m)]
        /\ m_pending_factors' =
              IF m.cmd_type = "NEW_TASK"
              THEN [m_pending_factors EXCEPT ![w] = Append(@, m.payload)]
              ELSE m_pending_factors
    /\ msgs' = [msgs EXCEPT ![w] = Tail(@)]
    /\ UNCHANGED <<qvars, m_curr_index, outbox, wstate, expired, used, ran>>

\* The loop ends: no message is left, or the server has gone and the local
\* queue dies with whatever it holds.  processEvents goes on to runTask.
EndDrain(w) ==
    /\ wstate[w] = "draining"
    /\ msgs[w] = <<>> \/ expired
    /\ msgs' = [msgs EXCEPT ![w] = <<>>]
    /\ wstate' = [wstate EXCEPT ![w] = "tasks"]
    /\ UNCHANGED <<qvars, m_curr_index, outbox, m_pending_factors, expired, used,
                   handled, ran>>

\* EventLoop::runTask executes the pending tasks in order ...
RunTask(w) ==
    /\ wstate[w] = "tasks"
    /\ m_pending_factors[w] # <<>>
    /\ ran' = [ran EXCEPT ![w] = Append(@, Head(m_pending_factors[w]))]
    /\ m_pending_factors' = [m_pending_factors EXCEPT ![w] = Tail(@)]
    /\ UNCHANGED <<qvars, m_curr_index, outbox, wstate, msgs, expired, used, handled>>

\* ... and the loop polls again.
EndTasks(w) ==
    /\ wstate[w] = "tasks"
    /\ m_pending_factors[w] = <<>>
    /\ wstate' = [wstate EXCEPT ![w] = "polling"]
    /\ UNCHANGED <<qvars, m_curr_index, outbox, msgs, m_pending_factors, expired,
                   used, handled, ran>>

\* stop() dropped the loop's reference and the owner dropped the last one.
Expire ==
    /\ ~expired
    /\ outbox[Acceptor] = <<>>
    /\ expired' = TRUE
    /\ UNCHANGED <<qvars, m_curr_index, outbox, wstate, msgs, m_pending_factors,
                   used, handled, ran>>

-----------------------------------------------------------------------------
Send(s) == SendPush(s) \/ SendWrite(s)

Work(w) == SetLoop(w) \/ RecvRead(w) \/ RecvSwap(w) \/ HandleMsg(w)
             \/ EndDrain(w) \/ RunTask(w) \/ EndTasks(w)

Next ==
    \/ \E c \in Conns : Accept(c)
    \/ \E s \in Posters, t \in Tasks : \/ \E w \in Workers : PostTask(s, w, t)
                                       \/ PostTaskToAll(s, t)
    \/ \E s \in Senders : Send(s)
    \/ \E w \in Workers : Work(w)
    \/ Expire

Spec == Init /\ [][Next]_vars

\* Threads are scheduled by the kernel, so a thread that can go on does.  A
\* mutex is contended for a bounded time, but a free lock may be taken by
\* others again and again: acquiring it needs strong fairness.
FairSpec ==
    /\ Spec
    /\ \A s \in Senders : SF_vars(SendPush(s)) /\ WF_vars(SendWrite(s))
    /\ \A w \in Workers : SF_vars(RecvRead(w)) /\ WF_vars(Work(w))

-----------------------------------------------------------------------------
(* Properties *)

TypeOK ==
    /\ m_queue \in [Workers -> Seq(Msg)]
    /\ m_event_fd \in [Workers -> Nat]
    /\ m_mutex \in [Workers -> Senders \cup Workers \cup {Nobody}]
    /\ m_curr_index \in 0..ThreadCnt
    /\ outbox \in [Senders -> Seq([to : Workers, msg : Msg])]
    /\ wstate \in [Workers -> {"starting", "polling", "receiving", "draining", "tasks"}]
    /\ msgs \in [Workers -> Seq(Msg)]
    /\ m_pending_factors \in [Workers -> Seq(Tasks)]
    /\ expired \in BOOLEAN
    /\ used \subseteq Conns \cup Tasks
    /\ handled \in [Workers -> Seq(Msg)]
    /\ ran \in [Workers -> Seq(Tasks)]

\* No lost wakeup: whenever nobody is inside sendMsg or recvMsg, a queue that
\* holds a message has a readable eventfd, also before the worker registered
\* it.  A worker that slept on a non-empty queue would never look again.
NoLostWakeup ==
    \A w \in Workers :
        m_mutex[w] = Nobody /\ m_queue[w] # <<>> => m_event_fd[w] > 0

\* The channel of Handoff is the worker's local batch followed by the queue.
H == INSTANCE Handoff WITH inflight <- [w \in Workers |-> msgs[w] \o m_queue[w]],
                           closed <- expired

\* The queue, eventfd and batch together are one FIFO channel per worker ...
ImplementsHandoff == H!HSafety

\* ... whose head is always processed in the end while the server lives.
ImplementsLiveHandoff == H!HSpec
=============================================================================
