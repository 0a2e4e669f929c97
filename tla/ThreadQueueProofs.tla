------------------------- MODULE ThreadQueueProofs -------------------------
(***************************************************************************)
(* For any number of workers, posters, connections and tasks: ThreadQueue  *)
(* keeps its types, never loses a wakeup, and every step of it is a step   *)
(* of the abstract channel Handoff or changes nothing there.               *)
(***************************************************************************)
EXTENDS ThreadQueue, SequenceTheorems, TLAPS

\* Between two calls of onMsgComing the worker's local queue is empty, so the
\* swap in recvMsg leaves an empty shared queue behind.
BatchEmptyOutsideDrain ==
    \A w \in Workers : wstate[w] # "draining" => msgs[w] = <<>>

IInv == TypeOK /\ BatchEmptyOutsideDrain /\ NoLostWakeup

\* The messages that NewConn and NewTask build are messages.
LEMMA MsgTypes ==
    /\ \A c \in Conns : NewConn(c) \in Msg
    /\ \A t \in Tasks : NewTask(t) \in Msg
    /\ \A m \in Msg : m.cmd_type = "NEW_TASK" => m.payload \in Tasks
BY DEF Msg, NewConn, NewTask

\* The round-robin index stays in range and always selects a worker.
LEMMA RoundRobinRange ==
    ASSUME NEW i \in 0..ThreadCnt
    PROVE  NextThread(i) \in Workers /\ IndexAfter(i) \in 0..ThreadCnt
BY PoolAssumption DEF NextThread, IndexAfter, Workers

\* Types of the sequence operations the actions use.
LEMMA SeqOps ==
    ASSUME NEW S, NEW q \in Seq(S)
    PROVE  /\ <<>> \in Seq(S)
           /\ \A x \in S : <<x>> \in Seq(S) /\ Append(q, x) \in Seq(S)
           /\ \A x : Append(q, x) # <<>>
           /\ q # <<>> => Head(q) \in S /\ Tail(q) \in Seq(S)
BY HeadTailProperties

\* What a sender still has to send is addressed to a worker.
LEMMA HeadOfOutbox ==
    ASSUME TypeOK, NEW s \in Senders, outbox[s] # <<>>
    PROVE  /\ Head(outbox[s]).to \in Workers
           /\ Head(outbox[s]).msg \in Msg
           /\ Tail(outbox[s]) \in Seq([to : Workers, msg : Msg])
<1>1. outbox[s] \in Seq([to : Workers, msg : Msg])
    BY DEF TypeOK
<1>2. /\ Head(outbox[s]) \in [to : Workers, msg : Msg]
      /\ Tail(outbox[s]) \in Seq([to : Workers, msg : Msg])
    BY <1>1, SeqOps
<1>3. QED
    BY <1>2

\* The initial state satisfies the inductive invariant.
LEMMA InitIInv == Init => IInv
BY PoolAssumption, SeqOps
DEF Init, IInv, TypeOK, BatchEmptyOutsideDrain, NoLostWakeup, Workers, Senders

\* Every step preserves the types of the variables.
LEMMA StepTypeOK == TypeOK /\ [Next]_vars => TypeOK'
<1> SUFFICES ASSUME TypeOK, [Next]_vars PROVE TypeOK'
    OBVIOUS
<1> USE PoolAssumption DEF TypeOK
<1>1. ASSUME NEW c \in Conns, Accept(c) PROVE TypeOK'
    <2>1. [to |-> NextThread(m_curr_index), msg |-> NewConn(c)]
              \in [to : Workers, msg : Msg]
        BY MsgTypes, RoundRobinRange
    <2> DEFINE e == [to |-> NextThread(m_curr_index), msg |-> NewConn(c)]
    <2>3. outbox' = [outbox EXCEPT ![Acceptor] = <<e>>]
        BY <1>1 DEF Accept
    <2> HIDE DEF e
    <2>4. <<e>> \in Seq([to : Workers, msg : Msg])
        BY <2>1 DEF e
    <2>2. outbox' \in [Senders -> Seq([to : Workers, msg : Msg])]
        BY <2>3, <2>4
    <2>5. QED
        BY <1>1, <2>2, RoundRobinRange DEF Accept, qvars
<1>2. ASSUME NEW s \in Posters, NEW t \in Tasks, NEW w \in Workers, PostTask(s, w, t)
      PROVE  TypeOK'
    <2> DEFINE e == [to |-> w, msg |-> NewTask(t)]
    <2>3. outbox' = [outbox EXCEPT ![s] = <<e>>]
        BY <1>2 DEF PostTask
    <2>4. e \in [to : Workers, msg : Msg]
        BY MsgTypes
    <2> HIDE DEF e
    <2>5. <<e>> \in Seq([to : Workers, msg : Msg])
        BY <2>4
    <2>1. outbox' \in [Senders -> Seq([to : Workers, msg : Msg])]
        BY <2>3, <2>5
    <2>2. QED
        BY <1>2, <2>1 DEF PostTask, qvars
<1>3. ASSUME NEW s \in Posters, NEW t \in Tasks, PostTaskToAll(s, t) PROVE TypeOK'
    <2> DEFINE all == [i \in 1..ThreadCnt |-> [to |-> i - 1, msg |-> NewTask(t)]]
    <2>1. all \in [1..ThreadCnt -> [to : Workers, msg : Msg]]
        BY MsgTypes DEF Workers
    <2>2. all \in Seq([to : Workers, msg : Msg])
        BY <2>1, SeqDef
    <2>3. outbox' = [outbox EXCEPT ![s] = all]
        BY <1>3 DEF PostTaskToAll
    <2> HIDE DEF all
    <2>4. outbox' \in [Senders -> Seq([to : Workers, msg : Msg])]
        BY <2>2, <2>3
    <2>5. QED
        BY <1>3, <2>4 DEF PostTaskToAll, qvars
<1>4. ASSUME NEW s \in Senders, SendPush(s) PROVE TypeOK'
    <2>1. PICK w \in Workers : w = Head(outbox[s]).to
        BY <1>4, HeadOfOutbox DEF SendPush
    <2>2. /\ m_queue' = [m_queue EXCEPT ![w] = Append(@, Head(outbox[s]).msg)]
          /\ m_mutex' = [m_mutex EXCEPT ![w] = s]
        BY <1>4, <2>1 DEF SendPush
    <2>3. Append(m_queue[w], Head(outbox[s]).msg) \in Seq(Msg)
        <3>1. m_queue[w] \in Seq(Msg) /\ Head(outbox[s]).msg \in Msg
            BY <1>4, HeadOfOutbox DEF SendPush
        <3>2. QED
            BY <3>1, SeqOps
    <2>4. m_queue' \in [Workers -> Seq(Msg)]
        BY <2>2, <2>3
    <2>5. m_mutex' \in [Workers -> Senders \cup Workers \cup {Nobody}]
        BY <2>2
    <2>6. QED
        BY <1>4, <2>4, <2>5 DEF SendPush
<1>5. ASSUME NEW s \in Senders, SendWrite(s) PROVE TypeOK'
    <2>1. PICK w \in Workers : w = Head(outbox[s]).to
        BY <1>5, HeadOfOutbox DEF SendWrite
    <2>2. /\ m_event_fd' = [m_event_fd EXCEPT ![w] = @ + 1]
          /\ m_mutex' = [m_mutex EXCEPT ![w] = Nobody]
        BY <1>5, <2>1 DEF SendWrite
    <2>3. outbox' \in [Senders -> Seq([to : Workers, msg : Msg])]
        BY <1>5, HeadOfOutbox DEF SendWrite
    <2>4. QED
        <3>1. m_event_fd' \in [Workers -> Nat]
            BY <2>2
        <3>2. m_mutex' \in [Workers -> Senders \cup Workers \cup {Nobody}]
            BY <2>2
        <3>3. QED
            BY <1>5, <2>3, <3>1, <3>2 DEF SendWrite
<1>6. ASSUME NEW w \in Workers, SetLoop(w) PROVE TypeOK'
    BY <1>6 DEF SetLoop, qvars
<1>7. ASSUME NEW w \in Workers, RecvRead(w) PROVE TypeOK'
    BY <1>7 DEF RecvRead
<1>8. ASSUME NEW w \in Workers, RecvSwap(w) PROVE TypeOK'
    BY <1>8 DEF RecvSwap
<1>9. ASSUME NEW w \in Workers, HandleMsg(w) PROVE TypeOK'
    <2>1. Head(msgs[w]) \in Msg /\ Tail(msgs[w]) \in Seq(Msg)
        BY <1>9, SeqOps DEF HandleMsg
    <2>2. handled' \in [Workers -> Seq(Msg)]
        BY <1>9, <2>1, SeqOps DEF HandleMsg
    <2>3. m_pending_factors' \in [Workers -> Seq(Tasks)]
        BY <1>9, <2>1, SeqOps, MsgTypes DEF HandleMsg
    <2>4. QED
        BY <1>9, <2>1, <2>2, <2>3 DEF HandleMsg, qvars
<1>10. ASSUME NEW w \in Workers, EndDrain(w) PROVE TypeOK'
    BY <1>10, SeqOps DEF EndDrain, qvars
<1>11. ASSUME NEW w \in Workers, RunTask(w) PROVE TypeOK'
    <2>1. Head(m_pending_factors[w]) \in Tasks /\ Tail(m_pending_factors[w]) \in Seq(Tasks)
        BY <1>11, SeqOps DEF RunTask
    <2>2. QED
        BY <1>11, <2>1, SeqOps DEF RunTask, qvars
<1>12. ASSUME NEW w \in Workers, EndTasks(w) PROVE TypeOK'
    BY <1>12 DEF EndTasks, qvars
<1>13. CASE Expire
    BY <1>13 DEF Expire, qvars
<1>14. CASE UNCHANGED vars
    BY <1>14 DEF vars
<1>15. QED
    BY <1>1, <1>2, <1>3, <1>4, <1>5, <1>6, <1>7, <1>8, <1>9, <1>10, <1>11, <1>12,
       <1>13, <1>14
    DEF Next, Send, Work

\* The local queue is filled by recvMsg only, and empty again when the
\* callback returns.
LEMMA StepBatchEmpty == IInv /\ [Next]_vars => BatchEmptyOutsideDrain'
<1> SUFFICES ASSUME IInv, [Next]_vars, NEW v \in Workers, wstate'[v] # "draining"
             PROVE  msgs'[v] = <<>>
    BY DEF BatchEmptyOutsideDrain
<1> USE DEF IInv, TypeOK, BatchEmptyOutsideDrain
<1>1. CASE UNCHANGED <<wstate, msgs>>
    BY <1>1
<1>2. ASSUME NEW w \in Workers, Work(w) PROVE msgs'[v] = <<>>
    BY <1>2 DEF Work, SetLoop, RecvRead, RecvSwap, HandleMsg, EndDrain, RunTask, EndTasks
<1>3. QED
    BY <1>1, <1>2
    DEF Next, vars, Accept, PostTask, PostTaskToAll, Send, SendPush, SendWrite, Expire

\* The eventfd is raised before the lock is released, and the queue is empty
\* when recvMsg, which has reset it, releases the lock.
LEMMA StepNoLostWakeup == IInv /\ [Next]_vars => NoLostWakeup'
<1> SUFFICES ASSUME IInv, [Next]_vars, NEW v \in Workers,
                    m_mutex'[v] = Nobody, m_queue'[v] # <<>>
             PROVE  m_event_fd'[v] > 0
    BY DEF NoLostWakeup
<1> USE PoolAssumption DEF IInv, TypeOK, NoLostWakeup
<1>1. CASE UNCHANGED qvars
    BY <1>1 DEF qvars
<1>2. ASSUME NEW s \in Senders, SendPush(s) PROVE m_event_fd'[v] > 0
    <2>1. PICK w \in Workers : w = Head(outbox[s]).to
        BY <1>2, HeadOfOutbox DEF SendPush
    <2>2. /\ m_mutex' = [m_mutex EXCEPT ![w] = s]
          /\ m_queue' = [m_queue EXCEPT ![w] = Append(@, Head(outbox[s]).msg)]
          /\ m_event_fd' = m_event_fd
        BY <1>2, <2>1 DEF SendPush
    <2>3. s # Nobody
        OBVIOUS
    <2>4. QED
        BY <2>2, <2>3
<1>3. ASSUME NEW s \in Senders, SendWrite(s) PROVE m_event_fd'[v] > 0
    <2>1. PICK w \in Workers : w = Head(outbox[s]).to
        BY <1>3, HeadOfOutbox DEF SendWrite
    <2>2. /\ m_mutex' = [m_mutex EXCEPT ![w] = Nobody]
          /\ m_event_fd' = [m_event_fd EXCEPT ![w] = @ + 1]
          /\ m_queue' = m_queue
        BY <1>3, <2>1 DEF SendWrite
    <2>3. QED
        BY <2>2
<1>4. ASSUME NEW w \in Workers, RecvRead(w) PROVE m_event_fd'[v] > 0
    BY <1>4 DEF RecvRead
<1>5. ASSUME NEW w \in Workers, RecvSwap(w) PROVE m_event_fd'[v] > 0
    <2>1. msgs[w] = <<>>
        BY <1>5 DEF RecvSwap, BatchEmptyOutsideDrain
    <2>2. QED
        BY <1>5, <2>1 DEF RecvSwap
<1>6. QED
    BY <1>1, <1>2, <1>3, <1>4, <1>5
    DEF Next, vars, Accept, PostTask, PostTaskToAll, Send, Work, SetLoop, HandleMsg,
        EndDrain, RunTask, EndTasks, Expire, qvars

\* The inductive invariant holds in every reachable state.
THEOREM Invariance == Spec => []IInv
<1>1. IInv /\ [Next]_vars => IInv'
    BY StepTypeOK, StepBatchEmpty, StepNoLostWakeup DEF IInv
<1>2. QED
    BY InitIInv, <1>1, PTL DEF Spec

\* Type correctness for every pool size and every set of messages.
THEOREM TypeCorrect == Spec => []TypeOK
BY Invariance, PTL DEF IInv

\* No message ever waits in a queue whose eventfd is not readable.
THEOREM NoWakeupIsLost == Spec => []NoLostWakeup
BY Invariance, PTL DEF IInv

-----------------------------------------------------------------------------
(* ThreadQueue implements Handoff *)

\* A message pushed to the queue ends the channel "batch followed by queue".
LEMMA ChannelAppend ==
    ASSUME NEW p \in Seq(Msg), NEW q \in Seq(Msg), NEW x \in Msg
    PROVE  p \o Append(q, x) = Append(p \o q, x)
<1>1. <<x>> \in Seq(Msg) /\ p \o q \in Seq(Msg)
    BY ConcatProperties
<1>2. Append(q, x) = q \o <<x>> /\ Append(p \o q, x) = (p \o q) \o <<x>>
    BY <1>1, AppendIsConcat
<1>3. QED
    BY <1>1, <1>2, ConcatAssociative

\* The head of a non-empty batch is the head of the channel, and what is left
\* of the channel once the batch is gone is the queue.
LEMMA ChannelFront ==
    ASSUME NEW p \in Seq(Msg), NEW q \in Seq(Msg), p # <<>>
    PROVE  /\ p \o q # <<>>
           /\ Head(p \o q) = Head(p)
           /\ Tail(p \o q) = Tail(p) \o q
           /\ Len(p) \in 1..Len(p \o q)
           /\ SubSeq(p \o q, Len(p) + 1, Len(p \o q)) = q
<1> USE ConcatProperties
<1>1. p \o q \in Seq(Msg) /\ p \o q # <<>> /\ Len(p) \in 1..Len(p \o q)
    BY EmptySeq
<1>2. Head(p \o q) = Head(p)
    BY <1>1, EmptySeq
<1>3. /\ Tail(p) \in Seq(Msg) /\ Len(Tail(p)) = Len(p) - 1
      /\ \A i \in 1..Len(Tail(p)) : Tail(p)[i] = p[i + 1]
    BY HeadTailProperties
<1>4. /\ Tail(p \o q) \in Seq(Msg) /\ Len(Tail(p \o q)) = Len(p \o q) - 1
      /\ \A i \in 1..Len(Tail(p \o q)) : Tail(p \o q)[i] = (p \o q)[i + 1]
    BY <1>1, HeadTailProperties
<1>5. Tail(p) \o q \in Seq(Msg) /\ Len(Tail(p) \o q) = Len(Tail(p \o q))
    BY <1>3, <1>4
<1>6. \A i \in 1..Len(Tail(p \o q)) : Tail(p \o q)[i] = (Tail(p) \o q)[i]
    BY <1>3, <1>4
<1>7. Tail(p \o q) = Tail(p) \o q
    BY <1>4, <1>5, <1>6, SeqEqual
<1> DEFINE r == SubSeq(p \o q, Len(p) + 1, Len(p \o q))
<1>8. /\ r \in Seq(Msg)
      /\ Len(r) = Len(q)
      /\ \A i \in 1..Len(q) : r[i] = (p \o q)[Len(p) + i]
    <2>1. \A i \in (Len(p) + 1)..Len(p \o q) : (p \o q)[i] \in Msg
        BY <1>1, ElementOfSeq
    <2>2. Len(p) + 1 \in Int /\ Len(p \o q) \in Int
        BY <1>1
    <2>3. /\ r \in Seq(Msg)
          /\ Len(r) = IF Len(p) + 1 <= Len(p \o q)
                      THEN Len(p \o q) - (Len(p) + 1) + 1 ELSE 0
          /\ \A i \in 1..(Len(p \o q) - (Len(p) + 1) + 1) :
                 r[i] = (p \o q)[Len(p) + 1 + i - 1]
        BY <2>1, <2>2, SubSeqProperties
    <2> HIDE DEF r
    <2>4. /\ Len(p) \in Nat /\ Len(q) \in Nat
          /\ Len(p \o q) = Len(p) + Len(q)
        BY LenProperties, ConcatProperties
    <2>5. Len(p \o q) - (Len(p) + 1) + 1 = Len(q) /\ Len(r) = Len(q)
        BY <2>3, <2>4
    <2>6. \A i \in 1..Len(q) : Len(p) + 1 + i - 1 = Len(p) + i
        BY <2>4
    <2>7. \A i \in 1..Len(q) : r[i] = (p \o q)[Len(p) + i]
        BY <2>3, <2>5, <2>6
    <2>8. QED
        BY <2>3, <2>5, <2>7
<1> HIDE DEF r
<1>9. \A i \in 1..Len(r) : r[i] = q[i]
    BY <1>8
<1>10. r = q
    BY <1>8, <1>9, SeqEqual
<1>11. QED
    BY <1>1, <1>2, <1>7, <1>10 DEF r

\* The channel of a worker, as the refinement mapping defines it.
channel == [w \in Workers |-> msgs[w] \o m_queue[w]]

\* An action that leaves both halves of every channel, the processed messages
\* and the server alone is a stutter of Handoff.
LEMMA Stutter ==
    UNCHANGED <<msgs, m_queue, handled, expired>> => UNCHANGED H!hvars
BY DEF H!hvars

\* Every step of ThreadQueue is a step of Handoff or a stutter there.
LEMMA StepHandoff == IInv /\ [Next]_vars => [H!HNext]_(H!hvars)
<1> SUFFICES ASSUME IInv, [Next]_vars PROVE H!HNext \/ UNCHANGED H!hvars
    OBVIOUS
<1> USE DEF IInv
<1>t. /\ msgs \in [Workers -> Seq(Msg)] /\ m_queue \in [Workers -> Seq(Msg)]
      /\ handled \in [Workers -> Seq(Msg)]
    BY DEF TypeOK
<1>1. CASE UNCHANGED <<msgs, m_queue, handled, expired>>
    BY <1>1, Stutter
<1>2. ASSUME NEW s \in Senders, SendPush(s) PROVE H!HNext
    <2>1. PICK w \in Workers, m \in Msg : w = Head(outbox[s]).to /\ m = Head(outbox[s]).msg
        BY <1>2, HeadOfOutbox DEF SendPush
    <2>2. /\ m_queue' = [m_queue EXCEPT ![w] = Append(@, m)]
          /\ UNCHANGED <<msgs, handled, expired>>
        BY <1>2, <2>1 DEF SendPush
    <2>3. msgs[w] \o Append(m_queue[w], m) = Append(msgs[w] \o m_queue[w], m)
        <3>1. msgs[w] \in Seq(Msg) /\ m_queue[w] \in Seq(Msg)
            BY <1>t
        <3>2. QED
            BY <3>1, ChannelAppend
    <2>4. channel' = [channel EXCEPT ![w] = Append(@, m)]
        BY <1>t, <2>2, <2>3 DEF channel
    <2>5. H!Hand(w, m)
        BY <2>2, <2>4 DEF H!Hand, channel
    <2>6. QED
        BY <2>5 DEF H!HNext
<1>3. ASSUME NEW w \in Workers, RecvSwap(w) PROVE UNCHANGED H!hvars
    <2>1. msgs[w] = <<>>
        BY <1>3 DEF RecvSwap, BatchEmptyOutsideDrain
    <2>2. /\ msgs' = [msgs EXCEPT ![w] = m_queue[w]]
          /\ m_queue' = [m_queue EXCEPT ![w] = <<>>]
          /\ UNCHANGED <<handled, expired>>
        BY <1>3, <2>1 DEF RecvSwap
    <2>3. m_queue[w] \o <<>> = m_queue[w] /\ <<>> \o m_queue[w] = m_queue[w]
        BY <1>t, ConcatEmptySeq
    <2>4. channel' = channel
        BY <1>t, <2>1, <2>2, <2>3 DEF channel
    <2>5. QED
        BY <2>2, <2>4 DEF H!hvars, channel
<1>4. ASSUME NEW w \in Workers, HandleMsg(w) PROVE H!HNext
    <2>1. /\ msgs[w] # <<>> /\ ~expired
          /\ handled' = [handled EXCEPT ![w] = Append(@, Head(msgs[w]))]
          /\ msgs' = [msgs EXCEPT ![w] = Tail(@)]
          /\ UNCHANGED <<m_queue, expired>>
        BY <1>4 DEF HandleMsg, qvars
    <2>2. /\ channel[w] # <<>>
          /\ Head(channel[w]) = Head(msgs[w])
          /\ Tail(channel[w]) = Tail(msgs[w]) \o m_queue[w]
        <3>1. channel[w] = msgs[w] \o m_queue[w]
            BY DEF channel
        <3>2. msgs[w] \in Seq(Msg) /\ m_queue[w] \in Seq(Msg)
            BY <1>t
        <3>3. msgs[w] # <<>> => /\ msgs[w] \o m_queue[w] # <<>>
                               /\ Head(msgs[w] \o m_queue[w]) = Head(msgs[w])
                               /\ Tail(msgs[w] \o m_queue[w]) = Tail(msgs[w]) \o m_queue[w]
            BY <3>2, ChannelFront
        <3>4. QED
            BY <2>1, <3>1, <3>3, Zenon
    <2>3. channel' = [channel EXCEPT ![w] = Tail(@)]
        BY <1>t, <2>1, <2>2 DEF channel
    <2>4. H!Process(w)
        BY <2>1, <2>2, <2>3 DEF H!Process, channel
    <2>5. QED
        BY <2>4 DEF H!HNext
<1>5. ASSUME NEW w \in Workers, EndDrain(w) PROVE H!HNext \/ UNCHANGED H!hvars
    <2>1. /\ msgs' = [msgs EXCEPT ![w] = <<>>]
          /\ UNCHANGED <<m_queue, handled, expired>>
        BY <1>5 DEF EndDrain, qvars
    <2>2. CASE msgs[w] = <<>>
        <3>1. msgs' = msgs
            BY <1>t, <2>1, <2>2
        <3>2. QED
            BY <2>1, <3>1, Stutter
    <2>3. CASE msgs[w] # <<>>
        <3> DEFINE n == Len(msgs[w])
        <3>1. expired
            BY <1>5, <2>3 DEF EndDrain
        <3>2. n \in 1..Len(channel[w]) /\ SubSeq(channel[w], n + 1, Len(channel[w])) = m_queue[w]
            <4>1. msgs[w] \in Seq(Msg) /\ m_queue[w] \in Seq(Msg)
                BY <1>t
            <4>2. channel[w] = msgs[w] \o m_queue[w]
                BY DEF channel
            <4>3. /\ Len(msgs[w]) \in 1..Len(msgs[w] \o m_queue[w])
                  /\ SubSeq(msgs[w] \o m_queue[w], Len(msgs[w]) + 1, Len(msgs[w] \o m_queue[w]))
                         = m_queue[w]
                BY <2>3, <4>1, ChannelFront
            <4>4. QED
                BY <4>2, <4>3
        <3>3. <<>> \o m_queue[w] = m_queue[w]
            BY <1>t, ConcatEmptySeq
        <3>4. channel' = [channel EXCEPT ![w] = m_queue[w]]
            BY <1>t, <2>1, <3>3 DEF channel
        <3>5. channel' = [channel EXCEPT ![w] = SubSeq(@, n + 1, Len(@))]
            BY <3>2, <3>4 DEF channel
        <3> HIDE DEF n
        <3>6. \E k \in 1..Len(channel[w]) : H!Discard(w, k)
            BY <2>1, <3>1, <3>2, <3>5 DEF H!Discard, channel
        <3>7. QED
            BY <3>6 DEF H!HNext, channel
    <2>4. QED
        BY <2>2, <2>3
<1>6. CASE Expire
    BY <1>6 DEF Expire, qvars, H!HNext, H!Close
<1>7. QED
    BY <1>1, <1>2, <1>3, <1>4, <1>5, <1>6
    DEF Next, vars, Accept, PostTask, PostTaskToAll, Send, SendWrite, Work, SetLoop,
        RecvRead, RunTask, EndTasks, qvars

\* The mutex, the eventfd and the swapped batch implement one FIFO channel per
\* worker, for any number of workers and messages.
THEOREM HandoffImplemented == Spec => ImplementsHandoff
<1>1. Init => H!HInit
    <2>1. <<>> \o <<>> = <<>>
        BY ConcatEmptySeq, EmptySeq
    <2>2. QED
        BY <2>1 DEF Init, H!HInit
<1>2. IInv /\ [Next]_vars => [H!HNext]_(H!hvars)
    BY StepHandoff
<1>3. QED
    BY <1>1, <1>2, Invariance, PTL DEF Spec, ImplementsHandoff, H!HSafety
=============================================================================
