------------------------------ MODULE Handoff ------------------------------
(***************************************************************************)
(* What bsp_sockets promises about work handed to the threads of its pool: *)
(* every worker has one FIFO channel; a message enters it once, leaves it  *)
(* at its head once, and is thrown away only after the server has gone.    *)
(* There is no eventfd, no mutex and no private batch here: ThreadQueue    *)
(* has them, and is shown to implement this module.                        *)
(***************************************************************************)
EXTENDS Naturals, Sequences

CONSTANTS Workers,  \* the threads of the pool
          Msg       \* the messages that may be handed to them

VARIABLES inflight, \* inflight[w]: handed to w and not yet processed, oldest first
          handled,  \* handled[w]: what w has processed, oldest first
          closed    \* the server object is gone

hvars == <<inflight, handled, closed>>

HInit == /\ inflight = [w \in Workers |-> <<>>]
         /\ handled = [w \in Workers |-> <<>>]
         /\ closed = FALSE

Hand(w, m) == /\ inflight' = [inflight EXCEPT ![w] = Append(@, m)]
              /\ UNCHANGED <<handled, closed>>

Process(w) == /\ ~closed
              /\ inflight[w] # <<>>
              /\ handled' = [handled EXCEPT ![w] = Append(@, Head(inflight[w]))]
              /\ inflight' = [inflight EXCEPT ![w] = Tail(@)]
              /\ UNCHANGED closed

Close == /\ closed' = TRUE
         /\ UNCHANGED <<inflight, handled>>

\* Once the server has gone a worker may discard any prefix of its channel.
Discard(w, n) == /\ closed
                 /\ n \in 1..Len(inflight[w])
                 /\ inflight' = [inflight EXCEPT ![w] = SubSeq(@, n + 1, Len(@))]
                 /\ UNCHANGED <<handled, closed>>

HNext == \/ \E w \in Workers : \/ \E m \in Msg : Hand(w, m)
                               \/ Process(w)
                               \/ \E n \in 1..Len(inflight[w]) : Discard(w, n)
         \/ Close

HSafety == HInit /\ [][HNext]_hvars

HSpec == HSafety /\ \A w \in Workers : WF_hvars(Process(w))
=============================================================================
