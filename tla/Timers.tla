------------------------------- MODULE Timers -------------------------------
(***************************************************************************)
(* What a timer queue promises: a set of pending timers.  A timer enters   *)
(* it under a fresh id and leaves it once, because it was cancelled or     *)
(* because it expired; an expired timer's callback is called once, and a   *)
(* periodic timer is pending again, one interval later, under a fresh id.  *)
(* TimerQueue (a binary heap and a position map) implements this module.   *)
(***************************************************************************)
EXTENDS Naturals, Sequences, SequencesExt

CONSTANTS Time,     \* times a timer may be added for
          Period    \* intervals, 0 for a timer that fires once

VARIABLES pending,  \* the set of pending timers
          due,      \* expired timers whose callbacks have still to be called
          fresh     \* the next id

tvars == <<pending, due, fresh>>

TInit == pending = {} /\ due = <<>> /\ fresh = 0

Schedule(t, p) == /\ pending' = pending \cup {[timer_id |-> fresh, ts |-> t, interval |-> p]}
                  /\ fresh' = fresh + 1
                  /\ UNCHANGED due

Cancel(te) == /\ te \in pending
              /\ pending' = pending \ {te}
              /\ UNCHANGED <<due, fresh>>

\* The timers of the sequence s, all of the same time, expire together; those
\* with a period come back.
Renewed(s) == LET again == SelectSeq(s, LAMBDA te : te.interval > 0)
              IN  {[timer_id |-> fresh + i - 1, ts |-> again[i].ts + again[i].interval,
                    interval |-> again[i].interval] : i \in DOMAIN again}

Expire(s) == /\ pending' = (pending \ ToSet(s)) \cup Renewed(s)
             /\ due' = due \o s
             /\ fresh' = fresh + Cardinality(Renewed(s))

CallNext == /\ due # <<>>
            /\ due' = Tail(due)
            /\ UNCHANGED <<pending, fresh>>

TNext == \/ \E t \in Time, p \in Period : Schedule(t, p)
         \/ \E te \in pending : Cancel(te)
         \/ \E t \in {te.ts : te \in pending} :
               \E S \in SUBSET {te \in pending : te.ts = t} :
                  \E s \in SetToSeqs(S) : Expire(s)
         \/ CallNext

TSpec == TInit /\ [][TNext]_tvars
=============================================================================
