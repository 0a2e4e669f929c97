--------------------------- MODULE ShmPortProofs ---------------------------
(***************************************************************************)
(* The ring of the shared-memory port, for every number of slots, frames,  *)
(* subscribers and messages on the way: what a subscriber has copied is the*)
(* frame its message names, unless the publisher has gone round the ring.  *)
(***************************************************************************)
EXTENDS ShmPort, TLAPS

(***************************************************************************)
(* The invariant.  The last frame that was given slot i is counted back    *)
(* from pub.frame, which was given the slot before m_current_slot_index.   *)
(***************************************************************************)
LastIn(i) == pub.frame - current + 1 + i - (IF i < current THEN 0 ELSE Slots)

Sent == IF pub.pc = "idle" THEN pub.frame ELSE pub.frame - 1

(* A copy of half a slot that was given to frame n. *)
Half(x, n) == x >= n /\ (Begun < n + Slots => x = n)

(* A message: its slot was given to its frame, and perhaps again since, and *)
(* until it is overwritten it holds the frame.                              *)
Good(m) ==
  /\ m.frame <= Sent
  /\ LastIn(m.slot) = m.frame \/ LastIn(m.slot) >= m.frame + Slots
  /\ Half(slot[m.slot].lo, m.frame) /\ Half(slot[m.slot].hi, m.frame)

PubInv ==
  /\ pub.pc # "idle" => LastIn(pub.slot) = pub.frame
  /\ pub.pc \in {"high", "send"} => slot[pub.slot].lo = pub.frame
  /\ pub.pc = "send" => slot[pub.slot].hi = pub.frame

WireInv == \A s \in Subs : \A k \in 1 .. Len(wire[s]) : Good(wire[s][k])

SubInv ==
  \A s \in Subs :
    /\ sub[s].pc # "wait" => Good(sub[s].msg)
    /\ sub[s].pc \in {"high", "read"} => Half(sub[s].buf.lo, sub[s].msg.frame)
    /\ sub[s].pc = "read" => Half(sub[s].buf.hi, sub[s].msg.frame)

RingInv == RingTypeOK /\ PubInv /\ WireInv /\ SubInv

(* At the start every slot, buffer and message is blank.                    *)
LEMMA InitInv == RingInit => RingInv
BY RingAssumption DEF RingInit, RingInv, RingTypeOK, PubInv, WireInv, SubInv, Index, Blank, NoMsg, Message

(* The indices and the records keep their ranges: m_current_slot_index,     *)
(* which is reduced modulo m_slots, stays inside the ring                   *)
(* (sharedMemPublisher.cpp:101-107).                                        *)
LEMMA TypeStep == RingTypeOK /\ [RingNext]_ringVars => RingTypeOK'
<1> SUFFICES ASSUME RingTypeOK, [RingNext]_ringVars PROVE RingTypeOK'
  OBVIOUS
<1> USE RingAssumption DEF RingTypeOK
<1>1. CASE GetFreeSlotIndex
  <2>1. current' \in Index
    BY <1>1, SMT DEF GetFreeSlotIndex, Index
  <2>2. pub' \in [pc : {"idle", "low", "high", "send"}, slot : Index, frame : Nat]
    BY <1>1 DEF GetFreeSlotIndex
  <2> QED BY <1>1, <2>1, <2>2 DEF GetFreeSlotIndex
<1>2. CASE Refuse
  BY <1>2 DEF Refuse
<1>3. CASE CopyIn
  <2>1. slot' \in [Index -> [lo : Nat, hi : Nat]]
    <3>1. pub.slot \in Index /\ pub.frame \in Nat
      OBVIOUS
    <3>2. \/ slot' = [slot EXCEPT ![pub.slot] = [@ EXCEPT !.lo = pub.frame]]
          \/ slot' = [slot EXCEPT ![pub.slot] = [@ EXCEPT !.hi = pub.frame]]
      BY <1>3 DEF CopyIn
    <3>5. slot \in [Index -> [lo : Nat, hi : Nat]]
      BY DEF RingTypeOK
    <3> HIDE DEF RingTypeOK
    <3>8. slot[pub.slot] \in [lo : Nat, hi : Nat]
      BY <3>1, <3>5
    <3>3. [slot[pub.slot] EXCEPT !.lo = pub.frame] \in [lo : Nat, hi : Nat]
      BY <3>1, <3>8
    <3>4. [slot[pub.slot] EXCEPT !.hi = pub.frame] \in [lo : Nat, hi : Nat]
      BY <3>1, <3>8
    <3>6. CASE slot' = [slot EXCEPT ![pub.slot] = [@ EXCEPT !.lo = pub.frame]]
      BY <3>1, <3>3, <3>5, <3>6
    <3>7. CASE slot' = [slot EXCEPT ![pub.slot] = [@ EXCEPT !.hi = pub.frame]]
      BY <3>1, <3>4, <3>5, <3>7
    <3> QED BY <3>2, <3>6, <3>7
  <2>2. pub' \in [pc : {"idle", "low", "high", "send"}, slot : Index, frame : Nat]
    <3>1. pub' = [pub EXCEPT !.pc = "high"] \/ pub' = [pub EXCEPT !.pc = "send"]
      BY <1>3 DEF CopyIn
    <3>2. pub \in [pc : {"idle", "low", "high", "send"}, slot : Index, frame : Nat]
      BY DEF RingTypeOK
    <3> HIDE DEF RingTypeOK
    <3> QED BY <3>1, <3>2
  <2> QED BY <1>3, <2>1, <2>2 DEF CopyIn
<1>4. CASE SendMsg
  <2> DEFINE m == [frame |-> pub.frame, slot |-> pub.slot]
  <2>1. m \in Message
    BY DEF Message
  <2>2. \A s \in Subs : wire[s] \in Seq(Message) /\ Append(wire[s], m) \in Seq(Message)
    BY <2>1
  <2>3. wire' \in [Subs -> Seq(Message)]
    BY <1>4, <2>2 DEF SendMsg
  <2>4. pub' \in [pc : {"idle", "low", "high", "send"}, slot : Index, frame : Nat]
    BY <1>4 DEF SendMsg
  <2> QED BY <1>4, <2>3, <2>4 DEF SendMsg
<1>5. ASSUME NEW s \in Subs, Join(s) \/ CopyOut(s) \/ Release(s) PROVE RingTypeOK'
  <2>1. CASE Join(s)
    BY <2>1 DEF Join
  <2>2. CASE CopyOut(s)
    <3>1. slot[sub[s].msg.slot] \in [lo : Nat, hi : Nat]
      BY DEF Message
    <3> DEFINE Reader == [pc : {"wait", "low", "high", "read"}, msg : Message,
                          buf : [lo : Nat, hi : Nat]]
    <3>2. PICK r \in Reader : sub' = [sub EXCEPT ![s] = r]
      <4>1. [[sub[s] EXCEPT !.buf.lo = slot[sub[s].msg.slot].lo] EXCEPT !.pc = "high"] \in Reader
        BY <3>1
      <4>2. [[sub[s] EXCEPT !.buf.hi = slot[sub[s].msg.slot].hi] EXCEPT !.pc = "read"] \in Reader
        BY <3>1
      <4> QED BY <2>2, <4>1, <4>2 DEF CopyOut
    <3> QED BY <2>2, <3>2 DEF CopyOut
  <2>3. CASE Release(s)
    BY <2>3 DEF Release
  <2> QED BY <1>5, <2>1, <2>2, <2>3
<1>6. ASSUME NEW s \in Subs, ReceiveMsg(s) PROVE RingTypeOK'
  <2>1. wire[s] \in Seq(Message) /\ wire[s] # <<>>
    BY <1>6 DEF ReceiveMsg
  <2>2. Head(wire[s]) \in Message /\ Tail(wire[s]) \in Seq(Message)
    BY <2>1
  <2>3. wire' \in [Subs -> Seq(Message)]
    BY <1>6, <2>2 DEF ReceiveMsg
  <2>4. sub' \in [Subs -> [pc : {"wait", "low", "high", "read"}, msg : Message,
                         buf : [lo : Nat, hi : Nat]]]
    <3>1. PICK p \in {"wait", "low"} : sub' = [sub EXCEPT ![s].msg = Head(wire[s]), ![s].pc = p]
      BY <1>6 DEF ReceiveMsg
    <3>2. sub \in [Subs -> [pc : {"wait", "low", "high", "read"}, msg : Message,
                           buf : [lo : Nat, hi : Nat]]]
      BY DEF RingTypeOK
    <3> HIDE DEF RingTypeOK
    <3> QED BY <2>2, <3>1, <3>2
  <2> QED BY <1>6, <2>3, <2>4 DEF ReceiveMsg
<1>7. CASE UNCHANGED ringVars
  BY <1>7 DEF ringVars
<1> QED
  BY <1>1, <1>2, <1>3, <1>4, <1>5, <1>6, <1>7 DEF RingNext

(* Types in the form the leaves below use. *)
LEMMA Ranges ==
  ASSUME RingTypeOK
  PROVE  /\ current \in Index /\ pub.slot \in Index /\ pub.frame \in Nat
         /\ pub.pc \in {"idle", "low", "high", "send"}
         /\ \A i \in Index : slot[i].lo \in Nat /\ slot[i].hi \in Nat
BY DEF RingTypeOK

(* What the last frame in a slot is, after the next slot was given out: the *)
(* slot at the index has the new frame, the others keep theirs.            *)
LEMMA TurnOfSlots ==
  ASSUME RingTypeOK, GetFreeSlotIndex, NEW i \in Index
  PROVE  /\ i # current => LastIn(i)' = LastIn(i)
         /\ i = current => LastIn(i)' = pub.frame + 1 /\ LastIn(i) = pub.frame + 1 - Slots
<1>1. current \in Index /\ pub.frame \in Nat /\ pub'.frame = pub.frame + 1
  BY Ranges DEF GetFreeSlotIndex
<1>2. current' = IF current = Slots - 1 THEN 0 ELSE current + 1
  BY <1>1, RingAssumption, SMT DEF GetFreeSlotIndex, Index
<1> QED
  BY <1>1, <1>2, RingAssumption, SMT DEF LastIn, Index

(* What has been said of a copy stays true: more frames may have begun. *)
LEMMA HalfKept ==
  ASSUME RingTypeOK, [RingNext]_ringVars, NEW x \in Nat, NEW n \in Nat, Half(x, n)
  PROVE  Half(x, n)'
<1>1. Begun \in Int /\ Begun' \in Int /\ Begun <= Begun'
  <2> USE Ranges
  <2>1. CASE GetFreeSlotIndex
    BY <2>1 DEF GetFreeSlotIndex, Begun
  <2>2. CASE Refuse
    BY <2>2 DEF Refuse, Begun, RingTypeOK
  <2>3. CASE CopyIn
    BY <2>3 DEF CopyIn, Begun, RingTypeOK
  <2>4. CASE SendMsg
    BY <2>4 DEF SendMsg, Begun, RingTypeOK
  <2>5. CASE pub' = pub
    BY <2>5 DEF Begun
  <2> QED
    BY <2>1, <2>2, <2>3, <2>4, <2>5
    DEF RingNext, Join, ReceiveMsg, CopyOut, Release, ringVars
<1> QED BY <1>1, RingAssumption DEF Half

(* The slot of a message is overwritten only once its turn has come again. *)
LEMMA GoodKept ==
  ASSUME RingInv, RingTypeOK', [RingNext]_ringVars, NEW m \in Message, Good(m)
  PROVE  Good(m)'
<1> DEFINE i == m.slot
           n == m.frame
<1>1. i \in Index /\ n \in Nat
  BY DEF Message
<1>2. RingTypeOK /\ PubInv
  BY DEF RingInv
<1>3. Half(slot[i].lo, n) /\ Half(slot[i].hi, n) /\ n <= Sent
      /\ (LastIn(i) = n \/ LastIn(i) >= n + Slots)
  BY DEF Good
<1>4. slot'[i] = slot[i] => Half(slot[i].lo, n)' /\ Half(slot[i].hi, n)'
  <2> DEFINE lo == slot[i].lo
             hi == slot[i].hi
  <2>1. lo \in Nat /\ hi \in Nat
    BY <1>1, <1>2, Ranges
  <2>2. ASSUME NEW x \in Nat, Half(x, n) PROVE x >= n /\ (Begun' < n + Slots => x = n)
    BY <2>2, <1>1, <1>2, HalfKept DEF Half
  <2>3. Half(lo, n) /\ Half(hi, n)
    BY <1>3
  <2> QED BY <2>1, <2>2, <2>3 DEF Half
<1>5. CASE GetFreeSlotIndex
  <2>1. slot' = slot /\ Sent' = Sent
    BY <1>5, <1>2, Ranges DEF GetFreeSlotIndex, Sent
  <2>2. LastIn(i)' = n \/ LastIn(i)' >= n + Slots
    BY <1>1, <1>2, <1>3, <1>5, TurnOfSlots, Ranges, RingAssumption DEF Index
  <2> QED BY <2>1, <2>2, <1>3, <1>4 DEF Good
<1>6. CASE Refuse
  <2>1. slot' = slot /\ current' = current /\ pub'.frame = pub.frame /\ Sent <= Sent'
    BY <1>6, <1>2, Ranges DEF Refuse, Sent, RingTypeOK
  <2>2. LastIn(i)' = LastIn(i)
    BY <2>1 DEF LastIn
  <2>3. n <= Sent'
    BY <1>1, <1>2, <1>3, <2>1, <1>6, Ranges DEF Sent, Refuse
  <2> QED BY <2>1, <2>2, <2>3, <1>3, <1>4 DEF Good
<1>7. CASE CopyIn
  <2>1. current' = current /\ pub'.frame = pub.frame /\ pub'.slot = pub.slot
        /\ pub.pc \in {"low", "high"} /\ pub'.pc \in {"high", "send"}
    BY <1>7, <1>2 DEF CopyIn, RingTypeOK
  <2>2. LastIn(i)' = LastIn(i) /\ Sent' = Sent
    BY <2>1 DEF LastIn, Sent
  <2>3. CASE i # pub.slot
    <3>1. slot'[i] = slot[i]
      BY <2>3, <1>1, <1>2, <1>7 DEF CopyIn, RingTypeOK
    <3> QED BY <3>1, <2>2, <1>3, <1>4 DEF Good
  <2>4. CASE i = pub.slot
    <3>1. pub.frame >= n + Slots /\ pub.frame \in Nat
      BY <2>1, <2>4, <1>1, <1>2, <1>3, Ranges, RingAssumption DEF PubInv, Sent
    <3>2. slot[i].lo >= n /\ slot[i].hi >= n
      BY <1>3 DEF Half
    <3>3. \/ slot'[i].lo = pub.frame /\ slot'[i].hi = slot[i].hi
          \/ slot'[i].lo = slot[i].lo /\ slot'[i].hi = pub.frame
      BY <2>4, <1>1, <1>2, <1>7 DEF CopyIn, RingTypeOK
    <3>4. slot'[i].lo >= n /\ slot'[i].hi >= n
      BY <3>1, <3>2, <3>3, <1>1, RingAssumption
    <3>5. ~ (Begun' < n + Slots)
      BY <2>1, <3>1, <1>1, RingAssumption DEF Begun
    <3> QED BY <3>4, <3>5, <2>2, <1>3 DEF Good, Half
  <2> QED BY <2>3, <2>4
<1>8. CASE SendMsg
  <2>1. slot' = slot /\ current' = current /\ pub'.frame = pub.frame /\ pub'.pc = "idle"
        /\ pub.pc = "send"
    BY <1>8, <1>2 DEF SendMsg, RingTypeOK
  <2>2. LastIn(i)' = LastIn(i)
    BY <2>1 DEF LastIn
  <2>3. n <= Sent'
    BY <1>1, <1>2, <1>3, <2>1, Ranges DEF Sent
  <2> QED BY <2>1, <2>2, <2>3, <1>3, <1>4 DEF Good
<1>9. CASE UNCHANGED <<current, slot, pub>>
  <2>1. LastIn(i)' = LastIn(i) /\ Sent' = Sent
    BY <1>9 DEF LastIn, Sent
  <2> QED BY <2>1, <1>9, <1>3, <1>4 DEF Good
<1> QED
  BY <1>5, <1>6, <1>7, <1>8, <1>9
  DEF RingNext, Join, ReceiveMsg, CopyOut, Release, ringVars

(* The publisher's slot holds what has been copied of its frame. *)
LEMMA PubStep == RingInv /\ RingTypeOK' /\ [RingNext]_ringVars => PubInv'
<1> SUFFICES ASSUME RingInv, RingTypeOK', [RingNext]_ringVars PROVE PubInv'
  OBVIOUS
<1>1. RingTypeOK /\ PubInv
  BY DEF RingInv
<1>2. CASE GetFreeSlotIndex
  <2>1. pub'.slot = current /\ pub'.frame = pub.frame + 1 /\ pub'.pc = "low"
    BY <1>2 DEF GetFreeSlotIndex
  <2>3. \A i \in Index : i = current => LastIn(i)' = pub.frame + 1
    BY <1>1, <1>2, TurnOfSlots
  <2>4. pub'.slot \in Index /\ pub'.slot = current
    BY <2>1, <1>1, Ranges
  <2>5. PICK i \in Index : i = pub'.slot /\ i = current
    BY <2>4
  <2>6. LastIn(i)' = pub'.frame
    BY <2>1, <2>3, <2>5
  <2> QED BY <2>1, <2>5, <2>6 DEF PubInv, LastIn
<1>3. CASE Refuse
  BY <1>1, <1>3 DEF Refuse, PubInv, RingTypeOK
<1>4. CASE CopyIn
  <2>1. current' = current /\ pub'.frame = pub.frame /\ pub'.slot = pub.slot
        /\ pub.pc \in {"low", "high"} /\ pub'.pc \in {"high", "send"}
    BY <1>1, <1>4 DEF CopyIn, RingTypeOK
  <2>2. LastIn(pub.slot)' = pub'.frame
    BY <2>1, <1>1 DEF LastIn, PubInv
  <2>3. slot'[pub.slot].lo = pub.frame
        /\ (pub'.pc = "send" => slot'[pub.slot].hi = pub.frame)
    <3>0. /\ slot \in [Index -> [lo : Nat, hi : Nat]] /\ pub.slot \in Index
          /\ pub \in [pc : {"idle", "low", "high", "send"}, slot : Index, frame : Nat]
      BY <1>1, Ranges DEF RingTypeOK
    <3>1. CASE pub.pc = "low"
      <4>1. slot' = [slot EXCEPT ![pub.slot].lo = pub.frame] /\ pub' = [pub EXCEPT !.pc = "high"]
        BY <1>4, <3>1 DEF CopyIn
      <4> QED BY <3>0, <4>1
    <3>2. CASE pub.pc = "high"
      <4>1. slot' = [slot EXCEPT ![pub.slot].hi = pub.frame] /\ pub.pc # "low"
        BY <1>4, <3>2 DEF CopyIn
      <4>2. slot[pub.slot].lo = pub.frame
        BY <1>1, <3>2 DEF PubInv
      <4> QED BY <3>0, <4>1, <4>2
    <3> QED BY <2>1, <3>1, <3>2
  <2> QED BY <2>1, <2>2, <2>3 DEF PubInv
<1>5. CASE SendMsg
  BY <1>1, <1>5 DEF SendMsg, PubInv, RingTypeOK
<1>6. CASE UNCHANGED <<current, slot, pub>>
  BY <1>1, <1>6 DEF PubInv, LastIn
<1> QED
  BY <1>2, <1>3, <1>4, <1>5, <1>6
  DEF RingNext, Join, ReceiveMsg, CopyOut, Release, ringVars

(* A message on the way is good, and the new one is when it is sent: its    *)
(* frame has been copied, and its slot has not been given out again.       *)
LEMMA WireStep == RingInv /\ RingTypeOK' /\ [RingNext]_ringVars => WireInv'
<1> SUFFICES ASSUME RingInv, RingTypeOK', [RingNext]_ringVars PROVE WireInv'
  OBVIOUS
<1>0. \A s \in Subs : \A k \in 1 .. Len(wire'[s]) : wire'[s][k] \in Message
  BY DEF RingTypeOK
<1> SUFFICES ASSUME NEW s \in Subs, NEW k \in 1 .. Len(wire'[s]),
                    NEW m \in Message, m = wire'[s][k]
             PROVE  Good(m)'
  BY <1>0 DEF WireInv, Good, Half, LastIn, Sent, Begun
<1>1. RingTypeOK /\ PubInv /\ WireInv /\ wire[s] \in Seq(Message)
  BY DEF RingInv, RingTypeOK
<1>2. ASSUME NEW j \in 1 .. Len(wire[s]), m = wire[s][j]
      PROVE  Good(m)'
  <2>1. Good(m)
    BY <1>1, <1>2 DEF WireInv
  <2> QED BY <2>1, GoodKept
<1>3. CASE SendMsg
  <2> DEFINE new == [frame |-> pub.frame, slot |-> pub.slot]
  <2>1. wire'[s] = wire[s] \/ wire'[s] = Append(wire[s], new)
    BY <1>3 DEF SendMsg
  <2>2. new \in Message
    BY <1>1, Ranges DEF Message
  <2>3. (\E j \in 1 .. Len(wire[s]) : m = wire[s][j]) \/ m = new
    BY <1>1, <2>1, <2>2
  <2>4. CASE m = new
    <3>1. /\ slot' = slot /\ current' = current /\ pub'.frame = pub.frame
          /\ pub'.pc = "idle" /\ pub.pc = "send"
      BY <1>1, <1>3 DEF SendMsg, RingTypeOK
    <3>2. /\ LastIn(pub.slot) = pub.frame /\ slot[pub.slot].lo = pub.frame
          /\ slot[pub.slot].hi = pub.frame
      BY <1>1, <3>1 DEF PubInv
    <3>3. m.frame = pub.frame /\ m.slot = pub.slot /\ pub.frame \in Nat
      BY <1>1, <2>4, Ranges
    <3>4. LastIn(m.slot)' = m.frame /\ Sent' = m.frame
      BY <3>1, <3>2, <3>3 DEF LastIn, Sent
    <3>5. Half(slot[m.slot].lo, m.frame)' /\ Half(slot[m.slot].hi, m.frame)'
      BY <3>1, <3>2, <3>3 DEF Half
    <3> QED BY <3>3, <3>4, <3>5 DEF Good
  <2> QED BY <2>3, <2>4, <1>2
<1>4. CASE wire' = wire
  BY <1>4, <1>2
<1>5. ASSUME NEW t \in Subs, ReceiveMsg(t) PROVE Good(m)'
  <2>1. wire'[s] = wire[s] \/ (wire[s] # <<>> /\ wire'[s] = Tail(wire[s]))
    BY <1>1, <1>5 DEF ReceiveMsg, RingTypeOK
  <2>2. \E j \in 1 .. Len(wire[s]) : m = wire[s][j]
    <3>1. CASE wire'[s] = wire[s]
      BY <3>1
    <3>2. CASE wire[s] # <<>> /\ wire'[s] = Tail(wire[s])
      <4>1. k + 1 \in 1 .. Len(wire[s]) /\ wire'[s][k] = wire[s][k + 1]
        BY <1>1, <3>2
      <4> QED BY <4>1
    <3> QED BY <2>1, <3>1, <3>2
  <2> QED BY <2>2, <1>2
<1> QED
  BY <1>3, <1>4, <1>5
  DEF RingNext, GetFreeSlotIndex, Refuse, CopyIn, Join, CopyOut, Release, ringVars

(* What a subscriber has copied of its slot. *)
LEMMA SubStep == RingInv /\ RingTypeOK' /\ [RingNext]_ringVars => SubInv'
<1> SUFFICES ASSUME RingInv, RingTypeOK', [RingNext]_ringVars PROVE SubInv'
  OBVIOUS
<1>0. \A s \in Subs : /\ sub'[s].msg \in Message
                      /\ sub'[s].buf.lo \in Nat /\ sub'[s].buf.hi \in Nat
  BY DEF RingTypeOK
<1> SUFFICES ASSUME NEW s \in Subs,
                    NEW m \in Message, m = sub'[s].msg,
                    NEW lo \in Nat, lo = sub'[s].buf.lo,
                    NEW hi \in Nat, hi = sub'[s].buf.hi
             PROVE  /\ sub'[s].pc # "wait" => Good(m)'
                    /\ sub'[s].pc \in {"high", "read"} => Half(lo, m.frame)'
                    /\ sub'[s].pc = "read" => Half(hi, m.frame)'
  BY <1>0 DEF SubInv, Good, Half, LastIn, Sent, Begun
<1>1. RingTypeOK /\ SubInv /\ WireInv
  BY DEF RingInv
<1>2. sub[s].msg \in Message /\ m.frame \in Nat /\ sub[s].msg.slot \in Index
  BY <1>1 DEF RingTypeOK, Message
<1>3. Good(m) => Good(m)'
  BY GoodKept
<1>4. \A x \in Nat : Half(x, m.frame) => Half(x, m.frame)'
  BY <1>1, <1>2, HalfKept
<1>5. CASE sub'[s] = sub[s]
  <2>1. sub[s].pc # "wait" => Good(m)
    BY <1>1, <1>5 DEF SubInv
  <2>2. sub[s].pc \in {"high", "read"} => Half(lo, m.frame)
    BY <1>1, <1>5 DEF SubInv
  <2>3. sub[s].pc = "read" => Half(hi, m.frame)
    BY <1>1, <1>5 DEF SubInv
  <2> QED BY <2>1, <2>2, <2>3, <1>3, <1>4, <1>5
<1>6. CASE ReceiveMsg(s)
  <2>1. wire[s] \in Seq(Message) /\ wire[s] # <<>>
    BY <1>1, <1>6 DEF ReceiveMsg, RingTypeOK
  <2>2. m = Head(wire[s]) /\ sub'[s].pc \in {"low", "wait"}
    BY <1>1, <1>6 DEF ReceiveMsg, RingTypeOK
  <2>3. 1 \in 1 .. Len(wire[s]) /\ m = wire[s][1]
    BY <2>1, <2>2
  <2>4. Good(m)
    BY <1>1, <2>3 DEF WireInv
  <2> QED BY <2>2, <2>4, <1>3
<1>7. CASE CopyOut(s)
  <2>1. sub'[s].msg = sub[s].msg /\ m = sub[s].msg /\ sub[s].pc # "wait"
    BY <1>1, <1>7 DEF CopyOut, RingTypeOK
  <2>2. Good(m)
    BY <1>1, <2>1 DEF SubInv
  <2>3. Half(slot[m.slot].lo, m.frame) /\ Half(slot[m.slot].hi, m.frame)
    BY <2>2 DEF Good
  <2>4. CASE sub[s].pc = "low"
    <3>1. lo = slot[m.slot].lo /\ sub'[s].pc = "high"
      BY <1>1, <1>7, <2>1, <2>4 DEF CopyOut, RingTypeOK
    <3>2. Half(lo, m.frame)'
      BY <3>1, <2>3, <1>4
    <3> QED BY <3>1, <3>2, <2>2, <1>3
  <2>5. CASE sub[s].pc = "high"
    <3>1. lo = sub[s].buf.lo /\ hi = slot[m.slot].hi /\ sub'[s].pc = "read"
      BY <1>1, <1>7, <2>1, <2>5 DEF CopyOut, RingTypeOK
    <3>2. Half(lo, m.frame)
      BY <1>1, <2>1, <2>5, <3>1 DEF SubInv
    <3>3. Half(lo, m.frame)' /\ Half(hi, m.frame)'
      BY <3>1, <3>2, <2>3, <1>4
    <3> QED BY <3>1, <3>3, <2>2, <1>3
  <2>6. sub[s].pc \in {"low", "high"}
    BY <1>7 DEF CopyOut
  <2> QED BY <2>4, <2>5, <2>6
<1>8. CASE Release(s)
  BY <1>1, <1>8 DEF Release, RingTypeOK
<1> QED
  <2>1. sub'[s] = sub[s] \/ ReceiveMsg(s) \/ CopyOut(s) \/ Release(s)
    <3>1. sub \in [Subs -> [pc : {"wait", "low", "high", "read"}, msg : Message,
                           buf : [lo : Nat, hi : Nat]]]
      BY <1>1 DEF RingTypeOK
    <3>2. CASE GetFreeSlotIndex \/ Refuse \/ CopyIn \/ SendMsg \/ UNCHANGED ringVars
      BY <3>2 DEF GetFreeSlotIndex, Refuse, CopyIn, SendMsg, ringVars
    <3>3. ASSUME NEW t \in Subs, Join(t) \/ ReceiveMsg(t) \/ CopyOut(t) \/ Release(t), t # s
          PROVE  sub'[s] = sub[s]
      BY <3>1, <3>3 DEF Join, ReceiveMsg, CopyOut, Release
    <3>4. ASSUME Join(s) PROVE sub'[s] = sub[s]
      BY <3>4 DEF Join
    <3> QED BY <1>1, <3>2, <3>3, <3>4 DEF RingNext
  <2> QED BY <2>1, <1>5, <1>6, <1>7, <1>8

(* The invariant holds of the ring, whoever uses it. *)
THEOREM RingCorrect == RingSpec => []RingInv
<1>1. RingInv /\ [RingNext]_ringVars => RingInv'
  BY TypeStep, PubStep, WireStep, SubStep DEF RingInv
<1> QED
  BY InitInv, <1>1, PTL DEF RingSpec

(* Free running or in lockstep, the users of the port take only the steps   *)
(* of the ring.                                                            *)
THEOREM PortUsesRing == Spec => RingSpec
<1>1. Init => RingInit
  BY DEF Init
<1>2. [Next]_vars => [RingNext]_ringVars
  BY PortAssumption
  DEF Next, vars, AskSync, WaitSync, RequestIsLost, Synced, Publish, Receive, RingNext, ringVars
<1> QED
  BY <1>1, <1>2, PTL DEF Spec, RingSpec

(* A subscriber reads the frame its message names, whole, unless the        *)
(* publisher has gone round the ring and begun to overwrite its slot, for   *)
(* any number of slots and subscribers (sharedMemPublisher.cpp:101-136,     *)
(* sharedMemSubscriber.cpp:80-93).                                         *)
THEOREM PortReadsItsFrames == Spec => []ReadsItsFrameUnlessLapped
<1>1. RingInv => ReadsItsFrameUnlessLapped
  <2> SUFFICES ASSUME RingInv, NEW s \in Subs, sub[s].pc = "read"
               PROVE  LET n == sub[s].msg.frame
                          got == sub[s].buf
                      IN  /\ got.lo >= n /\ got.hi >= n
                          /\ Begun < n + Slots => got = [lo |-> n, hi |-> n]
    BY DEF ReadsItsFrameUnlessLapped
  <2>1. Half(sub[s].buf.lo, sub[s].msg.frame) /\ Half(sub[s].buf.hi, sub[s].msg.frame)
    BY DEF RingInv, SubInv
  <2>2. sub[s].buf \in [lo : Nat, hi : Nat]
    BY DEF RingInv, RingTypeOK
  <2>3. ASSUME NEW n \in Nat, sub[s].buf.lo = n, sub[s].buf.hi = n
        PROVE  sub[s].buf = [lo |-> n, hi |-> n]
    BY <2>2, <2>3
  <2>4. sub[s].msg.frame \in Nat
    BY DEF RingInv, RingTypeOK, Message
  <2> QED BY <2>1, <2>3, <2>4 DEF Half
<1> QED
  BY <1>1, RingCorrect, PortUsesRing, PTL
============================================================================
