------------------------------ MODULE ShmRing ------------------------------
(***************************************************************************)
(* One shared-memory port of src/midware/zeromq_ipc: a SharedMemPublisher  *)
(* with its ring of slots and the SharedMemSubscribers that follow it.     *)
(* The frame goes through the slot, the index of the slot through a ZeroMQ *)
(* PUB/SUB pair.  The mutexes of the two classes are private to their      *)
(* processes, so a copy into a slot and a copy out of it may overlap: each *)
(* is two steps, one for either half of the frame.                         *)
(***************************************************************************)
EXTENDS Integers, Sequences, FiniteSets

CONSTANTS Slots,      \* m_slots
          Subs,       \* the processes that subscribe
          WireCap     \* messages a SUB socket holds (its high-water mark)

ASSUME RingAssumption == Slots \in Nat \ {0} /\ WireCap \in Nat \ {0}

VARIABLES current,    \* m_current_slot_index
          slot,       \* what the two halves of each slot hold, as frame numbers
          pub,        \* the publisher: where it is, its slot and its frame
          joined,     \* the subscribers whose subscription has arrived
          wire,       \* messages on the way to each subscriber
          sub         \* each subscriber: where it is, its message, its buffer

ringVars == <<current, slot, pub, joined, wire, sub>>

Index == 0 .. Slots - 1
Blank == [lo |-> 0, hi |-> 0]
NoMsg == [frame |-> 0, slot |-> 0]

(* initSharedMemory: the slots are the zeroed pages of ftruncate, the index *)
(* is reset; a SUB socket only counts once its subscription has arrived.    *)
RingInit ==
  /\ current = 0
  /\ slot = [i \in Index |-> Blank]
  /\ pub = [pc |-> "idle", slot |-> 0, frame |-> 0]
  /\ joined = {}
  /\ wire = [s \in Subs |-> <<>>]
  /\ sub = [s \in Subs |-> [pc |-> "wait", msg |-> NoMsg, buf |-> Blank]]

GetFreeSlotIndexStays ==
  /\ pub.pc = "idle"
  /\ pub' = [pc |-> "low", slot |-> current, frame |-> pub.frame + 1]
  /\ UNCHANGED <<current, slot, joined, wire, sub>>

(* getFreeSlotIndex: the slots in turn, whoever is still reading one. *)
(* Frames are numbered in the order they are published.               *)
GetFreeSlotIndex ==
  /\ pub.pc = "idle"
  /\ pub' = [pc |-> "low", slot |-> current, frame |-> pub.frame + 1]
  /\ current' = (current + 1) % Slots
  /\ UNCHANGED <<slot, joined, wire, sub>>

(* publishData refuses a frame that is larger than a slot: nothing is copied *)
(* or sent, and the slot has had its turn.                                   *)
Refuse ==
  /\ pub.pc = "low"
  /\ pub' = [pub EXCEPT !.pc = "idle"]
  /\ UNCHANGED <<current, slot, joined, wire, sub>>

(* Else it copies the frame, one half after the other, ... *)
CopyIn ==
  /\ pub.slot < Slots
  /\ \/ /\ pub.pc = "low"
        /\ slot' = [slot EXCEPT ![pub.slot].lo = pub.frame]
        /\ pub' = [pub EXCEPT !.pc = "high"]
     \/ /\ pub.pc = "high"
        /\ slot' = [slot EXCEPT ![pub.slot].hi = pub.frame]
        /\ pub' = [pub EXCEPT !.pc = "send"]
  /\ UNCHANGED <<current, joined, wire, sub>>

(* ... and sends the message: a PUB socket gives it to the subscribers it  *)
(* knows and drops it for those that have not joined or are full.          *)
SendMsg ==
  /\ pub.pc = "send"
  /\ LET m == [frame |-> pub.frame, slot |-> pub.slot]
     IN wire' = [s \in Subs |-> IF s \in joined /\ Len(wire[s]) < WireCap
                                THEN Append(wire[s], m) ELSE wire[s]]
  /\ pub' = [pub EXCEPT !.pc = "idle"]
  /\ UNCHANGED <<current, slot, joined, sub>>

(* The subscription a SUB socket sent when it connected arrives. *)
Join(s) ==
  /\ s \notin joined
  /\ joined' = joined \cup {s}
  /\ UNCHANGED <<current, slot, pub, wire, sub>>

(* receiveMsg blocks until a message is there; receiveSharedMemData rejects *)
(* an index past the ring.                                                  *)
ReceiveMsg(s) ==
  /\ sub[s].pc = "wait" /\ wire[s] # <<>>
  /\ wire' = [wire EXCEPT ![s] = Tail(@)]
  /\ sub' = [sub EXCEPT ![s].msg = Head(wire[s]),
                        ![s].pc = IF Head(wire[s]).slot < Slots THEN "low" ELSE "wait"]
  /\ UNCHANGED <<current, slot, pub, joined>>

(* receiveSharedMemData copies the slot out, one half after the other. *)
CopyOut(s) ==
  /\ LET here == slot[sub[s].msg.slot]
     IN \/ /\ sub[s].pc = "low"
           /\ sub' = [sub EXCEPT ![s].buf.lo = here.lo, ![s].pc = "high"]
        \/ /\ sub[s].pc = "high"
           /\ sub' = [sub EXCEPT ![s].buf.hi = here.hi, ![s].pc = "read"]
  /\ UNCHANGED <<current, slot, pub, joined, wire>>

(* The caller goes on to the next message. *)
Release(s) ==
  /\ sub[s].pc = "read"
  /\ sub' = [sub EXCEPT ![s].pc = "wait"]
  /\ UNCHANGED <<current, slot, pub, joined, wire>>

RingNext ==
  \/ GetFreeSlotIndex \/ Refuse \/ CopyIn \/ SendMsg
  \/ \E s \in Subs : Join(s) \/ ReceiveMsg(s) \/ CopyOut(s) \/ Release(s)

RingSpec == RingInit /\ [][RingNext]_ringVars

(***************************************************************************)
(* What is asked of the ring.                                              *)
(***************************************************************************)

(* The last frame whose copy into the ring has begun. *)
Begun == IF pub.pc = "low" THEN pub.frame - 1 ELSE pub.frame

Message == [frame : Nat, slot : Index]

RingTypeOK ==
  /\ current \in Index
  /\ slot \in [Index -> [lo : Nat, hi : Nat]]
  /\ pub \in [pc : {"idle", "low", "high", "send"}, slot : Index, frame : Nat]
  /\ joined \subseteq Subs
  /\ wire \in [Subs -> Seq(Message)]
  /\ sub \in [Subs -> [pc : {"wait", "low", "high", "read"},
                       msg : Message,
                       buf : [lo : Nat, hi : Nat]]]

(* A subscriber that has copied the slot of a message holds the frame the  *)
(* message names, whole, unless the publisher has since gone round the ring*)
(* and begun to overwrite that slot; what it holds then is newer, never    *)
(* older: the message is not sent before the frame is in the slot, and a   *)
(* slot is not given out again before its turn.                            *)
ReadsItsFrameUnlessLapped ==
  \A s \in Subs :
    LET n == sub[s].msg.frame
        got == sub[s].buf
    IN sub[s].pc = "read" =>
         /\ got.lo >= n /\ got.hi >= n
         /\ Begun < n + Slots => got = [lo |-> n, hi |-> n]
============================================================================
