----------------------------- MODULE RkDecoder -----------------------------
(***************************************************************************)
(* src/bsp/bsp_codec/video/rkmppDec.cpp: the decoder of the Rockchip       *)
(* boards.  It has no thread of its own: decode() puts the packet into the *)
(* MPP library, which is external, and takes the frames that are ready.    *)
(* MPP takes packets while its input has room, announces with a frame of   *)
(* its own (info change) what buffers it needs, goes on when they are set, *)
(* and marks the last frame when the packet was marked.                    *)
(***************************************************************************)
EXTENDS Integers, Sequences

CONSTANTS InputCap,    \* packets MPP holds
          BufferLimit, \* frames of the buffer group, 24 in the code
          Packets,     \* bound: packets the client gives
          MaxFaults,   \* bound: calls to MPP that fail
          MaxChanges   \* bound: changes of the resolution in the stream

VARIABLES
  client, given, shown, faults, eosGiven,   \* as in NvDecoder
  pc,          \* where decode() is
  call,        \* the locals of decode(): pkt_eos, pkt_done, frm_eos, ret
  mpp          \* the library: its packets, its info change, its frames

rest == <<client, given, eosGiven>>

Info == [n |-> 0, eos |-> FALSE]     \* the frame that announces an info change

RkInit ==
  /\ client = "new" /\ given = 0 /\ shown = <<>> /\ faults = 0 /\ eosGiven = FALSE
  /\ pc = "idle"
  /\ call = [eos |-> FALSE, done |-> FALSE, frm_eos |-> FALSE, ok |-> TRUE]
  /\ mpp = [input |-> <<>>, info |-> "none", changes |-> 0, output |-> <<>>]

Call(ok) == /\ faults' = IF ok THEN faults ELSE faults + 1
            /\ ok \/ faults < MaxFaults

Setup ==
  /\ client = "new"
  /\ \E ok \in BOOLEAN : Call(ok) /\ client' = IF ok THEN "ready" ELSE "failed"
  /\ UNCHANGED <<given, shown, eosGiven, pc, call, mpp>>

(* decode() is entered with the data of a packet and perhaps the eos mark.  *)
Decode(eos) ==
  /\ client = "ready" /\ pc = "idle" /\ ~eosGiven /\ given < Packets
  /\ given' = given + 1 /\ eosGiven' = eos
  /\ call' = [eos |-> eos, done |-> FALSE, frm_eos |-> FALSE, ok |-> TRUE]
  /\ pc' = "put"
  /\ UNCHANGED <<client, shown, faults, mpp>>

(* decode_put_packet, unless the packet is in already: MPP takes it if its *)
(* input has room, or the call fails.  Both failures are tried again.       *)
PutPacket ==
  /\ pc = "put"
  /\ \/ /\ ~call.done /\ Len(mpp.input) < InputCap
        /\ call' = [call EXCEPT !.done = TRUE]
        /\ mpp' = [mpp EXCEPT !.input = Append(@, [n |-> given, eos |-> call.eos])]
        /\ UNCHANGED faults
     \/ /\ call.done \/ Len(mpp.input) = InputCap
        /\ UNCHANGED <<call, mpp, faults>>
     \/ ~call.done /\ Call(FALSE) /\ UNCHANGED <<call, mpp>>
  /\ pc' = "get"
  /\ UNCHANGED <<rest, shown>>

(* What the inner loop does after a round: on with the next frame, or out.  *)
NextRound(got, frm_eos) ==
  IF ((call.eos /\ call.done) \/ got) /\ ~frm_eos THEN "get" ELSE "out"

(* decode_get_frame finds no frame, or fails or times out five times. *)
GetNothing ==
  /\ pc = "get"
  /\ \/ /\ mpp.output = <<>>
        /\ pc' = NextRound(FALSE, FALSE)
        /\ call' = [call EXCEPT !.ok = TRUE]
        /\ UNCHANGED faults
     \/ /\ Call(FALSE)
        /\ pc' = "out" /\ call' = [call EXCEPT !.ok = FALSE]
  /\ UNCHANGED <<rest, shown, mpp>>

(* A picture is copied and given to the callback, whatever its errinfo. *)
GetPicture ==
  /\ pc = "get" /\ mpp.output # <<>> /\ Head(mpp.output) # Info
  /\ LET f == Head(mpp.output)
     IN /\ shown' = Append(shown, f.n)
        /\ call' = [call EXCEPT !.frm_eos = f.eos, !.ok = TRUE]
        /\ pc' = NextRound(TRUE, f.eos)
  /\ mpp' = [mpp EXCEPT !.output = Tail(@)]
  /\ UNCHANGED <<rest, faults>>

(* Mutant: MPP is not told to go on. *)
GetInfoUntold ==
  /\ pc = "get" /\ mpp.output # <<>> /\ Head(mpp.output) = Info
  /\ mpp' = [mpp EXCEPT !.output = Tail(@)]
  /\ pc' = NextRound(TRUE, FALSE)
  /\ UNCHANGED <<rest, shown, faults, call>>

(* An info change: the buffer group is made, or cleared, and limited, and   *)
(* MPP is told to go on; when one of the four calls fails it is not told.   *)
GetInfo ==
  /\ pc = "get" /\ mpp.output # <<>> /\ Head(mpp.output) = Info
  /\ \E ok \in BOOLEAN :
       /\ Call(ok)
       /\ mpp' = [mpp EXCEPT !.output = Tail(@), !.info = IF ok THEN "ready" ELSE @]
       /\ call' = [call EXCEPT !.ok = ok]
       /\ pc' = IF ok THEN NextRound(TRUE, FALSE) ELSE "out"
  /\ UNCHANGED <<rest, shown>>

(* Out of the inner loop: back to the caller, or after 3 ms put it again.   *)
EndRound ==
  /\ pc = "out"
  /\ pc' = IF call.done THEN "idle" ELSE "put"
  /\ UNCHANGED <<rest, shown, faults, call, mpp>>

(* tearDown resets MPP, the destructor destroys it. *)
TearDown ==
  /\ pc = "idle"
  /\ \/ client = "ready" /\ client' = "closed"
     \/ client = "closed" /\ client' = "gone"
  /\ mpp' = [mpp EXCEPT !.input = <<>>, !.output = <<>>]
  /\ UNCHANGED <<given, shown, faults, eosGiven, pc, call>>

(* The library. *)
MppAnnounces ==
  /\ mpp.input # <<>>
  /\ \/ mpp.info = "none"
     \/ mpp.info = "ready" /\ mpp.changes < MaxChanges
  /\ mpp' = [mpp EXCEPT !.info = "sent", !.output = Append(@, Info),
                        !.changes = IF mpp.info = "ready" THEN @ + 1 ELSE @]
  /\ UNCHANGED <<rest, shown, faults, pc, call>>

MppDecodes ==
  /\ mpp.input # <<>> /\ mpp.info = "ready" /\ Len(mpp.output) < BufferLimit
  /\ mpp' = [mpp EXCEPT !.input = Tail(@), !.output = Append(@, Head(mpp.input))]
  /\ UNCHANGED <<rest, shown, faults, pc, call>>

rkVars == <<client, given, shown, faults, eosGiven, pc, call, mpp>>

RkNext == \/ Setup \/ (\E eos \in BOOLEAN : Decode(eos)) \/ TearDown
          \/ PutPacket \/ GetNothing \/ GetPicture \/ GetInfo \/ EndRound
          \/ MppAnnounces \/ MppDecodes

(* decode() runs on, and MPP decodes what it holds when it may. *)
RkFairness == /\ WF_rkVars(PutPacket) /\ WF_rkVars(GetNothing) /\ WF_rkVars(GetPicture)
              /\ WF_rkVars(GetInfo) /\ WF_rkVars(EndRound)
              /\ WF_rkVars(MppAnnounces) /\ WF_rkVars(MppDecodes)

============================================================================
