--------------------------- MODULE CameraPipeline ---------------------------
(***************************************************************************)
(* A camera of the data recorder: CameraClient with its VideoDecHelper.    *)
(* Three threads and the decoder's pass packets and frames on: runLoop     *)
(* receives RTP packets into buffers of a pool, decoderLoop decodes them   *)
(* and gives the buffers back, the decoder calls back with frames, and     *)
(* consumerLoop publishes them.  Both queues drop their oldest entry when  *)
(* they are full.  The decoder is the one of module Decoder; its frames    *)
(* have the number of the packet they were decoded from.                   *)
(***************************************************************************)
EXTENDS Naturals, SequencesExt

CONSTANTS PktCap,      \* m_reserved_encode_pkt_num
          FrameCap,    \* m_reserved_frame_num
          FreeCap,     \* m_free_buffer_sort_queue_size
          MaxPackets,  \* bound: messages the sensor sends
          Messages     \* the messages a sensor may send: the sizes of their parts

ASSUME CameraAssumption ==
  /\ PktCap \in Nat \ {0} /\ FrameCap \in Nat \ {0} /\ FreeCap \in Nat
  /\ MaxPackets \in Nat /\ Messages \subseteq Seq(Nat) \ {<<>>}

VARIABLES
  size,        \* the size of each buffer, in units of the first min_buffer_size
  data,        \* the number of the message each buffer holds (or the rest of one)
  free,        \* m_free_buffer_sort_queue
  minSize,     \* min_buffer_size of runLoop
  wire,        \* what the socket still has of the current message
  number,      \* the number of the current message
  rx,          \* runLoop: where it is and its buffer
  pkts,        \* m_encode_pkt_queue
  dec,         \* decoderLoop: where it is and its buffer
  fed,         \* what decode() has been given: the numbers of the packets
  output,      \* the decode() calls whose frame has come out or is lost
  frames,      \* m_decoded_frame_queue
  cons,        \* consumerLoop: where it is and its frame
  published,   \* the frames given to the shared-memory port
  owner        \* the destructors: up, consumer, receiver or decoder (to join)

vars == <<size, data, free, minSize, wire, number, rx, pkts, dec, fed,
          output, frames, cons, published, owner>>

Buffers == 1 .. PktCap + FreeCap + 2    \* as many as can be in use at once
None == 0

Init ==
  /\ size = [b \in Buffers |-> 0] /\ data = [b \in Buffers |-> 0]
  /\ free = <<>> /\ minSize = 1 /\ number = 0
  /\ wire = <<>>
  /\ rx = [pc |-> "get", buf |-> None]
  /\ pkts = <<>> /\ dec = [pc |-> "idle", buf |-> None]
  /\ fed = <<>> /\ output = 0 /\ frames = <<>>
  /\ cons = [pc |-> "idle", frame |-> 0]
  /\ published = <<>> /\ owner = "up"

Owned == {rx.buf, dec.buf} \cup Range(free) \cup Range(pkts)

Newest(q, cap) == SubSeq(q, IF Len(q) > cap THEN Len(q) - cap + 1 ELSE 1, Len(q))
Oldest(q, cap) == SubSeq(q, 1, IF Len(q) > cap THEN cap ELSE Len(q))   \* of the mutants

(* createNewRtpBuffer: twice what is asked for. *)
NewSize == minSize * 2

(* getRtpVideoBuffer: the largest free buffer, or a new one. *)
GetRtpVideoBuffer ==
  /\ rx.pc = "get" /\ owner = "up"
  /\ IF free # <<>> /\ size[free[Len(free)]] >= minSize
     THEN /\ rx' = [pc |-> "receive", buf |-> free[Len(free)]]
          /\ free' = SubSeq(free, 1, Len(free) - 1)
          /\ UNCHANGED size
     ELSE \E new \in Buffers \ Owned :
            /\ \A b \in Buffers \ Owned : new <= b     \* any will do
            /\ rx' = [pc |-> "receive", buf |-> new]
            /\ size' = [size EXCEPT ![new] = NewSize]
            /\ UNCHANGED free
  /\ UNCHANGED <<data, minSize, wire, number, pkts, dec, fed, output, frames,
                 cons, published, owner>>

Total(parts) == FoldSeq(+, 0, parts)

(* The sensor's next message. *)
Arrive ==
  /\ rx.pc = "receive" /\ wire = <<>> /\ number < MaxPackets
  /\ \E m \in Messages : wire' = m
  /\ number' = number + 1
  /\ UNCHANGED <<size, data, free, minSize, rx, pkts, dec, fed, output, frames,
                 cons, published, owner>>

(* The first part that has no room with those before it, and what is behind.*)
Misfit(parts, room) ==
  CHOOSE i \in DOMAIN parts : /\ Total(SubSeq(parts, 1, i)) > room
                              /\ \A j \in 1 .. i - 1 : Total(SubSeq(parts, 1, j)) <= room

Behind(parts, i) == SubSeq(parts, i + 1, Len(parts))

(* receiveDataMore copies the parts one after the other.  At the first one *)
(* that does not fit it gives up and leaves the parts after it behind, the *)
(* next call's message.  Nothing received, or an empty message: the buffer *)
(* goes back to the heap and the next ones are to be twice as large.       *)
ReceiveFails ==
  /\ rx.pc = "receive" /\ wire # <<>>
  /\ Total(wire) = 0 \/ Total(wire) > size[rx.buf]
  /\ minSize' = minSize * 2
  /\ wire' = IF Total(wire) = 0 THEN <<>> ELSE Behind(wire, Misfit(wire, size[rx.buf]))
  /\ rx' = [pc |-> "get", buf |-> None]
  /\ UNCHANGED <<size, data, free, number, pkts, dec, fed, output, frames,
                 cons, published, owner>>

(* A message that fits is parsed: with no payload behind its header it is  *)
(* thrown away, and its buffer with it.  (Size 1 is no more than a header.) *)
Receive ==
  /\ rx.pc = "receive" /\ wire # <<>>
  /\ Total(wire) # 0 /\ Total(wire) <= size[rx.buf]
  /\ wire' = <<>>
  /\ data' = [data EXCEPT ![rx.buf] = number]
  /\ rx' = IF Total(wire) = 1 THEN [pc |-> "get", buf |-> None] ELSE [rx EXCEPT !.pc = "send"]
  /\ UNCHANGED <<size, free, minSize, number, pkts, dec, fed, output, frames,
                 cons, published, owner>>

(* releaseRtpVideoBuffer: while there are too many, the first is erased;   *)
(* then they are sorted, buffers of one size in any order.                 *)
Released(b) ==
  LET kept == Newest(Append(free, b), FreeCap)
  IN {[i \in DOMAIN kept |-> kept[p[i]]] :
        p \in {p \in Bijection(DOMAIN kept, DOMAIN kept) :
                 \A i, j \in DOMAIN kept : i < j => size[kept[p[i]]] <= size[kept[p[j]]]}}

(* Mutants: the newest packet is dropped, or the oldest is not removed. *)
SendToDecoderDropsNewest ==
  /\ rx.pc = "send"
  /\ pkts' = Oldest(Append(pkts, rx.buf), PktCap)
  /\ free' \in IF Len(pkts) = PktCap THEN Released(rx.buf) ELSE {free}
  /\ rx' = [pc |-> "get", buf |-> None]
  /\ UNCHANGED <<size, data, minSize, wire, number, dec, fed, output, frames,
                 cons, published, owner>>

SendToDecoderReleasesRear ==
  /\ rx.pc = "send"
  /\ pkts' = Newest(Append(pkts, rx.buf), PktCap)
  /\ free' \in IF Len(pkts) = PktCap THEN Released(rx.buf) ELSE {free}
  /\ rx' = [pc |-> "get", buf |-> None]
  /\ UNCHANGED <<size, data, minSize, wire, number, dec, fed, output, frames,
                 cons, published, owner>>

(* sendToDecoder: when the queue is too long its oldest packet is dropped  *)
(* and the buffer given back.                                              *)
SendToDecoder ==
  /\ rx.pc = "send"
  /\ pkts' = Newest(Append(pkts, rx.buf), PktCap)
  /\ free' \in IF Len(pkts) = PktCap THEN Released(pkts[1]) ELSE {free}
  /\ rx' = [pc |-> "get", buf |-> None]
  /\ UNCHANGED <<size, data, minSize, wire, number, dec, fed, output, frames,
                 cons, published, owner>>

(* decoderLoop: the oldest packet is taken, ... *)
DecoderTakes ==
  /\ dec.pc = "idle" /\ pkts # <<>>
  /\ dec' = [pc |-> "decode", buf |-> pkts[1]]
  /\ pkts' = Tail(pkts)
  /\ UNCHANGED <<size, data, free, minSize, wire, number, rx, fed, output, frames,
                 cons, published, owner>>

(* ... decoded, ... *)
Decode ==
  /\ dec.pc = "decode"
  /\ fed' = Append(fed, data[dec.buf])
  /\ dec' = [dec EXCEPT !.pc = "release"]
  /\ UNCHANGED <<size, data, free, minSize, wire, number, rx, pkts, output, frames,
                 cons, published, owner>>

(* ... and its buffer given back. *)
DecoderReleases ==
  /\ dec.pc = "release"
  /\ free' \in Released(dec.buf)
  /\ dec' = [pc |-> "idle", buf |-> None]
  /\ UNCHANGED <<size, data, minSize, wire, number, rx, pkts, fed, output, frames,
                 cons, published, owner>>

(* decoderCallback: the frame of a packet decode() has taken, in order; a  *)
(* decoder may lose some (module Decoder).                                 *)
DecoderCallback ==
  \E n \in output + 1 .. Len(fed) :
    /\ output' = n
    /\ frames' = Newest(Append(frames, fed[n]), FrameCap)
    /\ UNCHANGED <<size, data, free, minSize, wire, number, rx, pkts, dec, fed,
                   cons, published, owner>>

(* getDecodedFrame: the oldest frame, converted to the output's pixel      *)
(* format under the queue's mutex.  A failed conversion loses the frame.   *)
GetDecodedFrame ==
  /\ cons.pc = "idle" /\ owner = "up" /\ frames # <<>>
  /\ frames' = Tail(frames)
  /\ \/ cons' = [pc |-> "publish", frame |-> frames[1]]
     \/ UNCHANGED cons
  /\ UNCHANGED <<size, data, free, minSize, wire, number, rx, pkts, dec, fed,
                 output, published, owner>>

(* consumerLoop publishes the frame (module ShmRing has the port). *)
PublishData ==
  /\ cons.pc = "publish"
  /\ published' = Append(published, cons.frame)
  /\ cons' = [cons EXCEPT !.pc = "idle"]
  /\ UNCHANGED <<size, data, free, minSize, wire, number, rx, pkts, dec, fed,
                 output, frames, owner>>

(* ~CameraClient sets m_stopSignal and joins consumerLoop, then runLoop,   *)
(* which may be waiting for a message; ~VideoDecHelper then joins          *)
(* decoderLoop, which never looks at its stop signal.                      *)
Stop ==
  /\ owner = "up" /\ owner' = "consumer"
  /\ UNCHANGED <<size, data, free, minSize, wire, number, rx, pkts, dec, fed,
                 output, frames, cons, published>>

Join ==
  /\ \/ owner = "consumer" /\ cons.pc = "idle" /\ owner' = "receiver"
     \/ owner = "receiver" /\ rx.pc = "get" /\ owner' = "decoder"
  /\ UNCHANGED <<size, data, free, minSize, wire, number, rx, pkts, dec, fed,
                 output, frames, cons, published>>

Next ==
  \/ GetRtpVideoBuffer \/ Arrive \/ ReceiveFails \/ Receive \/ SendToDecoder
  \/ DecoderTakes \/ Decode \/ DecoderReleases \/ DecoderCallback
  \/ GetDecodedFrame \/ PublishData \/ Stop \/ Join

(* The loops run by themselves; the sensor and the destructor need not. *)
Spec == /\ Init /\ [][Next]_vars
        /\ WF_vars(GetRtpVideoBuffer) /\ WF_vars(ReceiveFails) /\ WF_vars(Receive)
        /\ WF_vars(SendToDecoder) /\ WF_vars(DecoderTakes) /\ WF_vars(Decode)
        /\ WF_vars(DecoderReleases) /\ WF_vars(GetDecodedFrame) /\ WF_vars(PublishData)

(***************************************************************************)
(* Properties.                                                             *)
(***************************************************************************)

(* A buffer has one owner: it is free, queued, or in the hands of one      *)
(* thread, so no packet is overwritten while it waits or is decoded; and   *)
(* the frames published are packets of the sensor in the order it sent     *)
(* them, none twice, whatever was dropped on the way.                      *)
BufferOwnedOnce ==
  /\ IsInjective(free) /\ IsInjective(pkts) /\ Range(free) \cap Range(pkts) = {}
  /\ \A b \in {rx.buf, dec.buf} \ {None} : b \notin Range(free) \cup Range(pkts)
  /\ rx.buf = dec.buf => rx.buf = None
  /\ \A i, j \in DOMAIN published : i < j => published[i] < published[j]

(* Drop-oldest keeps the newest: after a packet has been queued, it or a   *)
(* later one is decoded.                                                   *)
NewestIsDecoded ==
  \A n \in 1 .. MaxPackets :
    (rx.pc = "send" /\ data[rx.buf] = n) ~> (fed # <<>> /\ fed[Len(fed)] >= n)

(* For TLC: an empty message, only a header, one that fits the first buffer, *)
(* and two of which the second part has no room with the first, or the first *)
(* alone is too large, and parts are left behind.                            *)
MCMessages == {<<0>>, <<1>>, <<2>>, <<1, 2, 2>>, <<3, 3>>}
=============================================================================
