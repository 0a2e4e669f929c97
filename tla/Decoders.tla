------------------------------ MODULE Decoders ------------------------------
(***************************************************************************)
(* The decoders IDecoder::create makes, "nvdec" or "rkmpp" by the platform *)
(* the code is built for, behind the interface their clients see.          *)
(***************************************************************************)
EXTENDS Integers, Sequences

CONSTANTS NumOutput, NumCapture,     \* of NvDecoder
          InputCap, BufferLimit,     \* of RkDecoder
          Packets, MaxFaults, MaxChanges

ASSUME DecodersAssumption ==
  /\ {NumOutput, NumCapture, InputCap, BufferLimit} \subseteq Nat \ {0}
  /\ {Packets, MaxFaults, MaxChanges} \subseteq Nat

VARIABLES backend,                                  \* codecPlatform
          client, given, shown, faults, eosGiven,   \* of either
          m_running, m_got_error, m_got_eos, m_packet_queue,
          decoder, capture, device,        \* of NvDecoder
          pc, call, mpp                             \* of RkDecoder

Nv == INSTANCE NvDecoder
Rk == INSTANCE RkDecoder
Promise == INSTANCE Decoder

vars == <<backend, client, given, shown, faults, eosGiven, m_running, m_got_error,
          m_got_eos, m_packet_queue, decoder, capture, device, pc, call, mpp>>
nvOnly == <<m_running, m_got_error, m_got_eos, m_packet_queue, decoder, capture,
            device>>
rkOnly == <<pc, call, mpp>>

Init == backend \in {"nvdec", "rkmpp"} /\ Nv!NvInit /\ Rk!RkInit

Next == /\ \/ backend = "nvdec" /\ Nv!NvNext /\ UNCHANGED rkOnly
           \/ backend = "rkmpp" /\ Rk!RkNext /\ UNCHANGED nvOnly
        /\ UNCHANGED backend

Spec == Init /\ [][Next]_vars /\ Nv!NvFairness /\ Rk!RkFairness

(***************************************************************************)
(* Properties.                                                             *)
(***************************************************************************)

(* Both decoders keep the promise of the interface: frames come out in the  *)
(* order of the packets, none twice, whatever the threads, the resolution   *)
(* and the failing calls do (nvVideoDec.cpp:300-708, rkmppDec.cpp:110-359). *)
ImplementsDecoder == Promise!DecSpec

(* The packets in a queue of numbers, where 0 is none, and their order. *)
Numbers(q) == {q[i] : i \in DOMAIN q} \ {0}
Rising(q) == \A i, j \in DOMAIN q : i < j /\ q[i] # 0 /\ q[j] # 0 => q[i] < q[j]
Frames(q) == [i \in DOMAIN q |-> q[i].n]

(* The packets between decode() and the callback, the oldest first; empty   *)
(* buffers and info changes stand between them as 0.                        *)
InFlight ==
  IF backend = "nvdec"
  THEN (IF capture.pc = "show" THEN <<capture.frame>> ELSE <<>>)
       \o device.output \o device.input \o m_packet_queue
  ELSE Frames(mpp.output) \o Frames(mpp.input)
       \o (IF pc # "idle" /\ ~call.done THEN <<given>> ELSE <<>>)

(* nvVideoDec::decode keeps only the mark of the packet that has pkt_eos.   *)
LastData == IF backend = "nvdec" /\ eosGiven THEN given - 1 ELSE given

(* What has been shown and what is in the queues is in order, each packet   *)
(* once, whatever fails; and until a call to the device fails all packets   *)
(* are there, also across the initial fill, a change of resolution and the  *)
(* end of the threads.                                                      *)
NothingLost ==
  LET line == shown \o InFlight
  IN /\ Rising(line)
     /\ faults = 0 /\ client \in {"ready", "join decoder", "join capture"} =>
          Numbers(line) = 1 .. LastData

(* rkmppDec::decode returns, unless the buffers of an info change could not *)
(* be set: then MPP takes no packet and gives no frame any more.            *)
DecodeReturns == (backend = "rkmpp" /\ pc # "idle") ~> (pc = "idle" \/ faults > 0)

(* tearDown and the destructor return when no call failed, the stream was   *)
(* ended before and all its packets are out of the queue, and its           *)
(* resolution did not change: the empty buffer of the end wakes the capture *)
(* thread, which nothing else would.                                        *)
CloseReturns ==
  (client = "join decoder" /\ eosGiven /\ m_packet_queue = <<>>)
      ~> (client \in {"closed", "gone"} \/ faults > 0 \/ device.changes > 0)

=============================================================================
