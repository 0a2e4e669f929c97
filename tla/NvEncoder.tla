----------------------------- MODULE NvEncoder -----------------------------
(***************************************************************************)
(* nvVideoEnc, the V4L2 encoder of Jetson, driven synchronously: the first *)
(* NumBuffers frames fill the output plane, then every call waits for one  *)
(* of its buffers and for one packet of the capture plane.                 *)
(***************************************************************************)
EXTENDS EncoderCore

(* setup: a new device (an old one is not deleted), its planes streaming.  *)
(* It fails for any format but those of 12 bits a pixel, and can fail at   *)
(* any of its steps.  From the setting of the output plane on, encode finds*)
(* buffers to fill there, but the device has none to encode into, or only  *)
(* those of the capture plane that were queued before the failing one.     *)
NvSetup(ok) ==
  /\ kind = "nv" /\ Fresh
  /\ \E reached \in {"none", "made", "ready"}, n \in 0 .. NumBuffers :
       /\ up' = reached /\ slots' = n /\ lapses' = NumBuffers - n
       /\ reached # "ready" => n = 0
       /\ ok = (n = NumBuffers)
  /\ sized' = (sized \/ ok)
  /\ UNCHANGED queued

(* getInputBuffer: a buffer of the pool that is not in_use, or a new one   *)
(* while there are fewer than PoolSize; otherwise none.                    *)
NvPoolExhausted == kind = "nv" /\ leaked + (IF held THEN 1 ELSE 0) >= PoolSize

NvGetInputBuffer ==
  /\ kind = "nv" /\ ~NvPoolExhausted
  /\ held' = TRUE
  /\ leaked' = IF held THEN leaked + 1 ELSE leaked

(* Mutant: the buffer is not released to the pool. *)
NvQueueKeeps ==
  /\ raw' = Append(raw, given)
  /\ UNCHANGED pool

(* qBuffer: the input is copied to the output plane, and its buffer goes   *)
(* back to the pool (releaseInputBufferToPool).                            *)
NvQueue ==
  /\ raw' = Append(raw, given)
  /\ held' = FALSE /\ UNCHANGED leaked

(* Mutant: the initial fill waits for a buffer of the device as well. *)
NvEncodeNoFill ==
  /\ kind = "nv" /\ call.pc = "encode"
  /\ \/ Fails
     \/ /\ up = "ready"
        /\ call' = At("slot")
        /\ UNCHANGED <<kind, up, device, planes, pool, eosSent, given, returned, failed>>

(* encode: in the initial fill the next buffer is filled and queued; only  *)
(* the call that completes the fill waits for a packet.  It fails without  *)
(* a device or buffers, or when the buffer cannot be queued.               *)
NvEncode ==
  /\ kind = "nv" /\ call.pc = "encode"
  /\ \/ (up # "ready" \/ queued < NumBuffers) /\ Fails
     \/ /\ up = "ready" /\ queued < NumBuffers
        /\ NvQueue
        /\ queued' = queued + 1
        /\ call' = IF queued' = NumBuffers THEN At("packet") ELSE Back(0)
        /\ UNCHANGED <<kind, up, coded, done, slots, lapses, sized, eosSent, given, returned,
                       failed>>
     \/ /\ up = "ready" /\ queued >= NumBuffers
        /\ call' = At("slot")
        /\ UNCHANGED <<kind, up, device, planes, pool, eosSent, given, returned, failed>>

(* After the fill it asks for a buffer until the device gives one back. *)
NvDequeueOutput ==
  /\ call.pc = "slot" /\ done > 0
  /\ done' = done - 1
  /\ NvQueue
  /\ call' = At("packet")
  /\ UNCHANGED <<kind, up, coded, planes, eosSent, given, returned, failed>>

(* A call on a buffer that the device has given back fails, and it is lost. *)
NvLosesOutput ==
  /\ done > 0 /\ done' = done - 1
  /\ lapses' = lapses + 1 /\ failed' = failed + 1
  /\ call' = Back(0)
  /\ UNCHANGED <<kind, up, raw, coded, queued, slots, sized, pool, eosSent, given, returned>>

(* The wait for the buffer fails, or it cannot be queued again. *)
NvDequeueFails == call.pc = "slot" /\ (Fails \/ NvLosesOutput)

(* No packet in five seconds, or a failing wait for it, which leaves it:   *)
(* the call returns without one.                                           *)
NvWithoutPacket ==
  /\ kind = "nv" /\ call.pc = "packet"
  /\ call' = Back(0)
  /\ UNCHANGED <<kind, up, device, queued, slots, sized, pool, eosSent, given, returned, failed>>

NvGivesUp == coded = <<>> /\ NvWithoutPacket /\ UNCHANGED lapses

NvPacketFails == coded # <<>> /\ NvWithoutPacket /\ lapses' = lapses + 1

(* The buffer of a packet goes back to the device, or is lost. *)
BufferGoesBack == UNCHANGED planes

BufferIsLost ==
  /\ slots' = slots - 1 /\ lapses' = lapses + 1
  /\ UNCHANGED <<queued, sized>>

(* The packet is copied to the caller; one too large for it is dropped. *)
NvTakesPacket == kind = "nv" /\ TakePacket

NvDropsPacket ==
  /\ kind = "nv" /\ call.pc = "packet" /\ coded # <<>>
  /\ coded' = Tail(coded)
  /\ call' = Back(0)
  /\ UNCHANGED <<kind, up, raw, done, pool, eosSent, given, returned, failed>>

NvCopyPacket == NvTakesPacket /\ BufferGoesBack

NvCaptureFails == \/ NvTakesPacket /\ BufferIsLost
                  \/ NvDropsPacket /\ (BufferGoesBack \/ BufferIsLost)

(* encode with pkt_eos: it waits for the initial fill, which only its own  *)
(* caller could complete, then for a buffer (100 ms), and queues it empty. *)
(* The caller's buffer is not released.                                    *)
NvEos ==
  /\ kind = "nv" /\ call.pc = "eos"
  /\ \/ (up # "ready" \/ queued >= NumBuffers) /\ Fails
     \/ up = "ready" /\ queued >= NumBuffers /\ NvLosesOutput
     \/ /\ up = "ready" /\ queued >= NumBuffers /\ done > 0
        /\ done' = done - 1
        /\ eosSent' = TRUE /\ failed' = failed + 1
        /\ call' = Back(0)
        /\ UNCHANGED <<kind, up, raw, coded, planes, pool, given, returned>>

(* tearDown: both planes stop and forget what they hold. *)
NvTearDown ==
  /\ kind = "nv" /\ Fresh
  /\ eosSent' = FALSE /\ queued' = 0
  /\ UNCHANGED <<slots, lapses, sized>>
============================================================================
