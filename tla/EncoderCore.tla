---------------------------- MODULE EncoderCore ----------------------------
(***************************************************************************)
(* What the two IEncoders of bsp_codec have in common: the encoding device,*)
(* the encode() call in progress (an encoder has one caller), and what has *)
(* gone in and come out.  A frame is the number of the encode() call that  *)
(* brought it; its packet has the same number.                             *)
(***************************************************************************)
EXTENDS Naturals, Sequences

CONSTANTS NumBuffers,  \* num_output_buffers and num_capture_buffers of nvVideoEnc
          PoolSize     \* m_buffer_pool_size of nvVideoEnc

ASSUME EncoderAssumption == NumBuffers \in Nat \ {0} /\ PoolSize \in Nat \ {0}

VARIABLES
  kind,       \* "nv" or "rk"
  up,         \* the device: none, made (it takes no frame) or ready
  raw,        \* frames the device has not encoded
  coded,      \* packets it has encoded and nobody has taken
  done,       \* nv: buffers of the output plane the device has finished with
  queued,     \* nv: m_output_buffers_queued
  slots,      \* nv: buffers of the capture plane that are the device's or hold a packet
  lapses,     \* nv: history: calls to this device that failed on a buffer, which may be lost
  sized,      \* nv: m_frame_size is set
  held,       \* nv: the caller's buffer of the pool is in_use
  leaked,     \* nv: buffers that are in_use and nobody's
  eosSent,    \* nv: m_eos_sent
  call,       \* encode(): where it is, and the packet it returns
  given,      \* the number of calls: the frame of the last one
  returned,   \* the packets it has returned
  failed      \* history: the calls that failed, never came or were for the EOS

device == <<raw, coded, done>>
pool == <<held, leaked>>
planes == <<queued, slots, lapses, sized>>
encVars == <<kind, up, device, planes, pool, eosSent, call, given, returned, failed>>

EncInit ==
  /\ kind \in {"nv", "rk"} /\ up = "none" /\ raw = <<>> /\ coded = <<>>
  /\ done = 0 /\ queued = 0 /\ slots = 0 /\ lapses = 0 /\ sized = FALSE
  /\ held = FALSE /\ leaked = 0 /\ eosSent = FALSE
  /\ call = [pc |-> "idle", len |-> 0] /\ given = 0 /\ returned = <<>> /\ failed = 0

At(pc) == [pc |-> pc, len |-> 0]

(* A call that has ended: with the packet n, or with none. *)
Back(n) == [pc |-> "back", len |-> n]

(* A call begins: with the next frame, or with pkt_eos. *)
Begin(pc) ==
  /\ call' = At(pc)
  /\ given' = given + 1

(* A call that fails returns -1, and keeps its buffer. *)
Fails ==
  /\ call' = Back(0)
  /\ failed' = failed + 1
  /\ UNCHANGED <<kind, up, device, planes, pool, eosSent, given, returned>>

(* The device encodes the frames in order, each into a buffer of its own;   *)
(* with a fresh one both planes are empty.                                  *)
Encodes ==
  /\ raw # <<>> /\ (kind = "nv" => Len(coded) < slots)
  /\ raw' = Tail(raw) /\ coded' = Append(coded, Head(raw)) /\ done' = done + 1
  /\ UNCHANGED <<kind, up, planes, pool, eosSent, call, given, returned, failed>>

Fresh == raw' = <<>> /\ coded' = <<>> /\ done' = 0

(* Mutant: the packet is returned and stays. *)
TakePacketKeeps ==
  /\ call.pc = "packet" /\ coded # <<>>
  /\ call' = Back(Head(coded)) /\ returned' = Append(returned, Head(coded))
  /\ UNCHANGED <<kind, up, device, pool, eosSent, given, failed>>

(* A call takes the oldest packet and returns it. *)
TakePacket ==
  /\ call.pc = "packet" /\ coded # <<>>
  /\ coded' = Tail(coded)
  /\ call' = Back(Head(coded)) /\ returned' = Append(returned, Head(coded))
  /\ UNCHANGED <<kind, up, raw, done, pool, eosSent, given, failed>>
============================================================================
