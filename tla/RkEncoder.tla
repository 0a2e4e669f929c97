----------------------------- MODULE RkEncoder -----------------------------
(***************************************************************************)
(* rkmppEnc, the MPP encoder of Rockchip: one input buffer that every call *)
(* uses, and a call that waits for the packet of its frame.                *)
(***************************************************************************)
EXTENDS EncoderCore, Integers

Align(x, a) == ((x + a - 1) \div a) * a

(* parseConfig, calculateFrameSize: the strides are the client's width and *)
(* height.  The input buffer is for whole blocks of 64 x 64 pixels, with a *)
(* byte for a pixel of an RGB format, whatever it takes.                   *)
RkFrameSize(config) ==
  LET pixels == Align(config.width, 64) * Align(config.height, 64)
  IN CASE config.format = "YUV420SP" -> (pixels * 3) \div 2
       [] config.format = "YUV422SP" -> pixels * 2
       [] config.format = "RGB888" -> pixels

(* setup takes a buffer group, a packet buffer and one for motion vectors, *)
(* then a new MPP context (an old one is not destroyed), to which it gives *)
(* a timeout and then the coding.                                          *)
Created == 4
Initialized == 6

(* setupMppEncCfg: rate control, quantisation, profile and orientation go  *)
(* into one object that MPP is given; then the headers are asked for with  *)
(* every key frame.                                                        *)
Configured == Initialized + 1
Done == Configured + 1

(* Any of these can fail, and what was taken before stays.  Until there is *)
(* a new context the old one is used; one that is configured works without *)
(* the wish for headers.                                                   *)
RkSetup(ok) ==
  /\ kind = "rk" /\ Fresh
  /\ \E reached \in 0 .. Done :
       /\ ok = (reached = Done)
       /\ up' = IF reached < Created THEN up
                ELSE IF reached < Configured THEN "made" ELSE "ready"
  /\ UNCHANGED planes

(* getInputBuffer: always the same buffer. *)
RkGetInputBuffer == kind = "rk" /\ UNCHANGED pool

(* encode gives the frame to MPP.  It does not look at pkt_eos: the last   *)
(* call of a stream encodes what the buffer still holds once more.         *)
RkPutFrame ==
  /\ kind = "rk" /\ call.pc \in {"encode", "eos"} /\ up # "none"
  /\ \/ Fails
     \/ /\ up = "ready"
        /\ raw' = Append(raw, given)
        /\ call' = At("packet")
        /\ UNCHANGED <<kind, up, coded, done, planes, pool, eosSent, given, returned, failed>>

(* Without a context its functions are called through a null pointer. *)
RkNoContext == kind = "rk" /\ call.pc \in {"encode", "eos"} /\ up = "none"

(* encode_get_packet blocks; an error leaves the packet in MPP for the     *)
(* next call.                                                              *)
RkGetPacketFails == kind = "rk" /\ call.pc = "packet" /\ coded # <<>> /\ Fails

(* The packet is copied to the caller, unless it has no room at all; its   *)
(* length is not compared with the room.  It is in one part: the split     *)
(* mode that would make more is never set.                                 *)
RkCopyPacket == kind = "rk" /\ TakePacket /\ UNCHANGED planes

(* tearDown: the context is reset. *)
RkTearDown == kind = "rk" /\ Fresh /\ UNCHANGED <<eosSent, planes>>
============================================================================
