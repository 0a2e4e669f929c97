----------------------------- MODULE NvDecoder -----------------------------
(***************************************************************************)
(* src/bsp/bsp_codec/video/nvVideoDec.cpp: the decoder of the Jetson       *)
(* boards, with its packet queue, its decoder thread and capture thread,   *)
(* and the V4L2 device between them.  The client is one that calls setup,  *)
(* decode for packet after packet, perhaps with pkt_eos on the last, and   *)
(* in the end tearDown and the destructor, as DecodeApp does.              *)
(*                                                                         *)
(* The device is external: it gives back an output buffer once it has read *)
(* it, announces the resolution with the first packet, decodes when the    *)
(* capture plane is set up, and answers an empty buffer, the end of the    *)
(* stream, with an empty buffer.  Waits of 100 ms and 50 s are actions     *)
(* that are enabled while what is waited for is not there.                 *)
(***************************************************************************)
EXTENDS Integers, Sequences

CONSTANTS NumOutput,   \* m_params.num_output_buffers
          NumCapture,  \* m_num_capture_buffers
          Packets,     \* bound: packets the client gives
          MaxFaults,   \* bound: calls to the device that fail
          MaxChanges   \* bound: changes of the resolution in the stream

VARIABLES
  client,      \* where the client is
  given,       \* packets given to decode()
  shown,       \* the frames given to m_callback
  m_running, m_got_error, m_got_eos,
  m_packet_queue,
  decoder,     \* decoderThreadFunc: where it is, and its i
  capture,     \* captureThreadFunc: where it is, and its frame
  device,      \* the V4L2 device, see NvInit
  faults,      \* calls that failed
  eosGiven     \* history: the client gave pkt_eos

flags == <<m_running, m_got_error, m_got_eos>>
threads == <<decoder, capture>>
outside == <<client, given, eosGiven>>

Eos == 0      \* pkt_eos in the queue, bytesused = 0 in a buffer

NvInit ==
  /\ client = "new" /\ given = 0 /\ shown = <<>>
  /\ m_running = FALSE /\ m_got_error = FALSE /\ m_got_eos = FALSE
  /\ m_packet_queue = <<>>
  /\ decoder = [pc |-> "none", i |-> 0]
  /\ capture = [pc |-> "none", frame |-> 0]
  /\ device = [free |-> 0,          \* output buffers read, to be dequeued
               input |-> <<>>,      \* output buffers queued and not yet read
               event |-> "none",    \* the resolution: none, sent or set up
               changes |-> 0,       \* times it changed
               output |-> <<>>]     \* frames to be dequeued
  /\ faults = 0 /\ eosGiven = FALSE

(* A call to the device succeeds, or fails if a fault is left. *)
Call(ok) == /\ faults' = IF ok THEN faults ELSE faults + 1
            /\ ok \/ faults < MaxFaults

(***************************************************************************)
(* The client: setup, decode, tearDown and the destructor.                 *)
(***************************************************************************)
Setup ==
  /\ client = "new"
  /\ \E ok \in BOOLEAN : Call(ok) /\ client' = IF ok THEN "ready" ELSE "failed"
  /\ UNCHANGED <<given, shown, flags, m_packet_queue, threads, device, eosGiven>>

(* startDecoding. *)
StartDecoding ==
  /\ m_running' = TRUE /\ m_got_error' = FALSE /\ m_got_eos' = FALSE
  /\ decoder' = [pc |-> "fill", i |-> 0]
  /\ capture' = [pc |-> "event", frame |-> 0]

(* decode() starts the threads with the first packet, copies the data into *)
(* the queue, and of a packet with pkt_eos only the mark.                  *)
Decode(eos) ==
  /\ client = "ready" /\ ~eosGiven /\ given < Packets
  /\ given' = given + 1
  /\ eosGiven' = eos
  /\ m_packet_queue' = Append(m_packet_queue, IF eos THEN Eos ELSE given + 1)
  /\ IF m_running THEN UNCHANGED <<flags, threads>> ELSE StartDecoding
  /\ UNCHANGED <<client, shown, device, faults>>

(* tearDown: stop, then join one thread after the other. *)
Stop ==
  /\ client = "ready"
  /\ client' = "join decoder"
  /\ m_running' = FALSE /\ m_got_eos' = TRUE
  /\ UNCHANGED <<given, shown, m_got_error, m_packet_queue, threads, device,
                 faults, eosGiven>>

Joined(t) == t.pc \in {"none", "end"}

JoinThreads ==
  /\ \/ client = "join decoder" /\ Joined(decoder) /\ client' = "join capture"
        /\ UNCHANGED <<m_packet_queue, m_got_error, m_got_eos>>
     \/ client = "join capture" /\ Joined(capture) /\ client' = "closed"
        /\ m_packet_queue' = <<>> /\ m_got_error' = FALSE /\ m_got_eos' = FALSE
  /\ UNCHANGED <<given, shown, m_running, threads, device, faults, eosGiven>>

(* The destructor does the same with threads that have ended, and takes    *)
(* the device down.                                                        *)
Destroy ==
  /\ client = "closed"
  /\ client' = "gone" /\ m_got_eos' = TRUE
  /\ device' = [device EXCEPT !.input = <<>>, !.output = <<>>, !.free = 0]
  /\ UNCHANGED <<given, shown, m_running, m_got_error, m_packet_queue, threads,
                 faults, eosGiven>>

(***************************************************************************)
(* decoderThreadFunc.                                                      *)
(***************************************************************************)

(* The predicate of the waits, and their time-out. *)
Awake == m_packet_queue # <<>> \/ ~m_running \/ m_got_eos

(* Mutant: the packet stays in the queue. *)
QueuePacketKeeps(next) ==
  /\ device' = [device EXCEPT !.input = Append(@, Head(m_packet_queue))]
  /\ decoder' = next
  /\ UNCHANGED <<m_packet_queue, m_got_error, m_got_eos, faults>>

(* Mutant: the end of the stream is noted, but not queued. *)
QueuePacketNoEos(next) ==
  LET p == Head(m_packet_queue)
  IN /\ m_packet_queue' = Tail(m_packet_queue)
     /\ device' = IF p = Eos THEN device ELSE [device EXCEPT !.input = Append(@, p)]
     /\ m_got_eos' = (m_got_eos \/ p = Eos)
     /\ decoder' = IF p # Eos THEN next ELSE [decoder EXCEPT !.pc = "main"]
     /\ UNCHANGED <<m_got_error, faults>>

(* Queues the packet at the head in a buffer of the output plane. *)
QueuePacket(next) ==
  \E ok \in BOOLEAN :
    LET p == Head(m_packet_queue)
    IN /\ Call(ok)
       /\ m_packet_queue' = Tail(m_packet_queue)
       /\ device' = IF ok THEN [device EXCEPT !.input = Append(@, p)] ELSE device
       /\ m_got_error' = (m_got_error \/ ~ok)
       /\ m_got_eos' = (m_got_eos \/ (p = Eos /\ (ok \/ decoder.pc = "wait")))
       /\ decoder' = IF ok /\ p # Eos THEN next ELSE [decoder EXCEPT !.pc = "main"]

(* Mutant: the wait that times out in the fill goes on to the next buffer,  *)
(* as if the packet had been queued.                                        *)
FillSkips ==
  /\ decoder.pc = "fill"
  /\ decoder' = [pc |-> IF decoder.i + 1 < NumOutput THEN "fill" ELSE "main",
                 i |-> decoder.i + 1]
  /\ m_packet_queue' = IF m_packet_queue = <<>> THEN <<>> ELSE Tail(m_packet_queue)
  /\ UNCHANGED <<m_got_error, m_got_eos, device, faults>>
  /\ UNCHANGED <<outside, shown, m_running, capture>>

(* The initial fill: every buffer in turn, without the device. *)
Fill ==
  /\ decoder.pc = "fill" /\ Awake
  /\ IF ~m_running \/ m_packet_queue = <<>>
     THEN /\ decoder' = [decoder EXCEPT !.pc = "main"]
          /\ UNCHANGED <<m_got_error, m_got_eos, m_packet_queue, device, faults>>
     ELSE QueuePacket([pc |-> IF decoder.i + 1 < NumOutput THEN "fill" ELSE "main",
                       i |-> decoder.i + 1])
  /\ UNCHANGED <<outside, shown, m_running, capture>>

(* The head of the main decode loop, and dqBuffer, which blocks. *)
Dequeue ==
  /\ decoder.pc = "main"
  /\ IF ~m_running \/ m_got_error \/ m_got_eos
     THEN decoder' = [decoder EXCEPT !.pc = "end"]
     ELSE decoder' = [decoder EXCEPT !.pc = "dq"]
  /\ UNCHANGED <<outside, shown, flags, m_packet_queue, capture, device, faults>>

DequeueOutput ==
  /\ decoder.pc = "dq" /\ device.free > 0
  /\ \E ok \in BOOLEAN :
       /\ Call(ok)
       /\ m_got_error' = (m_got_error \/ ~ok)
       /\ device' = IF ok THEN [device EXCEPT !.free = @ - 1] ELSE device
       /\ decoder' = [decoder EXCEPT !.pc = IF ok THEN "wait" ELSE "main"]
  /\ UNCHANGED <<outside, shown, m_running, m_got_eos, m_packet_queue, capture>>

(* The wait for a packet.  After 100 ms without one, or when m_got_eos woke *)
(* it, the buffer goes back to the device with bytesused = 0; nobody looks  *)
(* whether it is taken, and one that is not is lost.                        *)
Requeue ==
  /\ decoder.pc = "wait" /\ m_packet_queue = <<>> /\ m_running
  /\ \E ok \in BOOLEAN :
       /\ Call(ok)
       /\ device' = IF ok THEN [device EXCEPT !.input = Append(@, Eos)] ELSE device
  /\ decoder' = [decoder EXCEPT !.pc = "main"]
  /\ UNCHANGED <<outside, shown, flags, m_packet_queue, capture>>

Feed ==
  /\ decoder.pc = "wait" /\ Awake
  /\ IF ~m_running
     THEN /\ decoder' = [decoder EXCEPT !.pc = "end"]
          /\ UNCHANGED <<m_got_error, m_got_eos, m_packet_queue, device, faults>>
     ELSE /\ m_packet_queue # <<>>
          /\ QueuePacket([decoder EXCEPT !.pc = "main"])
  /\ UNCHANGED <<outside, shown, m_running, capture>>

(***************************************************************************)
(* captureThreadFunc.                                                      *)
(***************************************************************************)

(* A thread that meets an error sets m_got_error and ends. *)
CaptureEnds(error, eos) ==
  /\ capture' = [capture EXCEPT !.pc = "end"]
  /\ m_got_error' = (m_got_error \/ error) /\ m_got_eos' = (m_got_eos \/ eos)

(* queryAndSetCapture: the buffers of the capture plane are made and queued.*)
SetCapture ==
  \E ok \in BOOLEAN :
    /\ Call(ok)
    /\ IF ok THEN /\ device' = [device EXCEPT !.event = "set up"]
                  /\ capture' = [capture EXCEPT !.pc = "loop"]
                  /\ UNCHANGED <<m_got_error, m_got_eos>>
       ELSE CaptureEnds(TRUE, FALSE) /\ UNCHANGED device

(* The wait of 50 s for the first resolution event. *)
AwaitResolution ==
  /\ capture.pc = "event"
  /\ \/ device.event = "sent" /\ SetCapture
     \/ device.event = "none" /\ CaptureEnds(TRUE, FALSE) /\ UNCHANGED <<device, faults>>
  /\ UNCHANGED <<outside, shown, m_running, m_packet_queue, decoder>>

(* The head of the capture loop: the flags, another resolution event. *)
CaptureLoop ==
  /\ capture.pc = "loop"
  /\ IF ~m_running \/ m_got_error \/ m_got_eos
     THEN CaptureEnds(FALSE, FALSE) /\ UNCHANGED <<device, faults>>
     ELSE \/ device.event = "sent" /\ SetCapture
          \/ /\ device.event # "sent"
             /\ capture' = [capture EXCEPT !.pc = "dq"]
             /\ UNCHANGED <<device, faults, m_got_error, m_got_eos>>
  /\ UNCHANGED <<outside, shown, m_running, m_packet_queue, decoder>>

(* dqBuffer blocks; an empty buffer is the end of the stream. *)
DequeueFrame ==
  /\ capture.pc = "dq" /\ device.output # <<>>
  /\ LET f == Head(device.output)
     IN \E ok \in BOOLEAN :
          /\ Call(ok)
          /\ device' = IF ok THEN [device EXCEPT !.output = Tail(@)] ELSE device
          /\ IF ~ok \/ f = Eos THEN CaptureEnds(~ok, ok)
             ELSE /\ capture' = [pc |-> "show", frame |-> f]
                  /\ UNCHANGED <<m_got_error, m_got_eos>>
  /\ UNCHANGED <<outside, shown, m_running, m_packet_queue, decoder>>

(* The frame is transformed, copied and given to the callback, and its      *)
(* buffer goes back.  A transform or a map that fails loses the frame; a    *)
(* surface that cannot be found or a buffer not taken back ends the loop.   *)
ShowFrame ==
  /\ capture.pc = "show"
  /\ \E whole, back \in BOOLEAN :
       /\ Call(whole /\ back)
       /\ shown' = IF whole THEN Append(shown, capture.frame) ELSE shown
       /\ IF back THEN /\ capture' = [capture EXCEPT !.pc = "loop"]
                       /\ UNCHANGED <<m_got_error, m_got_eos>>
          ELSE CaptureEnds(TRUE, FALSE)
  /\ UNCHANGED <<outside, m_running, m_packet_queue, decoder, device>>

(***************************************************************************)
(* The device.                                                             *)
(***************************************************************************)
Announce ==
  /\ device.input # <<>> /\ Head(device.input) # Eos
  /\ \/ device.event = "none" /\ device' = [device EXCEPT !.event = "sent"]
     \/ /\ device.event = "set up" /\ device.output = <<>> /\ device.changes < MaxChanges
        /\ device' = [device EXCEPT !.event = "sent", !.changes = @ + 1]
  /\ UNCHANGED <<outside, shown, flags, m_packet_queue, threads, faults>>

Decodes ==
  /\ device.input # <<>>
  /\ \/ /\ device.event = "set up"
        /\ Len(device.output) + (IF capture.pc = "show" THEN 1 ELSE 0) < NumCapture
        /\ device' = [device EXCEPT !.input = Tail(@), !.free = @ + 1,
                                    !.output = Append(@, Head(device.input))]
     \/ /\ device.event = "none" /\ Head(device.input) = Eos
        /\ device' = [device EXCEPT !.input = Tail(@), !.free = @ + 1]
  /\ UNCHANGED <<outside, shown, flags, m_packet_queue, threads, faults>>

Threads == Fill \/ Dequeue \/ DequeueOutput \/ Requeue \/ Feed
           \/ AwaitResolution \/ CaptureLoop \/ DequeueFrame \/ ShowFrame
Client == Setup \/ (\E eos \in BOOLEAN : Decode(eos)) \/ Stop \/ JoinThreads \/ Destroy
Device == Announce \/ Decodes
nvVars == <<client, given, shown, m_running, m_got_error, m_got_eos, m_packet_queue,
            decoder, capture, device, faults, eosGiven>>

NvNext == Client \/ Threads \/ Device

(* The threads are scheduled, their waits end, the device goes on; the     *)
(* client is not bound to give packets, but joins once it has begun to.    *)
NvFairness == /\ WF_nvVars(Fill) /\ WF_nvVars(Dequeue) /\ WF_nvVars(DequeueOutput)
              /\ WF_nvVars(Requeue) /\ WF_nvVars(Feed)
              /\ WF_nvVars(AwaitResolution) /\ WF_nvVars(CaptureLoop)
              /\ WF_nvVars(DequeueFrame) /\ WF_nvVars(ShowFrame)
              /\ WF_nvVars(Device) /\ WF_nvVars(JoinThreads)

============================================================================
