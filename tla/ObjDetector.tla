---------------------------- MODULE ObjDetector ----------------------------
(***************************************************************************)
(* ObjDetector of the data recorder: runLoop copies the announced frames   *)
(* out of the shared memory into frames of a free list and queues them,    *)
(* dropping the oldest; inferenceLoop detects and publishes.  A frame in   *)
(* shared memory is its number; the ports are those of ShmPort.            *)
(***************************************************************************)
EXTENDS Naturals, SequencesExt

CONSTANTS QueueCap,   \* m_inference_frames_queue_size
          FreeQueueCap,    \* m_free_frames_queue_size
          MaxFrames,  \* bound: messages of the camera
          MaxFaults   \* bound: messages that cannot be unpacked, detections that fail

ASSUME ObjDetectorAssumption ==
  /\ {QueueCap, FreeQueueCap} \subseteq Nat \ {0} /\ {MaxFrames, MaxFaults} \subseteq Nat

VARIABLES
  arrived,   \* messages runLoop has received
  run,        \* runLoop: where it is, and its frame
  inferQueue, \* m_inference_frames_queue
  freeQueue,  \* m_free_frames_queue
  holds,     \* the frames: the number of the image each holds
  inf,       \* inferenceLoop: where it is, its frame, and what it has detected
  results,   \* what publishObjDetectResults has published: images and boxes
  faults     \* what has failed

odVars == <<arrived, run, inferQueue, freeQueue, holds, inf, results, faults>>

NoFrame == 0
FrameBuffers == 1 .. QueueCap + FreeQueueCap + 2    \* as many as can be in use at once

OdInit ==
  /\ arrived = 0 /\ run = [pc |-> "receive", buf |-> NoFrame]
  /\ inferQueue = <<>> /\ freeQueue = <<>> /\ holds = [b \in FrameBuffers |-> 0]
  /\ inf = [pc |-> "idle", buf |-> NoFrame, boxes |-> NoFrame]
  /\ results = <<>> /\ faults = 0

Used == {run.buf, inf.buf} \cup ToSet(inferQueue) \cup ToSet(freeQueue)

Youngest(q, n) == SubSeq(q, IF Len(q) > n THEN Len(q) - n + 1 ELSE 1, Len(q))

(* Mutant: the newest are dropped. *)
TrimDropsNewest ==
  SubSeq(inferQueue, 1, IF Len(inferQueue) >= QueueCap THEN QueueCap - 1 ELSE Len(inferQueue))

(* The queue is made shorter than its limit before anything is known of    *)
(* the message.                                                            *)
Trim == Youngest(inferQueue, QueueCap - 1)

(* runLoop receives a message; one that cannot be unpacked is forgotten.   *)
ReceiveMsg ==
  /\ run.pc = "receive" /\ arrived < MaxFrames
  /\ arrived' = arrived + 1
  /\ inferQueue' = Trim
  /\ \/ run' = [run EXCEPT !.pc = "copy"] /\ UNCHANGED faults
     \/ faults < MaxFaults /\ faults' = faults + 1 /\ UNCHANGED run
  /\ UNCHANGED <<freeQueue, holds, inf, results>>

(* A free frame, or a new one, gets the image.                             *)
CopyData ==
  /\ run.pc = "copy"
  /\ LET b == IF freeQueue # <<>> THEN Head(freeQueue) ELSE CHOOSE x \in FrameBuffers \ Used : TRUE
     IN /\ run' = [pc |-> "push", buf |-> b]
        /\ holds' = [holds EXCEPT ![b] = arrived]
        /\ freeQueue' = IF freeQueue # <<>> THEN Tail(freeQueue) ELSE freeQueue
  /\ UNCHANGED <<arrived, inferQueue, inf, results, faults>>

PushFrame ==
  /\ run.pc = "push"
  /\ inferQueue' = Append(inferQueue, run.buf) /\ run' = [pc |-> "trim", buf |-> NoFrame]
  /\ UNCHANGED <<arrived, freeQueue, holds, inf, results, faults>>

(* The free list is made shorter than its limit, from the front.           *)
TrimFree ==
  /\ run.pc = "trim" /\ run' = [run EXCEPT !.pc = "receive"]
  /\ freeQueue' = Youngest(freeQueue, FreeQueueCap - 1)
  /\ UNCHANGED <<arrived, inferQueue, holds, inf, results, faults>>

(* Mutant: the frame stays in the queue. *)
TakeFrameLeaves ==
  /\ inf.pc = "idle" /\ inferQueue # <<>>
  /\ inf' = [pc |-> "infer", buf |-> Head(inferQueue), boxes |-> NoFrame]
  /\ inferQueue' = IF Len(inferQueue) > 1 THEN Tail(inferQueue) ELSE inferQueue
  /\ UNCHANGED <<arrived, run, freeQueue, holds, results, faults>>

(* inferenceLoop takes the oldest frame; without one it sleeps for a while.*)
TakeFrame ==
  /\ inf.pc = "idle" /\ inferQueue # <<>>
  /\ inf' = [pc |-> "infer", buf |-> Head(inferQueue), boxes |-> NoFrame]
  /\ inferQueue' = Tail(inferQueue)
  /\ UNCHANGED <<arrived, run, freeQueue, holds, results, faults>>

(* runDnnInference: an exception or an error leaves no boxes, a failure    *)
(* the detector does not notice those of the frame before.                 *)
RunDnnInference ==
  /\ inf.pc = "infer"
  /\ \/ /\ inf' = [inf EXCEPT !.pc = "publish", !.boxes = holds[inf.buf]]
        /\ UNCHANGED faults
     \/ /\ faults < MaxFaults /\ faults' = faults + 1
        /\ \E b \in {NoFrame} \cup {results[i].boxes : i \in {Len(results)} \ {0}} :
             inf' = [inf EXCEPT !.pc = "publish", !.boxes = b]
  /\ UNCHANGED <<arrived, run, inferQueue, freeQueue, holds, results>>

Publish ==
  /\ inf.pc = "publish" /\ inf' = [inf EXCEPT !.pc = "free"]
  /\ results' = Append(results, [image |-> holds[inf.buf], boxes |-> inf.boxes])
  /\ UNCHANGED <<arrived, run, inferQueue, freeQueue, holds, faults>>

(* The frame is free again, or dropped. *)
FreeFrame ==
  /\ inf.pc = "free" /\ inf' = [pc |-> "idle", buf |-> NoFrame, boxes |-> NoFrame]
  /\ freeQueue' = IF Len(freeQueue) < FreeQueueCap THEN Append(freeQueue, inf.buf) ELSE freeQueue
  /\ UNCHANGED <<arrived, run, inferQueue, holds, results, faults>>

RunLoop == ReceiveMsg \/ CopyData \/ PushFrame \/ TrimFree
InferenceLoop == TakeFrame \/ RunDnnInference \/ Publish \/ FreeFrame
OdNext == RunLoop \/ InferenceLoop
=============================================================================
