------------------------------- MODULE Viewer -------------------------------
(***************************************************************************)
(* The object detector of the data recorder and the user interface behind  *)
(* it: two processes, and the camera's frames come to both.  The messages  *)
(* between them are not lost here; what the shared memory does to a frame  *)
(* is the subject of ShmPort.                                              *)
(***************************************************************************)
EXTENDS ObjDetector, Gui

CONSTANT MaxShots   \* bound: frames of a camera for the user interface

ASSUME ViewerAssumption == MaxShots \in Nat

VARIABLE sent    \* frames the cameras have published for the user interface

viewerVars == <<odVars, guiVars, sent>>

ViewerInit == OdInit /\ GuiInit /\ sent = [c \in Cameras |-> 0]

CameraPublishes(c) ==
  /\ sent[c] < MaxShots /\ sent' = [sent EXCEPT ![c] = @ + 1]
  /\ UNCHANGED <<odVars, guiVars>>

(* What there is for a source: the results of the detector, or the frames  *)
(* of the camera.                                                          *)
Published(s) == IF s \in Detectors THEN Len(results) ELSE sent[s]

Consume(s) == BeginCopy(s) /\ taken[s] < Published(s) /\ UNCHANGED <<odVars, sent>>
Emit(s) == EndCopyAndEmit(s) /\ UNCHANGED <<odVars, sent>>
Show == OnFrameUpdated /\ UNCHANGED <<odVars, sent>>
Detector == OdNext /\ UNCHANGED <<guiVars, sent>>

ViewerNext ==
  \/ Detector \/ Show
  \/ OnDataSourceChanged /\ UNCHANGED <<odVars, sent>>
  \/ \E c \in Cameras : CameraPublishes(c)
  \/ \E s \in Sources : Consume(s) \/ Emit(s)

(* The detector's threads go on; the cameras, the user and the interface   *)
(* need not.  A message may fail to be unpacked, so that receiving is not  *)
(* asked for.                                                              *)
ViewerSpec ==
  /\ ViewerInit /\ [][ViewerNext]_viewerVars
  /\ WF_viewerVars(CopyData /\ UNCHANGED <<guiVars, sent>>)
  /\ WF_viewerVars(PushFrame /\ UNCHANGED <<guiVars, sent>>)
  /\ WF_viewerVars(InferenceLoop /\ UNCHANGED <<guiVars, sent>>)

(***************************************************************************)
(* Properties.                                                             *)
(***************************************************************************)

(* A frame of the detector is in one place: with one of its threads, in the *)
(* queue or in the free list, once; and the queue keeps its limit           *)
(* (objDetector.cpp 158-290).                                               *)
FramesOwnedOnce ==
  /\ Len(inferQueue) <= QueueCap /\ Len(freeQueue) <= FreeQueueCap
  /\ \A b \in FrameBuffers :
       Cardinality({i \in DOMAIN inferQueue : inferQueue[i] = b})
       + Cardinality({i \in DOMAIN freeQueue : freeQueue[i] = b})
       + (IF run.buf = b THEN 1 ELSE 0) + (IF inf.buf = b THEN 1 ELSE 0) <= 1

(* A frame that has been unpacked is detected and published, or one that is *)
(* newer: what is dropped is older than what is kept, although the queue is *)
(* made shorter for a message that then cannot be unpacked (220-238).       *)
NewestIsDetected ==
  \A n \in 1 .. MaxFrames :
    (run.pc = "copy" /\ arrived = n) ~> \E i \in DOMAIN results : results[i].image >= n

(* A widget shows an image of a source that is its own, of the data source *)
(* that is current, no older than the one announced, and half of one only  *)
(* when the next is being written; and its memory has the format of the    *)
(* image, unless two sources that are shown together share it, although    *)
(* cameras and detectors take turns in one widget (RawCamera.cpp 66-77,    *)
(* GuiController.cpp 84-102, VideoFrameWidget.cpp 158-226, FrameWidget.cpp *)
(* 17-53).                                                                 *)
ShownAsAnnounced ==
  \A c \in Cells : shown[c].source # "none" =>
    LET s == shown[c].source
    IN /\ Widget(s) = c /\ Kind(s) = current
       /\ shown[c].image >= shown[c].announced
       /\ shown[c].torn => taken[s] > shown[c].image
       /\ \/ shown[c].format = Node(s).format
          \/ \E t \in Sources \ {s} : Widget(t) = c /\ Kind(t) = Kind(s)

(* For TLC. *)
Shows(name, enabled, place, format) ==
  [name |-> name, enabled |-> enabled, place |-> place, format |-> format]

\* Two cameras side by side, and a disabled one of another format, which is
\* shown all the same, in the first widget.
\* A camera and a detector that both end up in the only widget.
\* A grid without a row (it gets one), a camera in its second column and a
\* detector in the first, where it does not belong.
MCLayouts ==
  {[cameras |-> <<Shows("cam1", TRUE, <<>>, "RGB888"), Shows("cam2", TRUE, <<>>, "RGB888"),
                  Shows("cam3", FALSE, <<>>, "RGBA8888")>>,
    detectors |-> <<>>, grid |-> <<>>],
   [cameras |-> <<Shows("cam1", TRUE, <<>>, "RGBA8888")>>,
    detectors |-> <<Shows("det", TRUE, <<2, 2>>, "RGB888")>>, grid |-> <<>>],
   [cameras |-> <<Shows("cam1", TRUE, <<0, 1>>, "RGB888")>>,
    detectors |-> <<Shows("det", TRUE, <<>>, "RGB888")>>, grid |-> <<0, 2>>]}
=============================================================================
