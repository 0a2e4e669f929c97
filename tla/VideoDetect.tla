---------------------------- MODULE VideoDetect ----------------------------
(***************************************************************************)
(* The two clients of dnnObjDetector.  VideoDetectApp: the main thread      *)
(* feeds the decoder, waits for the frames to be through and stops; the     *)
(* decoder's callback makes the encoder and queues copies of the frames;    *)
(* inferenceThreadFunc detects, draws and encodes.  The callback of nvdec   *)
(* runs on a thread of the decoder until tearDown joins it, that of rkmpp   *)
(* inside decode(), on the main thread.  ObjDetectApp detects in one BGR    *)
(* image, on its only thread; the image and video files can be read.        *)
(***************************************************************************)
EXTENDS DnnObjDetector

CONSTANTS MaxQueue,      \* MAX_QUEUE_SIZE
          StableRounds,  \* the 3 rounds without a frame that end the wait
          MaxRounds,     \* its 60 rounds
          PlaneSizes,    \* the numbers of buffers the output plane of nvVideoEnc may get
          MaxFrames      \* bound: frames of the video

ASSUME VideoDetectAssumption ==
  /\ {MaxQueue, StableRounds, MaxRounds} \cup PlaneSizes \subseteq Nat \ {0}
  /\ PlaneSizes # {} /\ MaxFrames \in Nat

VARIABLES
  sample,     \* "video" (VideoDetectApp) or "image" (ObjDetectApp)
  main,       \* the main thread: where it is, and the wait of onProcess
  cb,         \* the decoder's callback: where it is, and its frame
  queue,      \* m_frame_queue
  running,    \* m_inference_running
  inf,        \* the inference thread: where it is, and its frame
  rgba, yuv,  \* m_rgba_buf and m_yuv420_buf
  encoder,    \* m_encoder: its state, and of nvenc what its output plane has, see Filled
  encoded,    \* the images encode() was called with; m_frame_count is their number
  atStop,     \* history: the frames queued when the flag was cleared
  missed,     \* history: notify_all came while the inference thread was falling asleep
  crashed     \* an exception nobody catches, or a null pointer used

threads == <<main, cb, inf>>
detectVars == <<dnnVars, sample, threads, queue, running, rgba, yuv, encoder, encoded, atStop,
          missed, crashed>>

NoEncoder == [state |-> "none", size |-> 0, queued |-> 0, lapses |-> 0]

DetectInit ==
  /\ DnnInit
  /\ \/ sample = "video" /\ plugin \in {"vic", "rga"}
     \/ sample = "image" /\ plugin \in {"resnet", "yolo", "rga"}
  /\ main = [pc |-> "load", last |-> 0, stable |-> 0, rounds |-> 0]
  /\ cb = [pc |-> "idle", frame |-> NoFrame]
  /\ inf = [pc |-> "none", frame |-> NoFrame]
  /\ queue = <<>> /\ running = TRUE /\ rgba = Torn /\ yuv = Torn
  /\ encoder = NoEncoder /\ encoded = <<>> /\ atStop = 0 /\ missed = FALSE
  /\ crashed = FALSE

(***************************************************************************)
(* The decoder's callback.                                                 *)
(***************************************************************************)

Decoding ==
  /\ sample = "video"
  /\ IF platform = "rk" THEN main.pc = "feed"
     ELSE main.pc \notin {"load", "encoder", "destroy", "done"}

DecoderReturnsFrame ==
  /\ Decoding /\ cb.pc = "idle" /\ cb.frame < MaxFrames
  /\ cb' = [pc |-> IF encoder = NoEncoder THEN "create" ELSE "push",
            frame |-> cb.frame + 1]
  /\ UNCHANGED <<dnnVars, sample, main, inf, queue, running, rgba, yuv, encoder, encoded,
                 atStop, missed, crashed>>

CreateEncoder ==
  /\ cb.pc = "create" /\ cb' = [cb EXCEPT !.pc = "setup"]
  /\ \E size \in (IF platform = "nv" THEN PlaneSizes ELSE {0}) :
       encoder' = [encoder EXCEPT !.state = "made", !.size = size]
  /\ UNCHANGED <<dnnVars, sample, main, inf, queue, running, rgba, yuv, encoded, atStop,
                 missed, crashed>>

(* Nobody looks at the result.  An encoder whose setup fails takes no frame; *)
(* nvenc may take frames nevertheless, and not know their size (EncoderCore).*)
SetupEncoder ==
  /\ cb.pc = "setup" /\ cb' = [cb EXCEPT !.pc = "push"]
  /\ \E state \in {"ready", "failed", "unsized"} :
       /\ state = "unsized" => platform = "nv"
       /\ encoder' = [encoder EXCEPT !.state = state]
       /\ IF state = "ready" THEN UNCHANGED failures ELSE Fail(1, cb.frame)
  /\ UNCHANGED <<plugin, engine, g2d, dnn, cells, found, foundIn, sample, main, inf, queue,
                 running, rgba, yuv, encoded, atStop, missed, crashed>>

Wake(pc) == IF pc = "asleep" THEN "look" ELSE pc

(* m_queue_mutex is the inference thread's from its look at the queue until *)
(* it sleeps.                                                               *)
PushTask ==
  /\ cb.pc = "push" /\ inf.pc # "falling"
  /\ IF Len(queue) < MaxQueue
       THEN /\ queue' = Append(queue, cb.frame) /\ cb' = [cb EXCEPT !.pc = "idle"]
            /\ inf' = [inf EXCEPT !.pc = Wake(@)]
       ELSE cb' = [cb EXCEPT !.pc = "full"] /\ UNCHANGED <<queue, inf>>
  /\ UNCHANGED <<dnnVars, sample, main, running, rgba, yuv, encoder, encoded, atStop,
                 missed, crashed>>

(***************************************************************************)
(* The inference thread.                                                   *)
(***************************************************************************)

HasSpace == IF cb.pc = "full" THEN [cb EXCEPT !.pc = "push"] ELSE cb

(* A task is taken and its detection begins.  The encoder is there: its    *)
(* frame has made it, or the frame before it.                              *)
TakeTask ==
  /\ inf.pc = "look" /\ queue # <<>>
  /\ inf' = [pc |-> "detect", frame |-> Head(queue)] /\ queue' = Tail(queue)
  /\ cb' = HasSpace
  /\ \/ PushInput(Head(queue)) /\ UNCHANGED crashed
     \/ DetectorThrows /\ crashed' = TRUE
  /\ UNCHANGED <<sample, main, running, rgba, yuv, encoder, encoded, atStop, missed>>

(* Mutant: the flag ends the thread, whatever is queued. *)
LookEndsAtOnce ==
  /\ inf.pc = "look"
  /\ IF ~running THEN inf' = [inf EXCEPT !.pc = "eos"]
     ELSE queue = <<>> /\ inf' = [inf EXCEPT !.pc = "falling"]
  /\ UNCHANGED <<dnnVars, sample, main, cb, queue, running, rgba, yuv, encoder, encoded,
                 atStop, missed, crashed>>

(* Nothing to take: the thread ends when it is to stop. *)
Look ==
  /\ inf.pc = "look" /\ queue = <<>>
  /\ inf' = [inf EXCEPT !.pc = IF running THEN "falling" ELSE "eos"]
  /\ UNCHANGED <<dnnVars, sample, main, cb, queue, running, rgba, yuv, encoder, encoded,
                 atStop, missed, crashed>>

FallAsleep ==
  /\ inf.pc = "falling" /\ inf' = [inf EXCEPT !.pc = "asleep"]
  /\ UNCHANGED <<dnnVars, sample, main, cb, queue, running, rgba, yuv, encoder, encoded,
                 atStop, missed, crashed>>

Detect ==
  /\ inf.pc = "detect"
  /\ \/ DnnSteps /\ UNCHANGED crashed
     \/ DetectorThrows /\ crashed' = TRUE
  /\ UNCHANGED <<sample, threads, queue, running, rgba, yuv, encoder, encoded, atStop, missed>>

(* The detection is over; the frame becomes the RGBA image, or is dropped. *)
CvtToRgba ==
  /\ inf.pc = "detect" /\ PopOutput
  /\ \E o \in CvtColorToHost(platform, Image(inf.frame, NoFrame), rgba, g2d.app) :
       /\ rgba' = o.host /\ g2d' = [g2d EXCEPT !.app = o.map] /\ Fail(o.faults, inf.frame)
       /\ inf' = [inf EXCEPT !.pc = IF o.ret = 0 THEN "draw" ELSE "look"]
  /\ UNCHANGED <<plugin, engine, cells, found, foundIn, sample, main, cb, queue, running, yuv,
                 encoder, encoded, atStop, missed, crashed>>

(* The boxes are drawn, the image becomes YUV again. *)
DrawAndCvtToYuv ==
  /\ inf.pc = "draw"
  /\ rgba' = Image(rgba.frame, IF found = <<>> THEN NoFrame ELSE foundIn)
  /\ \E o \in CvtColorToHost(platform, rgba', yuv, g2d.app) :
       /\ yuv' = o.host /\ g2d' = [g2d EXCEPT !.app = o.map] /\ Fail(o.faults, inf.frame)
       /\ inf' = [inf EXCEPT !.pc = IF o.ret = 0 THEN "encode" ELSE "look"]
  /\ UNCHANGED <<plugin, engine, dnn, cells, found, foundIn, sample, main, cb, queue, running,
                 encoder, encoded, atStop, missed, crashed>>

(* encode() of nvenc: the first frames, as many as the output plane has      *)
(* buffers, fill it.  After that it may wait for a buffer for ever when calls*)
(* on as many have failed (Recording's EncodeReturns), or when its packets   *)
(* are not taken, as they are of no size.                                    *)
Filled == encoder.queued >= encoder.size
MayWait ==
  /\ platform = "nv" /\ Filled
  /\ encoder.lapses >= encoder.size \/ encoder.state = "unsized"

(* From the call on that completes the fill, each may lose a buffer. *)
EncoderTakes(n) ==
  /\ encoder.state # "failed" /\ Fail(n, inf.frame)
  /\ n = 0 \/ (platform = "nv" /\ encoder.queued + 1 >= encoder.size)
  /\ encoder' = IF platform = "rk" THEN encoder
                ELSE [encoder EXCEPT !.queued = IF Filled THEN @ ELSE @ + 1, !.lapses = @ + n]

(* It is not: a call fails and loses nothing, or no call can succeed. *)
EncoderRefuses ==
  /\ Fail(IF encoder.state = "failed" THEN 0 ELSE 1, inf.frame)
  /\ UNCHANGED encoder

(* encode() is called, and the frame counted whatever it returns; it may     *)
(* also not return.                                                          *)
CallEncode ==
  \/ /\ EncoderTakes(0) \/ EncoderTakes(1) \/ EncoderRefuses
     /\ encoded' = Append(encoded, [image |-> yuv, of |-> inf.frame])
     /\ inf' = [inf EXCEPT !.pc = "look"]
  \/ MayWait /\ inf' = [inf EXCEPT !.pc = "waiting"] /\ UNCHANGED <<encoder, encoded, failures>>

(* What an encoder that is not set up can do to its caller: the frame is     *)
(* copied into a buffer of no size, or MPP is called without a context.      *)
EncoderBreaks == encoder.state \in {"failed", "unsized"} /\ crashed' = TRUE

(* Without an input buffer the frame is dropped. *)
Encode ==
  /\ inf.pc = "encode"
  /\ \/ CallEncode /\ UNCHANGED crashed
     \/ EncoderBreaks /\ UNCHANGED <<inf, encoder, encoded, failures>>
     \/ /\ Fail(1, inf.frame) /\ inf' = [inf EXCEPT !.pc = "look"]
        /\ UNCHANGED <<encoder, encoded, crashed>>
  /\ UNCHANGED <<plugin, engine, g2d, dnn, cells, found, foundIn, sample, main, cb, queue,
                 running, rgba, yuv, atStop, missed>>

(* nvenc waits with the EOS until its output plane has been filled, which    *)
(* only this thread could do (nvVideoEnc.cpp 278-280).  An encoder that is   *)
(* just being set up may be at any step of it.                               *)
EosWaits ==
  /\ platform = "nv" /\ encoder.state \in {"made", "unsized", "ready"} /\ ~Filled
  /\ inf' = [inf EXCEPT !.pc = "waiting"] /\ UNCHANGED <<failures, crashed>>

(* It is not sent without an encoder or an input buffer, and else returns. *)
EosReturns ==
  /\ \/ (platform = "rk" \/ Filled \/ encoder.state # "ready") /\ UNCHANGED failures
     \/ Fail(1, inf.frame)
  /\ inf' = [inf EXCEPT !.pc = "exited"] /\ UNCHANGED crashed

(* MPP is called without a context. *)
EosBreaks ==
  /\ platform = "rk" /\ encoder.state \in {"made", "failed"}
  /\ crashed' = TRUE /\ UNCHANGED <<inf, failures>>

SendEos ==
  /\ inf.pc = "eos"
  /\ EosWaits \/ EosReturns \/ EosBreaks
  /\ UNCHANGED <<plugin, engine, g2d, dnn, cells, found, foundIn, sample, main, cb, queue,
                 running, rgba, yuv, encoder, encoded, atStop, missed>>

(***************************************************************************)
(* The main thread: onInit, onProcess and onRelease.                       *)
(***************************************************************************)

MainGoes(pc) == main' = [main EXCEPT !.pc = pc]

(* The model is loaded; VideoDetectApp then starts the inference thread. *)
OnInit ==
  /\ main.pc = "load"
  /\ \/ /\ LoadEngine(TRUE) /\ UNCHANGED crashed
        /\ MainGoes(IF sample = "video" THEN "feed" ELSE "push")
        /\ inf' = [inf EXCEPT !.pc = IF sample = "video" THEN "look" ELSE "none"]
     \/ LoadEngine(FALSE) /\ crashed' = TRUE /\ UNCHANGED <<main, inf>>
  /\ UNCHANGED <<sample, cb, queue, running, rgba, yuv, encoder, encoded, atStop, missed>>

(* ObjDetectApp: the image is pushed, detected in, drawn on and written. *)
PushImage ==
  /\ main.pc = "push"
  /\ \/ PushInput(1) /\ MainGoes("detect") /\ UNCHANGED crashed
     \/ DetectorThrows /\ crashed' = TRUE /\ UNCHANGED main
  /\ UNCHANGED <<sample, cb, inf, queue, running, rgba, yuv, encoder, encoded, atStop, missed>>

DetectInImage ==
  /\ main.pc = "detect"
  /\ \/ DnnSteps /\ UNCHANGED crashed
     \/ DetectorThrows /\ crashed' = TRUE
  /\ UNCHANGED <<sample, threads, queue, running, rgba, yuv, encoder, encoded, atStop, missed>>

DrawImage ==
  /\ main.pc = "detect" /\ PopOutput /\ MainGoes("destroy")
  /\ encoded' = <<[image |-> Image(dnn.frame, IF found = <<>> THEN NoFrame ELSE foundIn),
                  of |-> dnn.frame]>>
  /\ UNCHANGED <<plugin, engine, g2d, cells, found, foundIn, failures, sample, cb, inf, queue,
                 running, rgba, yuv, encoder, atStop, missed, crashed>>

(* All packets are given to decode(), which rkmpp leaves after its callback.*)
FeedEnds ==
  /\ main.pc = "feed" /\ (platform = "rk" => cb.pc = "idle")
  /\ MainGoes("settle")
  /\ UNCHANGED <<dnnVars, sample, cb, inf, queue, running, rgba, yuv, encoder, encoded, atStop,
                 missed, crashed>>

(* A round of the wait: it ends after some without a new frame, or after 60.*)
SettleRound ==
  /\ main.pc = "settle"
  /\ LET count == Len(encoded)
         stable == IF count = main.last THEN main.stable + 1 ELSE 0
         rounds == main.rounds + 1
     IN main' = [pc |-> IF stable >= StableRounds \/ rounds = MaxRounds THEN "stop" ELSE "settle",
                 last |-> count, stable |-> stable, rounds |-> rounds]
  /\ UNCHANGED <<dnnVars, sample, cb, inf, queue, running, rgba, yuv, encoder, encoded, atStop,
                 missed, crashed>>

(* m_inference_running is cleared without m_queue_mutex. *)
ClearRunning ==
  /\ main.pc = "stop" /\ MainGoes("notify")
  /\ running' = FALSE
  /\ atStop' = IF cb.pc = "idle" THEN cb.frame ELSE cb.frame - 1
  /\ UNCHANGED <<dnnVars, sample, cb, inf, queue, rgba, yuv, encoder, encoded, missed, crashed>>

(* Mutant: the thread is not woken. *)
NotifyNobody ==
  /\ main.pc = "notify" /\ MainGoes("join")
  /\ missed' = (inf.pc = "falling")
  /\ UNCHANGED <<dnnVars, sample, cb, inf, queue, running, rgba, yuv, encoder, encoded, atStop,
                 crashed>>

(* A thread that has looked and not yet slept does not hear notify_all. *)
NotifyAll ==
  /\ main.pc = "notify" /\ MainGoes("join")
  /\ inf' = [inf EXCEPT !.pc = Wake(@)] /\ cb' = HasSpace
  /\ missed' = (inf.pc = "falling")
  /\ UNCHANGED <<dnnVars, sample, queue, running, rgba, yuv, encoder, encoded, atStop, crashed>>

JoinInference ==
  /\ main.pc = "join" /\ inf.pc = "exited" /\ MainGoes("decoder")
  /\ UNCHANGED <<dnnVars, sample, cb, inf, queue, running, rgba, yuv, encoder, encoded, atStop,
                 missed, crashed>>

(* The file is closed and the decoder torn down, which joins its callback. *)
TearDownDecoder ==
  /\ main.pc = "decoder" /\ cb.pc = "idle" /\ MainGoes("encoder")
  /\ UNCHANGED <<dnnVars, sample, cb, inf, queue, running, rgba, yuv, encoder, encoded, atStop,
                 missed, crashed>>

(* m_encoder->tearDown(), whether there is an encoder or not. *)
TearDownEncoder ==
  /\ main.pc = "encoder" /\ MainGoes("destroy")
  /\ crashed' = (encoder = NoEncoder) /\ encoder' = NoEncoder
  /\ UNCHANGED <<dnnVars, sample, cb, inf, queue, running, rgba, yuv, encoded, atStop, missed>>

(* The end of onRelease, and the client's own destructor. *)
Destroy ==
  /\ main.pc = "destroy" /\ DestroyDetector /\ MainGoes("done")
  /\ UNCHANGED <<sample, cb, inf, queue, running, rgba, yuv, encoder, encoded, atStop,
                 missed, crashed>>

ImageSteps == PushImage \/ DetectInImage \/ DrawImage
MainSteps ==
  OnInit \/ ImageSteps \/ Destroy \/ FeedEnds \/ SettleRound \/ ClearRunning \/ NotifyAll
    \/ JoinInference \/ TearDownDecoder \/ TearDownEncoder
CallbackSteps == CreateEncoder \/ SetupEncoder \/ PushTask
InferenceSteps ==
  TakeTask \/ Look \/ FallAsleep \/ Detect \/ CvtToRgba \/ DrawAndCvtToYuv \/ Encode \/ SendEos

DetectNext == ~crashed /\ (DecoderReturnsFrame \/ CallbackSteps \/ InferenceSteps \/ MainSteps)

(* Threads run when they can; frames may come, or not. *)
DetectSpec ==
  /\ DetectInit /\ [][DetectNext]_detectVars
  /\ WF_detectVars(~crashed /\ CallbackSteps) /\ WF_detectVars(~crashed /\ InferenceSteps)
  /\ WF_detectVars(~crashed /\ MainSteps)

(***************************************************************************)
(* Properties.                                                             *)
(***************************************************************************)

Failed == {failures[i] : i \in DOMAIN failures}

(* The frames are encoded in the order they were decoded in, none twice;    *)
(* each with its own picture and, unless a call failed in it or when the    *)
(* model was loaded, its own boxes, though it goes through buffers that are *)
(* used again (VideoDetectApp.hpp 473-642, dnnObjDetector.cpp 89-122).      *)
EncodedAsShown ==
  /\ \A i, j \in DOMAIN encoded : i < j => encoded[i].of < encoded[j].of
  /\ \A i \in DOMAIN encoded :
       LET e == encoded[i]
       IN /\ e.image.frame = e.of
          /\ e.image.boxes \in {NoFrame, e.of} \/ {NoFrame, e.of} \cap Failed # {}

(* What the detector returns: boxes of what the network saw, the best       *)
(* first, without two of a class that overlap; every candidate that is      *)
(* missing overlaps one of its class that is at least as good and is        *)
(* returned, or came after MAX_OBJ_NUM others; and the boxes of a plugin    *)
(* that stretches the picture lie in the image (nms, applyNMS, doProcess,   *)
(* parseDetectNetOutput).                                                   *)
DetectionsSuppressed ==
  LET seen == Candidates(plugin, cells)
      Of(box) == CHOOSE c \in seen : c.cell = box.cell /\ c.class = box.class
      kept == {Of(found[i]) : i \in DOMAIN found}
  IN /\ Cardinality(kept) = Len(found)
     /\ \A i, j \in DOMAIN found : i < j =>
          /\ Of(found[i]).score >= Of(found[j]).score
          /\ found[i].class = found[j].class => ~OverlapOf(plugin, Of(found[i]), Of(found[j]))
     /\ \A c \in seen \ kept :
          \/ \E k \in kept : k.class = c.class /\ k.score >= c.score /\ OverlapOf(plugin, k, c)
          \/ platform = "rk" /\ Len(found) = MaxObjNum
     /\ Stretches(plugin) => \A i \in DOMAIN found :
          0 <= found[i].left /\ found[i].left <= found[i].right /\ found[i].right <= ImageWidth

(* When the inference thread has exited, every frame that was queued before *)
(* the flag was cleared has been given to the encoder, or a call failed in  *)
(* it ("等待推理线程处理完所有帧并发送EOS", VideoDetectApp.hpp 159-165).        *)
StopDrains ==
  inf.pc \in {"eos", "exited"} =>
    \A f \in 1 .. atStop : f \in Failed \/ \E i \in DOMAIN encoded : encoded[i].of = f

(* The main thread joins the inference thread (159-167), unless the wake-up *)
(* was missed, or that thread waits for nvenc: for an output plane that the *)
(* frames of the video have not filled, or in an encode() that may wait.    *)
JoinReturns ==
  <>[](main.pc = "join" /\ ~missed /\ ~crashed) => <>[](inf.pc = "waiting" /\ (~Filled \/ MayWait))

(* Between the steps no surface is in use, and one that is kept belongs to  *)
(* a buffer that could not be made (NvVicGraphics2D.cpp 254-283, releasing  *)
(* at 299-323); when the client is gone, so are the surfaces its            *)
(* Graphics2D still knew and all of the engine.                             *)
NothingKept ==
  /\ \A u \in DOMAIN g2d : g2d[u].live = 0
  /\ g2d.app.orphans + g2d.app.lost + g2d.plugin.orphans + g2d.plugin.lost <= Len(failures)
  /\ main.pc = "done" =>
       engine.objects = {} /\ engine.ready = {} /\ \A u \in DOMAIN g2d : g2d[u].orphans = 0

=============================================================================
