--------------------------- MODULE DnnObjDetector ---------------------------
(***************************************************************************)
(* dnnObjDetector with its engine and one of its plugins: vic              *)
(* (NvVicResnet18TrafficCamNet) and resnet (Resnet18TrafficCamNet) with    *)
(* tensorrt, rga (RGArknnYolov5) and yolo (rknnYolov5) with rknn.  vic and *)
(* rga have a Graphics2D of their own.  What the network sees in a frame   *)
(* is any of Scenes.                                                       *)
(***************************************************************************)
EXTENDS Graphics2D, DnnEngine, Detections

CONSTANTS Scenes,         \* what the network may answer: sequences of cells
          MaxFailures     \* bound: calls of the platform that fail

ASSUME DetectorAssumption ==
  /\ \A s \in Scenes : s \in Seq([left : Int, right : Int, conf : Nat, probs : [{0, 1} -> Nat]])
  /\ MaxFailures \in Nat

VARIABLES
  plugin,    \* the plugin that was chosen
  engine,    \* m_dnnEngine
  g2d,       \* the surfaces of the plugin's Graphics2D and of the client's
  dnn,       \* runObjDetect: where it is, its frame and tensor, and whether labels are read
  cells,     \* what the network saw in the frame of the last output
  found,     \* m_dataOutputVector
  foundIn,   \* the frame found was computed from
  failures   \* the frames in which a call of the platform failed, one for each call

dnnVars == <<plugin, engine, g2d, dnn, cells, found, foundIn, failures>>

platform == IF plugin \in {"vic", "resnet"} THEN "nv" ELSE "rk"

DnnInit ==
  /\ engine = NoEngine /\ g2d = [plugin |-> NoSurfaces, app |-> NoSurfaces]
  /\ dnn = [pc |-> "idle", frame |-> NoFrame, rgb |-> Torn, tensor |-> NoFrame,
            labels |-> FALSE]
  /\ cells = <<>> /\ found = <<>> /\ foundIn = NoFrame /\ failures = <<>>

(* n calls fail in the frame f. *)
Fail(n, f) ==
  /\ Len(failures) + n <= MaxFailures
  /\ failures' = failures \o [i \in 1 .. n |-> f]

(* loadModel, before the first frame; ok is whether it returns. *)
LoadEngine(ok) ==
  /\ \E l \in LoadModel(platform) : l.ok = ok /\ engine' = l.engine /\ Fail(l.faults, NoFrame)
  /\ UNCHANGED <<plugin, g2d, dnn, cells, found, foundIn>>

(* A client begins with the frame f, and asks for the shape of the input. *)
PushInput(f) ==
  /\ dnn.pc = "idle" /\ ShapeReadable(platform, engine)
  /\ dnn' = [dnn EXCEPT !.pc = "preprocess", !.frame = f]
  /\ UNCHANGED <<plugin, engine, g2d, cells, found, foundIn, failures>>

(***************************************************************************)
(* preProcess of the plugins.  Nobody looks at its result, and a picture   *)
(* of no size cannot be made.                                              *)
(***************************************************************************)

Resized == ResizeToHost(platform, Image(dnn.frame, NoFrame), dnn.rgb, g2d.plugin)

PreProcessed(o) ==
  /\ dnn' = [dnn EXCEPT !.pc = "infer", !.rgb = o.host,
                        !.tensor = IF o.ret = 0 THEN o.host.frame ELSE NoFrame]
  /\ g2d' = [g2d EXCEPT !.plugin = o.map]
  /\ Fail(o.faults, dnn.frame)

VicPreProcess == plugin = "vic" /\ \E o \in Resized : PreProcessed(o)

(* rga throws when the frame cannot be resized: see DetectorThrows. *)
RgaPreProcess ==
  /\ plugin = "rga" /\ HasShape(platform, engine)
  /\ \E o \in Resized : o.ret = 0 /\ PreProcessed(o)

(* resnet and yolo resize and pad on the CPU. *)
Padded ==
  PreProcessed([ret |-> 0, host |-> Image(dnn.frame, NoFrame), faults |-> 0, map |-> g2d.plugin])
ResnetPreProcess == plugin = "resnet" /\ Padded
YoloPreProcess == plugin = "yolo" /\ HasShape(platform, engine) /\ Padded

PreProcess ==
  /\ dnn.pc = "preprocess"
  /\ VicPreProcess \/ RgaPreProcess \/ ResnetPreProcess \/ YoloPreProcess
  /\ UNCHANGED <<plugin, engine, cells, found, foundIn>>

(* Nothing catches what is thrown, and an input that is not there is read. *)
DetectorThrows ==
  /\ \/ dnn.pc = "idle" /\ ~ShapeReadable(platform, engine) /\ UNCHANGED failures
     \/ /\ dnn.pc = "preprocess" /\ platform = "rk" /\ ~HasShape(platform, engine)
        /\ UNCHANGED failures
     \/ dnn.pc = "preprocess" /\ plugin = "rga" /\ Fail(1, dnn.frame)
  /\ UNCHANGED <<plugin, engine, g2d, dnn, cells, found, foundIn>>

(***************************************************************************)
(* The engine, and postProcess of the plugins.                             *)
(***************************************************************************)

(* pushInputData and runInference: what fails leaves the input, or the     *)
(* output, of the frame before.                                            *)
Infer ==
  /\ dnn.pc = "infer" /\ dnn' = [dnn EXCEPT !.pc = "postprocess"]
  /\ \E p \in Push(platform, engine, dnn.tensor) : \E r \in Run(platform, p.engine) :
       engine' = r.engine /\ Fail(p.faults + r.faults, dnn.frame)
  /\ UNCHANGED <<plugin, g2d, cells, found, foundIn>>

(* Mutant: what was found before stays when the network sees nothing. *)
FindsKeeps(seen, of, boxes) ==
  IF boxes = <<>> THEN UNCHANGED <<cells, found, foundIn>>
  ELSE cells' = seen /\ foundIn' = of /\ found' = boxes

Finds(seen, of, boxes) == cells' = seen /\ foundIn' = of /\ found' = boxes
FindsNothing == Finds(<<>>, Unknown, <<>>)

(* What the plugin makes of an output that was computed from the frame of. *)
Decodes(of) == \E seen \in Scenes : \E q \in Boxes(plugin, seen) : Finds(seen, of, q)

(* vic and resnet refuse outputs that are not there, and go on without     *)
(* labels.                                                                 *)
DetectNetPostProcess(o) ==
  /\ IF o.buffers = "all" THEN Decodes(o.engine.output) ELSE FindsNothing
  /\ dnn' = [dnn EXCEPT !.pc = "done"] /\ Fail(o.faults, dnn.frame)

(* rga and yolo need their labels, which they read when they need them      *)
(* first.  Outputs that were released are looked at nevertheless, and those *)
(* that cannot be scaled show nothing.                                      *)
YoloPostProcess(o) ==
  \/ /\ IF o.buffers = "none" \/ "quant" \notin engine.ready THEN FindsNothing
        ELSE Decodes(IF o.buffers = "all" THEN o.engine.output ELSE Unknown)
     /\ dnn' = [dnn EXCEPT !.pc = "done", !.labels = TRUE] /\ Fail(o.faults, dnn.frame)
  \/ /\ ~dnn.labels /\ FindsNothing
     /\ dnn' = [dnn EXCEPT !.pc = "done"] /\ Fail(o.faults + 1, dnn.frame)

(* popOutputData, postProcess and releaseOutputData. *)
PostProcess ==
  /\ dnn.pc = "postprocess"
  /\ \E o \in Pop(platform, engine) :
       /\ engine' = o.engine
       /\ IF platform = "nv" THEN DetectNetPostProcess(o) ELSE YoloPostProcess(o)
  /\ UNCHANGED <<plugin, g2d>>

(* popOutputData of the detector; the call is over. *)
PopOutput == dnn.pc = "done" /\ dnn' = [dnn EXCEPT !.pc = "idle"]

DnnSteps == PreProcess \/ Infer \/ PostProcess

(* The detector goes, with its engine and its plugin; the client's          *)
(* Graphics2D goes with the client.                                         *)
DestroyDetector ==
  /\ engine' = Free(platform, engine)
  /\ g2d' = [u \in DOMAIN g2d |-> DestroySurfaces(g2d[u])]
  /\ UNCHANGED <<plugin, dnn, cells, found, foundIn, failures>>
=============================================================================
