----------------------------- MODULE DnnEngine -----------------------------
(***************************************************************************)
(* The engines behind IDnnEngine, tensorrt ("nv") and rknn ("rk"), as the  *)
(* outcomes their calls may have.  Tensors and outputs are the frame they  *)
(* were computed from.  Nobody looks at the results of cudaMalloc and of   *)
(* rknn_query: ready names what there is all the same.                     *)
(***************************************************************************)
EXTENDS Integers, FiniteSets

Unknown == -1    \* memory nobody has written
NoFrame == 0

NoEngine == [objects |-> {}, ready |-> {}, input |-> Unknown, output |-> Unknown,
             fetched |-> FALSE]

(* What loadModel comes to: it throws unless ok. *)
Loaded(ok, objects, ready, faults) ==
  [ok |-> ok, faults |-> faults, engine |-> [NoEngine EXCEPT !.objects = objects, !.ready = ready]]

(* The file, the runtime or the engine is not there. *)
LoadEngineFromFile ==
  {Loaded(FALSE, {}, {}, 1), Loaded(FALSE, {"runtime"}, {}, 1),
   Loaded(TRUE, {"runtime", "engine"}, {}, 0)}

(* A file that cannot be parsed leaves what parses it. *)
BuildEngineFromOnnx ==
  LoadEngineFromFile \cup {Loaded(FALSE, {"runtime", "builder", "network", "parser"}, {}, 1)}

(* cudaMalloc for the input and the two outputs. *)
Tensors == {"input", "coverage", "bbox"}
AllocateBuffers(objects) ==
  {Loaded(TRUE, objects, m, Cardinality(Tensors \ m)) : m \in SUBSET Tensors}

TrtLoadModel ==
  LET engines == LoadEngineFromFile \cup BuildEngineFromOnnx
      started == {l \in engines : l.ok}
  IN (engines \ started)
     \cup {Loaded(FALSE, l.engine.objects, {}, 1) : l \in started}
     \cup UNION {AllocateBuffers(l.engine.objects \cup {"context"}) : l \in started}

(* Without the number of tensors nothing else is asked for. *)
RknnLoadModel ==
  {Loaded(FALSE, {}, {}, 1), Loaded(TRUE, {"context"}, {}, 1)}
  \cup {Loaded(TRUE, {"context"}, {"number"} \cup r, Cardinality({"shape", "quant"} \ r)) :
          r \in SUBSET {"shape", "quant"}}

LoadModel(platform) == IF platform = "nv" THEN TrtLoadModel ELSE RknnLoadModel

(* getInputShape of rknn looks at the first input, which is not there       *)
(* without their number; a shape that was not answered is all zeros.        *)
ShapeReadable(platform, engine) == platform = "nv" \/ "number" \in engine.ready
HasShape(platform, engine) == platform = "nv" \/ "shape" \in engine.ready

(* What a call leaves of the engine, and whether it failed. *)
After(engine, faults) == [engine |-> engine, faults |-> faults]

(* pushInputData refuses an empty tensor; without memory it never works. *)
TrtPush(engine, tensor) ==
  IF tensor = NoFrame \/ "input" \notin engine.ready THEN {After(engine, 0)}
  ELSE {After([engine EXCEPT !.input = tensor], 0), After(engine, 1)}
RknnPush(engine, tensor) ==
  IF tensor = NoFrame THEN {After(engine, 0)}
  ELSE {After([engine EXCEPT !.input = tensor], 0), After(engine, 1)}

(* runInference computes the output of the input it has, whatever that is. *)
TrtRun(engine) ==
  IF Tensors \subseteq engine.ready
    THEN {After([engine EXCEPT !.output = engine.input], 0), After(engine, 1)}
    ELSE {After(engine, 0)}
RknnRun(engine) == {After([engine EXCEPT !.output = engine.input], 0), After(engine, 1)}

(* popOutputData: all outputs, none, or buffers that were released before. *)
Popped(engine, buffers, faults) == [engine |-> engine, buffers |-> buffers, faults |-> faults]
TrtPop(engine) ==
  IF {"coverage", "bbox"} \subseteq engine.ready
    THEN {Popped(engine, "all", 0), Popped(engine, "none", 1)}
    ELSE {Popped(engine, "none", 0)}
RknnPop(engine) ==
  {Popped([engine EXCEPT !.fetched = TRUE], "all", 0), Popped(engine, "none", 1)}
  \cup (IF engine.fetched THEN {Popped(engine, "released", 1)} ELSE {})

Push(platform, engine, tensor) ==
  IF platform = "nv" THEN TrtPush(engine, tensor) ELSE RknnPush(engine, tensor)
Run(platform, engine) == IF platform = "nv" THEN TrtRun(engine) ELSE RknnRun(engine)
Pop(platform, engine) == IF platform = "nv" THEN TrtPop(engine) ELSE RknnPop(engine)

(* The destructors. *)
TrtFree(engine) ==
  [NoEngine EXCEPT !.objects = engine.objects \ {"context", "engine", "runtime"}]
RknnFree(engine) == [NoEngine EXCEPT !.objects = engine.objects \ {"context"}]
Free(platform, engine) == IF platform = "nv" THEN TrtFree(engine) ELSE RknnFree(engine)
=============================================================================
