---------------------------- MODULE Detections -----------------------------
(***************************************************************************)
(* What the plugins make of a network's output, as pure operators.  A cell *)
(* of the output has a place (left and right in the network's picture; all *)
(* boxes are equally high), a confidence and a probability for each class. *)
(* vic and resnet decode DetectNet, rga and yolo YOLO; vic and rga stretch *)
(* the picture to the network's size, resnet and yolo keep its proportions *)
(* and pad it (the picture is higher than wide, so left and right).        *)
(***************************************************************************)
EXTENDS SequencesExt, Integers

CONSTANTS NetSize,        \* model_input_width, model_input_height
          ImageWidth, ImageHeight,
          ConfThreshold,  \* conf_threshold
          NmsThreshold,   \* nms_threshold, in hundredths
          MaxObjNum       \* MAX_OBJ_NUM of YoloPostProcess

ASSUME DetectionsAssumption ==
  /\ {NetSize, ImageWidth, ImageHeight, MaxObjNum} \subseteq Nat \ {0}
  /\ {ConfThreshold, NmsThreshold} \subseteq Nat
  /\ ImageWidth % NetSize = 0 /\ ImageHeight % NetSize = 0 /\ ImageWidth <= ImageHeight

Stretches(plugin) == plugin \in {"vic", "rga"}

(* 1 / scale_width, and pads.left. *)
Scale(plugin) == (IF Stretches(plugin) THEN ImageWidth ELSE ImageHeight) \div NetSize
PadLeft(plugin) == IF Stretches(plugin) THEN 0 ELSE (NetSize - ImageWidth \div Scale(plugin)) \div 2

Clamp(x, low, high) == IF x < low THEN low ELSE IF x > high THEN high ELSE x

Box(cell, class, score, left, right) ==
  [cell |-> cell, class |-> class, score |-> score, left |-> left, right |-> right]

(* parseDetectNetOutput: the boxes, in the image's coordinates. *)
ParseDetectNet(plugin, cells) ==
  LET inside(x) == Clamp(x, 0, NetSize - 1)
      back(x) == (inside(x) - PadLeft(plugin)) * Scale(plugin)
      hits == {h \in (DOMAIN cells) \X {0, 1} :
                 /\ cells[h[1]].probs[h[2]] >= ConfThreshold
                 /\ inside(cells[h[1]].left) < inside(cells[h[1]].right)}
  IN {LET c == cells[h[1]]
      IN Box(h[1], h[2], c.probs[h[2]], back(c.left), back(c.right)) : h \in hits}

(* The first of the most probable classes. *)
MaxClassId(probs) ==
  CHOOSE k \in DOMAIN probs : \A j \in DOMAIN probs :
    probs[j] <= probs[k] /\ (j < k => probs[j] < probs[k])

(* doProcess: the boxes, in the network's coordinates. *)
DoProcess(cells) ==
  {LET k == MaxClassId(cells[i].probs)
   IN Box(i, k, cells[i].probs[k] * cells[i].conf, cells[i].left, cells[i].right) :
   i \in {j \in DOMAIN cells :
            /\ cells[j].conf >= ConfThreshold
            /\ cells[j].probs[MaxClassId(cells[j].probs)] > ConfThreshold}}

Candidates(plugin, cells) ==
  IF plugin \in {"vic", "resnet"} THEN ParseDetectNet(plugin, cells) ELSE DoProcess(cells)

(* Intersection over union is more than nms_threshold; YOLO counts both     *)
(* borders of a box.                                                        *)
Overlap(a, b, border) ==
  LET common == Min({a.right, b.right}) - Max({a.left, b.left}) + border
      total == (a.right - a.left + border) + (b.right - b.left + border) - common
  IN common > 0 /\ 100 * common > NmsThreshold * total

CalculateIoU(a, b) == Overlap(a, b, 0)
CalculateOverlap(a, b) == Overlap(a, b, 1)

OverlapOf(plugin, a, b) ==
  IF plugin \in {"vic", "resnet"} THEN CalculateIoU(a, b) ELSE CalculateOverlap(a, b)

(* inverseSortWithIndices and the sort of applyNMS: boxes of the same score *)
(* may come in any order.                                                   *)
Sorted(boxes) ==
  {q \in SetToSeqs(boxes) : \A i, j \in DOMAIN q : i < j => q[i].score >= q[j].score}

(* Mutant: a box that is suppressed itself suppresses others. *)
SuppressedByAll(plugin, order) ==
  {j \in DOMAIN order : \E i \in 1 .. j - 1 :
     order[i].class = order[j].class /\ OverlapOf(plugin, order[i], order[j])}

(* The boxes one after the other: one that is not suppressed itself         *)
(* suppresses those of its class behind it (applyNMS, and nms class by      *)
(* class).                                                                  *)
Suppressed(plugin, order) ==
  LET after[i \in 0 .. Len(order)] ==
        IF i = 0 THEN {}
        ELSE IF i \in after[i - 1] THEN after[i - 1]
        ELSE after[i - 1] \cup
             {j \in i + 1 .. Len(order) :
                order[i].class = order[j].class /\ OverlapOf(plugin, order[i], order[j])}
  IN after[Len(order)]

Unsuppressed(plugin, order) ==
  LET left == SetToSortSeq(DOMAIN order \ Suppressed(plugin, order), LAMBDA i, j : i < j)
  IN [k \in DOMAIN left |-> order[left[k]]]

(* runPostProcess: at most MAX_OBJ_NUM boxes, in the image's coordinates. *)
RunPostProcess(plugin, order) ==
  LET left == Unsuppressed(plugin, order)
      back(x) == Clamp(x - PadLeft(plugin), 0, NetSize) * Scale(plugin)
  IN [k \in 1 .. Min({Len(left), MaxObjNum}) |->
        [left[k] EXCEPT !.left = back(@), !.right = back(@)]]

(* The boxes a plugin may return. *)
Boxes(plugin, cells) ==
  {IF plugin \in {"vic", "resnet"} THEN Unsuppressed(plugin, order)
   ELSE RunPostProcess(plugin, order) :
     order \in Sorted(Candidates(plugin, cells))}
=============================================================================
