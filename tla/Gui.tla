-------------------------------- MODULE Gui --------------------------------
(***************************************************************************)
(* The recorder's user interface: a consumer thread for each camera        *)
(* (RawCamera) and each detector (ObjectsDetection) copies a frame into    *)
(* its only buffer and emits a signal with a pointer to it, which Qt       *)
(* queues; the GUI thread copies from the pointer into a widget.           *)
(***************************************************************************)
EXTENDS Naturals, SequencesExt

CONSTANTS Layouts,     \* configurations: the cameras and detectors, in order, and the grid
          MaxSwitches  \* bound: how often the user changes the data source

ASSUME GuiAssumption ==
  /\ MaxSwitches \in Nat
  /\ \A l \in Layouts : ToSet(l.cameras) \cup ToSet(l.detectors) \subseteq
       [name : STRING, enabled : BOOLEAN, place : Seq(Nat), format : {"RGB888", "RGBA8888"}]

VARIABLES
  layout,    \* the configuration of this run
  taken,     \* for each source, the frames its thread has received
  copying,   \* for each source, its thread is writing into its buffer
  buffer,    \* the image in the buffer (or half of it, and half of the one before)
  events,    \* Qt's queue: the sources, and the frames they announced
  current,   \* m_currentDataSource
  shown,     \* for each widget, its image, whose it is, and the one announced for it
  switches   \* the changes of the data source

guiVars == <<layout, taken, copying, buffer, events, current, shown, switches>>

Names(list) == {list[i].name : i \in DOMAIN list}
Cameras == Names(layout.cameras)
Detectors == Names(layout.detectors)
Sources == Cameras \cup Detectors
Kind(s) == IF s \in Cameras THEN "RawCamera" ELSE "ObjectsDetection"
Node(s) == CHOOSE n \in ToSet(layout.cameras) \cup ToSet(layout.detectors) : n.name = s

EnabledOf(list) == SelectSeq(list, LAMBDA n : n.enabled)

(* setupVideoGrid: a grid as configured, or one just wide and high enough  *)
(* for the enabled cameras.                                                *)
Columns ==
  IF layout.grid # <<>> THEN IF layout.grid[2] > 1 THEN layout.grid[2] ELSE 1
  ELSE CHOOSE k \in 1 .. Len(layout.cameras) + 1 :
         /\ k * k >= Len(EnabledOf(layout.cameras))
         /\ \A j \in 1 .. k - 1 : j * j < Len(EnabledOf(layout.cameras))

Rows ==
  IF layout.grid # <<>> THEN IF layout.grid[1] > 1 THEN layout.grid[1] ELSE 1
  ELSE LET n == Len(EnabledOf(layout.cameras))
       IN IF n <= 1 THEN 1 ELSE (n + Columns - 1) \div Columns

Cells == (0 .. Rows - 1) \X (0 .. Columns - 1)

(* An enabled camera has the place it asks for, or the next one in order;  *)
(* an enabled detector only the place it asks for.                         *)
Place(s) ==
  LET i == CHOOSE k \in DOMAIN EnabledOf(layout.cameras) : EnabledOf(layout.cameras)[k].name = s
  IN IF s \in Detectors \/ Node(s).place # <<>> THEN Node(s).place
     ELSE <<(i - 1) \div Columns, (i - 1) % Columns>>

(* m_frameWidgetMap: those of them whose place is in the grid. *)
frameWidgetMap ==
  [s \in {n \in Sources : Node(n).enabled /\ Place(n) \in Cells} |-> Place(s)]

(* A source that has no widget of its own goes to the first. *)
Widget(s) == IF s \in DOMAIN frameWidgetMap THEN frameWidgetMap[s] ELSE <<0, 0>>

Black == [source |-> "none", image |-> 0, torn |-> FALSE, announced |-> 0, format |-> "none"]

GuiInit ==
  /\ layout \in Layouts
  /\ taken = [s \in Sources |-> 0] /\ copying = [s \in Sources |-> FALSE]
  /\ buffer = [s \in Sources |-> 0] /\ events = <<>> /\ current = "RawCamera"
  /\ shown = [c \in Cells |-> Black] /\ switches = 0

(* A consumer loop receives a message and begins to copy the frame (which  *)
(* it then draws the boxes on).                                            *)
BeginCopy(s) ==
  /\ ~copying[s] /\ taken' = [taken EXCEPT ![s] = @ + 1]
  /\ copying' = [copying EXCEPT ![s] = TRUE]
  /\ UNCHANGED <<layout, buffer, events, current, shown, switches>>

EndCopyAndEmit(s) ==
  /\ copying[s] /\ copying' = [copying EXCEPT ![s] = FALSE]
  /\ buffer' = [buffer EXCEPT ![s] = taken[s]]
  /\ events' = Append(events, [source |-> s, frame |-> taken[s]])
  /\ UNCHANGED <<layout, taken, current, shown, switches>>

(* setFrame: the widget copies what is in the buffer now.  Its image has   *)
(* the format of the first frame since it was cleared (frames have one     *)
(* size).                                                                  *)
setFrame(e) ==
  [shown EXCEPT ![Widget(e.source)] =
     [source |-> e.source, image |-> buffer[e.source], torn |-> copying[e.source],
      announced |-> e.frame,
      format |-> IF @.format = "none" THEN Node(e.source).format ELSE @.format]]

(* onRawCameraFrameUpdated, onObjectsDetectionFrameUpdated: the frame goes *)
(* to its widget, if it is of the data source that is current now.         *)
OnFrameUpdated ==
  /\ events # <<>> /\ events' = Tail(events)
  /\ shown' = IF Kind(Head(events).source) = current THEN setFrame(Head(events)) ELSE shown
  /\ UNCHANGED <<layout, taken, copying, buffer, current, switches>>

(* Mutant: the widgets become black, their images stay allocated. *)
OnDataSourceChangedKeeps ==
  /\ switches < MaxSwitches /\ switches' = switches + 1
  /\ current' \in {"RawCamera", "ObjectsDetection"} \ {current}
  /\ shown' = [c \in Cells |-> [Black EXCEPT !.format = shown[c].format]]
  /\ UNCHANGED <<layout, taken, copying, buffer, events>>

OnDataSourceChanged ==
  /\ switches < MaxSwitches /\ switches' = switches + 1
  /\ current' \in {"RawCamera", "ObjectsDetection"} \ {current}
  /\ shown' = [c \in Cells |-> Black]
  /\ UNCHANGED <<layout, taken, copying, buffer, events>>
=============================================================================
