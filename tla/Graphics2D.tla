----------------------------- MODULE Graphics2D -----------------------------
(***************************************************************************)
(* IGraphics2D with its two platforms, as the outcomes a call may have.    *)
(* nvvic ("nv") copies an image into a surface of its own and back out of  *)
(* it, and finds the surface of a buffer by the buffer's address; rkrga    *)
(* ("rk") works on the memory of the caller.  An image is what it shows: a *)
(* frame, and the frame whose boxes are drawn on it (0: none).             *)
(***************************************************************************)
EXTENDS Integers

Image(frame, boxes) == [frame |-> frame, boxes |-> boxes]
Torn == Image(0, 0)    \* half written, or never

(* The surfaces of m_bufferMap: those of buffers in use, and those whose    *)
(* buffer is gone; and the surfaces that are in no map any more.            *)
NoSurfaces == [live |-> 0, orphans |-> 0, lost |-> 0]

(* The entry of a new buffer, which may have the address of one that is     *)
(* gone: the orphan's surface is then overwritten.                          *)
Entered(map) ==
  {map} \cup (IF map.orphans = 0 THEN {}
              ELSE {[map EXCEPT !.orphans = @ - 1, !.lost = @ + 1]})

(* copyHostToNvBufSurface and copyNvBufSurfaceToHost go plane after plane,  *)
(* and stop when one cannot be mapped.                                      *)
CopyToSurface(host) == {[ret |-> 0, content |-> host], [ret |-> -1, content |-> Torn]}
CopyToHost(content, host) ==
  {[ret |-> 0, content |-> content]} \cup {[ret |-> -1, content |-> c] : c \in {host, Torn}}

(* createBuffer of nvvic.  The surface cannot be allocated, or it has       *)
(* entered the map when it cannot be filled.                                *)
NvCreateBuffer(host, map) ==
  {[made |-> FALSE, content |-> Torn, map |-> map]} \cup
  {IF c.ret = 0
     THEN [made |-> TRUE, content |-> c.content, map |-> [m EXCEPT !.live = @ + 1]]
     ELSE [made |-> FALSE, content |-> Torn, map |-> [m EXCEPT !.orphans = @ + 1]] :
   c \in CopyToSurface(host), m \in Entered(map)}

(* createBuffer of rkrga wraps what it is given. *)
RgaCreateBuffer(host, map) == {[made |-> TRUE, content |-> host, map |-> map]}

CreateBuffer(platform, host, map) ==
  IF platform = "nv" THEN NvCreateBuffer(host, map) ELSE RgaCreateBuffer(host, map)

(* releaseBuffer of nvvic, for each buffer that was made; for rkrga there   *)
(* is nothing to do.                                                        *)
ReleaseBuffer(platform, buffer, map) ==
  IF platform = "nv" /\ buffer.made THEN [map EXCEPT !.live = @ - 1] ELSE map

(* ~NvVicGraphics2D destroys what is in the map. *)
DestroySurfaces(map) == [map EXCEPT !.live = 0, !.orphans = 0]

(* syncBuffer(DeviceToCpu). *)
SyncBuffer(platform, content, host) ==
  IF platform = "nv" THEN CopyToHost(content, host) ELSE {[ret |-> 0, content |-> content]}

(* imageResize and imageCvtColor of nvvic with performTransform: what is in *)
(* dst afterwards.                                                          *)
NvResize(src, dst) == {[ret |-> 0, content |-> src], [ret |-> -1, content |-> dst]}
NvCvtColor(src, dst) == NvResize(src, dst)

(* Those of rkrga write to the host's memory, and may fail on the way. *)
RgaResize(src, dst) ==
  {[ret |-> 0, content |-> src]} \cup {[ret |-> -1, content |-> c] : c \in {dst, Torn}}
RgaCvtColor(src, dst) == RgaResize(src, dst)

Resize(platform, src, dst) == IF platform = "nv" THEN NvResize(src, dst) ELSE RgaResize(src, dst)
CvtColor(platform, src, dst) ==
  IF platform = "nv" THEN NvCvtColor(src, dst) ELSE RgaCvtColor(src, dst)

(* Mutant: the source is not released. *)
ReleaseDestination(platform, src, dst, map) == ReleaseBuffer(platform, dst, map)
ReleaseBoth(platform, src, dst, map) ==
  ReleaseBuffer(platform, src, ReleaseBuffer(platform, dst, map))

(* Both buffers are made, one is changed into the other, that is copied to  *)
(* the host, and what was made is released.  faults counts the calls that   *)
(* failed.                                                                  *)
End(platform, in, out, ret, shown, faults) ==
  [ret |-> ret, host |-> shown, faults |-> faults,
   map |-> ReleaseBoth(platform, in, out, out.map)]

Copied(platform, in, out, content, host) ==
  {End(platform, in, out, s.ret, s.content, -s.ret) : s \in SyncBuffer(platform, content, host)}

Ending(platform, in, out, host, Change(_, _, _)) ==
  IF ~in.made \/ ~out.made
    THEN {End(platform, in, out, -1, host, IF in.made \/ out.made THEN 1 ELSE 2)}
  ELSE UNION {IF c.ret = 0 THEN Copied(platform, in, out, c.content, host)
              ELSE {End(platform, in, out, -1, IF platform = "nv" THEN host ELSE c.content, 1)} :
              c \in Change(platform, in.content, out.content)}

ToHost(platform, src, host, map, Change(_, _, _)) ==
  UNION {UNION {Ending(platform, in, out, host, Change) :
                out \in CreateBuffer(platform, host, in.map)} :
         in \in CreateBuffer(platform, src, map)}

(* g2dResizeToHost and imageCvtColorToHost. *)
ResizeToHost(platform, src, host, map) == ToHost(platform, src, host, map, Resize)
CvtColorToHost(platform, src, host, map) == ToHost(platform, src, host, map, CvtColor)
=============================================================================
