------------------------------- MODULE Remux -------------------------------
(***************************************************************************)
(* The samples DemuxApp and MuxApp with FFmpegDemuxer, FFmpegStreamWriter  *)
(* and FFmpegStreamReader: a container is taken apart into a file for each *)
(* of its streams, or the first stream of a file is put into a container   *)
(* of the Muxer.  Both run on one thread.                                  *)
(***************************************************************************)
EXTENDS Muxer, FiniteSets

VARIABLE tool    \* the sample: where it is, its input, and what it has of it

(* The files FFmpegStreamWriter has not made, and just made. *)
NoWriter == [made |-> FALSE, headers |-> 0, packets |-> <<>>, trailers |-> 0]

NoTool == [pc |-> "none", layout |-> <<>>, source |-> <<>>, frames |-> 0,
           writers |-> [i \in {} |-> NoWriter], extradata |-> "none", failed |-> 0]

ToolInit == tool = NoTool

(* avformat_find_stream_info has the layout, the kind of each stream; the   *)
(* first is number 0.  A packet is known by its stream and its number.      *)
Streams(layout) == 0 .. Len(layout) - 1
Starts(pc, layout, source) ==
  tool' = [NoTool EXCEPT !.pc = pc, !.layout = layout, !.source = source]

Failing(t) == [t EXCEPT !.failed = @ + 1]

-----------------------------------------------------------------------------
(* DemuxApp *)

(* openContainerDemux.  The sample does not look at the result: without     *)
(* streams in containerInfo there is nothing to do.                         *)
OpenContainerDemux ==
  /\ tool.pc = "demux"
  /\ \/ tool' = [tool EXCEPT !.pc = "info"]
     \/ tool' = Failing([tool EXCEPT !.pc = "trailers", !.source = <<>>])

(* getContainerInfo, and getStreamWriter for each of the streams.  A writer *)
(* that cannot be opened is a null pointer.                                 *)
GetStreamWriters ==
  /\ tool.pc = "info"
  /\ \E made \in SUBSET Streams(tool.layout) :
       LET t == [tool EXCEPT !.pc = "read", !.writers =
                   [i \in Streams(tool.layout) |-> [NoWriter EXCEPT !.made = i \in made]]]
       IN tool' = IF made = Streams(tool.layout) THEN t ELSE Failing(t)

(* FFmpegStreamWriter::writePacket.  The file has one stream, number 0; the *)
(* packet keeps the number it had in the container, and one of another      *)
(* stream is refused.                                                       *)
WritePacket(w, p) ==
  IF p.stream = 0 /\ w.headers = 1 THEN [w EXCEPT !.packets = Append(@, p)] ELSE w

(* writeHeader, for the first video packet of the container. *)
WriteHeader(w, frames) == IF frames = 0 THEN [w EXCEPT !.headers = 1] ELSE w

(* readStreamPacket and the sample's use of it; writing may fail. *)
ReadStreamPacket ==
  /\ tool.pc = "read"
  /\ tool.source # <<>>
  /\ LET p == Head(tool.source)
         video == tool.layout[p.stream + 1] = "video"
         w == tool.writers[p.stream]
         header == WriteHeader(w, tool.frames)
         next == [tool EXCEPT !.source = Tail(@), !.frames = IF video THEN @ + 1 ELSE @]
     IN IF ~video THEN tool' = next
        ELSE IF ~w.made THEN tool' = [next EXCEPT !.pc = "crashed"]
        ELSE \/ tool' = [next EXCEPT !.writers[p.stream] = WritePacket(header, p)]
             \/ tool' = Failing([next EXCEPT !.writers[p.stream] = header])

(* The end, or an error in reading, which is taken for it. *)
EndOfInput ==
  /\ tool.pc = "read"
  /\ tool' = [IF tool.source = <<>> THEN tool ELSE Failing(tool) EXCEPT !.pc = "trailers"]

(* writeTrailer, for every writer; without a header of its own a file gets  *)
(* no trailer, where libavformat does not crash.                            *)
WriteTrailers ==
  /\ tool.pc = "trailers"
  /\ LET ws == tool.writers
         headless == \E i \in DOMAIN ws : ws[i].headers = 0
     IN \/ /\ \E i \in DOMAIN ws : ~ws[i].made \/ headless
           /\ tool' = [tool EXCEPT !.pc = "crashed"]
        \/ /\ \A i \in DOMAIN ws : ws[i].made
           /\ tool' = [tool EXCEPT !.pc = "ended", !.writers =
                         [i \in DOMAIN ws |-> [ws[i] EXCEPT !.trailers = ws[i].headers]]]

DemuxSteps ==
  OpenContainerDemux \/ GetStreamWriters \/ ReadStreamPacket \/ EndOfInput \/ WriteTrailers

-----------------------------------------------------------------------------
(* MuxApp *)

(* openContainerMux, then getStreamReader.  Without a reader addStream uses *)
(* a null pointer.                                                          *)
OpenStreamReader ==
  /\ tool.pc = "mux"
  /\ OpenContainerMux
  /\ \/ \E e \in {"none", "stream"} : tool' = [tool EXCEPT !.pc = "add", !.extradata = e]
     \/ tool' = [tool EXCEPT !.pc = "crashed"]

(* getStreamParams copies the parameters of stream 0 byte by byte, with the *)
(* address of the extradata; addStream frees them when it has copied them.  *)
AddReader ==
  /\ tool.pc = "add" /\ AddStream
  /\ tool' = [tool EXCEPT !.pc = "copy",
                          !.extradata = IF @ = "stream" THEN "freed" ELSE @]

(* readPacket and writeStreamPacket: the muxer has stream 0 only.           *)
CopyPacket ==
  /\ tool.pc = "copy" /\ tool.source # <<>>
  /\ LET p == Head(tool.source)
     IN /\ IF p.stream = 0 THEN WriteStreamPacket(p) ELSE RefusePacket
        /\ tool' = [IF p.stream = 0 /\ file'.packets = file.packets THEN Failing(tool) ELSE tool
                    EXCEPT !.source = Tail(@)]

(* readPacket fails, in the end at least: endStreamMux, which may crash     *)
(* when there is no header.                                                 *)
EndCopy ==
  /\ tool.pc = "copy"
  /\ \/ /\ EndStreamMux /\ UNCHANGED context
        /\ tool' = [IF tool.source = <<>> THEN tool ELSE Failing(tool) EXCEPT !.pc = "close"]
     \/ ~headerWritten /\ tool' = [tool EXCEPT !.pc = "crashed"] /\ UNCHANGED muxVars

(* closeStreamReader frees the extradata of its stream a second time, where *)
(* there is some; then closeContainerMux.                                   *)
CloseReader ==
  /\ tool.pc = "close"
  /\ IF tool.extradata = "freed" THEN tool' = [tool EXCEPT !.pc = "crashed"] /\ UNCHANGED context
     ELSE tool' = [tool EXCEPT !.pc = "ended"] /\ CloseContainerMux
  /\ UNCHANGED <<streams, headerWritten, count, file>>

MuxSteps == OpenStreamReader \/ AddReader \/ CopyPacket \/ EndCopy \/ CloseReader

-----------------------------------------------------------------------------
(* The places of the packets of stream 0 among the first k, and that p has  *)
(* just these packets, in their order.                                      *)
Places(packets, k) == {i \in 1 .. k : packets[i].stream = 0}

Has(p, packets, k) ==
  /\ Len(p) = Cardinality(Places(packets, k))
  /\ \A i \in Places(packets, k) : p[Cardinality(Places(packets, i))] = packets[i]

(* Among the first k packets the first of a video is one of this stream.    *)
OfVideo(p) == tool.layout[p.stream + 1] = "video"
LedBy(stream, packets, k) ==
  \E i \in 1 .. k : /\ OfVideo(packets[i]) /\ packets[i].stream = stream
                    /\ \A j \in 1 .. i - 1 : ~OfVideo(packets[j])
============================================================================
