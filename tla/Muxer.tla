------------------------------- MODULE Muxer -------------------------------
(***************************************************************************)
(* FFmpegMuxer with one video stream: the header is written with the first *)
(* packet, time stamps are counted anew in every file, the trailer ends it.*)
(***************************************************************************)
EXTENDS Naturals, Sequences

VARIABLES
  context,        \* m_format_Ctx is there
  streams,        \* the streams of the context
  headerWritten,  \* m_header_written
  count,          \* m_stream_frames_count_map of the stream
  file            \* the file of the context: headers, packets, stamps, trailers

muxVars == <<context, streams, headerWritten, count, file>>

EmptyFile == [headers |-> 0, packets |-> <<>>, stamps |-> <<>>, trailers |-> 0]

MuxInit ==
  /\ context = FALSE /\ streams = 0 /\ headerWritten = FALSE /\ count = 0
  /\ file = EmptyFile

OpenContainerMux ==
  /\ context' = TRUE /\ streams' = 0 /\ file' = EmptyFile
  /\ UNCHANGED <<headerWritten, count>>

(* Mutant: the frames of the stream are not counted anew. *)
AddStreamCountsOn ==
  /\ streams' = streams + 1
  /\ UNCHANGED <<context, headerWritten, count, file>>

AddStream ==
  /\ streams' = streams + 1 /\ count' = 0
  /\ UNCHANGED <<context, headerWritten, file>>

(* writeStreamPacket opens the file and writes its header before the first *)
(* packet: either may fail, and the packet be refused after it, ...        *)
Headed == [file EXCEPT !.headers = IF headerWritten THEN @ ELSE @ + 1]

RefusePacket ==
  \/ UNCHANGED muxVars
  \/ /\ context /\ headerWritten' = TRUE /\ file' = Headed
     /\ UNCHANGED <<context, streams, count>>

(* ... or it is written, stamped with the number of the packets before it. *)
WriteStreamPacket(p) ==
  \/ RefusePacket
  \/ /\ context /\ headerWritten' = TRUE
     /\ file' = [Headed EXCEPT !.packets = Append(@, p), !.stamps = Append(@, count)]
     /\ count' = count + 1
     /\ UNCHANGED <<context, streams>>

(* endStreamMux writes the trailer of the file that is open, whether there *)
(* is a header or not.                                                     *)
EndStreamMux ==
  /\ context /\ file' = [file EXCEPT !.trailers = @ + 1]
  /\ headerWritten' = FALSE
  /\ UNCHANGED <<streams, count>>

CloseContainerMux == context' = FALSE
============================================================================
