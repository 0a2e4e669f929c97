---------------------------- MODULE MCRecording ----------------------------
EXTENDS Recording

Packet(stream, n) == [stream |-> stream, n |-> n]

MCConfigs == {[width |-> 64, height |-> 36, format |-> f] : f \in {"YUV420SP", "RGB888"}}

\* A video; a video with sound, which comes first or second; two videos, either one first.
MCSources ==
  {[layout |-> <<"video">>, packets |-> <<Packet(0, 1), Packet(0, 2)>>],
   [layout |-> <<"video", "audio">>, packets |-> <<Packet(1, 1), Packet(0, 1), Packet(0, 2)>>],
   [layout |-> <<"audio", "video">>, packets |-> <<Packet(1, 1), Packet(0, 1), Packet(1, 2)>>],
   [layout |-> <<"video", "video">>, packets |-> <<Packet(0, 1), Packet(1, 1), Packet(0, 2)>>],
   [layout |-> <<"video", "video">>, packets |-> <<Packet(1, 1), Packet(0, 1)>>]}
=============================================================================
