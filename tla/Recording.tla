----------------------------- MODULE Recording -----------------------------
(***************************************************************************)
(* The two users of an IEncoder.  "encode_app": samples/bsp/video_dec_enc  *)
(* encodes a file of frames and ends with an EOS call.  "recorder": the    *)
(* Recorder of the data recorder's user interface encodes a frame whenever *)
(* the interface shows one and muxes the packets into one file for each    *)
(* recording.  Both run the encoder on a single thread of theirs; only the *)
(* device works beside it.  What they have written may then go through     *)
(* MuxApp or DemuxApp, which also run on containers of others (client is   *)
(* "none").                                                                *)
(***************************************************************************)
EXTENDS NvEncoder, RkEncoder, Remux

CONSTANTS MaxEncodes,  \* bound: calls of encode
          MaxRecords,  \* bound: recordings
          Configs,     \* what EncodeApp is asked for: width, height and format
          Containers   \* containers of others: the kinds of their streams, their packets

ASSUME RecordingAssumption ==
  /\ MaxEncodes \in Nat /\ MaxRecords \in Nat
  /\ \A s \in Containers : /\ s.layout \in Seq({"video", "audio"})
                           /\ s.packets \in Seq([stream : 0 .. Len(s.layout) - 1, n : Nat])

VARIABLES
  client,    \* "encode_app", "recorder" or "none"
  config,    \* EncodeApp's arguments
  copied,    \* history: the packets MuxApp or DemuxApp has been given
  at,        \* where the client is
  enabled,   \* m_record_enabled
  first,     \* m_muxer_first_frame
  records,   \* the number of recordings begun
  written    \* the packets EncodeApp has written to its file

clientVars == <<client, config, at, enabled, first, records, written>>
toolVars == <<tool, copied>>
recordingVars == <<encVars, muxVars, clientVars, toolVars>>

(* grabCompositeFrame: the recorder gets the widgets as one such picture. *)
RecorderConfig == [width |-> 1280, height |-> 720, format |-> "YUV420SP"]

RecordingInit ==
  /\ EncInit /\ MuxInit /\ ToolInit /\ copied = <<>>
  /\ client \in {"encode_app", "recorder", "none"}
  /\ config \in (IF client = "encode_app" THEN Configs ELSE {RecorderConfig})
  /\ at = CASE client = "encode_app" -> "setup" [] client = "recorder" -> "idle" [] OTHER -> "ended"
  /\ enabled = FALSE /\ first = TRUE /\ records = 0 /\ written = <<>>

Setup(ok) == NvSetup(ok) \/ RkSetup(ok)
TearDown == NvTearDown \/ RkTearDown
GetInputBuffer == NvGetInputBuffer \/ RkGetInputBuffer

EncoderUnchanged == UNCHANGED encVars
Goto(place) == at' = place /\ UNCHANGED <<client, config, enabled, first, records, written>>

(* EncodeApp's m_frame_size, what it copies into the input buffer; and the *)
(* size of that.                                                           *)
BitsPerPixel == [YUV420SP |-> 12, YUV422SP |-> 16, RGB888 |-> 24]
AppFrameSize == (config.width * config.height * BitsPerPixel[config.format]) \div 8
BufferSize == IF kind = "rk" THEN RkFrameSize(config) ELSE (config.width * config.height * 3) \div 2

(* EncodeApp::onInit; a failed setup is an exception. *)
AppSetup ==
  /\ at = "setup"
  /\ \E ok \in BOOLEAN :
       /\ Setup(ok) /\ (kind = "nv" /\ config.format # "YUV420SP" => ~ok)
       /\ Goto(IF ok THEN "frames" ELSE "ended")
  /\ UNCHANGED <<kind, pool, eosSent, call, given, returned, failed, muxVars>>

(* EncodeApp::onProcess: an input buffer and an encode for each frame, and *)
(* when the file ends, or there is no buffer, for the EOS.  A frame larger *)
(* than the buffer is copied all the same.                                 *)
AppEncodes ==
  /\ at = "frames" /\ given < MaxEncodes
  /\ GetInputBuffer
  /\ \/ Begin("encode") /\ Goto("coding")
     \/ AppFrameSize > BufferSize /\ Goto("crashed") /\ UNCHANGED <<call, given>>
  /\ UNCHANGED <<kind, up, device, planes, eosSent, returned, failed, muxVars>>

AppEnds ==
  /\ at = "frames"
  /\ \/ /\ GetInputBuffer /\ Begin("eos") /\ Goto("last")
        /\ UNCHANGED <<kind, up, device, planes, eosSent, returned, failed>>
     \/ NvPoolExhausted /\ Goto("ended") /\ EncoderUnchanged
  /\ UNCHANGED muxVars

AppWrites ==
  /\ at \in {"coding", "last"} /\ call.pc = "back"
  /\ written' = IF call.len = 0 THEN written ELSE Append(written, call.len)
  /\ at' = IF at = "coding" THEN "frames" ELSE "ended"
  /\ call' = At("idle")
  /\ UNCHANGED <<kind, up, device, planes, pool, eosSent, given, returned, failed,
                 muxVars, client, config, enabled, first, records>>

(* onRecordStatusChanged(true): startNewRecord. *)
StartNewRecord ==
  /\ client = "recorder" /\ at = "idle" /\ ~enabled /\ records < MaxRecords
  /\ OpenContainerMux
  /\ enabled' = TRUE /\ first' = TRUE /\ records' = records + 1
  /\ UNCHANGED <<encVars, client, config, at, written>>

(* onRecordStatusChanged(false): stopAndSaveRecord. *)
StopAndSaveRecord ==
  /\ at = "idle" /\ enabled
  /\ TearDown /\ UNCHANGED <<kind, up, pool, call, given, returned, failed>>
  /\ EndStreamMux /\ CloseContainerMux
  /\ enabled' = FALSE /\ first' = TRUE
  /\ UNCHANGED <<client, config, at, records, written>>

(* writeRecordFrame, the first of a recording: the encoder is set up, its  *)
(* result ignored, an input buffer taken and the stream added.  Without a  *)
(* buffer the conversion uses a null pointer.                              *)
FirstRecordFrame ==
  /\ at = "idle" /\ enabled /\ first /\ given + failed < MaxEncodes
  /\ \E ok \in BOOLEAN :
       /\ Setup(ok) /\ UNCHANGED <<kind, eosSent, call, given, returned, failed>>
       /\ \/ GetInputBuffer /\ at' = "convert"
          \/ /\ (kind = "rk" /\ ~ok) \/ NvPoolExhausted
             /\ at' = "crashed" /\ UNCHANGED pool
  /\ AddStream
  /\ first' = FALSE
  /\ UNCHANGED <<client, config, enabled, records, written>>

NextRecordFrame ==
  /\ at = "idle" /\ enabled /\ ~first /\ given + failed < MaxEncodes
  /\ Goto("convert") /\ UNCHANGED <<encVars, muxVars>>

(* The frame is converted into the encoder's input buffer and encoded.  It *)
(* cannot be converted into a buffer that was made before a setup had given*)
(* m_frame_size a value: such a one has no size (NvVicGraphics2D::syncBuffer).*)
ConvertAndEncode ==
  /\ at = "convert"
  /\ \/ /\ failed' = failed + 1 /\ Goto("idle")
        /\ UNCHANGED <<kind, up, device, planes, pool, eosSent, call, given, returned>>
     \/ /\ kind = "nv" => sized
        /\ Begin("encode") /\ Goto("mux")
        /\ UNCHANGED <<kind, up, device, planes, pool, eosSent, returned, failed>>
  /\ UNCHANGED muxVars

(* muxerWriteStreamPacket, whatever encode has returned: a frame without a *)
(* packet is muxed as an empty one.                                        *)
MuxPacket ==
  /\ at = "mux" /\ call.pc = "back"
  /\ WriteStreamPacket(call.len)
  /\ call' = At("idle")
  /\ Goto("idle")
  /\ UNCHANGED <<kind, up, device, planes, pool, eosSent, given, returned, failed>>

(* The application ends: ~FFmpegMuxer closes the file as it is. *)
Quit ==
  /\ client = "recorder" /\ at = "idle"
  /\ CloseContainerMux /\ UNCHANGED <<streams, headerWritten, count, file>>
  /\ Goto("ended") /\ EncoderUnchanged

(* A call that the client is in ends the program. *)
CallCrashes ==
  /\ at \in {"coding", "last", "mux"} /\ RkNoContext
  /\ Goto("crashed") /\ call' = At("idle")
  /\ UNCHANGED <<kind, up, device, planes, pool, eosSent, given, returned, failed, muxVars>>

CallGoesOn == \/ /\ NvEncode \/ NvDequeueOutput \/ NvGivesUp \/ NvEos \/ RkPutFrame
                    \/ NvCopyPacket \/ RkCopyPacket
                 /\ UNCHANGED <<muxVars, clientVars, toolVars>>
              \/ CallCrashes /\ UNCHANGED toolVars
CallFails == /\ NvDequeueFails \/ NvPacketFails \/ NvCaptureFails \/ RkGetPacketFails
             /\ UNCHANGED <<muxVars, clientVars>>
Device == Encodes /\ UNCHANGED <<muxVars, clientVars, toolVars>>

RecordSteps ==
  \/ AppSetup \/ AppEncodes \/ AppEnds \/ AppWrites
  \/ StartNewRecord \/ FirstRecordFrame \/ NextRecordFrame \/ ConvertAndEncode
  \/ MuxPacket \/ StopAndSaveRecord \/ Quit
  \/ CallGoesOn \/ CallFails \/ Device

(* MuxApp gets the file EncodeApp wrote, DemuxApp the last one of the       *)
(* recorder if it was ended, and either one a container of others.          *)
Video(packets) == [i \in DOMAIN packets |-> [stream |-> 0, n |-> packets[i]]]

StartTool ==
  /\ at = "ended" /\ tool.pc = "none"
  /\ \/ client = "encode_app" /\ Starts("mux", <<"video">>, Video(written))
     \/ /\ client = "recorder" /\ file.headers = 1 /\ file.trailers = 1
        /\ Starts("demux", <<"video">>, Video(file.packets))
     \/ /\ client = "none"
        /\ \E s \in Containers, sample \in {"mux", "demux"} : Starts(sample, s.layout, s.packets)
  /\ copied' = tool'.source
  /\ UNCHANGED muxVars

ToolSteps ==
  \/ StartTool
  \/ DemuxSteps /\ UNCHANGED <<muxVars, copied>>
  \/ MuxSteps /\ UNCHANGED copied

RecordingNext ==
  \/ RecordSteps /\ UNCHANGED toolVars
  \/ ToolSteps /\ UNCHANGED <<encVars, clientVars>>

(* A call runs on by itself, and so does the device; neither has to fail. *)
RecordingSpec ==
  RecordingInit /\ [][RecordingNext]_recordingVars
  /\ WF_recordingVars(CallGoesOn) /\ WF_recordingVars(Device)

(***************************************************************************)
(* Properties.                                                             *)
(***************************************************************************)

Codec == INSTANCE Decoder WITH shown <- returned

(* An encoder returns the packets of its frames in the order of the calls, *)
(* none twice, though calls fail, give up or lag behind by a whole output  *)
(* plane, and recordings end with frames in the device.                    *)
ImplementsCodec == Codec!DecSpec

(* A buffer of the pool is lost only with a call that failed or was for the*)
(* EOS, or with a recording of which no frame was converted.               *)
LeaksOnlyOnFailure == leaked <= failed

(* Every file has one header before its packets, time stamps that count    *)
(* from zero, at most one trailer, and nothing of an earlier recording     *)
(* (FFmpegMuxer.cpp 141-241, 262-273).                                     *)
FileFormed ==
  /\ file.headers <= 1 /\ file.trailers <= 1
  /\ file.packets # <<>> => file.headers = 1
  /\ file.stamps = [i \in DOMAIN file.packets |-> i - 1]

(* Every file is formed so.  MuxApp puts all packets of the first stream   *)
(* of its input into its file, in order, under one trailer; unless a call  *)
(* fails.  Of the files DemuxApp makes, one for each stream, that of the   *)
(* first packet of a video gets a header and a trailer; if it is that of   *)
(* stream 0, it has all packets of the stream, in order, and else nothing  *)
(* is copied.  So a recording comes back out as it was encoded             *)
(* (DemuxApp.hpp 95-123, FFmpegStreamWriter.cpp 85-122, MuxApp.hpp 62-73). *)
FilesPlayable ==
  /\ FileFormed
  /\ tool.pc = "ended" /\ tool.failed = 0 =>
       IF tool.writers = NoTool.writers
         THEN /\ Has(file.packets, copied, Len(copied))
              /\ copied # <<>> => file.trailers = 1
         ELSE \A i \in DOMAIN tool.writers :
                LET w == tool.writers[i]
                    led == LedBy(i, copied, Len(copied))
                IN /\ w.headers = (IF led THEN 1 ELSE 0) /\ w.trailers = w.headers
                   /\ IF i = 0 /\ led THEN Has(w.packets, copied, Len(copied)) ELSE w.packets = <<>>

(* encode returns, or ends the program (RkNoContext, counted as at "idle"),*)
(* however often it has timed out and in every recording,                  *)
(* as long as fewer calls to the device than it has buffers on a plane have*)
(* failed on one of them since setup; those that setup has not queued count*)
(* too.  The EOS call of nvVideoEnc may not return (nvVideoEnc.cpp 323-350,*)
(* where it asks for a buffer for ever).                                   *)
EncodeReturns ==
  (call.pc \in {"encode", "slot", "packet"})
      ~> (call.pc \in {"idle", "back"} \/ lapses >= NumBuffers)

============================================================================
