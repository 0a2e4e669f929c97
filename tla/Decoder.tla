------------------------------ MODULE Decoder ------------------------------
(***************************************************************************)
(* What a caller of bsp_codec::IDecoder may rely on: frames reach the      *)
(* callback in the order of the packets decode() was given, none twice and *)
(* none before its packet; some may be lost on the way.  A frame has the   *)
(* number of its packet.                                                   *)
(***************************************************************************)
EXTENDS Naturals, Sequences

VARIABLES given,     \* the number of packets decode() has taken
          shown      \* the frames the callback got

DecInit == given = 0 /\ shown = <<>>

Decode == given' = given + 1 /\ UNCHANGED shown

Latest == IF shown = <<>> THEN 0 ELSE shown[Len(shown)]

Show == \E n \in Latest + 1 .. given : shown' = Append(shown, n) /\ UNCHANGED given

DecSpec == DecInit /\ [][Decode \/ Show]_<<given, shown>>
============================================================================
