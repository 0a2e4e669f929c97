----------------------------- MODULE VideoProofs -----------------------------
(***************************************************************************)
(* Both decoders implement module Decoder, for any number of buffers,      *)
(* packets, failing calls and changes of the resolution: a frame that      *)
(* reaches the callback is that of a packet given before, and later than   *)
(* all shown before it.                                                    *)
(*                                                                         *)
(* The invariant orders what is on its way, in a chain of three queues.    *)
(* In nvVideoDec a packet goes through m_packet_queue, the input and the   *)
(* output of the device and the capture thread; in rkmppDec it waits in    *)
(* decode() and goes through MPP's input and output.  Each queue holds     *)
(* rising numbers, higher than those of the next one.  Empty buffers and   *)
(* info changes, number 0, stand anywhere in between, and packets lost by  *)
(* failing calls leave gaps.                                               *)
(*                                                                         *)
(* The samples that detect objects in the decoded frames lose none of      *)
(* them, draw each one's own boxes and keep no surface, whatever the       *)
(* network sees and whichever calls fail (second half, from Images on).    *)
(***************************************************************************)
EXTENDS Decoders, VideoDetect, SequenceTheorems, FiniteSetTheorems, TLAPS

\* All of these packets are before all of those.
Before(A, B) == \A a \in A : \A b \in B : a < b

\* Three queues in order between the last number that left them and the
\* highest that entered.
Chain(last, o, i, q, top) ==
    /\ o \in Seq(Nat) /\ i \in Seq(Nat) /\ q \in Seq(Nat)
    /\ last \in Nat /\ top \in Nat /\ last <= top
    /\ Rising(o) /\ Rising(i) /\ Rising(q)
    /\ Before({last}, Numbers(o)) /\ Before({last}, Numbers(i)) /\ Before({last}, Numbers(q))
    /\ Before(Numbers(o), Numbers(i)) /\ Before(Numbers(o), Numbers(q))
    /\ Before(Numbers(i), Numbers(q))
    /\ Before(Numbers(o), {top + 1}) /\ Before(Numbers(i), {top + 1})
    /\ Before(Numbers(q), {top + 1})

\* The last packet the callback got.
Latest == Promise!Latest

\* The last packet that left the queues of nvVideoDec.
Left == IF capture.pc = "show" THEN capture.frame ELSE Latest

CapturePcs == {"none", "event", "loop", "dq", "show", "end"}
Events == {"none", "sent", "set up"}

Captures == [pc : CapturePcs, frame : Nat]
Devices == [free : Int, input : Seq(Nat), event : Events, changes : Nat,
            output : Seq(Nat)]

NvTypeOK == capture \in Captures /\ device \in Devices

NvInv == /\ NvTypeOK
         /\ Chain(Left, device.output, device.input, m_packet_queue, given)
         /\ Latest <= Left
         /\ capture.pc = "show" => Latest < Left

MppFrames == [n : Nat, eos : BOOLEAN]
Pictures == [n : Nat \ {0}, eos : BOOLEAN]
Outputs == Pictures \cup {Rk!Info}

Mpps == [input : Seq(Pictures), info : {"none", "sent", "ready"}, changes : Nat,
         output : Seq(Outputs)]
Calls == [eos : BOOLEAN, done : BOOLEAN, frm_eos : BOOLEAN, ok : BOOLEAN]

RkTypeOK == pc \in {"idle", "put", "get", "out"} /\ call \in Calls /\ mpp \in Mpps

\* The packet decode() has not put into MPP yet.
Waiting == IF pc # "idle" /\ ~call.done THEN <<given>> ELSE <<>>

RkInv == /\ RkTypeOK
         /\ pc # "idle" => given > 0
         /\ Chain(Latest, Frames(mpp.output), Frames(mpp.input), Waiting, given)

IInv == /\ backend \in {"nvdec", "rkmpp"}
        /\ given \in Nat /\ shown \in Seq(Nat) /\ Latest \in Nat
        /\ backend = "nvdec" => NvInv
        /\ backend = "rkmpp" => RkInv

-------------------------------------------------------------------------------
(* Queues of numbers *)

\* Nothing is out of order in an empty queue.
LEMMA EmptyRises == <<>> \in Seq(Nat) /\ Rising(<<>>) /\ Numbers(<<>>) = {}
  BY DEF Rising, Numbers

\* What leaves a queue is lower than the rest.
LEMMA TailRises ==
  ASSUME NEW q \in Seq(Nat), q # <<>>, Rising(q)
  PROVE  /\ Tail(q) \in Seq(Nat) /\ Head(q) \in Nat
         /\ Rising(Tail(q))
         /\ Numbers(Tail(q)) \subseteq Numbers(q)
         /\ Head(q) # 0 => Head(q) \in Numbers(q) /\ Before({Head(q)}, Numbers(Tail(q)))
<1>1. /\ Tail(q) \in Seq(Nat) /\ Head(q) \in Nat /\ Head(q) = q[1] /\ 1 \in DOMAIN q
      /\ DOMAIN q = 1 .. Len(q) /\ Len(q) \in Nat /\ DOMAIN Tail(q) = 1 .. Len(q) - 1
  OBVIOUS
<1>2. \A i \in DOMAIN Tail(q) : Tail(q)[i] = q[i + 1] /\ i + 1 \in DOMAIN q /\ i \in Nat
  BY <1>1
<1>3. Rising(Tail(q))
  BY <1>2 DEF Rising
<1>4. Numbers(Tail(q)) \subseteq Numbers(q)
  BY <1>2 DEF Numbers
<1>5. ASSUME Head(q) # 0
      PROVE  Head(q) \in Numbers(q) /\ Before({Head(q)}, Numbers(Tail(q)))
  <2>1. Head(q) \in Numbers(q)
    BY <1>1, <1>5 DEF Numbers
  <2>2. ASSUME NEW i \in DOMAIN Tail(q), Tail(q)[i] # 0
        PROVE  Head(q) < Tail(q)[i]
    <3>1. i + 1 \in DOMAIN q /\ 1 < i + 1 /\ Tail(q)[i] = q[i + 1]
      BY <1>1, <1>2
    <3> QED
      BY <3>1, <2>2, <1>1, <1>5 DEF Rising
  <2> QED
    BY <2>1, <2>2 DEF Before, Numbers
<1> QED
  BY <1>1, <1>3, <1>4, <1>5

\* A higher number, or none, at the end keeps a queue in order.
LEMMA AppendRises ==
  ASSUME NEW q \in Seq(Nat), NEW x \in Nat, Rising(q),
         x # 0 => Before(Numbers(q), {x})
  PROVE  /\ Append(q, x) \in Seq(Nat)
         /\ Rising(Append(q, x))
         /\ Numbers(Append(q, x)) \subseteq Numbers(q) \cup ({x} \ {0})
<1>1. /\ Append(q, x) \in Seq(Nat) /\ Len(q) \in Nat /\ DOMAIN q = 1 .. Len(q)
      /\ DOMAIN Append(q, x) = 1 .. Len(q) + 1 /\ Append(q, x)[Len(q) + 1] = x
      /\ \A i \in 1 .. Len(q) : Append(q, x)[i] = q[i]
  OBVIOUS
<1>2. Numbers(Append(q, x)) \subseteq Numbers(q) \cup ({x} \ {0})
  BY <1>1 DEF Numbers
<1>3. ASSUME NEW i \in DOMAIN Append(q, x), NEW j \in DOMAIN Append(q, x), i < j,
             Append(q, x)[i] # 0, Append(q, x)[j] # 0
      PROVE  Append(q, x)[i] < Append(q, x)[j]
  <2>1. i \in DOMAIN q /\ Append(q, x)[i] = q[i]
    BY <1>1, <1>3
  <2>2. CASE j \in DOMAIN q
    BY <2>1, <2>2, <1>1, <1>3 DEF Rising
  <2>3. CASE j \notin DOMAIN q
    <3>1. Append(q, x)[j] = x
      BY <2>3, <1>1
    <3>2. q[i] \in Numbers(q)
      BY <2>1, <1>3 DEF Numbers
    <3> QED
      BY <3>1, <3>2, <2>1, <1>3 DEF Before
  <2> QED
    BY <2>2, <2>3
<1>4. Rising(Append(q, x))
  BY <1>3 DEF Rising
<1> QED
  BY <1>1, <1>2, <1>4

-------------------------------------------------------------------------------
(* The chain of queues *)

\* A new packet, or a mark, enters at the end.
LEMMA ChainTakes ==
  ASSUME NEW last, NEW o, NEW i, NEW q, NEW top, NEW x \in Nat, NEW new \in Nat,
         Chain(last, o, i, q, top), top <= new, x = 0 \/ (top < x /\ x <= new)
  PROVE  Chain(last, o, i, Append(q, x), new)
<1>0. \A s \in Seq(Nat) : Numbers(s) \subseteq Nat
  BY DEF Numbers
<1>1. x # 0 => Before(Numbers(q), {x})
  BY <1>0 DEF Chain, Before
<1>2. /\ Append(q, x) \in Seq(Nat) /\ Rising(Append(q, x))
      /\ Numbers(Append(q, x)) \subseteq Numbers(q) \cup ({x} \ {0})
  BY <1>1, AppendRises DEF Chain
<1> QED
  BY <1>0, <1>2 DEF Chain, Before

\* The oldest packet of the first queue goes on to the second, or is lost.
LEMMA ChainFeeds ==
  ASSUME NEW last, NEW o, NEW i, NEW q, NEW top,
         Chain(last, o, i, q, top), q # <<>>
  PROVE  /\ Chain(last, o, Append(i, Head(q)), Tail(q), top)
         /\ Chain(last, o, i, Tail(q), top)
<1>1. /\ Tail(q) \in Seq(Nat) /\ Head(q) \in Nat /\ Rising(Tail(q))
      /\ Numbers(Tail(q)) \subseteq Numbers(q)
      /\ Head(q) # 0 => Head(q) \in Numbers(q) /\ Before({Head(q)}, Numbers(Tail(q)))
  BY TailRises DEF Chain
<1>2. Head(q) # 0 => Before(Numbers(i), {Head(q)})
  BY <1>1 DEF Chain, Before
<1>3. /\ Append(i, Head(q)) \in Seq(Nat) /\ Rising(Append(i, Head(q)))
      /\ Numbers(Append(i, Head(q))) \subseteq Numbers(i) \cup ({Head(q)} \ {0})
  BY <1>1, <1>2, AppendRises DEF Chain
<1> QED
  BY <1>1, <1>3 DEF Chain, Before

\* The oldest packet of the second queue goes on to the third, or is lost.
LEMMA ChainDecodes ==
  ASSUME NEW last, NEW o, NEW i, NEW q, NEW top,
         Chain(last, o, i, q, top), i # <<>>
  PROVE  /\ Chain(last, Append(o, Head(i)), Tail(i), q, top)
         /\ Chain(last, o, Tail(i), q, top)
<1>1. /\ Tail(i) \in Seq(Nat) /\ Head(i) \in Nat /\ Rising(Tail(i))
      /\ Numbers(Tail(i)) \subseteq Numbers(i)
      /\ Head(i) # 0 => Head(i) \in Numbers(i) /\ Before({Head(i)}, Numbers(Tail(i)))
  BY TailRises DEF Chain
<1>2. Head(i) # 0 => Before(Numbers(o), {Head(i)})
  BY <1>1 DEF Chain, Before
<1>3. /\ Append(o, Head(i)) \in Seq(Nat) /\ Rising(Append(o, Head(i)))
      /\ Numbers(Append(o, Head(i))) \subseteq Numbers(o) \cup ({Head(i)} \ {0})
  BY <1>1, <1>2, AppendRises DEF Chain
<1> QED
  BY <1>1, <1>3 DEF Chain, Before

\* The oldest frame leaves the third queue.
LEMMA ChainGives ==
  ASSUME NEW last, NEW o, NEW i, NEW q, NEW top,
         Chain(last, o, i, q, top), o # <<>>
  PROVE  /\ Chain(last, Tail(o), i, q, top)
         /\ Head(o) \in Nat
         /\ Head(o) # 0 => /\ Chain(Head(o), Tail(o), i, q, top)
                           /\ last < Head(o) /\ Head(o) <= top
<1>1. /\ Tail(o) \in Seq(Nat) /\ Head(o) \in Nat /\ Rising(Tail(o))
      /\ Numbers(Tail(o)) \subseteq Numbers(o)
      /\ Head(o) # 0 => Head(o) \in Numbers(o) /\ Before({Head(o)}, Numbers(Tail(o)))
  BY TailRises DEF Chain
<1>2. Chain(last, Tail(o), i, q, top)
  BY <1>1 DEF Chain, Before
<1>3. ASSUME Head(o) # 0
      PROVE  last < Head(o) /\ Head(o) <= top
  BY <1>1, <1>3 DEF Chain, Before
<1>4. ASSUME Head(o) # 0
      PROVE  Chain(Head(o), Tail(o), i, q, top)
  BY <1>1, <1>3, <1>4 DEF Chain, Before
<1> QED
  BY <1>1, <1>2, <1>3, <1>4

\* An empty buffer, or an info change, has no place in the order.
LEMMA ChainMarks ==
  ASSUME NEW last, NEW o, NEW i, NEW q, NEW top, Chain(last, o, i, q, top)
  PROVE  Chain(last, o, Append(i, 0), q, top) /\ Chain(last, Append(o, 0), i, q, top)
<1>1. /\ Append(i, 0) \in Seq(Nat) /\ Rising(Append(i, 0))
      /\ Numbers(Append(i, 0)) \subseteq Numbers(i)
  BY AppendRises DEF Chain
<1>2. /\ Append(o, 0) \in Seq(Nat) /\ Rising(Append(o, 0))
      /\ Numbers(Append(o, 0)) \subseteq Numbers(o)
  BY AppendRises DEF Chain
<1> QED
  BY <1>1, <1>2 DEF Chain, Before

\* Queues may be emptied.
LEMMA ChainShrinks ==
  ASSUME NEW last, NEW o, NEW i, NEW q, NEW top, Chain(last, o, i, q, top)
  PROVE  Chain(last, <<>>, <<>>, q, top) /\ Chain(last, o, i, <<>>, top)
  BY EmptyRises DEF Chain, Before

\* The last number may be forgotten.
LEMMA ChainLowers ==
  ASSUME NEW last, NEW o, NEW i, NEW q, NEW top, Chain(last, o, i, q, top),
         NEW lower \in Nat, lower <= last
  PROVE  Chain(lower, o, i, q, top)
<1>1. \A s \in Seq(Nat) : Numbers(s) \subseteq Nat
  BY DEF Numbers
<1> QED
  BY <1>1 DEF Chain, Before

\* The chain at the start.
LEMMA ChainEmpty == Chain(0, <<>>, <<>>, <<>>, 0)
  BY EmptyRises DEF Chain, Before

-------------------------------------------------------------------------------
(* The frames of rkmppDec, and the last one shown *)

\* The numbers of a queue of frames move with the frames.
LEMMA FramesMove ==
  ASSUME NEW s \in Seq(MppFrames)
  PROVE  /\ Frames(s) \in Seq(Nat)
         /\ s = <<>> <=> Frames(s) = <<>>
         /\ s # <<>> => /\ Head(s) \in MppFrames /\ Tail(s) \in Seq(MppFrames)
                        /\ Head(Frames(s)) = Head(s).n
                        /\ Tail(Frames(s)) = Frames(Tail(s))
         /\ \A f \in MppFrames : /\ Append(s, f) \in Seq(MppFrames)
                                 /\ Frames(Append(s, f)) = Append(Frames(s), f.n)
<1>1. /\ Len(s) \in Nat /\ DOMAIN s = 1 .. Len(s) /\ \A i \in DOMAIN s : s[i].n \in Nat
  <2>1. Len(s) \in Nat /\ DOMAIN s = 1 .. Len(s)
    OBVIOUS
  <2>2. ASSUME NEW i \in DOMAIN s
        PROVE  s[i].n \in Nat
    <3>1. s[i] \in MppFrames
      BY <2>1
    <3> QED
      BY <3>1 DEF MppFrames
  <2> QED
    BY <2>1, <2>2
<1>2. Frames(s) = [i \in 1 .. Len(s) |-> s[i].n]
  BY <1>1 DEF Frames
<1>3. Frames(s) \in Seq(Nat) /\ Len(Frames(s)) = Len(s) /\ DOMAIN Frames(s) = 1 .. Len(s)
  BY <1>1, <1>2
<1>4. s = <<>> <=> Frames(s) = <<>>
  BY <1>3
<1>5. ASSUME s # <<>>
      PROVE  /\ Head(s) \in MppFrames /\ Tail(s) \in Seq(MppFrames)
             /\ Head(Frames(s)) = Head(s).n
             /\ Tail(Frames(s)) = Frames(Tail(s))
  <2>1. /\ Head(s) \in MppFrames /\ Tail(s) \in Seq(MppFrames) /\ Len(s) > 0
        /\ Len(Tail(s)) = Len(s) - 1 /\ \A i \in 1 .. Len(s) - 1 : Tail(s)[i] = s[i + 1]
    BY <1>5
  <2>2. Head(Frames(s)) = Head(s).n
    BY <1>2, <1>3, <2>1
  <2>3. /\ Tail(Frames(s)) \in Seq(Nat) /\ Len(Tail(Frames(s))) = Len(s) - 1
        /\ \A i \in 1 .. Len(s) - 1 : Tail(Frames(s))[i] = s[i + 1].n
    BY <1>2, <1>3, <2>1
  <2>4. Frames(Tail(s)) = [i \in 1 .. Len(s) - 1 |-> s[i + 1].n]
    BY <2>1 DEF Frames
  <2>5. Tail(Frames(s)) = [i \in 1 .. Len(s) - 1 |-> s[i + 1].n]
    <3>1. ASSUME NEW t \in Seq(Nat)
          PROVE  t = [i \in 1 .. Len(t) |-> t[i]]
      OBVIOUS
    <3>2. Tail(Frames(s)) = [i \in 1 .. Len(s) - 1 |-> Tail(Frames(s))[i]]
      BY <2>3, <3>1
    <3> QED
      BY <2>3, <3>2
  <2> QED
    BY <2>1, <2>2, <2>4, <2>5
<1>6. ASSUME NEW f \in MppFrames
      PROVE  Append(s, f) \in Seq(MppFrames) /\ Frames(Append(s, f)) = Append(Frames(s), f.n)
  <2>1. /\ Append(s, f) \in Seq(MppFrames) /\ Len(Append(s, f)) = Len(s) + 1
        /\ \A i \in 1 .. Len(s) + 1 : Append(s, f)[i] = IF i = Len(s) + 1 THEN f ELSE s[i]
    BY <1>1
  <2>2. f.n \in Nat
    BY DEF MppFrames
  <2>3. /\ Append(Frames(s), f.n) \in Seq(Nat) /\ Len(Append(Frames(s), f.n)) = Len(s) + 1
        /\ \A i \in 1 .. Len(s) + 1 :
              Append(Frames(s), f.n)[i] = IF i = Len(s) + 1 THEN f.n ELSE s[i].n
    BY <1>2, <1>3, <2>2
  <2>4. Frames(Append(s, f)) = [i \in 1 .. Len(s) + 1 |-> IF i = Len(s) + 1 THEN f.n ELSE s[i].n]
    <3>1. DOMAIN Append(s, f) = 1 .. Len(s) + 1
      BY <2>1
    <3>2. \A i \in 1 .. Len(s) + 1 :
             Append(s, f)[i].n = IF i = Len(s) + 1 THEN f.n ELSE s[i].n
      BY <2>1
    <3> QED
      BY <3>1, <3>2 DEF Frames
  <2>5. Append(Frames(s), f.n)
          = [i \in 1 .. Len(s) + 1 |-> IF i = Len(s) + 1 THEN f.n ELSE s[i].n]
    BY <2>3
  <2> QED
    BY <2>1, <2>4, <2>5
<1> QED
  BY <1>3, <1>4, <1>5, <1>6

\* Latest is the last frame in the list.
LEMMA LatestAppended ==
  ASSUME shown \in Seq(Nat), NEW n \in Nat, shown' = Append(shown, n)
  PROVE  shown' \in Seq(Nat) /\ Latest' = n
  BY DEF Latest, Promise!Latest
\* When nothing is shown, the last frame shown is the same.
LEMMA LatestKept == ASSUME UNCHANGED shown PROVE Latest' = Latest
  BY DEF Latest, Promise!Latest

-------------------------------------------------------------------------------
(* nvVideoDec *)

\* What module Decoder allows a step to do.
Promised == [Promise!Decode \/ Promise!Show]_<<given, shown>>

\* A step that shows nothing and leaves the queues in order keeps the invariant,
\* even if it loses the frame the capture thread has.
LEMMA NvQueues ==
  ASSUME IInv, backend = "nvdec", UNCHANGED <<backend, given, shown>>,
         NvTypeOK', capture' = capture \/ capture'.pc # "show",
         Chain(Left, device'.output, device'.input, m_packet_queue', given)
  PROVE  IInv' /\ Promised
<1>1. Latest' = Latest
  BY LatestKept
<1>2. /\ Latest \in Nat /\ Left \in Nat /\ Latest <= Left
      /\ capture.pc = "show" => Latest < Left
  BY DEF IInv, NvInv, Chain
<1>3. CASE capture' = capture
  <2>1. Left' = Left
    BY <1>1, <1>3 DEF Left
  <2> QED
    BY <1>1, <1>2, <1>3, <2>1 DEF IInv, NvInv, Promised
<1>4. CASE capture'.pc # "show"
  <2>1. Left' = Latest
    BY <1>1, <1>4 DEF Left
  <2>2. Chain(Latest, device'.output, device'.input, m_packet_queue', given)
    BY <1>2, ChainLowers
  <2> QED
    BY <1>1, <1>2, <1>4, <2>1, <2>2 DEF IInv, NvInv, Promised
<1> QED
  BY <1>3, <1>4

\* What becomes of the device's record.
LEMMA DeviceChanges ==
  ASSUME NEW d \in Devices, NEW f \in Int, NEW c \in Nat,
         NEW s \in Seq(Nat), NEW t \in Seq(Nat)
  PROVE  /\ [d EXCEPT !.free = f] \in Devices
         /\ [d EXCEPT !.input = s] \in Devices
         /\ [d EXCEPT !.event = "sent"] \in Devices
         /\ [d EXCEPT !.event = "sent", !.changes = c] \in Devices
         /\ [d EXCEPT !.input = s, !.free = f] \in Devices
         /\ [d EXCEPT !.input = s, !.free = f, !.output = t] \in Devices
         /\ [d EXCEPT !.input = s, !.output = t, !.free = f] \in Devices
  BY EmptyRises DEF Devices, Events

\* The fields of the device's record.
LEMMA DeviceFields ==
  ASSUME NvTypeOK
  PROVE  /\ device.free \in Int /\ device.changes \in Nat
         /\ device.free - 1 \in Int /\ device.free + 1 \in Int /\ device.changes + 1 \in Nat
         /\ device.input \in Seq(Nat) /\ device.output \in Seq(Nat)
         /\ Append(device.input, 0) \in Seq(Nat)
  BY DEF NvTypeOK, Devices

\* The capture thread with a frame.
LEMMA CaptureChanges ==
  ASSUME NEW p \in CapturePcs, NEW n \in Nat
  PROVE  [pc |-> p, frame |-> n] \in Captures
  BY DEF Captures

\* The client.
LEMMA NvClientStep ==
  ASSUME IInv, backend = "nvdec", UNCHANGED backend, Nv!Client
  PROVE  IInv' /\ Promised
<1>0. /\ NvTypeOK /\ given \in Nat
      /\ Chain(Left, device.output, device.input, m_packet_queue, given)
  BY DEF IInv, NvInv
<1>1. CASE Nv!Setup
  BY <1>0, <1>1, NvQueues DEF Nv!Setup, Nv!threads, NvTypeOK
<1>2. ASSUME NEW eos \in BOOLEAN, Nv!Decode(eos)
      PROVE  IInv' /\ Promised
  <2> DEFINE p == IF eos THEN 0 ELSE given + 1
  <2>1. /\ UNCHANGED <<shown, device>> /\ given' = given + 1
        /\ m_packet_queue' = Append(m_packet_queue, p)
    BY <1>2 DEF Nv!Decode, Nv!Eos
  <2>2. capture' = capture \/ capture' = [pc |-> "event", frame |-> 0]
    BY <1>2 DEF Nv!Decode, Nv!StartDecoding, Nv!threads
  <2>3. Chain(Left, device.output, device.input, m_packet_queue', given')
    BY <1>0, <2>1, ChainTakes
  <2>4. /\ Latest' = Latest /\ Latest \in Nat /\ Left \in Nat /\ Latest <= Left
        /\ capture.pc = "show" => Latest < Left
    BY <2>1, LatestKept DEF IInv, NvInv, Chain
  <2>5. NvTypeOK'
    BY <1>0, <2>1, <2>2, CaptureChanges DEF NvTypeOK, CapturePcs
  <2>6. NvInv'
    <3>1. CASE capture' = capture
      <4>1. Left' = Left
        BY <2>4, <3>1 DEF Left
      <4> QED
        BY <2>1, <2>3, <2>4, <2>5, <3>1, <4>1 DEF NvInv
    <3>2. CASE capture' = [pc |-> "event", frame |-> 0]
      <4>1. Left' = Latest /\ capture'.pc # "show"
        BY <2>4, <3>2 DEF Left
      <4>2. Chain(Latest, device.output, device.input, m_packet_queue', given')
        BY <2>3, <2>4, ChainLowers
      <4> QED
        BY <2>1, <2>4, <2>5, <4>1, <4>2 DEF NvInv
    <3> QED
      BY <2>2, <3>1, <3>2
  <2>7. Promised
    BY <2>1 DEF Promised, Promise!Decode
  <2> QED
    BY <1>0, <2>1, <2>4, <2>6, <2>7 DEF IInv
<1>3. CASE Nv!Stop
  BY <1>0, <1>3, NvQueues DEF Nv!Stop, Nv!threads, NvTypeOK
<1>4. CASE Nv!JoinThreads
  <2>1. /\ UNCHANGED <<given, shown, capture, device>>
        /\ m_packet_queue' = m_packet_queue \/ m_packet_queue' = <<>>
    BY <1>4 DEF Nv!JoinThreads, Nv!threads
  <2>2. Chain(Left, device.output, device.input, m_packet_queue', given)
    BY <1>0, <2>1, ChainShrinks
  <2> QED
    BY <1>0, <2>1, <2>2, NvQueues DEF NvTypeOK
<1>5. CASE Nv!Destroy
  <2>1. /\ UNCHANGED <<given, shown, capture, m_packet_queue>>
        /\ device' = [device EXCEPT !.input = <<>>, !.output = <<>>, !.free = 0]
    BY <1>5 DEF Nv!Destroy, Nv!threads
  <2>2. device'.output = <<>> /\ device'.input = <<>>
    BY <1>0, <2>1 DEF NvTypeOK, Devices
  <2>3. NvTypeOK'
    <3> DEFINE none == <<>>
    <3>1. none \in Seq(Nat) /\ 0 \in Int /\ device \in Devices /\ capture' = capture
      BY <1>0, <2>1, EmptyRises DEF NvTypeOK
    <3>2. device' = [device EXCEPT !.input = none, !.output = none, !.free = 0]
      BY <2>1
    <3> HIDE DEF none
    <3>3. device' \in Devices
      BY <3>1, <3>2, DeviceChanges
    <3> QED
      BY <1>0, <3>1, <3>3 DEF NvTypeOK
  <2>4. Chain(Left, <<>>, <<>>, m_packet_queue, given)
    BY <1>0, ChainShrinks
  <2> QED
    BY <1>0, <2>1, <2>2, <2>3, <2>4, NvQueues
<1> QED
  BY <1>1, <1>2, <1>3, <1>4, <1>5 DEF Nv!Client

\* A packet is given to the device, or lost.
LEMMA NvQueuePacket ==
  ASSUME IInv, backend = "nvdec", UNCHANGED <<backend, given, shown, capture>>,
         m_packet_queue # <<>>, NEW next, Nv!QueuePacket(next)
  PROVE  IInv' /\ Promised
<1>0. /\ NvTypeOK /\ given \in Nat
      /\ Chain(Left, device.output, device.input, m_packet_queue, given)
  BY DEF IInv, NvInv
<1>1. /\ m_packet_queue' = Tail(m_packet_queue)
      /\ \/ device' = device
         \/ device' = [device EXCEPT !.input = Append(@, Head(m_packet_queue))]
  BY DEF Nv!QueuePacket
<1>2. /\ Chain(Left, device.output, Append(device.input, Head(m_packet_queue)),
                m_packet_queue', given)
      /\ Chain(Left, device.output, device.input, m_packet_queue', given)
  BY <1>0, <1>1, ChainFeeds
<1>3. CASE device' = device
  BY <1>0, <1>2, <1>3, NvQueues DEF NvTypeOK
<1>4. CASE device' = [device EXCEPT !.input = Append(@, Head(m_packet_queue))]
  <2>1. /\ device'.input = Append(device.input, Head(m_packet_queue))
        /\ device'.output = device.output
    BY <1>0, <1>4 DEF NvTypeOK, Captures, Devices, CapturePcs, Events
  <2>2. NvTypeOK'
    <3>1. Append(device.input, Head(m_packet_queue)) \in Seq(Nat)
      BY <1>2 DEF Chain
    <3> QED
      BY <1>0, <1>4, <3>1 DEF NvTypeOK, Captures, Devices, CapturePcs, Events
  <2> QED
    BY <1>0, <1>2, <2>1, <2>2, NvQueues
<1> QED
  BY <1>1, <1>3, <1>4

\* decoderThreadFunc.
LEMMA NvDecoderStep ==
  ASSUME IInv, backend = "nvdec", UNCHANGED backend,
         Nv!Fill \/ Nv!Dequeue \/ Nv!DequeueOutput \/ Nv!Requeue \/ Nv!Feed
  PROVE  IInv' /\ Promised
<1>0. /\ NvTypeOK /\ given \in Nat
      /\ Chain(Left, device.output, device.input, m_packet_queue, given)
  BY DEF IInv, NvInv
<1>1. CASE Nv!Fill
  <2>1. UNCHANGED <<given, shown, capture>>
    BY <1>1 DEF Nv!Fill, Nv!outside
  <2>2. CASE ~m_running \/ m_packet_queue = <<>>
    BY <1>0, <1>1, <2>1, <2>2, NvQueues DEF Nv!Fill, NvTypeOK
  <2>3. CASE ~(~m_running \/ m_packet_queue = <<>>)
    <3>1. \E next : Nv!QueuePacket(next)
      BY <1>1, <2>3 DEF Nv!Fill
    <3> QED
      BY <2>1, <2>3, <3>1, NvQueuePacket
  <2> QED
    BY <2>2, <2>3
<1>2. CASE Nv!Dequeue
  BY <1>0, <1>2, NvQueues DEF Nv!Dequeue, Nv!outside, NvTypeOK
<1>3. CASE Nv!DequeueOutput
  <2>1. /\ UNCHANGED <<given, shown, capture, m_packet_queue>>
        /\ device' = device \/ device' = [device EXCEPT !.free = @ - 1]
    BY <1>3 DEF Nv!DequeueOutput, Nv!outside
  <2>2. /\ device'.output = device.output /\ device'.input = device.input
    BY <1>0, <2>1 DEF NvTypeOK, Devices
  <2>3. NvTypeOK'
    BY <1>0, <2>1, DeviceFields, DeviceChanges DEF NvTypeOK
  <2> QED
    BY <1>0, <2>1, <2>2, <2>3, NvQueues
<1>4. CASE Nv!Requeue
  <2>1. /\ UNCHANGED <<given, shown, capture, m_packet_queue>>
        /\ device' = device \/ device' = [device EXCEPT !.input = Append(@, 0)]
    BY <1>4 DEF Nv!Requeue, Nv!outside, Nv!Eos
  <2>2. /\ device'.output = device.output
        /\ device'.input = device.input \/ device'.input = Append(device.input, 0)
    BY <1>0, <2>1 DEF NvTypeOK, Devices
  <2>3. NvTypeOK'
    BY <1>0, <2>1, DeviceFields, DeviceChanges DEF NvTypeOK
  <2>4. Chain(Left, device.output, Append(device.input, 0), m_packet_queue, given)
    BY <1>0, ChainMarks
  <2> QED
    BY <1>0, <2>1, <2>2, <2>3, <2>4, NvQueues
<1>5. CASE Nv!Feed
  <2>1. UNCHANGED <<given, shown, capture>>
    BY <1>5 DEF Nv!Feed, Nv!outside
  <2>2. CASE ~m_running
    BY <1>0, <1>5, <2>1, <2>2, NvQueues DEF Nv!Feed, NvTypeOK
  <2>3. CASE m_running
    <3>1. m_packet_queue # <<>> /\ \E next : Nv!QueuePacket(next)
      BY <1>5, <2>3 DEF Nv!Feed
    <3> QED
      BY <2>1, <3>1, NvQueuePacket
  <2> QED
    BY <2>2, <2>3
<1> QED
  BY <1>1, <1>2, <1>3, <1>4, <1>5

\* captureThreadFunc, up to the frame.
LEMMA NvCaptureStep ==
  ASSUME IInv, backend = "nvdec", UNCHANGED backend, Nv!AwaitResolution \/ Nv!CaptureLoop
  PROVE  IInv' /\ Promised
<1>0. /\ NvTypeOK /\ given \in Nat
      /\ Chain(Left, device.output, device.input, m_packet_queue, given)
  BY DEF IInv, NvInv
<1>1. UNCHANGED <<given, shown, m_packet_queue>>
  BY DEF Nv!AwaitResolution, Nv!CaptureLoop, Nv!outside
<1>2. \E where \in {"loop", "dq", "end"} : capture' = [capture EXCEPT !.pc = where]
  BY DEF Nv!AwaitResolution, Nv!CaptureLoop, Nv!SetCapture, Nv!CaptureEnds
<1>3. device' = device \/ device' = [device EXCEPT !.event = "set up"]
  BY DEF Nv!AwaitResolution, Nv!CaptureLoop, Nv!SetCapture, Nv!CaptureEnds
<1>4. capture'.pc # "show" /\ capture' \in Captures
  BY <1>0, <1>2 DEF NvTypeOK, Captures, Devices, CapturePcs, Events
<1>5. device'.output = device.output /\ device'.input = device.input /\ NvTypeOK'
  BY <1>0, <1>3, <1>4 DEF NvTypeOK, Captures, Devices, CapturePcs, Events
<1> QED
  BY <1>0, <1>1, <1>4, <1>5, NvQueues

\* A frame is taken from the device: the end of the stream, or the next one to
\* be shown.
LEMMA NvDequeueFrame ==
  ASSUME IInv, backend = "nvdec", UNCHANGED backend, Nv!DequeueFrame
  PROVE  IInv' /\ Promised
<1>0. /\ NvTypeOK /\ given \in Nat /\ Latest \in Nat
      /\ Chain(Latest, device.output, device.input, m_packet_queue, given)
      /\ Left = Latest
  BY DEF IInv, NvInv, Left, Nv!DequeueFrame
<1> DEFINE f == Head(device.output)
<1>1. UNCHANGED <<given, shown, m_packet_queue>> /\ device.output # <<>>
  BY DEF Nv!DequeueFrame, Nv!outside
<1>2. device' = device \/ device' = [device EXCEPT !.output = Tail(@)]
  BY DEF Nv!DequeueFrame
<1>3. \/ capture' = [capture EXCEPT !.pc = "end"]
      \/ /\ capture' = [pc |-> "show", frame |-> f] /\ f # 0
         /\ device' = [device EXCEPT !.output = Tail(@)]
  BY DEF Nv!DequeueFrame, Nv!CaptureEnds, Nv!Eos
<1>4. /\ f \in Nat /\ Tail(device.output) \in Seq(Nat)
      /\ Chain(Latest, Tail(device.output), device.input, m_packet_queue, given)
      /\ f # 0 => /\ Chain(f, Tail(device.output), device.input, m_packet_queue, given)
                  /\ Latest < f /\ f <= given
  <2>1. /\ f \in Nat
        /\ Chain(Latest, Tail(device.output), device.input, m_packet_queue, given)
        /\ f # 0 => /\ Chain(f, Tail(device.output), device.input, m_packet_queue, given)
                    /\ Latest < f /\ f <= given
    BY <1>0, <1>1, ChainGives
  <2> QED
    BY <2>1 DEF Chain
<1> HIDE DEF f
<1>5. NvTypeOK'
  <2>1. capture' \in Captures
    BY <1>0, <1>3, <1>4, CaptureChanges DEF NvTypeOK, Captures, CapturePcs
  <2>2. device' \in Devices
    BY <1>0, <1>2, <1>4 DEF NvTypeOK, Captures, Devices, CapturePcs, Events
  <2> QED
    BY <2>1, <2>2 DEF NvTypeOK, Captures, Devices, CapturePcs, Events
<1>6. CASE capture' = [capture EXCEPT !.pc = "end"]
  <2>1. capture'.pc # "show"
    BY <1>0, <1>6 DEF NvTypeOK, Captures, Devices, CapturePcs, Events
  <2>2. Chain(Latest, device'.output, device'.input, m_packet_queue, given)
    BY <1>0, <1>2, <1>4 DEF NvTypeOK, Captures, Devices, CapturePcs, Events
  <2> QED
    BY <1>0, <1>1, <1>5, <2>1, <2>2, NvQueues
<1>7. CASE /\ capture' = [pc |-> "show", frame |-> f] /\ f # 0
           /\ device' = [device EXCEPT !.output = Tail(@)]
  <2>1. capture'.pc = "show" /\ Left' = f /\ Latest' = Latest
    BY <1>1, <1>7, LatestKept DEF Left
  <2>2. device'.output = Tail(device.output) /\ device'.input = device.input
    BY <1>0, <1>7 DEF NvTypeOK, Captures, Devices, CapturePcs, Events
  <2>3. NvInv'
    BY <1>0, <1>1, <1>4, <1>5, <1>7, <2>1, <2>2 DEF NvInv
  <2> QED
    BY <1>0, <1>1, <2>1, <2>3 DEF IInv, Promised
<1> QED
  BY <1>3, <1>6, <1>7

\* The callback gets the frame, or it is lost.
LEMMA NvShowFrame ==
  ASSUME IInv, backend = "nvdec", UNCHANGED backend, Nv!ShowFrame
  PROVE  IInv' /\ Promised
<1>0. /\ NvTypeOK /\ given \in Nat /\ Latest \in Nat
      /\ shown \in Seq(Nat)
      /\ Chain(capture.frame, device.output, device.input, m_packet_queue, given)
      /\ Latest < capture.frame /\ capture.frame <= given /\ capture.frame \in Nat
      /\ Left = capture.frame
  BY DEF IInv, NvInv, Left, Nv!ShowFrame, Chain
<1>1. UNCHANGED <<given, m_packet_queue, device>>
  BY DEF Nv!ShowFrame, Nv!outside
<1>2. capture'.pc # "show" /\ NvTypeOK'
  <2>1. \E where \in {"loop", "end"} : capture' = [capture EXCEPT !.pc = where]
    BY DEF Nv!ShowFrame, Nv!CaptureEnds
  <2> QED
    BY <1>0, <1>1, <2>1 DEF NvTypeOK, Captures, Devices, CapturePcs, Events
<1>3. shown' = Append(shown, capture.frame) \/ shown' = shown
  BY DEF Nv!ShowFrame
<1>4. CASE shown' = shown
  BY <1>0, <1>1, <1>2, <1>4, NvQueues
<1>5. CASE shown' = Append(shown, capture.frame)
  <2>1. shown' \in Seq(Nat) /\ Latest' = capture.frame /\ Left' = Latest'
    BY <1>0, <1>2, <1>5, LatestAppended DEF Left
  <2>2. NvInv'
    BY <1>0, <1>1, <1>2, <2>1 DEF NvInv
  <2>3. Promised
    BY <1>0, <1>1, <1>5 DEF Promised, Promise!Show, Latest
  <2> QED
    BY <1>0, <1>1, <2>1, <2>2, <2>3 DEF IInv
<1> QED
  BY <1>3, <1>4, <1>5

\* The device.
LEMMA NvDeviceStep ==
  ASSUME IInv, backend = "nvdec", UNCHANGED backend, Nv!Device
  PROVE  IInv' /\ Promised
<1>0. /\ NvTypeOK /\ given \in Nat
      /\ Chain(Left, device.output, device.input, m_packet_queue, given)
  BY DEF IInv, NvInv
<1>1. CASE Nv!Announce
  <2>1. /\ UNCHANGED <<given, shown, m_packet_queue, capture>>
        /\ \/ device' = [device EXCEPT !.event = "sent"]
           \/ device' = [device EXCEPT !.event = "sent", !.changes = @ + 1]
    BY <1>1 DEF Nv!Announce, Nv!outside, Nv!threads
  <2>2. /\ device'.output = device.output /\ device'.input = device.input
    BY <1>0, <2>1 DEF NvTypeOK, Devices
  <2>3. NvTypeOK'
    <3>1. device \in Devices /\ device.changes + 1 \in Nat
      BY <1>0, DeviceFields DEF NvTypeOK
    <3>2. device' \in Devices
      <4>1. CASE device' = [device EXCEPT !.event = "sent"]
        BY <3>1, <4>1 DEF Devices, Events
      <4>2. CASE device' = [device EXCEPT !.event = "sent", !.changes = @ + 1]
        BY <3>1, <4>2 DEF Devices, Events
      <4> QED
        BY <2>1, <4>1, <4>2
    <3> QED
      BY <1>0, <2>1, <3>2 DEF NvTypeOK
  <2> QED
    BY <1>0, <2>1, <2>2, <2>3, NvQueues
<1>2. CASE Nv!Decodes
  <2>1. /\ UNCHANGED <<given, shown, m_packet_queue, capture>>
        /\ device.input # <<>>
        /\ \/ device' = [device EXCEPT !.input = Tail(@), !.free = @ + 1,
                                       !.output = Append(@, Head(device.input))]
           \/ device' = [device EXCEPT !.input = Tail(@), !.free = @ + 1]
    BY <1>2 DEF Nv!Decodes, Nv!outside, Nv!threads
  <2>2. /\ Chain(Left, Append(device.output, Head(device.input)), Tail(device.input),
                  m_packet_queue, given)
        /\ Chain(Left, device.output, Tail(device.input), m_packet_queue, given)
    BY <1>0, <2>1, ChainDecodes
  <2>3. CASE device' = [device EXCEPT !.input = Tail(@), !.free = @ + 1,
                                      !.output = Append(@, Head(device.input))]
    <3>1. /\ device'.output = Append(device.output, Head(device.input))
          /\ device'.input = Tail(device.input)
      BY <1>0, <2>3 DEF NvTypeOK, Captures, Devices, CapturePcs, Events
    <3>2. NvTypeOK'
      <4>1. /\ Append(device.output, Head(device.input)) \in Seq(Nat)
            /\ Tail(device.input) \in Seq(Nat)
        BY <2>2 DEF Chain
      <4> QED
        BY <1>0, <2>1, <2>3, <4>1, DeviceFields, DeviceChanges DEF NvTypeOK
    <3> QED
      BY <1>0, <2>1, <2>2, <3>1, <3>2, NvQueues
  <2>4. CASE device' = [device EXCEPT !.input = Tail(@), !.free = @ + 1]
    <3>1. device'.output = device.output /\ device'.input = Tail(device.input)
      BY <1>0, <2>4 DEF NvTypeOK, Captures, Devices, CapturePcs, Events
    <3>2. NvTypeOK'
      <4>1. Tail(device.input) \in Seq(Nat)
        BY <2>2 DEF Chain
      <4> QED
        BY <1>0, <2>1, <2>4, <4>1, DeviceFields, DeviceChanges DEF NvTypeOK
    <3> QED
      BY <1>0, <2>1, <2>2, <3>1, <3>2, NvQueues
  <2> QED
    BY <2>1, <2>3, <2>4
<1> QED
  BY <1>1, <1>2 DEF Nv!Device

-------------------------------------------------------------------------------
(* rkmppDec *)

\* What becomes of the record of MPP.
LEMMA MppChanges ==
  ASSUME NEW m \in Mpps
  PROVE  /\ \A s \in Seq(Pictures) : [m EXCEPT !.input = s] \in Mpps
         /\ \A t \in Seq(Outputs), e \in {"none", "sent", "ready"} :
               [m EXCEPT !.output = t, !.info = e] \in Mpps
         /\ \A t \in Seq(Outputs) : [m EXCEPT !.output = t] \in Mpps
         /\ \A s \in Seq(Pictures), t \in Seq(Outputs) :
               [m EXCEPT !.input = s, !.output = t] \in Mpps
         /\ \A t \in Seq(Outputs), c \in Nat :
               [m EXCEPT !.info = "sent", !.output = t, !.changes = c] \in Mpps
  BY DEF Mpps

\* The locals of decode() keep their types, and pkt_done is set by the put
\* alone.
LEMMA CallChanges ==
  ASSUME NEW c \in Calls
  PROVE  /\ [c EXCEPT !.done = TRUE] \in Calls /\ [c EXCEPT !.done = TRUE].done
         /\ \A b \in BOOLEAN : /\ [c EXCEPT !.ok = b] \in Calls
                               /\ [c EXCEPT !.ok = b].done = c.done
         /\ \A b, d \in BOOLEAN : /\ [c EXCEPT !.frm_eos = d, !.ok = b] \in Calls
                                  /\ [c EXCEPT !.frm_eos = d, !.ok = b].done = c.done
  BY DEF Calls

\* What MPP holds.
LEMMA MppHolds ==
  ASSUME RkTypeOK
  PROVE  /\ mpp.input \in Seq(Pictures) /\ mpp.output \in Seq(Outputs)
         /\ mpp.input \in Seq(MppFrames) /\ mpp.output \in Seq(MppFrames)
         /\ mpp.changes \in Nat /\ mpp.info \in {"none", "sent", "ready"}
         /\ Rk!Info \in Outputs /\ Rk!Info \in MppFrames /\ Rk!Info.n = 0
         /\ Pictures \subseteq Outputs /\ Outputs \subseteq MppFrames
         /\ \A f \in Pictures : f.n \in Nat /\ f.n # 0 /\ f.eos \in BOOLEAN
<1>1. /\ mpp.input \in Seq(Pictures) /\ mpp.output \in Seq(Outputs)
      /\ mpp.changes \in Nat /\ mpp.info \in {"none", "sent", "ready"}
  BY DEF RkTypeOK, Mpps
<1>2. Rk!Info \in Outputs /\ Rk!Info \in MppFrames /\ Rk!Info.n = 0
  BY DEF Rk!Info, Outputs, MppFrames
<1>3. /\ Pictures \subseteq MppFrames
      /\ \A f \in Pictures : f.n \in Nat /\ f.n # 0 /\ f.eos \in BOOLEAN
  BY DEF Pictures, MppFrames
<1>4. Pictures \subseteq Outputs /\ Outputs \subseteq MppFrames
  BY <1>2, <1>3 DEF Outputs
<1>5. mpp.input \in Seq(MppFrames) /\ mpp.output \in Seq(MppFrames)
  BY <1>1, <1>4
<1> QED
  BY <1>1, <1>2, <1>3, <1>4, <1>5

\* A step that shows nothing and leaves the queues in order keeps the invariant.
LEMMA RkQueues ==
  ASSUME IInv, backend = "rkmpp", UNCHANGED <<backend, given, shown>>,
         RkTypeOK', pc' # "idle" => pc # "idle",
         Chain(Latest, Frames(mpp'.output), Frames(mpp'.input), Waiting', given)
  PROVE  IInv' /\ Promised
<1>1. Latest' = Latest
  BY LatestKept
<1> QED
  BY <1>1 DEF IInv, RkInv, Promised, Frames

\* setup, and the entry of decode().
LEMMA RkClientStep ==
  ASSUME IInv, backend = "rkmpp", UNCHANGED backend,
         Rk!Setup \/ (\E eos \in BOOLEAN : Rk!Decode(eos)) \/ Rk!TearDown
  PROVE  IInv' /\ Promised
<1>0. /\ RkTypeOK /\ given \in Nat
      /\ Chain(Latest, Frames(mpp.output), Frames(mpp.input), Waiting, given)
  BY DEF IInv, RkInv
<1>1. CASE Rk!Setup
  <2>1. UNCHANGED <<given, shown, pc, call, mpp>>
    BY <1>1 DEF Rk!Setup
  <2> QED
    BY <1>0, <2>1, RkQueues DEF RkTypeOK, Waiting
<1>2. ASSUME NEW eos \in BOOLEAN, Rk!Decode(eos)
      PROVE  IInv' /\ Promised
  <2>1. /\ UNCHANGED <<shown, mpp>> /\ given' = given + 1
        /\ pc = "idle" /\ pc' = "put"
        /\ call' = [eos |-> eos, done |-> FALSE, frm_eos |-> FALSE, ok |-> TRUE]
    BY <1>2 DEF Rk!Decode
  <2>2. RkTypeOK'
    <3>1. call' \in Calls
      BY <2>1 DEF Calls
    <3> QED
      BY <1>0, <2>1, <3>1 DEF RkTypeOK
  <2>3. Waiting = <<>> /\ Waiting' = Append(<<>>, given + 1)
    BY <2>1, <1>0 DEF Waiting
  <2>4. Chain(Latest, Frames(mpp.output), Frames(mpp.input), Waiting', given')
    <3>1. Chain(Latest, Frames(mpp.output), Frames(mpp.input), Append(<<>>, given + 1), given + 1)
      <4>1. given + 1 \in Nat /\ given <= given + 1 /\ given < given + 1
        BY <1>0
      <4>2. Chain(Latest, Frames(mpp.output), Frames(mpp.input), Append(Waiting, given + 1),
                  given + 1)
        BY <1>0, <4>1, ChainTakes
      <4> QED
        BY <2>3, <4>2
    <3> QED
      BY <3>1, <2>1, <2>3
  <2>5. Latest' = Latest
    BY <2>1, LatestKept
  <2>6. RkInv'
    BY <1>0, <2>1, <2>2, <2>4, <2>5 DEF RkInv, Frames
  <2>7. Promised
    BY <2>1 DEF Promised, Promise!Decode
  <2> QED
    BY <1>0, <2>1, <2>5, <2>6, <2>7 DEF IInv
<1>3. CASE Rk!TearDown
  <2>1. /\ UNCHANGED <<given, shown, pc, call>> /\ pc = "idle"
        /\ mpp' = [mpp EXCEPT !.input = <<>>, !.output = <<>>]
    BY <1>3 DEF Rk!TearDown
  <2>2. mpp'.input = <<>> /\ mpp'.output = <<>>
    BY <1>0, <2>1 DEF RkTypeOK, Mpps
  <2>3. RkTypeOK'
    <3>1. <<>> \in Seq(Pictures) /\ <<>> \in Seq(Outputs)
      OBVIOUS
    <3> QED
      BY <1>0, <2>1, <3>1, MppChanges DEF RkTypeOK
  <2>4. Frames(<<>>) = <<>>
    BY DEF Frames
  <2>5. Waiting' = Waiting
    BY <2>1 DEF Waiting
  <2>6. Chain(Latest, <<>>, <<>>, Waiting, given)
    BY <1>0, ChainShrinks
  <2> QED
    BY <1>0, <2>1, <2>2, <2>3, <2>4, <2>5, <2>6, RkQueues
<1> QED
  BY <1>1, <1>2, <1>3

\* decode() puts its packet into MPP, or finds no room.
LEMMA RkPutPacket ==
  ASSUME IInv, backend = "rkmpp", UNCHANGED backend, Rk!PutPacket
  PROVE  IInv' /\ Promised
<1>0. /\ RkTypeOK /\ given \in Nat /\ given > 0
      /\ Chain(Latest, Frames(mpp.output), Frames(mpp.input), Waiting, given)
  BY DEF IInv, RkInv, Rk!PutPacket
<1>1. UNCHANGED <<given, shown>> /\ pc = "put" /\ pc' = "get"
  BY DEF Rk!PutPacket, Rk!rest
<1>2. CASE UNCHANGED <<call, mpp>>
  <2>1. Waiting' = Waiting /\ RkTypeOK'
    BY <1>0, <1>1, <1>2 DEF Waiting, RkTypeOK
  <2> QED
    BY <1>0, <1>1, <1>2, <2>1, RkQueues
<1>3. CASE /\ ~call.done /\ call' = [call EXCEPT !.done = TRUE]
           /\ mpp' = [mpp EXCEPT !.input = Append(@, [n |-> given, eos |-> call.eos])]
  <2> DEFINE f == [n |-> given, eos |-> call.eos]
  <2>1. f \in Pictures /\ f \in MppFrames /\ f.n = given
    BY <1>0 DEF Pictures, MppFrames, RkTypeOK, Calls
  <2>2. mpp' = [mpp EXCEPT !.input = Append(mpp.input, f)]
    BY <1>3
  <2> HIDE DEF f
  <2>3. Append(mpp.input, f) \in Seq(Pictures) /\ mpp.input \in Seq(MppFrames)
    BY <1>0, <2>1, MppHolds
  <2>4. RkTypeOK'
    <3>1. call' \in Calls
      BY <1>0, <1>3, CallChanges DEF RkTypeOK
    <3>2. mpp' \in Mpps
      BY <1>0, <2>2, <2>3, MppChanges DEF RkTypeOK
    <3> QED
      BY <1>1, <3>1, <3>2 DEF RkTypeOK
  <2>5. mpp'.input = Append(mpp.input, f) /\ mpp'.output = mpp.output
    BY <1>0, <2>2 DEF RkTypeOK, Mpps
  <2>6. Waiting = <<given>> /\ Waiting' = <<>>
    <3>1. call'.done
      BY <1>0, <1>3, CallChanges DEF RkTypeOK
    <3> QED
      BY <1>1, <1>3, <3>1 DEF Waiting
  <2>7. Frames(mpp'.input) = Append(Frames(mpp.input), given)
    BY <2>1, <2>3, <2>5, FramesMove
  <2>8. Waiting # <<>> /\ Head(Waiting) = given /\ Tail(Waiting) = <<>>
    BY <1>0, <2>6
  <2>9. Chain(Latest, Frames(mpp.output), Append(Frames(mpp.input), given), <<>>, given)
    BY <1>0, <2>8, ChainFeeds
  <2> QED
    BY <1>0, <1>1, <2>4, <2>5, <2>6, <2>7, <2>9, RkQueues
<1> QED
  BY <1>2, <1>3 DEF Rk!PutPacket

\* A round without a picture.
LEMMA RkGetNothing ==
  ASSUME IInv, backend = "rkmpp", UNCHANGED backend, Rk!GetNothing \/ Rk!EndRound
  PROVE  IInv' /\ Promised
<1>0. /\ RkTypeOK
      /\ Chain(Latest, Frames(mpp.output), Frames(mpp.input), Waiting, given)
  BY DEF IInv, RkInv
<1>1. UNCHANGED <<given, shown, mpp>>
  BY DEF Rk!GetNothing, Rk!EndRound, Rk!rest
<1>2. CASE Rk!GetNothing
  <2>1. /\ pc = "get" /\ pc' \in {"get", "out"}
        /\ \E ok \in BOOLEAN : call' = [call EXCEPT !.ok = ok]
    BY <1>2 DEF Rk!GetNothing, Rk!NextRound
  <2>2. call' \in Calls /\ call'.done = call.done
    <3>1. PICK ok \in BOOLEAN : call' = [call EXCEPT !.ok = ok]
      BY <2>1
    <3>2. call \in Calls
      BY <1>0 DEF RkTypeOK
    <3> QED
      BY <3>1, <3>2, CallChanges, Zenon
  <2>3. RkTypeOK' /\ Waiting' = Waiting
    BY <1>0, <1>1, <2>1, <2>2 DEF RkTypeOK, Waiting
  <2> QED
    BY <1>0, <1>1, <2>1, <2>3, RkQueues
<1>3. CASE Rk!EndRound
  <2>1. pc = "out" /\ call' = call /\ pc' = IF call.done THEN "idle" ELSE "put"
    BY <1>3 DEF Rk!EndRound
  <2>2. RkTypeOK' /\ Waiting' = Waiting
    BY <1>0, <1>1, <2>1 DEF RkTypeOK, Waiting
  <2> QED
    BY <1>0, <1>1, <2>1, <2>2, RkQueues
<1> QED
  BY <1>2, <1>3

\* A picture is shown.
LEMMA RkGetPicture ==
  ASSUME IInv, backend = "rkmpp", UNCHANGED backend, Rk!GetPicture
  PROVE  IInv' /\ Promised
<1>0. /\ RkTypeOK /\ given \in Nat /\ given > 0
      /\ shown \in Seq(Nat) /\ Latest \in Nat
      /\ Chain(Latest, Frames(mpp.output), Frames(mpp.input), Waiting, given)
  BY DEF IInv, RkInv, Rk!GetPicture
<1> DEFINE f == Head(mpp.output)
<1>1. /\ UNCHANGED <<given>> /\ pc = "get" /\ pc' \in {"get", "out"}
      /\ mpp.output # <<>> /\ f # Rk!Info
      /\ shown' = Append(shown, f.n)
      /\ call' = [call EXCEPT !.frm_eos = f.eos, !.ok = TRUE]
      /\ mpp' = [mpp EXCEPT !.output = Tail(mpp.output)]
  BY DEF Rk!GetPicture, Rk!rest, Rk!NextRound
<1>2. /\ f \in Pictures /\ f.n \in Nat /\ f.n # 0 /\ f.eos \in BOOLEAN
      /\ mpp.output \in Seq(MppFrames) /\ Tail(mpp.output) \in Seq(Outputs)
  <2>1. f \in Outputs /\ Tail(mpp.output) \in Seq(Outputs) /\ mpp.output \in Seq(MppFrames)
    BY <1>0, <1>1, MppHolds
  <2>2. f \in Pictures
    BY <1>1, <2>1 DEF Outputs
  <2> QED
    BY <1>0, <2>1, <2>2, MppHolds
<1>3. /\ Head(Frames(mpp.output)) = f.n /\ Tail(Frames(mpp.output)) = Frames(Tail(mpp.output))
      /\ Frames(mpp.output) # <<>>
  BY <1>1, <1>2, FramesMove
<1> HIDE DEF f
<1>4. /\ Chain(f.n, Frames(Tail(mpp.output)), Frames(mpp.input), Waiting, given)
      /\ Latest < f.n /\ f.n <= given
  BY <1>0, <1>2, <1>3, ChainGives
<1>5. RkTypeOK' /\ call'.done = call.done
  <2>1. call' \in Calls /\ call'.done = call.done
    <3>1. call \in Calls /\ TRUE \in BOOLEAN
      BY <1>0 DEF RkTypeOK
    <3> QED
      BY <1>1, <1>2, <3>1, CallChanges, Zenon
  <2>2. mpp' \in Mpps
    BY <1>0, <1>1, <1>2, MppChanges DEF RkTypeOK
  <2> QED
    BY <1>1, <2>1, <2>2 DEF RkTypeOK
<1>6. mpp'.output = Tail(mpp.output) /\ mpp'.input = mpp.input
  BY <1>0, <1>1 DEF RkTypeOK, Mpps
<1>7. Waiting' = Waiting
  BY <1>1, <1>5 DEF Waiting
<1>8. shown' \in Seq(Nat) /\ Latest' = f.n
  BY <1>0, <1>1, <1>2, LatestAppended
<1>9. RkInv'
  <2>1. Chain(f.n, Frames(mpp'.output), Frames(mpp'.input), Waiting, given)
    BY <1>4, <1>6
  <2> QED
    BY <1>0, <1>1, <1>5, <1>7, <1>8, <2>1 DEF RkInv, Frames
<1>10. Promised
  BY <1>0, <1>1, <1>2, <1>4 DEF Promised, Promise!Show, Latest
<1> QED
  BY <1>0, <1>1, <1>2, <1>8, <1>9, <1>10 DEF IInv

\* An info change is taken.
LEMMA RkGetInfo ==
  ASSUME IInv, backend = "rkmpp", UNCHANGED backend, Rk!GetInfo
  PROVE  IInv' /\ Promised
<1>0. /\ RkTypeOK
      /\ Chain(Latest, Frames(mpp.output), Frames(mpp.input), Waiting, given)
  BY DEF IInv, RkInv
<1>1. /\ UNCHANGED <<given, shown>> /\ mpp.output # <<>>
      /\ pc = "get" /\ pc' \in {"get", "out"}
      /\ \E ok \in BOOLEAN : call' = [call EXCEPT !.ok = ok]
  BY DEF Rk!GetInfo, Rk!rest, Rk!NextRound
<1>2. PICK i \in {"ready", mpp.info} :
         mpp' = [mpp EXCEPT !.output = Tail(mpp.output), !.info = i]
  BY DEF Rk!GetInfo
<1>3. Tail(mpp.output) \in Seq(Outputs) /\ mpp.output \in Seq(MppFrames)
      /\ i \in {"none", "sent", "ready"}
  BY <1>0, <1>1, MppHolds
<1>4. RkTypeOK' /\ call'.done = call.done
  <2>1. call' \in Calls /\ call'.done = call.done
    <3>1. PICK ok \in BOOLEAN : call' = [call EXCEPT !.ok = ok]
      BY <1>1
    <3>2. call \in Calls
      BY <1>0 DEF RkTypeOK
    <3> QED
      BY <3>1, <3>2, CallChanges, Zenon
  <2>2. mpp' \in Mpps
    BY <1>0, <1>2, <1>3, MppChanges DEF RkTypeOK
  <2> QED
    BY <1>1, <2>1, <2>2 DEF RkTypeOK
<1>5. mpp'.output = Tail(mpp.output) /\ mpp'.input = mpp.input
  BY <1>0, <1>2 DEF RkTypeOK, Mpps
<1>6. Waiting' = Waiting
  BY <1>1, <1>4 DEF Waiting
<1>7. Chain(Latest, Frames(Tail(mpp.output)), Frames(mpp.input), Waiting, given)
  <2>1. Frames(mpp.output) # <<>> /\ Tail(Frames(mpp.output)) = Frames(Tail(mpp.output))
    BY <1>1, <1>3, FramesMove
  <2>2. Chain(Latest, Tail(Frames(mpp.output)), Frames(mpp.input), Waiting, given)
    BY <1>0, <2>1, ChainGives
  <2> QED
    BY <2>1, <2>2
<1> QED
  BY <1>0, <1>1, <1>4, <1>5, <1>6, <1>7, RkQueues

\* The library.
LEMMA RkMppStep ==
  ASSUME IInv, backend = "rkmpp", UNCHANGED backend, Rk!MppAnnounces \/ Rk!MppDecodes
  PROVE  IInv' /\ Promised
<1>0. /\ RkTypeOK
      /\ Chain(Latest, Frames(mpp.output), Frames(mpp.input), Waiting, given)
  BY DEF IInv, RkInv
<1>1. /\ UNCHANGED <<given, shown, pc, call>> /\ Waiting' = Waiting
  BY DEF Rk!MppAnnounces, Rk!MppDecodes, Rk!rest, Waiting
<1>2. CASE Rk!MppAnnounces
  <2>1. PICK c \in {mpp.changes, mpp.changes + 1} :
           mpp' = [mpp EXCEPT !.info = "sent", !.output = Append(mpp.output, Rk!Info),
                              !.changes = c]
    BY <1>2 DEF Rk!MppAnnounces
  <2>2. /\ c \in Nat /\ Append(mpp.output, Rk!Info) \in Seq(Outputs)
        /\ mpp.output \in Seq(MppFrames)
    BY <1>0, MppHolds
  <2>3. RkTypeOK'
    BY <1>0, <1>1, <2>1, <2>2, MppChanges DEF RkTypeOK
  <2>4. mpp'.output = Append(mpp.output, Rk!Info) /\ mpp'.input = mpp.input
    BY <1>0, <2>1 DEF RkTypeOK, Mpps
  <2>5. Frames(Append(mpp.output, Rk!Info)) = Append(Frames(mpp.output), 0)
    BY <1>0, <2>2, MppHolds, FramesMove
  <2>6. Chain(Latest, Append(Frames(mpp.output), 0), Frames(mpp.input), Waiting, given)
    BY <1>0, ChainMarks
  <2> QED
    BY <1>0, <1>1, <2>3, <2>4, <2>5, <2>6, RkQueues
<1>3. CASE Rk!MppDecodes
  <2> DEFINE f == Head(mpp.input)
  <2>1. /\ mpp.input # <<>>
        /\ mpp' = [mpp EXCEPT !.input = Tail(mpp.input), !.output = Append(mpp.output, f)]
    BY <1>3 DEF Rk!MppDecodes
  <2>2. /\ Tail(mpp.input) \in Seq(Pictures) /\ f \in Pictures /\ f \in Outputs
        /\ f \in MppFrames
        /\ mpp.input \in Seq(MppFrames) /\ mpp.output \in Seq(MppFrames)
    BY <1>0, <2>1, MppHolds
  <2>3. Frames(mpp.input) # <<>> /\ Head(Frames(mpp.input)) = f.n
        /\ Tail(Frames(mpp.input)) = Frames(Tail(mpp.input))
    BY <2>1, <2>2, FramesMove
  <2> HIDE DEF f
  <2>4. Append(mpp.output, f) \in Seq(Outputs)
    BY <1>0, <2>2, MppHolds
  <2>5. RkTypeOK'
    BY <1>0, <1>1, <2>1, <2>2, <2>4, MppChanges DEF RkTypeOK
  <2>6. mpp'.output = Append(mpp.output, f) /\ mpp'.input = Tail(mpp.input)
    BY <1>0, <2>1 DEF RkTypeOK, Mpps
  <2>7. Frames(Append(mpp.output, f)) = Append(Frames(mpp.output), f.n)
    BY <2>2, FramesMove
  <2>8. Chain(Latest, Append(Frames(mpp.output), f.n), Frames(Tail(mpp.input)), Waiting, given)
    BY <1>0, <2>3, ChainDecodes
  <2> QED
    BY <1>0, <1>1, <2>5, <2>6, <2>7, <2>8, RkQueues
<1> QED
  BY <1>2, <1>3

-------------------------------------------------------------------------------
(* The refinement *)

\* The decoders start with nothing given and nothing shown.
LEMMA InitIInv == Init => IInv /\ Promise!DecInit
<1> SUFFICES ASSUME Init PROVE IInv /\ Promise!DecInit
  OBVIOUS
<1>1. /\ backend \in {"nvdec", "rkmpp"} /\ given = 0 /\ shown = <<>>
      /\ m_packet_queue = <<>> /\ capture = [pc |-> "none", frame |-> 0]
      /\ device = [free |-> 0, input |-> <<>>, event |-> "none", changes |-> 0, output |-> <<>>]
  BY DEF Init, Nv!NvInit
<1>2. /\ pc = "idle"
      /\ call = [eos |-> FALSE, done |-> FALSE, frm_eos |-> FALSE, ok |-> TRUE]
      /\ mpp = [input |-> <<>>, info |-> "none", changes |-> 0, output |-> <<>>]
  BY DEF Init, Rk!RkInit
<1>3. Latest = 0 /\ Left = 0
  BY <1>1 DEF Latest, Promise!Latest, Left
<1>4. NvInv
  <2>1. capture \in Captures
    BY <1>1 DEF Captures, CapturePcs
  <2>2. device \in Devices
    <3>1. <<>> \in Seq(Nat)
      OBVIOUS
    <3> QED
      BY <1>1, <3>1 DEF Devices, Events
  <2> QED
    BY <1>1, <1>3, <2>1, <2>2, ChainEmpty DEF NvInv, NvTypeOK
<1>5. RkInv
  <2>1. mpp \in Mpps
    <3>1. <<>> \in Seq(Pictures) /\ <<>> \in Seq(Outputs)
      OBVIOUS
    <3> QED
      BY <1>2, <3>1 DEF Mpps
  <2>2. call \in Calls
    BY <1>2 DEF Calls
  <2>3. Frames(mpp.output) = <<>> /\ Frames(mpp.input) = <<>> /\ Waiting = <<>>
    BY <1>2 DEF Frames, Waiting
  <2> QED
    BY <1>1, <1>2, <1>3, <2>1, <2>2, <2>3, ChainEmpty DEF RkInv, RkTypeOK
<1>6. shown \in Seq(Nat) /\ Latest \in Nat /\ given \in Nat
  BY <1>1, <1>3
<1> QED
  BY <1>1, <1>4, <1>5, <1>6, Zenon DEF IInv, Promise!DecInit

\* Each step of either decoder keeps the invariant and the promise.
LEMMA NextIInv == IInv /\ [Next]_vars => IInv' /\ Promised
<1> SUFFICES ASSUME IInv, [Next]_vars PROVE IInv' /\ Promised
  OBVIOUS
<1>1. CASE backend = "nvdec" /\ Nv!NvNext /\ UNCHANGED backend
  <2>1. CASE Nv!Client
    BY <1>1, <2>1, NvClientStep
  <2>2. CASE Nv!Threads
    BY <1>1, <2>2, NvDecoderStep, NvCaptureStep, NvDequeueFrame, NvShowFrame DEF Nv!Threads
  <2>3. CASE Nv!Device
    BY <1>1, <2>3, NvDeviceStep
  <2> QED
    BY <1>1, <2>1, <2>2, <2>3 DEF Nv!NvNext
<1>2. CASE backend = "rkmpp" /\ Rk!RkNext /\ UNCHANGED backend
  BY <1>2, RkClientStep, RkPutPacket, RkGetNothing, RkGetPicture, RkGetInfo, RkMppStep
     DEF Rk!RkNext
<1>3. CASE UNCHANGED vars
  BY <1>3 DEF vars, IInv, NvInv, NvTypeOK, Left, RkInv, RkTypeOK, Waiting, Frames, Latest,
              Promise!Latest, Promised
<1> QED
  BY <1>1, <1>2, <1>3 DEF Next

\* Both decoders implement Decoder: frames reach the callback in the order of
\* the packets decode() was given, none twice and none before its packet,
\* whatever is lost on the way (nvVideoDec.cpp 300-708, rkmppDec.cpp 110-359).
THEOREM DecodersImplement == Spec => ImplementsDecoder
<1>1. Init => IInv /\ Promise!DecInit
  BY InitIInv
<1>2. IInv /\ [Next]_vars => IInv' /\ Promised
  BY NextIInv
<1> QED
  BY <1>1, <1>2, PTL DEF Spec, ImplementsDecoder, Promise!DecSpec, Promised

-------------------------------------------------------------------------------
(* Nothing is lost *)

\* The packets that are on their way to the callback.
NvWay == (IF capture.pc = "show" THEN {capture.frame} \ {0} ELSE {})
           \cup Numbers(device.output) \cup Numbers(device.input) \cup Numbers(m_packet_queue)
RkWay == Numbers(Frames(mpp.output)) \cup Numbers(Frames(mpp.input)) \cup Numbers(Waiting)
Way == IF backend = "nvdec" THEN NvWay ELSE RkWay

\* The clients that have not been told of a failure and have not finished.
Open == {"new", "ready", "join decoder", "join capture"}

\* Until a call fails every packet has been shown or is on its way.
Complete == faults = 0 /\ client \in Open => Numbers(shown) \cup Way = 1 .. LastData

\* What has been shown is in order, and the threads run from the first packet
\* until the client stops.
ShownInv == shown \in Seq(Nat) /\ Rising(shown) /\ Before(Numbers(shown), {Latest + 1})
StartInv == client \in {"new", "ready"} /\ ~m_running => capture.pc = "none"

KInv == /\ IInv /\ faults \in Nat /\ ShownInv /\ Complete
        /\ backend = "nvdec" => StartInv

\* The numbers of a queue when one enters.
LEMMA NumbersAppend ==
  ASSUME NEW q \in Seq(Nat), NEW x \in Nat
  PROVE  Numbers(Append(q, x)) = Numbers(q) \cup ({x} \ {0})
<1>1. /\ Append(q, x) \in Seq(Nat) /\ Len(q) \in Nat /\ DOMAIN q = 1 .. Len(q)
      /\ DOMAIN Append(q, x) = 1 .. Len(q) + 1 /\ Append(q, x)[Len(q) + 1] = x
      /\ \A i \in 1 .. Len(q) : Append(q, x)[i] = q[i]
  OBVIOUS
<1>2. 1 .. Len(q) + 1 = (1 .. Len(q)) \cup {Len(q) + 1}
  BY <1>1
<1> QED
  BY <1>1, <1>2 DEF Numbers

\* The numbers of a queue when one leaves.
LEMMA NumbersTail ==
  ASSUME NEW q \in Seq(Nat), q # <<>>
  PROVE  Numbers(q) = ({Head(q)} \ {0}) \cup Numbers(Tail(q))
<1>1. /\ Tail(q) \in Seq(Nat) /\ Head(q) = q[1] /\ Len(q) \in Nat /\ Len(q) > 0
      /\ DOMAIN q = 1 .. Len(q) /\ DOMAIN Tail(q) = 1 .. Len(q) - 1
  OBVIOUS
<1>2. \A i \in DOMAIN Tail(q) : Tail(q)[i] = q[i + 1] /\ i + 1 \in DOMAIN q
  BY <1>1
<1>3. \A i \in DOMAIN q : i = 1 \/ (i - 1 \in DOMAIN Tail(q) /\ q[i] = Tail(q)[i - 1])
  BY <1>1, <1>2
<1>4. 1 \in DOMAIN q
  BY <1>1
<1>5. Numbers(Tail(q)) \subseteq Numbers(q) /\ {Head(q)} \ {0} \subseteq Numbers(q)
  BY <1>1, <1>2, <1>4 DEF Numbers
<1>6. ASSUME NEW i \in DOMAIN q, q[i] # 0
      PROVE  q[i] = Head(q) \/ q[i] \in Numbers(Tail(q))
  <2>1. CASE i = 1
    BY <1>1, <2>1
  <2>2. CASE i # 1
    <3>1. i - 1 \in DOMAIN Tail(q) /\ q[i] = Tail(q)[i - 1]
      BY <1>3, <2>2
    <3> QED
      BY <1>6, <3>1 DEF Numbers
  <2> QED
    BY <2>1, <2>2
<1>7. Numbers(q) \subseteq ({Head(q)} \ {0}) \cup Numbers(Tail(q))
  BY <1>6 DEF Numbers
<1> QED
  BY <1>5, <1>7

\* Two queues one after the other.
LEMMA Joined ==
  ASSUME NEW a \in Seq(Nat), NEW b \in Seq(Nat)
  PROVE  /\ a \o b \in Seq(Nat) /\ Numbers(a \o b) = Numbers(a) \cup Numbers(b)
         /\ Rising(a) /\ Rising(b) /\ Before(Numbers(a), Numbers(b)) => Rising(a \o b)
<1>1. /\ a \o b \in Seq(Nat) /\ Len(a) \in Nat /\ Len(b) \in Nat
      /\ DOMAIN a = 1 .. Len(a) /\ DOMAIN b = 1 .. Len(b)
      /\ DOMAIN (a \o b) = 1 .. Len(a) + Len(b)
      /\ \A i \in 1 .. Len(a) : (a \o b)[i] = a[i]
      /\ \A i \in Len(a) + 1 .. Len(a) + Len(b) : (a \o b)[i] = b[i - Len(a)]
  OBVIOUS
<1>2. PICK c \in Seq(Nat) : c = a \o b
  BY <1>1
<1>3. /\ DOMAIN c = 1 .. Len(a) + Len(b)
      /\ \A i \in DOMAIN a : i \in DOMAIN c /\ c[i] = a[i]
      /\ \A i \in DOMAIN b : i + Len(a) \in DOMAIN c /\ c[i + Len(a)] = b[i]
  BY <1>1, <1>2
<1>4. \A i \in DOMAIN c : i \in DOMAIN a \/ (i - Len(a) \in DOMAIN b /\ i > Len(a))
  BY <1>1, <1>3
<1>5. \A i \in DOMAIN c : i \notin DOMAIN a => i - Len(a) \in DOMAIN b /\ c[i] = b[i - Len(a)]
  BY <1>1, <1>2, <1>3
<1>6. Numbers(c) = Numbers(a) \cup Numbers(b)
  <2>1. Numbers(a) \subseteq Numbers(c) /\ Numbers(b) \subseteq Numbers(c)
    BY <1>3 DEF Numbers
  <2>2. ASSUME NEW i \in DOMAIN c, c[i] # 0
        PROVE  c[i] \in Numbers(a) \cup Numbers(b)
    <3>1. CASE i \in DOMAIN a
      BY <1>3, <2>2, <3>1 DEF Numbers
    <3>2. CASE i \notin DOMAIN a
      BY <1>5, <2>2, <3>2 DEF Numbers
    <3> QED
      BY <3>1, <3>2
  <2>3. Numbers(c) \subseteq Numbers(a) \cup Numbers(b)
    BY <2>2 DEF Numbers
  <2> QED
    BY <2>1, <2>3
<1>7. ASSUME Rising(a), Rising(b), Before(Numbers(a), Numbers(b)),
             NEW i \in DOMAIN c, NEW j \in DOMAIN c, i < j, c[i] # 0, c[j] # 0
      PROVE  c[i] < c[j]
  <2>1. CASE j \in DOMAIN a
    <3>1. i \in DOMAIN a
      BY <1>1, <1>3, <1>7, <2>1
    <3> QED
      BY <1>3, <1>7, <2>1, <3>1 DEF Rising
  <2>2. CASE i \in DOMAIN a /\ j \notin DOMAIN a
    <3>1. c[i] \in Numbers(a) /\ c[j] \in Numbers(b)
      BY <1>3, <1>5, <1>7, <2>2 DEF Numbers
    <3> QED
      BY <1>7, <3>1 DEF Before
  <2>3. CASE i \notin DOMAIN a /\ j \notin DOMAIN a
    <3>1. PICK k \in DOMAIN b, l \in DOMAIN b :
             k = i - Len(a) /\ l = j - Len(a) /\ c[i] = b[k] /\ c[j] = b[l]
      BY <1>5, <2>3
    <3>2. k < l
      BY <1>1, <1>3, <1>7, <3>1
    <3> QED
      BY <1>7, <3>1, <3>2 DEF Rising
  <2> QED
    BY <2>1, <2>2, <2>3
<1>8. Rising(a) /\ Rising(b) /\ Before(Numbers(a), Numbers(b)) => Rising(c)
  BY <1>7 DEF Rising
<1> QED
  BY <1>2, <1>6, <1>8

\* What a step of the interface shows stays in order.
LEMMA ShownStays ==
  ASSUME ShownInv, given \in Nat, Promised
  PROVE  ShownInv'
<1>1. CASE UNCHANGED shown
  BY <1>1, LatestKept DEF ShownInv
<1>2. ASSUME NEW n \in Latest + 1 .. given, shown' = Append(shown, n)
      PROVE  ShownInv'
  <2>0. Latest \in Nat
    BY DEF ShownInv, Latest, Promise!Latest
  <2>1. n \in Nat /\ n # 0 /\ Latest < n /\ n < n + 1
    BY <2>0, <1>2
  <2>2. Numbers(shown) \subseteq Nat /\ Numbers(shown') \subseteq Numbers(shown) \cup {n}
    BY <1>2, <2>1, NumbersAppend DEF ShownInv, Numbers
  <2>3. Before(Numbers(shown), {n})
    BY <2>0, <2>1, <2>2 DEF ShownInv, Before
  <2>4. shown' \in Seq(Nat) /\ Rising(shown')
    BY <1>2, <2>1, <2>3, AppendRises DEF ShownInv
  <2>5. Latest' = n
    BY <1>2, <2>1, LatestAppended DEF ShownInv
  <2>6. Before(Numbers(shown'), {n + 1})
    BY <2>1, <2>2, <2>3 DEF Before
  <2> QED
    BY <2>4, <2>5, <2>6 DEF ShownInv
<1> QED
  BY <1>1, <1>2 DEF Promised, Promise!Decode, Promise!Show, Latest

\* In the order of the queues, all packets are there.
LEMMA KInvMeans == KInv => NothingLost
<1> SUFFICES ASSUME KInv PROVE NothingLost
  OBVIOUS
<1> DEFINE o == IF backend = "nvdec" THEN device.output ELSE Frames(mpp.output)
           i == IF backend = "nvdec" THEN device.input ELSE Frames(mpp.input)
           q == IF backend = "nvdec" THEN m_packet_queue ELSE Waiting
           h == IF backend = "nvdec" /\ capture.pc = "show" THEN <<capture.frame>> ELSE <<>>
           last == IF backend = "nvdec" THEN Left ELSE Latest
<1>1. /\ Chain(last, o, i, q, given) /\ Latest <= last /\ Latest \in Nat /\ last \in Nat
  <2>1. Latest \in Nat /\ backend \in {"nvdec", "rkmpp"}
    BY DEF KInv, IInv
  <2>2. CASE backend = "nvdec"
    <3>1. Chain(Left, device.output, device.input, m_packet_queue, given) /\ Latest <= Left
      BY <2>2 DEF KInv, IInv, NvInv
    <3>2. Left \in Nat
      BY <3>1 DEF Chain
    <3> QED
      BY <2>1, <2>2, <3>1, <3>2
  <2>3. CASE backend = "rkmpp"
    <3>1. Chain(Latest, Frames(mpp.output), Frames(mpp.input), Waiting, given)
      BY <2>3 DEF KInv, IInv, RkInv
    <3> QED
      BY <2>1, <2>3, <3>1
  <2> QED
    BY <2>1, <2>2, <2>3
<1>2. /\ h \in Seq(Nat) /\ Rising(h) /\ Numbers(h) \subseteq {last} \ {0}
      /\ Before(Numbers(shown), Numbers(h))
  <2>1. CASE backend = "nvdec" /\ capture.pc = "show"
    <3>1. h = Append(<<>>, capture.frame) /\ last = capture.frame /\ Latest < last
      BY <2>1 DEF KInv, IInv, NvInv, Left
    <3>2. h \in Seq(Nat) /\ Rising(h) /\ Numbers(h) \subseteq {last} \ {0}
      <4>1. PICK none, n : none = <<>> /\ n = capture.frame
        OBVIOUS
      <4>2. /\ none \in Seq(Nat) /\ Rising(none) /\ Numbers(none) = {} /\ n \in Nat
            /\ Before(Numbers(none), {n})
        BY <1>1, <3>1, <4>1, EmptyRises DEF Before
      <4>3. /\ Append(none, n) \in Seq(Nat) /\ Rising(Append(none, n))
            /\ Numbers(Append(none, n)) \subseteq Numbers(none) \cup ({n} \ {0})
        BY <4>2, AppendRises
      <4> QED
        BY <3>1, <4>1, <4>2, <4>3
    <3>3. Numbers(shown) \subseteq Nat
      BY DEF KInv, ShownInv, Numbers
    <3> QED
      BY <1>1, <3>1, <3>2, <3>3 DEF KInv, ShownInv, Before
  <2>2. CASE ~(backend = "nvdec" /\ capture.pc = "show")
    BY <2>2, EmptyRises DEF Before
  <2> QED
    BY <2>1, <2>2
<1>3. /\ shown \in Seq(Nat) /\ Rising(shown) /\ Before(Numbers(shown), {Latest + 1})
  BY DEF KInv, ShownInv
<1>4. InFlight = IF backend = "nvdec" THEN h \o o \o i \o q ELSE o \o i \o q
  BY DEF InFlight, Waiting
<1>5. Way = Numbers(h) \cup Numbers(o) \cup Numbers(i) \cup Numbers(q)
  <2>1. \A n \in Nat : Numbers(<<n>>) = {n} \ {0}
    BY NumbersAppend, EmptyRises DEF Numbers
  <2>2. capture.pc = "show" /\ backend = "nvdec" => capture.frame \in Nat
    BY DEF KInv, IInv, NvInv, NvTypeOK, Captures
  <2> QED
    BY <2>1, <2>2, EmptyRises DEF Way, NvWay, RkWay
<1>6. /\ Numbers(shown) \subseteq Nat /\ Numbers(h) \subseteq Nat /\ Numbers(o) \subseteq Nat
      /\ Numbers(i) \subseteq Nat /\ Numbers(q) \subseteq Nat
  <2>1. \A s \in Seq(Nat) : Numbers(s) \subseteq Nat
    BY DEF Numbers
  <2>2. o \in Seq(Nat) /\ i \in Seq(Nat) /\ q \in Seq(Nat)
    BY <1>1 DEF Chain
  <2> HIDE DEF o, i, q, h, last
  <2> QED
    BY <1>2, <1>3, <2>1, <2>2
<1> HIDE DEF o, i, q, h, last
<1>7. /\ Before(Numbers(shown), Numbers(o)) /\ Before(Numbers(shown), Numbers(i))
      /\ Before(Numbers(shown), Numbers(q))
      /\ Before(Numbers(h), Numbers(o)) /\ Before(Numbers(h), Numbers(i))
      /\ Before(Numbers(h), Numbers(q))
  BY <1>1, <1>2, <1>3, <1>6 DEF Chain, Before
<1>8. PICK a : a = IF backend = "nvdec" THEN h \o o ELSE o
  OBVIOUS
<1>9. a \in Seq(Nat) /\ Rising(a) /\ Numbers(a) = Numbers(h) \cup Numbers(o)
  <2>1. o \in Seq(Nat) /\ Rising(o) /\ Before(Numbers(h), Numbers(o))
    BY <1>1, <1>7 DEF Chain
  <2>2. CASE backend = "nvdec"
    BY <1>2, <1>8, <2>1, <2>2, Joined
  <2>3. CASE backend # "nvdec"
    <3>1. Numbers(h) = {}
      BY <2>3, EmptyRises DEF h
    <3> QED
      BY <1>8, <2>1, <2>3, <3>1
  <2> QED
    BY <2>2, <2>3
<1>10. PICK b : b = a \o i
  OBVIOUS
<1>11. b \in Seq(Nat) /\ Rising(b) /\ Numbers(b) = Numbers(a) \cup Numbers(i)
  <2>1. i \in Seq(Nat) /\ Rising(i) /\ Before(Numbers(o), Numbers(i))
    BY <1>1 DEF Chain
  <2>2. Before(Numbers(a), Numbers(i))
    BY <1>7, <1>9, <2>1 DEF Before
  <2> QED
    BY <1>9, <1>10, <2>1, <2>2, Joined
<1>12. PICK c : c = b \o q
  OBVIOUS
<1>13. c \in Seq(Nat) /\ Rising(c) /\ Numbers(c) = Numbers(b) \cup Numbers(q)
  <2>1. /\ q \in Seq(Nat) /\ Rising(q)
        /\ Before(Numbers(o), Numbers(q)) /\ Before(Numbers(i), Numbers(q))
    BY <1>1 DEF Chain
  <2>2. Before(Numbers(b), Numbers(q))
    BY <1>7, <1>9, <1>11, <2>1 DEF Before
  <2> QED
    BY <1>11, <1>12, <2>1, <2>2, Joined
<1>14. InFlight = c
  BY <1>4, <1>8, <1>10, <1>12
<1>15. /\ Rising(shown \o c) /\ Numbers(shown \o c) = Numbers(shown) \cup Way
  <2>1. Before(Numbers(shown), Numbers(c))
    BY <1>2, <1>7, <1>9, <1>11, <1>13 DEF Before
  <2>2. /\ Rising(shown \o c) /\ Numbers(shown \o c) = Numbers(shown) \cup Numbers(c)
    BY <1>3, <1>13, <2>1, Joined
  <2> QED
    BY <2>2, <1>5, <1>9, <1>11, <1>13
<1> QED
  BY <1>14, <1>15 DEF NothingLost, KInv, Complete, Open

\* A packet that goes from one queue to the next is still there.
LEMMA NumbersMove ==
  ASSUME NEW q \in Seq(Nat), NEW i \in Seq(Nat), q # <<>>
  PROVE  Numbers(Append(i, Head(q))) \cup Numbers(Tail(q)) = Numbers(i) \cup Numbers(q)
<1>1. Head(q) \in Nat
  OBVIOUS
<1> QED
  BY <1>1, NumbersAppend, NumbersTail

\* A mark is no packet, and an empty queue has none.
LEMMA NumbersMarks ==
  ASSUME NEW q \in Seq(Nat)
  PROVE  Numbers(Append(q, 0)) = Numbers(q) /\ Numbers(<<>>) = {}
<1>1. PICK z \in Nat : z = 0
  OBVIOUS
<1>2. Numbers(Append(q, z)) = Numbers(q) \cup ({z} \ {0})
  BY NumbersAppend
<1>3. Numbers(Append(q, z)) = Numbers(q)
  BY <1>1, <1>2
<1> QED
  BY <1>1, <1>3, EmptyRises

\* What nvVideoDec has.
LEMMA NvHolds ==
  ASSUME KInv, backend = "nvdec"
  PROVE  /\ device.output \in Seq(Nat) /\ device.input \in Seq(Nat)
         /\ m_packet_queue \in Seq(Nat) /\ capture \in Captures /\ device \in Devices
         /\ capture.pc = "show" => capture.frame \in Nat /\ capture.frame # 0
         /\ given \in Nat /\ faults \in Nat /\ shown \in Seq(Nat)
<1>1. /\ NvTypeOK /\ Chain(Left, device.output, device.input, m_packet_queue, given)
      /\ Latest \in Nat /\ Latest <= Left /\ (capture.pc = "show" => Latest < Left)
  BY DEF KInv, IInv, NvInv
<1>2. capture.pc = "show" => capture.frame \in Nat /\ capture.frame # 0
  <2>1. Left \in Nat
    BY <1>1 DEF Chain
  <2> QED
    BY <1>1, <2>1 DEF Left
<1> QED
  BY <1>1, <1>2 DEF KInv, IInv, Chain, NvTypeOK

\* What is on its way after a step of nvVideoDec.
LEMMA NvWayNext ==
  /\ Numbers(shown)' = Numbers(shown')
  /\ NvWay' = (IF capture'.pc = "show" THEN {capture'.frame} \ {0} ELSE {})
                 \cup Numbers(device'.output) \cup Numbers(device'.input)
                 \cup Numbers(m_packet_queue')
  BY DEF NvWay, Numbers

\* A step that gives no packet, and loses none unless a call fails.
LEMMA NvKept ==
  ASSUME KInv, backend = "nvdec", UNCHANGED <<backend, given, eosGiven>>,
         client' \in Open => client \in Open,
         faults' = 0 =>
           faults = 0 /\ Numbers(shown)' \cup NvWay' = Numbers(shown) \cup NvWay
  PROVE  Complete'
<1>1. LastData' = LastData
  BY DEF LastData
<1> QED
  BY <1>1 DEF KInv, Complete, Way

\* A call that fails is counted.
LEMMA FailsCount ==
  ASSUME faults \in Nat, NEW ok \in BOOLEAN, Nv!Call(ok) \/ Rk!Call(ok)
  PROVE  faults' \in Nat /\ (faults' = 0 => faults = 0 /\ ok)
  BY DEF Nv!Call, Rk!Call

\* The client.
LEMMA NvClientLoses ==
  ASSUME KInv, backend = "nvdec", UNCHANGED backend, Nv!Client
  PROVE  Complete' /\ StartInv' /\ faults' \in Nat
<1>0. faults \in Nat /\ StartInv
  BY DEF KInv
<1>1. CASE Nv!Setup
  <2>1. /\ UNCHANGED <<given, shown, m_running, m_packet_queue, capture, device, eosGiven>>
        /\ client = "new" /\ \E ok \in BOOLEAN : Nv!Call(ok)
    BY <1>1 DEF Nv!Setup, Nv!threads, Nv!flags
  <2>2. faults' \in Nat /\ (faults' = 0 => faults = 0)
    BY <1>0, <2>1, FailsCount
  <2>3. Complete'
    BY <2>1, <2>2, NvKept, NvWayNext DEF NvWay, Open
  <2> QED
    BY <1>0, <2>1, <2>2, <2>3 DEF StartInv
<1>2. ASSUME NEW eos \in BOOLEAN, Nv!Decode(eos)
      PROVE  Complete' /\ StartInv' /\ faults' \in Nat
  <2> DEFINE p == IF eos THEN 0 ELSE given + 1
  <2>1. /\ UNCHANGED <<shown, device, client, faults>> /\ given' = given + 1
        /\ client = "ready" /\ ~eosGiven /\ eosGiven' = eos
        /\ m_packet_queue' = Append(m_packet_queue, p)
    BY <1>2 DEF Nv!Decode, Nv!Eos
  <2>2. \/ m_running /\ capture' = capture /\ m_running' = m_running
        \/ ~m_running /\ capture' = [pc |-> "event", frame |-> 0] /\ m_running'
    BY <1>2 DEF Nv!Decode, Nv!StartDecoding, Nv!threads, Nv!flags
  <2>3. /\ capture'.pc = "show" <=> capture.pc = "show"
        /\ capture.pc = "show" => capture'.frame = capture.frame
    BY <1>0, <2>1, <2>2 DEF StartInv
  <2>4. given \in Nat /\ p \in Nat /\ m_packet_queue \in Seq(Nat)
    BY NvHolds
  <2>5. Numbers(m_packet_queue') = Numbers(m_packet_queue) \cup ({p} \ {0})
    BY <2>1, <2>4, NumbersAppend
  <2>6. Numbers(shown)' \cup NvWay' = Numbers(shown) \cup NvWay \cup ({p} \ {0})
    BY <2>1, <2>3, <2>5, NvWayNext DEF NvWay
  <2>7. LastData = given /\ LastData' = IF eos THEN given ELSE given + 1
    BY <2>1, <2>4 DEF LastData
  <2>8. 1 .. LastData' = (1 .. LastData) \cup ({p} \ {0})
    BY <2>4, <2>7
  <2>9. Complete'
    BY <2>1, <2>6, <2>8 DEF KInv, Complete, Open, Way
  <2> QED
    BY <1>0, <2>1, <2>2, <2>9 DEF StartInv
<1>3. CASE Nv!Stop
  <2>1. /\ UNCHANGED <<given, shown, m_packet_queue, capture, device, eosGiven, faults>>
        /\ client = "ready" /\ client' = "join decoder"
    BY <1>3 DEF Nv!Stop, Nv!threads
  <2>2. Complete'
    BY <2>1, NvKept, NvWayNext DEF NvWay, Open
  <2> QED
    BY <1>0, <2>1, <2>2 DEF StartInv
<1>4. CASE Nv!JoinThreads
  <2>1. /\ UNCHANGED <<given, shown, capture, device, eosGiven, faults>>
        /\ \/ client = "join decoder" /\ client' = "join capture" /\ UNCHANGED m_packet_queue
           \/ client' = "closed"
    BY <1>4 DEF Nv!JoinThreads, Nv!threads
  <2>2. CASE client = "join decoder" /\ client' = "join capture" /\ UNCHANGED m_packet_queue
    <3>1. Complete'
      BY <2>1, <2>2, NvKept, NvWayNext DEF NvWay, Open
    <3> QED
      BY <1>0, <2>1, <2>2, <3>1 DEF StartInv
  <2>3. CASE client' = "closed"
    BY <1>0, <2>1, <2>3 DEF StartInv, Complete, Open
  <2> QED
    BY <2>1, <2>2, <2>3
<1>5. CASE Nv!Destroy
  <2>1. client' = "gone" /\ faults' = faults
    BY <1>5 DEF Nv!Destroy
  <2> QED
    BY <1>0, <2>1 DEF StartInv, Complete, Open
<1> QED
  BY <1>1, <1>2, <1>3, <1>4, <1>5 DEF Nv!Client

\* A packet that cannot be given to the device is paid for by the call.
LEMMA NvQueueLoses ==
  ASSUME KInv, backend = "nvdec", NEW next, Nv!QueuePacket(next),
         UNCHANGED <<backend, client, given, shown, eosGiven, capture>>, m_packet_queue # <<>>
  PROVE  Complete' /\ faults' \in Nat
<1>1. /\ device.input \in Seq(Nat) /\ m_packet_queue \in Seq(Nat) /\ device \in Devices
      /\ faults \in Nat
  BY NvHolds
<1>2. PICK ok \in BOOLEAN :
        /\ Nv!Call(ok) /\ m_packet_queue' = Tail(m_packet_queue)
        /\ ok => device' = [device EXCEPT !.input = Append(@, Head(m_packet_queue))]
  BY DEF Nv!QueuePacket
<1>3. faults' \in Nat /\ (faults' = 0 => faults = 0 /\ ok)
  BY <1>1, <1>2, FailsCount
<1>4. ASSUME faults' = 0
      PROVE  Numbers(shown)' \cup NvWay' = Numbers(shown) \cup NvWay
  <2>1. /\ device'.input = Append(device.input, Head(m_packet_queue))
        /\ device'.output = device.output
    BY <1>1, <1>2, <1>3, <1>4 DEF Devices
  <2>2. Numbers(Append(device.input, Head(m_packet_queue))) \cup Numbers(Tail(m_packet_queue))
          = Numbers(device.input) \cup Numbers(m_packet_queue)
    BY <1>1, NumbersMove
  <2> QED
    BY <1>2, <2>1, <2>2, NvWayNext DEF NvWay
<1>5. Complete'
  BY <1>3, <1>4, NvKept
<1> QED
  BY <1>3, <1>5

\* decoderThreadFunc.
LEMMA NvDecoderLoses ==
  ASSUME KInv, backend = "nvdec", UNCHANGED backend,
         Nv!Fill \/ Nv!Dequeue \/ Nv!DequeueOutput \/ Nv!Requeue \/ Nv!Feed
  PROVE  Complete' /\ StartInv' /\ faults' \in Nat
<1>0. /\ faults \in Nat /\ StartInv /\ device \in Devices /\ device.input \in Seq(Nat)
  BY NvHolds DEF KInv
<1>1. /\ UNCHANGED <<client, given, shown, eosGiven, m_running, capture>>
  BY DEF Nv!Fill, Nv!Dequeue, Nv!DequeueOutput, Nv!Requeue, Nv!Feed, Nv!outside, Nv!flags
<1>2. StartInv'
  BY <1>0, <1>1 DEF StartInv
<1>3. CASE UNCHANGED <<faults, m_packet_queue, device>>
  <2>1. Complete'
    BY <1>1, <1>3, NvKept, NvWayNext DEF NvWay
  <2> QED
    BY <1>0, <1>2, <1>3, <2>1
<1>4. ASSUME NEW next, Nv!QueuePacket(next), m_packet_queue # <<>>
      PROVE  Complete' /\ StartInv' /\ faults' \in Nat
  BY <1>1, <1>2, <1>4, NvQueueLoses
<1>5. CASE Nv!DequeueOutput
  <2>1. PICK ok \in BOOLEAN :
          /\ Nv!Call(ok) /\ UNCHANGED m_packet_queue
          /\ device' = device \/ device' = [device EXCEPT !.free = @ - 1]
    BY <1>5 DEF Nv!DequeueOutput
  <2>2. device'.output = device.output /\ device'.input = device.input
    BY <1>0, <2>1 DEF Devices
  <2>3. faults' \in Nat /\ (faults' = 0 => faults = 0)
    BY <1>0, <2>1, FailsCount
  <2>4. Complete'
    BY <1>1, <2>1, <2>2, <2>3, NvKept, NvWayNext DEF NvWay
  <2> QED
    BY <1>2, <2>3, <2>4
<1>6. CASE Nv!Requeue
  <2>1. PICK ok \in BOOLEAN :
          /\ Nv!Call(ok) /\ UNCHANGED m_packet_queue
          /\ device' = device \/ device' = [device EXCEPT !.input = Append(@, 0)]
    BY <1>6 DEF Nv!Requeue, Nv!Eos
  <2>2. /\ device'.output = device.output
        /\ device'.input = device.input \/ device'.input = Append(device.input, 0)
    BY <1>0, <2>1 DEF Devices
  <2>3. Numbers(device'.input) = Numbers(device.input)
    BY <1>0, <2>2, NumbersMarks
  <2>4. faults' \in Nat /\ (faults' = 0 => faults = 0)
    BY <1>0, <2>1, FailsCount
  <2>5. Complete'
    BY <1>1, <2>1, <2>2, <2>3, <2>4, NvKept, NvWayNext DEF NvWay
  <2> QED
    BY <1>2, <2>4, <2>5
<1>7. CASE Nv!Fill
  BY <1>3, <1>4, <1>7 DEF Nv!Fill
<1>8. CASE Nv!Feed
  BY <1>3, <1>4, <1>8 DEF Nv!Feed
<1>9. CASE Nv!Dequeue
  BY <1>3, <1>9 DEF Nv!Dequeue
<1> QED
  BY <1>5, <1>6, <1>7, <1>8, <1>9

\* captureThreadFunc, and the frame that goes through it.
LEMMA NvCaptureLoses ==
  ASSUME KInv, backend = "nvdec", UNCHANGED backend,
         Nv!AwaitResolution \/ Nv!CaptureLoop \/ Nv!DequeueFrame \/ Nv!ShowFrame
  PROVE  Complete' /\ StartInv' /\ faults' \in Nat
<1>0. /\ faults \in Nat /\ StartInv /\ device \in Devices /\ capture \in Captures
      /\ device.output \in Seq(Nat) /\ shown \in Seq(Nat)
      /\ capture.pc = "show" => capture.frame \in Nat /\ capture.frame # 0
  BY NvHolds DEF KInv
<1>1. UNCHANGED <<client, given, eosGiven, m_running, m_packet_queue>> /\ capture.pc # "none"
  BY DEF Nv!AwaitResolution, Nv!CaptureLoop, Nv!DequeueFrame, Nv!ShowFrame, Nv!outside
<1>2. StartInv'
  BY <1>0, <1>1 DEF StartInv
<1>3. CASE Nv!AwaitResolution \/ Nv!CaptureLoop
  <2>1. /\ UNCHANGED shown /\ capture.pc \in {"event", "loop"}
        /\ \E where \in {"loop", "dq", "end"} : capture' = [capture EXCEPT !.pc = where]
        /\ device' = device \/ device' = [device EXCEPT !.event = "set up"]
    BY <1>3 DEF Nv!AwaitResolution, Nv!CaptureLoop, Nv!SetCapture, Nv!CaptureEnds
  <2>2. /\ capture'.pc # "show" /\ capture.pc # "show"
        /\ device'.output = device.output /\ device'.input = device.input
    BY <1>0, <2>1 DEF Captures, Devices
  <2>3. faults' = faults \/ \E ok \in BOOLEAN : Nv!Call(ok)
    BY <1>3 DEF Nv!AwaitResolution, Nv!CaptureLoop, Nv!SetCapture
  <2>4. faults' \in Nat /\ (faults' = 0 => faults = 0)
    BY <1>0, <2>3, FailsCount
  <2>5. Complete'
    BY <1>1, <2>1, <2>2, <2>4, NvKept, NvWayNext DEF NvWay
  <2> QED
    BY <1>2, <2>4, <2>5
<1>4. CASE Nv!DequeueFrame
  <2>1. PICK f, ok :
          /\ ok \in BOOLEAN
          /\ f = Head(device.output) /\ Nv!Call(ok) /\ UNCHANGED shown /\ capture.pc = "dq"
          /\ device.output # <<>>
          /\ ok => /\ device' = [device EXCEPT !.output = Tail(@)]
                   /\ IF f = 0 THEN capture' = [capture EXCEPT !.pc = "end"]
                      ELSE capture' = [pc |-> "show", frame |-> f]
    BY <1>4 DEF Nv!DequeueFrame, Nv!CaptureEnds, Nv!Eos
  <2>2. faults' \in Nat /\ (faults' = 0 => faults = 0 /\ ok)
    BY <1>0, <2>1, FailsCount
  <2>3. ASSUME faults' = 0
        PROVE  Numbers(shown)' \cup NvWay' = Numbers(shown) \cup NvWay
    <3>1. /\ device'.output = Tail(device.output) /\ device'.input = device.input
          /\ capture'.pc = IF f = 0 THEN "end" ELSE "show"
          /\ f # 0 => capture'.frame = f
      BY <1>0, <2>1, <2>2, <2>3 DEF Captures, Devices
    <3>2. Numbers(device.output) = ({f} \ {0}) \cup Numbers(Tail(device.output))
      BY <1>0, <2>1, NumbersTail
    <3> QED
      BY <1>1, <2>1, <3>1, <3>2, NvWayNext DEF NvWay
  <2>4. Complete'
    BY <1>1, <2>2, <2>3, NvKept
  <2> QED
    BY <1>2, <2>2, <2>4
<1>5. CASE Nv!ShowFrame
  <2>1. PICK whole \in BOOLEAN, back \in BOOLEAN :
          /\ Nv!Call(whole /\ back) /\ UNCHANGED device /\ capture.pc = "show"
          /\ whole => shown' = Append(shown, capture.frame)
          /\ \E where \in {"loop", "end"} : capture' = [capture EXCEPT !.pc = where]
    BY <1>5 DEF Nv!ShowFrame, Nv!CaptureEnds
  <2>2. faults' \in Nat /\ (faults' = 0 => faults = 0 /\ whole)
    BY <1>0, <2>1 DEF Nv!Call
  <2>3. capture'.pc # "show"
    BY <1>0, <2>1 DEF Captures
  <2>4. ASSUME faults' = 0
        PROVE  Numbers(shown)' \cup NvWay' = Numbers(shown) \cup NvWay
    <3>1. Numbers(shown') = Numbers(shown) \cup ({capture.frame} \ {0})
      BY <1>0, <2>1, <2>2, <2>4, NumbersAppend
    <3> QED
      BY <1>1, <2>1, <2>3, <3>1, NvWayNext DEF NvWay
  <2>5. Complete'
    BY <1>1, <2>2, <2>4, NvKept
  <2> QED
    BY <1>2, <2>2, <2>5
<1> QED
  BY <1>3, <1>4, <1>5

\* The device.
LEMMA NvDeviceLoses ==
  ASSUME KInv, backend = "nvdec", UNCHANGED backend, Nv!Device
  PROVE  Complete' /\ StartInv' /\ faults' \in Nat
<1>0. /\ faults \in Nat /\ StartInv /\ device \in Devices
      /\ device.output \in Seq(Nat) /\ device.input \in Seq(Nat)
  BY NvHolds DEF KInv
<1>1. UNCHANGED <<client, given, shown, eosGiven, m_running, m_packet_queue, capture, faults>>
  BY DEF Nv!Device, Nv!Announce, Nv!Decodes, Nv!outside, Nv!flags, Nv!threads
<1>2. StartInv'
  BY <1>0, <1>1 DEF StartInv
<1>3. Numbers(device'.output) \cup Numbers(device'.input)
        = Numbers(device.output) \cup Numbers(device.input)
  <2>1. CASE Nv!Announce
    <3>1. device'.output = device.output /\ device'.input = device.input
      BY <1>0, <2>1 DEF Nv!Announce, Devices
    <3> QED
      BY <3>1
  <2>2. CASE Nv!Decodes
    <3>1. /\ device.input # <<>> /\ device'.input = Tail(device.input)
          /\ \/ device'.output = Append(device.output, Head(device.input))
             \/ device'.output = device.output /\ Head(device.input) = 0
      BY <1>0, <2>2 DEF Nv!Decodes, Nv!Eos, Devices
    <3>2. /\ Numbers(Append(device.output, Head(device.input))) \cup Numbers(Tail(device.input))
               = Numbers(device.output) \cup Numbers(device.input)
          /\ Numbers(device.input) = ({Head(device.input)} \ {0}) \cup Numbers(Tail(device.input))
      BY <1>0, <3>1, NumbersMove, NumbersTail
    <3> QED
      BY <3>1, <3>2
  <2> QED
    BY <2>1, <2>2 DEF Nv!Device
<1>4. Complete'
  BY <1>1, <1>3, NvKept, NvWayNext DEF NvWay
<1> QED
  BY <1>0, <1>1, <1>2, <1>4

\* What rkmppDec has.
LEMMA RkHolds ==
  ASSUME KInv, backend = "rkmpp"
  PROVE  /\ RkTypeOK /\ given \in Nat /\ faults \in Nat /\ shown \in Seq(Nat)
         /\ mpp \in Mpps /\ call \in Calls
         /\ mpp.input \in Seq(MppFrames) /\ mpp.output \in Seq(MppFrames)
         /\ Frames(mpp.input) \in Seq(Nat) /\ Frames(mpp.output) \in Seq(Nat)
         /\ pc # "idle" => given > 0
<1>1. RkTypeOK /\ (pc # "idle" => given > 0)
  BY DEF KInv, IInv, RkInv
<1>2. mpp.input \in Seq(MppFrames) /\ mpp.output \in Seq(MppFrames)
  BY <1>1, MppHolds
<1> QED
  BY <1>1, <1>2, FramesMove DEF KInv, IInv, RkTypeOK

\* What is on its way after a step of rkmppDec.
LEMMA RkWayNext ==
  /\ Numbers(shown)' = Numbers(shown') /\ Numbers(Waiting)' = Numbers(Waiting')
  /\ RkWay' = Numbers(Frames(mpp'.output)) \cup Numbers(Frames(mpp'.input))
                 \cup Numbers(Waiting')
  BY DEF RkWay, Numbers, Frames

\* A step that gives no packet, and loses none unless a call fails.
LEMMA RkKept ==
  ASSUME KInv, backend = "rkmpp", UNCHANGED <<backend, given>>,
         client' \in Open => client \in Open,
         faults' = 0 =>
           faults = 0 /\ Numbers(shown)' \cup RkWay' = Numbers(shown) \cup RkWay
  PROVE  Complete'
<1>1. LastData' = LastData
  BY DEF LastData
<1> QED
  BY <1>1 DEF KInv, Complete, Way

\* The packet decode() still has.
LEMMA WaitingNumbers ==
  ASSUME given \in Nat
  PROVE  Numbers(Waiting) = IF pc # "idle" /\ ~call.done THEN {given} \ {0} ELSE {}
<1>1. PICK none, n : none = <<>> /\ n = given
  OBVIOUS
<1>2. none \in Seq(Nat) /\ n \in Nat /\ Numbers(none) = {}
  BY <1>1, EmptyRises
<1>3. Numbers(Append(none, n)) = Numbers(none) \cup ({n} \ {0})
  BY <1>2, NumbersAppend
<1>4. Append(none, n) = <<given>>
  BY <1>1
<1> QED
  BY <1>1, <1>2, <1>3, <1>4 DEF Waiting

\* setup, the entry of decode(), and tearDown.
LEMMA RkClientLoses ==
  ASSUME KInv, backend = "rkmpp", UNCHANGED backend,
         Rk!Setup \/ (\E eos \in BOOLEAN : Rk!Decode(eos)) \/ Rk!TearDown
  PROVE  Complete' /\ faults' \in Nat
<1>0. faults \in Nat /\ given \in Nat
  BY RkHolds
<1>1. CASE Rk!Setup
  <2>1. /\ UNCHANGED <<given, shown, pc, call, mpp>> /\ client = "new"
        /\ \E ok \in BOOLEAN : Rk!Call(ok)
    BY <1>1 DEF Rk!Setup
  <2>2. faults' \in Nat /\ (faults' = 0 => faults = 0)
    BY <1>0, <2>1, FailsCount
  <2>3. Complete'
    BY <2>1, <2>2, RkKept, RkWayNext DEF RkWay, Open, Waiting
  <2> QED
    BY <2>2, <2>3
<1>2. ASSUME NEW eos \in BOOLEAN, Rk!Decode(eos)
      PROVE  Complete' /\ faults' \in Nat
  <2>1. /\ UNCHANGED <<client, shown, mpp, faults>> /\ given' = given + 1 /\ client = "ready"
        /\ pc = "idle" /\ pc' = "put" /\ ~call'.done
    BY <1>2 DEF Rk!Decode
  <2>2. Numbers(Waiting) = {}
    BY <1>0, <2>1, WaitingNumbers
  <2>3. Numbers(Waiting)' = {given + 1}
    <3>1. Waiting' = <<given + 1>>
      BY <2>1 DEF Waiting
    <3>2. Numbers(<<given + 1>>) = {given + 1}
      BY <1>0 DEF Numbers
    <3> QED
      BY <3>1, <3>2, RkWayNext
  <2>4. Numbers(shown)' \cup RkWay' = Numbers(shown) \cup RkWay \cup {given + 1}
    BY <2>1, <2>2, <2>3, RkWayNext DEF RkWay
  <2>5. LastData = given /\ LastData' = given + 1
    BY <2>1 DEF LastData
  <2>6. 1 .. given + 1 = (1 .. given) \cup {given + 1}
    BY <1>0
  <2>7. Complete'
    BY <2>1, <2>4, <2>5, <2>6 DEF KInv, Complete, Open, Way
  <2> QED
    BY <1>0, <2>1, <2>7
<1>3. CASE Rk!TearDown
  <2>1. client' \in {"closed", "gone"} /\ faults' = faults
    BY <1>3 DEF Rk!TearDown
  <2> QED
    BY <1>0, <2>1 DEF Complete, Open
<1> QED
  BY <1>1, <1>2, <1>3

\* The put, and rounds without a frame.
LEMMA RkRoundLoses ==
  ASSUME KInv, backend = "rkmpp", UNCHANGED backend,
         Rk!PutPacket \/ Rk!GetNothing \/ Rk!EndRound
  PROVE  Complete' /\ faults' \in Nat
<1>0. /\ faults \in Nat /\ given \in Nat /\ mpp \in Mpps /\ call \in Calls
      /\ mpp.input \in Seq(MppFrames) /\ Frames(mpp.input) \in Seq(Nat)
      /\ pc # "idle" => given > 0
  BY RkHolds
<1>1. UNCHANGED <<client, given, shown>> /\ pc # "idle"
  BY DEF Rk!PutPacket, Rk!GetNothing, Rk!EndRound, Rk!rest
<1>2. CASE /\ Waiting' = Waiting /\ UNCHANGED mpp
           /\ faults' \in Nat /\ (faults' = 0 => faults = 0)
  <2>1. Complete'
    BY <1>1, <1>2, RkKept, RkWayNext DEF RkWay
  <2> QED
    BY <1>2, <2>1
<1>3. CASE Rk!PutPacket
  <2>1. /\ pc' = "get" /\ faults' \in Nat /\ (faults' = 0 => faults = 0)
    <3>1. faults' = faults \/ Rk!Call(FALSE)
      BY <1>3 DEF Rk!PutPacket
    <3> QED
      BY <1>0, <1>3, <3>1, FailsCount DEF Rk!PutPacket
  <2>2. CASE UNCHANGED <<call, mpp>>
    <3>1. Waiting' = Waiting
      BY <1>1, <2>1, <2>2 DEF Waiting
    <3> QED
      BY <1>0, <1>2, <2>1, <2>2, <3>1
  <2>3. CASE /\ ~call.done /\ call' = [call EXCEPT !.done = TRUE]
             /\ mpp' = [mpp EXCEPT !.input = Append(@, [n |-> given, eos |-> call.eos])]
    <3> DEFINE f == [n |-> given, eos |-> call.eos]
    <3>1. f \in MppFrames /\ f.n = given
      BY <1>0 DEF MppFrames, Calls
    <3>2. mpp'.input = Append(mpp.input, f) /\ mpp'.output = mpp.output
      BY <1>0, <2>3 DEF Mpps
    <3> HIDE DEF f
    <3>3. Frames(mpp'.input) = Append(Frames(mpp.input), given)
      BY <1>0, <3>1, <3>2, FramesMove
    <3>4. Numbers(Frames(mpp'.input)) = Numbers(Frames(mpp.input)) \cup ({given} \ {0})
      BY <1>0, <3>3, NumbersAppend
    <3>5. Numbers(Waiting) = {given} \ {0} /\ Waiting' = <<>>
      <4>1. call'.done
        BY <1>0, <2>3, CallChanges
      <4> QED
        BY <1>0, <1>1, <2>3, <4>1, WaitingNumbers DEF Waiting
    <3>6. Numbers(Waiting)' = {}
      BY <3>5, EmptyRises, RkWayNext
    <3>7. RkWay' = RkWay
      BY <3>2, <3>4, <3>5, <3>6, RkWayNext DEF RkWay
    <3>8. Complete'
      BY <1>1, <2>1, <3>7, RkKept, RkWayNext
    <3> QED
      BY <1>0, <2>1, <3>8
  <2> QED
    BY <1>3, <2>2, <2>3 DEF Rk!PutPacket
<1>4. CASE Rk!GetNothing
  <2>1. /\ pc' # "idle" /\ UNCHANGED mpp
        /\ \E ok \in BOOLEAN : call' = [call EXCEPT !.ok = ok]
        /\ faults' = faults \/ Rk!Call(FALSE)
    BY <1>4 DEF Rk!GetNothing, Rk!NextRound
  <2>2. call'.done = call.done
    <3>1. PICK ok \in BOOLEAN : call' = [call EXCEPT !.ok = ok]
      BY <2>1
    <3> QED
      BY <1>0, <3>1, CallChanges, Zenon
  <2>3. Waiting' = Waiting
    BY <1>1, <2>1, <2>2 DEF Waiting
  <2>4. faults' \in Nat /\ (faults' = 0 => faults = 0)
    BY <1>0, <2>1 DEF Rk!Call
  <2> QED
    BY <1>2, <2>1, <2>3, <2>4
<1>5. CASE Rk!EndRound
  <2>1. UNCHANGED <<mpp, call, faults>> /\ pc' = IF call.done THEN "idle" ELSE "put"
    BY <1>5 DEF Rk!EndRound
  <2>2. Waiting' = Waiting
    BY <1>1, <2>1 DEF Waiting
  <2> QED
    BY <1>0, <1>2, <2>1, <2>2
<1> QED
  BY <1>3, <1>4, <1>5

\* A frame is taken: a picture, which is shown, or an info change.
LEMMA RkFrameLoses ==
  ASSUME KInv, backend = "rkmpp", UNCHANGED backend, Rk!GetPicture \/ Rk!GetInfo
  PROVE  Complete' /\ faults' \in Nat
<1>0. /\ faults \in Nat /\ given \in Nat /\ mpp \in Mpps /\ call \in Calls /\ RkTypeOK
      /\ mpp.output \in Seq(MppFrames) /\ Frames(mpp.output) \in Seq(Nat) /\ shown \in Seq(Nat)
  BY RkHolds
<1> DEFINE f == Head(mpp.output)
<1>1. /\ UNCHANGED <<client, given>> /\ pc # "idle" /\ pc' # "idle" /\ mpp.output # <<>>
      /\ mpp'.output = Tail(mpp.output) /\ mpp'.input = mpp.input
  BY <1>0 DEF Rk!GetPicture, Rk!GetInfo, Rk!rest, Rk!NextRound, Mpps
<1>2. /\ f \in MppFrames /\ Head(Frames(mpp.output)) = f.n /\ Frames(mpp.output) # <<>>
      /\ Tail(Frames(mpp.output)) = Frames(Tail(mpp.output))
  BY <1>0, <1>1, FramesMove
<1>3. Numbers(Frames(mpp.output)) = ({f.n} \ {0}) \cup Numbers(Frames(mpp'.output))
  BY <1>0, <1>1, <1>2, NumbersTail
<1>4. \E b, d \in BOOLEAN :
         call' = [call EXCEPT !.ok = b] \/ call' = [call EXCEPT !.frm_eos = d, !.ok = b]
  <2>1. f.eos \in BOOLEAN
    BY <1>2 DEF MppFrames
  <2> QED
    BY <2>1 DEF Rk!GetPicture, Rk!GetInfo
<1>5. Waiting' = Waiting
  <2>1. call'.done = call.done
    <3>1. PICK b \in BOOLEAN, d \in BOOLEAN :
             call' = [call EXCEPT !.ok = b] \/ call' = [call EXCEPT !.frm_eos = d, !.ok = b]
      BY <1>4
    <3> QED
      BY <1>0, <3>1 DEF Calls
  <2> QED
    BY <1>1, <2>1 DEF Waiting
<1>6. CASE Rk!GetPicture
  <2>1. shown' = Append(shown, f.n) /\ faults' = faults /\ f.n \in Nat
    BY <1>2, <1>6 DEF Rk!GetPicture, MppFrames
  <2>2. Numbers(shown') = Numbers(shown) \cup ({f.n} \ {0})
    BY <1>0, <2>1, NumbersAppend
  <2>3. Numbers(shown)' \cup RkWay' = Numbers(shown) \cup RkWay
    BY <1>1, <1>3, <1>5, <2>2, RkWayNext DEF RkWay
  <2>4. Complete'
    BY <1>1, <2>1, <2>3, RkKept
  <2> QED
    BY <1>0, <2>1, <2>4
<1>7. CASE Rk!GetInfo
  <2>1. UNCHANGED shown /\ f = Rk!Info /\ \E ok \in BOOLEAN : Rk!Call(ok)
    BY <1>7 DEF Rk!GetInfo
  <2>2. faults' \in Nat /\ (faults' = 0 => faults = 0)
    BY <1>0, <2>1, FailsCount
  <2>3. {f.n} \ {0} = {}
    BY <2>1 DEF Rk!Info
  <2>4. Numbers(shown)' \cup RkWay' = Numbers(shown) \cup RkWay
    BY <1>1, <1>3, <1>5, <2>1, <2>3, RkWayNext DEF RkWay
  <2>5. Complete'
    BY <1>1, <2>2, <2>4, RkKept
  <2> QED
    BY <2>2, <2>5
<1> QED
  BY <1>6, <1>7

\* The library.
LEMMA RkMppLoses ==
  ASSUME KInv, backend = "rkmpp", UNCHANGED backend, Rk!MppAnnounces \/ Rk!MppDecodes
  PROVE  Complete' /\ faults' \in Nat
<1>0. /\ faults \in Nat /\ mpp \in Mpps /\ RkTypeOK
      /\ mpp.output \in Seq(MppFrames) /\ mpp.input \in Seq(MppFrames)
      /\ Frames(mpp.output) \in Seq(Nat) /\ Frames(mpp.input) \in Seq(Nat)
  BY RkHolds
<1>1. UNCHANGED <<client, given, shown, pc, call, faults>> /\ Waiting' = Waiting
  BY DEF Rk!MppAnnounces, Rk!MppDecodes, Rk!rest, Waiting
<1>2. Numbers(Frames(mpp'.output)) \cup Numbers(Frames(mpp'.input))
        = Numbers(Frames(mpp.output)) \cup Numbers(Frames(mpp.input))
  <2>1. CASE Rk!MppAnnounces
    <3>1. mpp'.output = Append(mpp.output, Rk!Info) /\ mpp'.input = mpp.input
      BY <1>0, <2>1 DEF Rk!MppAnnounces, Mpps
    <3>2. Frames(mpp'.output) = Append(Frames(mpp.output), 0)
      BY <1>0, <3>1, MppHolds, FramesMove
    <3> QED
      BY <1>0, <3>1, <3>2, NumbersMarks
  <2>2. CASE Rk!MppDecodes
    <3> DEFINE f == Head(mpp.input)
    <3>1. /\ mpp.input # <<>> /\ mpp'.input = Tail(mpp.input)
          /\ mpp'.output = Append(mpp.output, f)
      BY <1>0, <2>2 DEF Rk!MppDecodes, Mpps
    <3>2. /\ f \in MppFrames /\ Frames(mpp.input) # <<>> /\ Head(Frames(mpp.input)) = f.n
          /\ Tail(Frames(mpp.input)) = Frames(mpp'.input)
      BY <1>0, <3>1, FramesMove
    <3> HIDE DEF f
    <3>3. Frames(mpp'.output) = Append(Frames(mpp.output), Head(Frames(mpp.input)))
      BY <1>0, <3>1, <3>2, FramesMove
    <3> QED
      BY <1>0, <3>2, <3>3, NumbersMove
  <2> QED
    BY <2>1, <2>2
<1>3. Complete'
  BY <1>1, <1>2, RkKept, RkWayNext DEF RkWay
<1> QED
  BY <1>0, <1>1, <1>3

\* The decoders start with nothing given.
LEMMA InitKInv == Init => KInv
<1> SUFFICES ASSUME Init PROVE KInv
  OBVIOUS
<1>1. /\ given = 0 /\ shown = <<>> /\ faults = 0 /\ eosGiven = FALSE
      /\ m_packet_queue = <<>> /\ capture = [pc |-> "none", frame |-> 0]
      /\ device = [free |-> 0, input |-> <<>>, event |-> "none", changes |-> 0, output |-> <<>>]
      /\ pc = "idle"
      /\ mpp = [input |-> <<>>, info |-> "none", changes |-> 0, output |-> <<>>]
  BY DEF Init, Nv!NvInit, Rk!RkInit
<1>2. LastData = 0 /\ 1 .. 0 = {}
  BY <1>1 DEF LastData
<1>3. /\ device.output = <<>> /\ device.input = <<>> /\ capture.pc = "none"
      /\ Frames(mpp.output) = <<>> /\ Frames(mpp.input) = <<>> /\ Waiting = <<>>
  BY <1>1 DEF Frames, Waiting
<1>4. Numbers(shown) \cup Way = {}
  BY <1>1, <1>3, EmptyRises DEF Way, NvWay, RkWay
<1>5. Complete /\ StartInv
  BY <1>2, <1>3, <1>4 DEF Complete, StartInv
<1>6. ShownInv
  BY <1>1, EmptyRises DEF ShownInv, Before
<1> QED
  BY <1>1, <1>5, <1>6, InitIInv DEF KInv

\* Each step of either decoder keeps the packets.
LEMMA NextKInv == KInv /\ [Next]_vars => KInv'
<1> SUFFICES ASSUME KInv, [Next]_vars PROVE KInv'
  OBVIOUS
<1>1. IInv' /\ Promised /\ IInv
  BY NextIInv DEF KInv
<1>2. ShownInv'
  BY <1>1, ShownStays DEF KInv, IInv
<1>3. CASE backend = "nvdec" /\ Nv!NvNext /\ UNCHANGED backend
  <2>1. Complete' /\ StartInv' /\ faults' \in Nat
    <3>1. CASE Nv!Client
      BY <1>3, <3>1, NvClientLoses
    <3>2. CASE Nv!Threads
      BY <1>3, <3>2, NvDecoderLoses, NvCaptureLoses DEF Nv!Threads
    <3>3. CASE Nv!Device
      BY <1>3, <3>3, NvDeviceLoses
    <3> QED
      BY <1>3, <3>1, <3>2, <3>3 DEF Nv!NvNext
  <2> QED
    BY <1>1, <1>2, <2>1 DEF KInv
<1>4. CASE backend = "rkmpp" /\ Rk!RkNext /\ UNCHANGED backend
  <2>1. Complete' /\ faults' \in Nat
    BY <1>4, RkClientLoses, RkRoundLoses, RkFrameLoses, RkMppLoses DEF Rk!RkNext
  <2> QED
    BY <1>1, <1>2, <1>4, <2>1 DEF KInv
<1>5. CASE UNCHANGED vars
  <2>1. Complete' /\ faults' = faults /\ (backend' = "nvdec" => StartInv')
    BY <1>5 DEF vars, KInv, Complete, StartInv, Way, NvWay, RkWay, Waiting, Frames, Numbers,
                LastData
  <2> QED
    BY <1>1, <1>2, <2>1 DEF KInv
<1> QED
  BY <1>3, <1>4, <1>5 DEF Next

\* Frames and packets keep their order, whatever fails, and none is lost until
\* a call to the device does, for any number of packets, buffers and changes of
\* the resolution (nvVideoDec.cpp 300-708, rkmppDec.cpp 110-359).
THEOREM PacketsKept == Spec => []NothingLost
<1>1. Init => KInv
  BY InitKInv
<1>2. KInv /\ [Next]_vars => KInv'
  BY NextKInv
<1>3. KInv => NothingLost
  BY KInvMeans
<1> QED
  BY <1>1, <1>2, <1>3, PTL DEF Spec

(*****************************************************************************)
(* The video detection samples.  The outcomes of a conversion.               *)
(*****************************************************************************)

\* The types of what the conversions work on.
Images == [frame : Int, boxes : Int]
Surfaces == [live : Nat, orphans : Nat, lost : Nat]
Buffers == [made : BOOLEAN, content : Images, map : Surfaces]
\* A map between the steps: no surface is in use.
Settled == [live : {0}, orphans : Nat, lost : Nat]
\* The surfaces that nobody releases any more, or not before the Graphics2D is destroyed.
Leaked(map) == map.orphans + map.lost

\* Entering a surface into the map, where another may lose its place (NvVicGraphics2D.cpp
\* 268-283), neither changes what is in use nor makes a surface unreachable that was not yet.
LEMMA EnteredIs ==
  ASSUME NEW map \in Surfaces, NEW m \in Entered(map)
  PROVE  m \in Surfaces /\ m.live = map.live /\ Leaked(m) = Leaked(map)
<1>1. CASE m = map
  BY <1>1
<1>2. CASE map.orphans # 0 /\ m = [map EXCEPT !.orphans = @ - 1, !.lost = @ + 1]
  <2>1. map.live \in Nat /\ map.orphans \in Nat /\ map.lost \in Nat
    BY DEF Surfaces
  <2>2. m = [live |-> map.live, orphans |-> map.orphans - 1, lost |-> map.lost + 1]
    BY <1>2, <2>1 DEF Surfaces
  <2> QED
    BY <1>2, <2>1, <2>2 DEF Surfaces, Leaked
<1> QED
  BY <1>1, <1>2 DEF Entered

\* createGraphics2DBuffer: a buffer that was made holds the host's picture and, on VIC, one
\* surface; one that was not may leave one surface behind.
LEMMA CreateIs ==
  ASSUME NEW p, NEW host \in Images, NEW map \in Surfaces, NEW b \in CreateBuffer(p, host, map)
  PROVE  /\ b \in Buffers
         /\ b.map.live = IF p = "nv" /\ b.made THEN map.live + 1 ELSE map.live
         /\ b.made => b.content = host /\ Leaked(b.map) = Leaked(map)
         /\ ~b.made => Leaked(b.map) <= Leaked(map) + 1
<1>0. Torn \in Images /\ map.live \in Nat /\ Leaked(map) \in Nat
  BY DEF Torn, Image, Images, Surfaces, Leaked
<1>1. CASE p # "nv"
  <2>1. b = [made |-> TRUE, content |-> host, map |-> map]
    BY <1>1 DEF CreateBuffer, RgaCreateBuffer
  <2>2. b.made = TRUE /\ b.content = host /\ b.map = map /\ b \in Buffers
    BY <2>1 DEF Buffers
  <2> QED
    BY <1>1, <2>2
<1>2. CASE p = "nv"
  <2>1. b \in NvCreateBuffer(host, map)
    BY <1>2 DEF CreateBuffer
  <2>2. CASE b = [made |-> FALSE, content |-> Torn, map |-> map]
    <3>1. b.made = FALSE /\ b.content = Torn /\ b.map = map /\ b \in Buffers
      BY <1>0, <2>2 DEF Buffers
    <3> QED
      BY <1>0, <3>1
  <2>3. CASE \E c \in CopyToSurface(host), m \in Entered(map) :
               b = IF c.ret = 0
                   THEN [made |-> TRUE, content |-> c.content, map |-> [m EXCEPT !.live = @ + 1]]
                   ELSE [made |-> FALSE, content |-> Torn, map |-> [m EXCEPT !.orphans = @ + 1]]
    <3>1. PICK c \in CopyToSurface(host), m \in Entered(map) :
               b = IF c.ret = 0
                   THEN [made |-> TRUE, content |-> c.content, map |-> [m EXCEPT !.live = @ + 1]]
                   ELSE [made |-> FALSE, content |-> Torn, map |-> [m EXCEPT !.orphans = @ + 1]]
      BY <2>3
    <3>2. m \in Surfaces /\ m.live = map.live /\ Leaked(m) = Leaked(map)
      BY <3>1, EnteredIs
    <3>3. m.live \in Nat /\ m.orphans \in Nat /\ m.lost \in Nat
      BY <3>2 DEF Surfaces
    <3>4. CASE c.ret = 0
      <4> DEFINE n == [m EXCEPT !.live = @ + 1]
      <4>1. c.content = host
        BY <3>1, <3>4 DEF CopyToSurface
      <4>2. n = [live |-> m.live + 1, orphans |-> m.orphans, lost |-> m.lost]
        BY <3>2 DEF Surfaces
      <4>3. n \in Surfaces /\ n.live = m.live + 1 /\ Leaked(n) = Leaked(m)
        BY <3>3, <4>2 DEF Surfaces, Leaked
      <4>4. b = [made |-> TRUE, content |-> host, map |-> n]
        BY <3>1, <3>4, <4>1
      <4> HIDE DEF n
      <4>5. b.made = TRUE /\ b.content = host /\ b.map = n /\ b \in Buffers
        BY <4>3, <4>4 DEF Buffers
      <4> QED
        BY <1>2, <3>2, <4>3, <4>5
    <3>5. CASE c.ret # 0
      <4> DEFINE n == [m EXCEPT !.orphans = @ + 1]
      <4>2. n = [live |-> m.live, orphans |-> m.orphans + 1, lost |-> m.lost]
        BY <3>2 DEF Surfaces
      <4>3. n \in Surfaces /\ n.live = m.live /\ Leaked(n) = Leaked(m) + 1
        BY <3>3, <4>2 DEF Surfaces, Leaked
      <4>4. b = [made |-> FALSE, content |-> Torn, map |-> n]
        BY <3>1, <3>5
      <4> HIDE DEF n
      <4>5. b.made = FALSE /\ b.content = Torn /\ b.map = n /\ b \in Buffers
        BY <1>0, <4>3, <4>4 DEF Buffers
      <4> QED
        BY <1>0, <1>2, <3>2, <4>3, <4>5
    <3> QED
      BY <3>4, <3>5
  <2> QED
    BY <2>1, <2>2, <2>3 DEF NvCreateBuffer
<1> QED
  BY <1>1, <1>2

\* The surfaces a buffer has in use.
Uses(p, b) == IF p = "nv" /\ b.made THEN 1 ELSE 0

\* releaseGraphics2DBuffer of both buffers leaves no surface in use, and none behind.
LEMMA ReleaseIs ==
  ASSUME NEW p, NEW a \in Buffers, NEW b \in Buffers, NEW map \in Surfaces,
         map.live = Uses(p, a) + Uses(p, b)
  PROVE  ReleaseBoth(p, a, b, map) \in Settled /\ Leaked(ReleaseBoth(p, a, b, map)) = Leaked(map)
<1>1. map = [live |-> map.live, orphans |-> map.orphans, lost |-> map.lost]
      /\ map.live \in Nat /\ map.orphans \in Nat /\ map.lost \in Nat
  BY DEF Surfaces
<1>2. a.made \in BOOLEAN /\ b.made \in BOOLEAN
  BY DEF Buffers
<1>3. ReleaseBoth(p, a, b, map) = [live |-> 0, orphans |-> map.orphans, lost |-> map.lost]
  BY <1>1, <1>2 DEF ReleaseBoth, ReleaseBuffer, Uses
<1> QED
  BY <1>1, <1>3 DEF Settled, Leaked

\* What a ...ToHost call comes to.
Outcome(src, map, o) ==
    /\ o.faults \in Nat /\ o.map \in Settled /\ o.host \in Images
    /\ Leaked(o.map) <= Leaked(map) + o.faults
    /\ o.ret = 0 => o.host = src
    /\ o.ret # 0 => o.faults # 0

\* What one end of a conversion gives, when what was kept in it is paid for by failed calls.
LEMMA EndIs ==
  ASSUME NEW p, NEW a \in Buffers, NEW b \in Buffers, NEW ret, NEW kept \in Images,
         NEW calls \in Nat, NEW src, NEW map \in Settled,
         b.map.live = Uses(p, a) + Uses(p, b),
         Leaked(b.map) <= Leaked(map) + calls,
         ret = 0 => kept = src, ret # 0 => calls # 0
  PROVE  Outcome(src, map, End(p, a, b, ret, kept, calls))
<1>1. b.map \in Surfaces
  BY DEF Buffers
<1> DEFINE m == ReleaseBoth(p, a, b, b.map)
           o == End(p, a, b, ret, kept, calls)
<1>2. m \in Settled /\ Leaked(m) = Leaked(b.map)
  BY <1>1, ReleaseIs
<1>3. o = [ret |-> ret, host |-> kept, faults |-> calls, map |-> m]
  BY DEF End
<1> HIDE DEF m, o
<1>4. o.ret = ret /\ o.host = kept /\ o.faults = calls /\ o.map = m
  BY <1>3
<1>5. Outcome(src, map, o)
  BY <1>2, <1>4 DEF Outcome
<1> QED
  BY <1>5 DEF o

\* Every way through g2dResizeToHost: the source's picture on success, at least one failed
\* call otherwise; no surface left in use, and at most one kept for each failed call.
LEMMA ResizeOutcome ==
  ASSUME NEW p, NEW src \in Images, NEW host \in Images, NEW map \in Settled,
         NEW o \in ResizeToHost(p, src, host, map)
  PROVE  Outcome(src, map, o)
<1>1. PICK a \in CreateBuffer(p, src, map) :
        \E b \in CreateBuffer(p, host, a.map) : o \in Ending(p, a, b, host, Resize)
  BY DEF ResizeToHost, ToHost
<1>2. PICK b \in CreateBuffer(p, host, a.map) : o \in Ending(p, a, b, host, Resize)
  BY <1>1
<1>3. map \in Surfaces /\ map.live = 0 /\ Leaked(map) \in Nat
  BY DEF Settled, Surfaces, Leaked
<1>4. /\ a \in Buffers /\ a.map.live = Uses(p, a)
      /\ a.made => a.content = src /\ Leaked(a.map) = Leaked(map)
      /\ ~a.made => Leaked(a.map) <= Leaked(map) + 1
  BY <1>1, <1>3, CreateIs DEF Uses
<1>5. a.map \in Surfaces /\ a.content \in Images /\ a.made \in BOOLEAN /\ Leaked(a.map) \in Nat
  BY <1>4 DEF Buffers, Surfaces, Leaked
<1>6. /\ b \in Buffers /\ b.map.live = Uses(p, a) + Uses(p, b)
      /\ b.made => b.content = host /\ Leaked(b.map) = Leaked(a.map)
      /\ ~b.made => Leaked(b.map) <= Leaked(a.map) + 1
  <2>1. b.map.live = IF p = "nv" /\ b.made THEN a.map.live + 1 ELSE a.map.live
    BY <1>2, <1>5, CreateIs
  <2>2. a.map.live \in Nat
    BY <1>5 DEF Surfaces
  <2>3. b.map.live = Uses(p, a) + Uses(p, b)
    BY <1>4, <2>1, <2>2 DEF Uses
  <2> QED
    BY <1>2, <1>5, <2>3, CreateIs
<1>7. b.content \in Images /\ b.made \in BOOLEAN /\ Leaked(b.map) \in Nat
  BY <1>6 DEF Buffers, Surfaces, Leaked
<1>8. CASE ~a.made \/ ~b.made
  <2> DEFINE n == IF a.made \/ b.made THEN 1 ELSE 2
  <2>1. o = End(p, a, b, -1, host, n)
    BY <1>2, <1>8 DEF Ending
  <2>2. n \in Nat /\ n # 0 /\ Leaked(b.map) <= Leaked(map) + n
    BY <1>3, <1>4, <1>5, <1>6, <1>7, <1>8
  <2> HIDE DEF n
  <2>3. Outcome(src, map, End(p, a, b, -1, host, n))
    BY <1>4, <1>6, <2>2, EndIs
  <2> QED
    BY <2>1, <2>3
<1>9. CASE a.made /\ b.made
  <2>1. PICK c \in Resize(p, a.content, b.content) :
          o \in IF c.ret = 0 THEN Copied(p, a, b, c.content, host)
                ELSE {End(p, a, b, -1, IF p = "nv" THEN host ELSE c.content, 1)}
    BY <1>2, <1>9 DEF Ending
  <2>2. (c.ret = 0 /\ c.content = a.content) \/ (c.ret = -1 /\ c.content \in {b.content, Torn})
    BY <2>1 DEF Resize, NvResize, RgaResize
  <2>3. Leaked(b.map) = Leaked(map) /\ a.content = src /\ Torn \in Images
    BY <1>4, <1>6, <1>9 DEF Torn, Image, Images
  <2>4. CASE c.ret = 0
    <3>1. PICK s \in SyncBuffer(p, c.content, host) : o = End(p, a, b, s.ret, s.content, -s.ret)
      BY <2>1, <2>4 DEF Copied
    <3>2. (s.ret = 0 /\ s.content = src) \/ (s.ret = -1 /\ s.content \in {host, Torn})
      BY <2>2, <2>3, <2>4, <3>1 DEF SyncBuffer, CopyToHost
    <3>3. s.content \in Images /\ -s.ret \in Nat /\ (s.ret # 0 => -s.ret # 0)
          /\ (s.ret = 0 => s.content = src) /\ Leaked(b.map) <= Leaked(map) + -s.ret
      BY <1>3, <2>3, <3>2
    <3>4. Outcome(src, map, End(p, a, b, s.ret, s.content, -s.ret))
      BY <1>4, <1>6, <3>3, EndIs
    <3> QED
      BY <3>1, <3>4
  <2>5. CASE c.ret # 0
    <3> DEFINE kept == IF p = "nv" THEN host ELSE c.content
    <3>1. o = End(p, a, b, -1, kept, 1)
      BY <2>1, <2>5
    <3>2. kept \in Images /\ Leaked(b.map) <= Leaked(map) + 1
      BY <1>3, <1>7, <2>2, <2>3, <2>5
    <3> HIDE DEF kept
    <3>3. Outcome(src, map, End(p, a, b, -1, kept, 1))
      BY <1>4, <1>6, <3>2, EndIs
    <3> QED
      BY <3>1, <3>3
  <2> QED
    BY <2>4, <2>5
<1> QED
  BY <1>5, <1>7, <1>8, <1>9

\* The same of imageCvtColorToHost.
LEMMA CvtOutcome ==
  ASSUME NEW p, NEW src \in Images, NEW host \in Images, NEW map \in Settled,
         NEW o \in CvtColorToHost(p, src, host, map)
  PROVE  Outcome(src, map, o)
<1>1. PICK a \in CreateBuffer(p, src, map) :
        \E b \in CreateBuffer(p, host, a.map) : o \in Ending(p, a, b, host, CvtColor)
  BY DEF CvtColorToHost, ToHost
<1>2. PICK b \in CreateBuffer(p, host, a.map) : o \in Ending(p, a, b, host, CvtColor)
  BY <1>1
<1>3. map \in Surfaces /\ map.live = 0 /\ Leaked(map) \in Nat
  BY DEF Settled, Surfaces, Leaked
<1>4. /\ a \in Buffers /\ a.map.live = Uses(p, a)
      /\ a.made => a.content = src /\ Leaked(a.map) = Leaked(map)
      /\ ~a.made => Leaked(a.map) <= Leaked(map) + 1
  BY <1>1, <1>3, CreateIs DEF Uses
<1>5. a.map \in Surfaces /\ a.content \in Images /\ a.made \in BOOLEAN /\ Leaked(a.map) \in Nat
  BY <1>4 DEF Buffers, Surfaces, Leaked
<1>6. /\ b \in Buffers /\ b.map.live = Uses(p, a) + Uses(p, b)
      /\ b.made => b.content = host /\ Leaked(b.map) = Leaked(a.map)
      /\ ~b.made => Leaked(b.map) <= Leaked(a.map) + 1
  <2>1. b.map.live = IF p = "nv" /\ b.made THEN a.map.live + 1 ELSE a.map.live
    BY <1>2, <1>5, CreateIs
  <2>2. a.map.live \in Nat
    BY <1>5 DEF Surfaces
  <2>3. b.map.live = Uses(p, a) + Uses(p, b)
    BY <1>4, <2>1, <2>2 DEF Uses
  <2> QED
    BY <1>2, <1>5, <2>3, CreateIs
<1>7. b.content \in Images /\ b.made \in BOOLEAN /\ Leaked(b.map) \in Nat
  BY <1>6 DEF Buffers, Surfaces, Leaked
<1>8. CASE ~a.made \/ ~b.made
  <2> DEFINE n == IF a.made \/ b.made THEN 1 ELSE 2
  <2>1. o = End(p, a, b, -1, host, n)
    BY <1>2, <1>8 DEF Ending
  <2>2. n \in Nat /\ n # 0 /\ Leaked(b.map) <= Leaked(map) + n
    BY <1>3, <1>4, <1>5, <1>6, <1>7, <1>8
  <2> HIDE DEF n
  <2>3. Outcome(src, map, End(p, a, b, -1, host, n))
    BY <1>4, <1>6, <2>2, EndIs
  <2> QED
    BY <2>1, <2>3
<1>9. CASE a.made /\ b.made
  <2>1. PICK c \in CvtColor(p, a.content, b.content) :
          o \in IF c.ret = 0 THEN Copied(p, a, b, c.content, host)
                ELSE {End(p, a, b, -1, IF p = "nv" THEN host ELSE c.content, 1)}
    BY <1>2, <1>9 DEF Ending
  <2>2. (c.ret = 0 /\ c.content = a.content) \/ (c.ret = -1 /\ c.content \in {b.content, Torn})
    BY <2>1 DEF CvtColor, NvCvtColor, RgaCvtColor, NvResize, RgaResize
  <2>3. Leaked(b.map) = Leaked(map) /\ a.content = src /\ Torn \in Images
    BY <1>4, <1>6, <1>9 DEF Torn, Image, Images
  <2>4. CASE c.ret = 0
    <3>1. PICK s \in SyncBuffer(p, c.content, host) : o = End(p, a, b, s.ret, s.content, -s.ret)
      BY <2>1, <2>4 DEF Copied
    <3>2. (s.ret = 0 /\ s.content = src) \/ (s.ret = -1 /\ s.content \in {host, Torn})
      BY <2>2, <2>3, <2>4, <3>1 DEF SyncBuffer, CopyToHost
    <3>3. s.content \in Images /\ -s.ret \in Nat /\ (s.ret # 0 => -s.ret # 0)
          /\ (s.ret = 0 => s.content = src) /\ Leaked(b.map) <= Leaked(map) + -s.ret
      BY <1>3, <2>3, <3>2
    <3>4. Outcome(src, map, End(p, a, b, s.ret, s.content, -s.ret))
      BY <1>4, <1>6, <3>3, EndIs
    <3> QED
      BY <3>1, <3>4
  <2>5. CASE c.ret # 0
    <3> DEFINE kept == IF p = "nv" THEN host ELSE c.content
    <3>1. o = End(p, a, b, -1, kept, 1)
      BY <2>1, <2>5
    <3>2. kept \in Images /\ Leaked(b.map) <= Leaked(map) + 1
      BY <1>3, <1>7, <2>2, <2>3, <2>5
    <3> HIDE DEF kept
    <3>3. Outcome(src, map, End(p, a, b, -1, kept, 1))
      BY <1>4, <1>6, <3>2, EndIs
    <3> QED
      BY <3>1, <3>3
  <2> QED
    BY <2>4, <2>5
<1> QED
  BY <1>5, <1>7, <1>8, <1>9

(*****************************************************************************)
(* The outcomes of the calls of the engine.                                  *)
(*****************************************************************************)

\* What an engine may hold, and what it may have been asked.
Objects == {"runtime", "engine", "context", "builder", "network", "parser"}
Parts == {"input", "coverage", "bbox", "number", "shape", "quant"}
EngineType ==
  [objects : SUBSET Objects, ready : SUBSET Parts, input : Int, output : Int, fetched : BOOLEAN]

\* All that loadModel asks for is there.
Whole(p, e) == IF p = "nv" THEN Tensors \subseteq e.ready ELSE "quant" \in e.ready

\* What the destructor frees.
Freed(p) == IF p = "nv" THEN {"context", "engine", "runtime"} ELSE {"context"}

\* An engine that holds some objects and some of what they were asked.
LEMMA NewEngine ==
  ASSUME NEW objects \in SUBSET Objects, NEW ready \in SUBSET Parts
  PROVE  LET e == [NoEngine EXCEPT !.objects = objects, !.ready = ready]
         IN e \in EngineType /\ e.objects = objects /\ e.ready = ready
<1>1. Unknown \in Int /\ {} \in SUBSET Objects /\ {} \in SUBSET Parts
  BY DEF Unknown
<1>2. NoEngine \in EngineType
  BY <1>1 DEF NoEngine, EngineType
<1> QED
  BY <1>2 DEF EngineType

\* What loadModel returns when it succeeds: an engine.
LEMMA LoadSucceeds ==
  ASSUME NEW objects \in SUBSET Objects, NEW ready \in SUBSET Parts, NEW calls
  PROVE  /\ Loaded(TRUE, objects, ready, calls).ok
         /\ Loaded(TRUE, objects, ready, calls).faults = calls
         /\ Loaded(TRUE, objects, ready, calls).engine \in EngineType
<1> DEFINE e == [NoEngine EXCEPT !.objects = objects, !.ready = ready]
           l == Loaded(TRUE, objects, ready, calls)
<1>1. e \in EngineType /\ e.objects = objects /\ e.ready = ready
  BY NewEngine
<1>2. l.engine = e
  BY DEF Loaded
<1>3. l.ok /\ l.faults = calls
  BY DEF Loaded
<1> HIDE DEF e, l
<1>4. l.engine \in EngineType /\ l.engine.objects = objects /\ l.engine.ready = ready
  BY <1>1, <1>2
<1> QED
  BY <1>3, <1>4 DEF l

\* What it returns when it fails: an engine, and the calls that did.
LEMMA LoadFails ==
  ASSUME NEW objects \in SUBSET Objects, NEW ready \in SUBSET Parts, NEW calls
  PROVE  /\ ~Loaded(FALSE, objects, ready, calls).ok
         /\ Loaded(FALSE, objects, ready, calls).faults = calls
         /\ Loaded(FALSE, objects, ready, calls).engine \in EngineType
<1> DEFINE e == [NoEngine EXCEPT !.objects = objects, !.ready = ready]
           l == Loaded(FALSE, objects, ready, calls)
<1>1. e \in EngineType /\ e.objects = objects /\ e.ready = ready
  BY NewEngine
<1>2. l.engine = e
  BY DEF Loaded
<1>3. ~l.ok /\ l.faults = calls
  BY DEF Loaded
<1> HIDE DEF e, l
<1>4. l.engine \in EngineType /\ l.engine.objects = objects /\ l.engine.ready = ready
  BY <1>1, <1>2
<1> QED
  BY <1>3, <1>4 DEF l

\* A load that succeeds holds no object but those named, and is ready for those parts.
LEMMA LoadHas ==
  ASSUME NEW objects \in SUBSET Objects, NEW ready \in SUBSET Parts, NEW calls
  PROVE  /\ Loaded(TRUE, objects, ready, calls).engine.objects \subseteq objects
         /\ ready \subseteq Loaded(TRUE, objects, ready, calls).engine.ready
<1> DEFINE e == [NoEngine EXCEPT !.objects = objects, !.ready = ready]
           l == Loaded(TRUE, objects, ready, calls)
<1>1. e \in EngineType /\ e.objects = objects /\ e.ready = ready
  BY NewEngine
<1>2. l.engine = e
  BY DEF Loaded
<1>3. l.ok /\ l.faults = calls
  BY DEF Loaded
<1> HIDE DEF e, l
<1>4. l.engine \in EngineType /\ l.engine.objects = objects /\ l.engine.ready = ready
  BY <1>1, <1>2
<1> QED
  BY <1>3, <1>4 DEF l

\* loadEngineFromFile and buildEngineFromOnnx leave the runtime and the engine when they
\* succeed; the builder, the network and the parser are gone by then (trtDnnEngine.cpp).
LEMMA FromFileIs ==
  ASSUME NEW l \in LoadEngineFromFile \cup BuildEngineFromOnnx
  PROVE  /\ l.faults \in Nat /\ l.engine \in EngineType
         /\ l.ok => l.engine.objects \subseteq {"runtime", "engine"} /\ l.faults = 0
<1> DEFINE none == {}
           runtime == {"runtime"}
           both == {"runtime", "engine"}
           builder == {"runtime", "builder", "network", "parser"}
<1>1. /\ none \in SUBSET Objects /\ none \in SUBSET Parts /\ runtime \in SUBSET Objects
      /\ both \in SUBSET Objects /\ builder \in SUBSET Objects
  BY DEF Objects
<1>2. \/ l = Loaded(FALSE, none, none, 1)
      \/ l = Loaded(FALSE, runtime, none, 1)
      \/ l = Loaded(FALSE, builder, none, 1)
      \/ l = Loaded(TRUE, both, none, 0)
  BY DEF LoadEngineFromFile, BuildEngineFromOnnx
<1> HIDE DEF none, runtime, both, builder
<1>3. ASSUME NEW objects \in SUBSET Objects, l = Loaded(FALSE, objects, none, 1)
      PROVE  ~l.ok /\ l.faults = 1 /\ l.engine \in EngineType
  BY <1>1, <1>3, LoadFails
<1>4. CASE l = Loaded(TRUE, both, none, 0)
  <2>1. l.faults = 0 /\ l.engine \in EngineType
    BY <1>1, <1>4, LoadSucceeds
  <2>2. l.engine.objects \subseteq both
    BY <1>1, <1>4, LoadHas
  <2> QED
    BY <2>1, <2>2 DEF both
<1>5. CASE \E objects \in SUBSET Objects : l = Loaded(FALSE, objects, none, 1)
  <2>1. ~l.ok /\ l.faults = 1 /\ l.engine \in EngineType
    BY <1>3, <1>5
  <2> QED
    BY <2>1
<1>6. \/ \E objects \in SUBSET Objects : l = Loaded(FALSE, objects, none, 1)
      \/ l = Loaded(TRUE, both, none, 0)
  BY <1>1, <1>2
<1> QED
  BY <1>4, <1>5, <1>6

\* After a loadModel that succeeds, the engine holds nothing but what the destructor frees, and
\* if no call failed it knows every tensor.
LEMMA LoadIs ==
  ASSUME NEW p, NEW l \in LoadModel(p)
  PROVE  /\ l.faults \in Nat /\ l.engine \in EngineType
         /\ l.ok => /\ l.engine.objects \subseteq Freed(p)
                    /\ l.faults = 0 => Whole(p, l.engine)
<1> DEFINE none == {}
           context == {"context"}
<1>0. /\ none \in SUBSET Objects /\ none \in SUBSET Parts
      /\ context \in SUBSET Objects
  BY DEF Objects
<1>1. CASE p = "nv"
  <2> DEFINE engines == LoadEngineFromFile \cup BuildEngineFromOnnx
             started == {k \in engines : k.ok}
  <2>1. \/ l \in engines \ started
        \/ \E k \in started : l = Loaded(FALSE, k.engine.objects, none, 1)
        \/ \E k \in started : l \in AllocateBuffers(k.engine.objects \cup {"context"})
    BY <1>1 DEF LoadModel, TrtLoadModel
  <2> HIDE DEF none
  <2>2. CASE l \in engines \ started
    BY <2>2, FromFileIs
  <2>3. CASE \E k \in started : l = Loaded(FALSE, k.engine.objects, none, 1)
    <3>1. PICK k \in started : l = Loaded(FALSE, k.engine.objects, none, 1)
      BY <2>3
    <3>2. k.engine.objects \in SUBSET Objects /\ none \in SUBSET Parts
      BY <1>0, FromFileIs DEF EngineType
    <3>3. ~l.ok /\ l.faults = 1 /\ l.engine \in EngineType
      BY <3>1, <3>2, LoadFails
    <3> QED
      BY <3>3
  <2>4. CASE \E k \in started : l \in AllocateBuffers(k.engine.objects \cup {"context"})
    <3>1. PICK k \in started : l \in AllocateBuffers(k.engine.objects \cup {"context"})
      BY <2>4
    <3>2. k.engine.objects \subseteq {"runtime", "engine"}
      BY FromFileIs
    <3>3. PICK m \in SUBSET Tensors :
            l = Loaded(TRUE, k.engine.objects \cup {"context"}, m, Cardinality(Tensors \ m))
      BY <3>1 DEF AllocateBuffers
    <3> DEFINE objects == k.engine.objects \cup {"context"}
               n == Cardinality(Tensors \ m)
    <3>4. IsFiniteSet(Tensors \ m)
      <4>1. IsFiniteSet({"input"}) /\ IsFiniteSet({"coverage"}) /\ IsFiniteSet({"bbox"})
        BY FS_Singleton
      <4>2. IsFiniteSet({"input"} \cup {"coverage"})
        BY <4>1, FS_Union
      <4>3. IsFiniteSet(({"input"} \cup {"coverage"}) \cup {"bbox"})
        BY <4>1, <4>2, FS_Union
      <4>4. Tensors = ({"input"} \cup {"coverage"}) \cup {"bbox"}
        BY DEF Tensors
      <4> QED
        BY <4>3, <4>4, FS_Difference
    <3>5. n \in Nat /\ (n = 0 => Tensors \subseteq m)
      BY <3>4, FS_CardinalityType, FS_EmptySet
    <3>6. /\ objects \in SUBSET Objects
          /\ objects \subseteq Freed(p)
      BY <1>1, <3>2 DEF Freed, Objects
    <3>7. m \in SUBSET Parts
      BY DEF Tensors, Parts
    <3>8. l = Loaded(TRUE, objects, m, n)
      BY <3>3
    <3> HIDE DEF objects, n
    <3>9. l.ok /\ l.faults = n /\ l.engine \in EngineType
      BY <3>6, <3>7, <3>8, LoadSucceeds
    <3>10. l.engine.objects \subseteq objects /\ m \subseteq l.engine.ready
      BY <3>6, <3>7, <3>8, LoadHas
    <3> QED
      BY <1>1, <3>5, <3>6, <3>9, <3>10 DEF Whole
  <2> QED
    BY <2>1, <2>2, <2>3, <2>4
<1>2. CASE p # "nv"
  <2>1. \/ l = Loaded(FALSE, none, none, 1)
        \/ l = Loaded(TRUE, context, none, 1)
        \/ \E r \in SUBSET {"shape", "quant"} :
             l = Loaded(TRUE, context, {"number"} \cup r, Cardinality({"shape", "quant"} \ r))
    BY <1>2 DEF LoadModel, RknnLoadModel
  <2> HIDE DEF none, context
  <2>2. CASE l = Loaded(FALSE, none, none, 1)
    <3>2. ~l.ok /\ l.faults = 1 /\ l.engine \in EngineType
      BY <2>2, <1>0, LoadFails
    <3> QED
      BY <3>2
  <2>3. CASE l = Loaded(TRUE, context, none, 1)
    <3>1. l.faults = 1 /\ l.engine \in EngineType
      BY <2>3, <1>0, LoadSucceeds
    <3>2. l.engine.objects \subseteq context
      BY <2>3, <1>0, LoadHas
    <3> QED
      BY <1>2, <3>1, <3>2 DEF Freed, context, Whole
  <2>4. CASE \E r \in SUBSET {"shape", "quant"} :
           l = Loaded(TRUE, context, {"number"} \cup r, Cardinality({"shape", "quant"} \ r))
    <3>1. PICK r \in SUBSET {"shape", "quant"} :
           l = Loaded(TRUE, context, {"number"} \cup r, Cardinality({"shape", "quant"} \ r))
      BY <2>4
    <3> DEFINE n == Cardinality({"shape", "quant"} \ r)
               ready == {"number"} \cup r
    <3>2. IsFiniteSet({"shape", "quant"} \ r)
      <4>1. IsFiniteSet({"shape"}) /\ IsFiniteSet({"quant"})
        BY FS_Singleton
      <4>2. IsFiniteSet({"shape"} \cup {"quant"})
        BY <4>1, FS_Union
      <4>3. {"shape", "quant"} = {"shape"} \cup {"quant"}
        OBVIOUS
      <4> QED
        BY <4>2, <4>3, FS_Difference
    <3>3. n \in Nat /\ (n = 0 => "quant" \in r)
      BY <3>2, FS_CardinalityType, FS_EmptySet
    <3>4. ready \in SUBSET Parts
          /\ (n = 0 => "quant" \in ready)
      BY <3>3 DEF Parts
    <3>5. l = Loaded(TRUE, context, ready, n)
      BY <3>1
    <3> HIDE DEF n, ready
    <3>6. l.ok /\ l.faults = n /\ l.engine \in EngineType
      BY <1>0, <3>4, <3>5, LoadSucceeds
    <3>7. l.engine.objects \subseteq context /\ ready \subseteq l.engine.ready
      BY <1>0, <3>4, <3>5, LoadHas
    <3> QED
      BY <1>2, <3>3, <3>4, <3>6, <3>7 DEF Whole, Freed, context
  <2> QED
    BY <2>1, <2>2, <2>3, <2>4
<1> QED
  BY <1>1, <1>2

\* What no call of the engine changes.
Keeps(e, new) == new \in EngineType /\ new.objects = e.objects /\ new.ready = e.ready

\* pushInputData keeps the objects; if no call fails, the engine's input is the tensor's.
LEMMA PushIs ==
  ASSUME NEW p, NEW e \in EngineType, NEW tensor \in Int, NEW x \in Push(p, e, tensor)
  PROVE  /\ Keeps(e, x.engine) /\ x.faults \in Nat
         /\ Whole(p, e) /\ x.faults = 0 /\ tensor # NoFrame => x.engine.input = tensor
<1>1. \/ x = After(e, 0) /\ (tensor = NoFrame \/ (p = "nv" /\ "input" \notin e.ready))
      \/ x = After(e, 1)
      \/ x = After([e EXCEPT !.input = tensor], 0)
  BY DEF Push, TrtPush, RknnPush
<1>2. Keeps(e, e)
  BY DEF Keeps
<1>3. CASE x = After([e EXCEPT !.input = tensor], 0)
  <2> DEFINE n == [e EXCEPT !.input = tensor]
  <2>1. n = [objects |-> e.objects, ready |-> e.ready, input |-> tensor, output |-> e.output,
             fetched |-> e.fetched]
    BY DEF EngineType
  <2>2. Keeps(e, n) /\ n.input = tensor
    BY <2>1 DEF Keeps, EngineType
  <2> HIDE DEF n
  <2>3. x.engine = n /\ x.faults = 0
    BY <1>3 DEF After, n
  <2> QED
    BY <2>2, <2>3
<1>4. CASE x = After(e, 0) /\ (tensor = NoFrame \/ (p = "nv" /\ "input" \notin e.ready))
  <2>1. x.engine = e /\ x.faults = 0
    BY <1>4 DEF After
  <2> QED
    BY <1>2, <1>4, <2>1 DEF Whole, Tensors
<1>5. CASE x = After(e, 1)
  <2>1. x.engine = e /\ x.faults = 1
    BY <1>5 DEF After
  <2> QED
    BY <1>2, <2>1
<1> QED
  BY <1>1, <1>3, <1>4, <1>5

\* runInference keeps the objects; if no call fails, the output is that of the input.
LEMMA RunIs ==
  ASSUME NEW p, NEW e \in EngineType, NEW x \in Run(p, e)
  PROVE  /\ Keeps(e, x.engine) /\ x.faults \in Nat
         /\ Whole(p, e) /\ x.faults = 0 => x.engine.output = e.input
<1>1. \/ x = After(e, 0) /\ p = "nv" /\ ~(Tensors \subseteq e.ready)
      \/ x = After(e, 1)
      \/ x = After([e EXCEPT !.output = e.input], 0)
  BY DEF Run, TrtRun, RknnRun
<1>2. Keeps(e, e)
  BY DEF Keeps
<1>3. CASE x = After([e EXCEPT !.output = e.input], 0)
  <2> DEFINE n == [e EXCEPT !.output = e.input]
  <2>1. n = [objects |-> e.objects, ready |-> e.ready, input |-> e.input, output |-> e.input,
             fetched |-> e.fetched]
    BY DEF EngineType
  <2>2. Keeps(e, n) /\ n.output = e.input
    BY <2>1 DEF Keeps, EngineType
  <2> HIDE DEF n
  <2>3. x.engine = n /\ x.faults = 0
    BY <1>3 DEF After, n
  <2> QED
    BY <2>2, <2>3
<1>4. CASE x = After(e, 0) /\ p = "nv" /\ ~(Tensors \subseteq e.ready)
  <2>1. x.engine = e /\ x.faults = 0
    BY <1>4 DEF After
  <2> QED
    BY <1>2, <1>4, <2>1 DEF Whole
<1>5. CASE x = After(e, 1)
  <2>1. x.engine = e /\ x.faults = 1
    BY <1>5 DEF After
  <2> QED
    BY <1>2, <2>1
<1> QED
  BY <1>1, <1>3, <1>4, <1>5

\* popOutputData keeps the objects and the output; if no call fails, all buffers are fetched.
LEMMA PopIs ==
  ASSUME NEW p, NEW e \in EngineType, NEW x \in Pop(p, e)
  PROVE  /\ Keeps(e, x.engine) /\ x.engine.output = e.output /\ x.faults \in Nat
         /\ Whole(p, e) /\ x.faults = 0 => x.buffers = "all"
<1>1. \/ x = Popped(e, "none", 0) /\ p = "nv" /\ ~({"coverage", "bbox"} \subseteq e.ready)
      \/ x = Popped(e, "all", 0)
      \/ x = Popped(e, "none", 1)
      \/ x = Popped(e, "released", 1)
      \/ x = Popped([e EXCEPT !.fetched = TRUE], "all", 0)
  BY DEF Pop, TrtPop, RknnPop
<1>2. Keeps(e, e)
  BY DEF Keeps
<1>3. CASE x = Popped([e EXCEPT !.fetched = TRUE], "all", 0)
  <2> DEFINE n == [e EXCEPT !.fetched = TRUE]
  <2>1. n \in EngineType
    BY DEF EngineType
  <2>2. Keeps(e, n) /\ n.output = e.output
    BY <2>1 DEF Keeps, EngineType
  <2> HIDE DEF n
  <2>3. x.engine = n /\ x.faults = 0 /\ x.buffers = "all"
    BY <1>3 DEF Popped, n
  <2> QED
    BY <2>2, <2>3
<1>4. CASE x = Popped(e, "none", 0) /\ p = "nv" /\ ~({"coverage", "bbox"} \subseteq e.ready)
  <2>1. x.engine = e /\ x.faults = 0
    BY <1>4 DEF Popped
  <2> QED
    BY <1>2, <1>4, <2>1 DEF Whole, Tensors
<1>5. CASE x = Popped(e, "all", 0)
  <2>1. x.engine = e /\ x.faults = 0 /\ x.buffers = "all"
    BY <1>5 DEF Popped
  <2> QED
    BY <1>2, <2>1
<1>6. CASE x = Popped(e, "none", 1) \/ x = Popped(e, "released", 1)
  <2>1. x.engine = e /\ x.faults = 1
    BY <1>6 DEF Popped
  <2> QED
    BY <1>2, <2>1
<1> QED
  BY <1>1, <1>3, <1>4, <1>5, <1>6

(*****************************************************************************)
(* The detector: what it has come to belongs to its frame.                   *)
(*****************************************************************************)

\* Recording that n calls failed in the frame f adds n entries, and f if n is not 0.
LEMMA FailAdds ==
  ASSUME failures \in Seq(Nat), NEW n \in Nat, NEW f \in Nat, Fail(n, f)
  PROVE  /\ failures' \in Seq(Nat) /\ Len(failures') = Len(failures) + n
         /\ Failed \subseteq Failed' /\ (n # 0 => f \in Failed')
<1> DEFINE more == [i \in 1 .. n |-> f]
<1>1. more \in Seq(Nat) /\ Len(more) = n /\ \A i \in 1 .. n : more[i] = f
  OBVIOUS
<1>2. failures' = failures \o more
  BY DEF Fail
<1> HIDE DEF more
<1>3. /\ failures \o more \in Seq(Nat)
      /\ Len(failures \o more) = Len(failures) + Len(more)
      /\ \A i \in 1 .. Len(failures) + Len(more) : (failures \o more)[i] =
            IF i <= Len(failures) THEN failures[i] ELSE more[i - Len(failures)]
  BY <1>1, ConcatProperties
<1>4. Len(failures) \in Nat /\ DOMAIN failures = 1 .. Len(failures)
      /\ DOMAIN failures' = 1 .. Len(failures) + n
  BY <1>1, <1>2, <1>3
<1>5. Failed \subseteq Failed'
  <2>1. \A i \in DOMAIN failures : i \in DOMAIN failures' /\ failures'[i] = failures[i]
    BY <1>1, <1>2, <1>3, <1>4
  <2> QED
    BY <2>1 DEF Failed
<1>6. ASSUME n # 0 PROVE f \in Failed'
  <2> DEFINE k == Len(failures) + 1
  <2>1. k \in DOMAIN failures' /\ failures'[k] = more[1]
    BY <1>1, <1>2, <1>3, <1>4, <1>6
  <2>2. more[1] = f
    BY <1>1, <1>6
  <2> QED
    BY <2>1, <2>2 DEF Failed
<1> QED
  BY <1>1, <1>2, <1>3, <1>5, <1>6

\* The types of the detector.
DnnTypeOK ==
  /\ plugin \in {"vic", "resnet", "rga", "yolo"} /\ engine \in EngineType
  /\ g2d \in [plugin : Settled, app : Settled]
  /\ dnn \in [pc : {"idle", "preprocess", "infer", "postprocess", "done"}, frame : Nat,
              rgb : Images, tensor : Int, labels : BOOLEAN]
  /\ foundIn \in Int /\ failures \in Seq(Nat)

\* No call has failed that the boxes of the frame f could depend on.
Clean(f) == NoFrame \notin Failed /\ f \notin Failed

\* What the detection has come to belongs to its frame.
Stage ==
  Clean(dnn.frame) =>
    /\ Whole(platform, engine)
    /\ dnn.pc = "infer" => dnn.tensor = dnn.frame
    /\ dnn.pc = "postprocess" => engine.output = dnn.frame
    /\ dnn.pc = "done" => foundIn = dnn.frame

\* Surfaces nobody releases any more are at most as many as calls that failed.
Budget == Leaked(g2d.app) + Leaked(g2d.plugin) <= Len(failures)

\* The surfaces of the plugin's Graphics2D stay within the failed calls when a conversion
\* of the plugin keeps no more than failed in it.
LEMMA PluginMapSet ==
  ASSUME DnnTypeOK, Budget, NEW m \in Settled, NEW n \in Nat, g2d' = [g2d EXCEPT !.plugin = m],
         Leaked(m) <= Leaked(g2d.plugin) + n, Fail(n, dnn.frame)
  PROVE  g2d' \in [plugin : Settled, app : Settled] /\ Budget'
<1>1. g2d' = [plugin |-> m, app |-> g2d.app] /\ g2d.app \in Settled /\ g2d.plugin \in Settled
  BY DEF DnnTypeOK
<1>2. g2d'.plugin = m /\ g2d'.app = g2d.app
  BY <1>1
<1>3. Leaked(g2d.app) \in Nat /\ Leaked(g2d.plugin) \in Nat /\ Leaked(m) \in Nat
  BY <1>1 DEF Settled, Leaked
<1>4. failures \in Seq(Nat) /\ dnn.frame \in Nat
  BY DEF DnnTypeOK
<1>5. Len(failures') = Len(failures) + n /\ Len(failures) \in Nat
  BY <1>4, FailAdds
<1>6. Leaked(g2d.app)' = Leaked(g2d.app) /\ Leaked(g2d.plugin)' = Leaked(m)
  BY <1>2 DEF Leaked
<1>7. Leaked(g2d.app) + Leaked(m) <= Len(failures')
  BY <1>3, <1>5 DEF Budget
<1>8. Budget'
  BY <1>6, <1>7 DEF Budget
<1>9. g2d' \in [plugin : Settled, app : Settled]
  BY <1>1
<1> QED
  BY <1>8, <1>9

\* However the plugin's preProcess ended, the tensor belongs to the frame pushed last,
\* or a call failed in that frame.
LEMMA PreProcessedIs ==
  ASSUME DnnTypeOK, Stage, Budget, dnn.frame # NoFrame, dnn.pc = "preprocess", NEW o,
         Outcome(Image(dnn.frame, NoFrame), g2d.plugin, o), PreProcessed(o),
         UNCHANGED <<plugin, engine, cells, found, foundIn>>
  PROVE  /\ DnnTypeOK' /\ Stage' /\ Budget' /\ Failed \subseteq Failed'
         /\ dnn'.frame = dnn.frame /\ dnn'.pc = "infer"
<1>1. o.faults \in Nat /\ o.map \in Settled /\ o.host \in Images
      /\ Leaked(o.map) <= Leaked(g2d.plugin) + o.faults
  BY DEF Outcome
<1>2. Fail(o.faults, dnn.frame) /\ g2d' = [g2d EXCEPT !.plugin = o.map]
  BY DEF PreProcessed
<1>3. g2d' \in [plugin : Settled, app : Settled] /\ Budget'
  BY <1>1, <1>2, PluginMapSet
<1>4. failures \in Seq(Nat) /\ dnn.frame \in Nat
  BY DEF DnnTypeOK
<1>5. failures' \in Seq(Nat) /\ Failed \subseteq Failed' /\ (o.faults # 0 => dnn.frame \in Failed')
  BY <1>1, <1>2, <1>4, FailAdds
<1>6. /\ dnn' \in [pc : {"idle", "preprocess", "infer", "postprocess", "done"}, frame : Nat,
                   rgb : Images, tensor : Int, labels : BOOLEAN]
      /\ dnn'.frame = dnn.frame /\ dnn'.pc = "infer"
      /\ o.ret = 0 => dnn'.tensor = dnn.frame
  <2> DEFINE t == IF o.ret = 0 THEN o.host.frame ELSE NoFrame
  <2>1. t \in Int
    BY <1>1 DEF Images, NoFrame
  <2>2. o.ret = 0 => t = dnn.frame
    BY DEF Outcome, Image
  <2>3. dnn' = [dnn EXCEPT !.pc = "infer", !.rgb = o.host, !.tensor = t]
    BY DEF PreProcessed
  <2> HIDE DEF t
  <2> QED
    BY <1>1, <2>1, <2>2, <2>3 DEF DnnTypeOK
<1>7. DnnTypeOK'
  BY <1>3, <1>5, <1>6 DEF DnnTypeOK
<1>8. Stage'
  <2>1. ASSUME Clean(dnn.frame)' PROVE Clean(dnn.frame) /\ o.ret = 0
    BY <1>1, <1>5, <1>6, <2>1 DEF Clean, Outcome
  <2>2. Whole(platform, engine)' = Whole(platform, engine)
    BY DEF platform, Whole
  <2> QED
    BY <1>6, <2>1, <2>2 DEF Stage
<1> QED
  BY <1>3, <1>5, <1>6, <1>7, <1>8

\* preProcess of each plugin ends in one of the outcomes above: the resized picture, or
\* the padded one, which is made on the CPU (RGArknnYolov5, rknnYolov5, dnnObjDetector.cpp 89-122).
LEMMA PreProcessIs ==
  ASSUME DnnTypeOK, Stage, Budget, dnn.frame # NoFrame, PreProcess
  PROVE  /\ DnnTypeOK' /\ Stage' /\ Budget' /\ Failed \subseteq Failed'
         /\ dnn'.frame = dnn.frame /\ dnn'.pc = "infer"
<1> DEFINE src == Image(dnn.frame, NoFrame)
<1>1. src \in Images /\ dnn.rgb \in Images /\ g2d.plugin \in Settled
  BY DEF DnnTypeOK, Image, Images, NoFrame
<1>2. \E o : Outcome(src, g2d.plugin, o) /\ PreProcessed(o)
  <2>1. ASSUME NEW o \in Resized, PreProcessed(o)
        PROVE  Outcome(src, g2d.plugin, o)
    BY <1>1, <2>1, ResizeOutcome DEF Resized
  <2>2. ASSUME Padded
        PROVE  \E o : Outcome(src, g2d.plugin, o) /\ PreProcessed(o)
    <3> DEFINE o == [ret |-> 0, host |-> src, faults |-> 0, map |-> g2d.plugin]
    <3>1. Leaked(g2d.plugin) \in Nat
      BY <1>1 DEF Settled, Leaked
    <3>2. Outcome(src, g2d.plugin, o)
      <4>1. o.ret = 0 /\ o.host = src /\ o.faults = 0 /\ o.map = g2d.plugin
        OBVIOUS
      <4> HIDE DEF o, src
      <4> QED
        BY <1>1, <3>1, <4>1 DEF Outcome
    <3>3. PreProcessed(o)
      BY <2>2 DEF Padded
    <3> HIDE DEF o, src
    <3> QED
      BY <3>2, <3>3
  <2> QED
    BY <2>1, <2>2 DEF PreProcess, VicPreProcess, RgaPreProcess, ResnetPreProcess, YoloPreProcess
<1>3. PICK o : Outcome(src, g2d.plugin, o) /\ PreProcessed(o)
  BY <1>2
<1> QED
  BY <1>3, PreProcessedIs DEF PreProcess

\* The inference keeps what the detection has come to its frame's: the engine's output.
LEMMA InferIs ==
  ASSUME DnnTypeOK, Stage, Budget, dnn.frame # NoFrame, Infer
  PROVE  /\ DnnTypeOK' /\ Stage' /\ Budget' /\ Failed \subseteq Failed' /\ Keeps(engine, engine')
         /\ dnn'.frame = dnn.frame /\ dnn'.pc = "postprocess"
<1>1. PICK p \in Push(platform, engine, dnn.tensor) : \E r \in Run(platform, p.engine) :
        engine' = r.engine /\ Fail(p.faults + r.faults, dnn.frame)
  BY DEF Infer
<1>2. PICK r \in Run(platform, p.engine) :
        engine' = r.engine /\ Fail(p.faults + r.faults, dnn.frame)
  BY <1>1
<1>3. engine \in EngineType /\ dnn.tensor \in Int /\ failures \in Seq(Nat) /\ dnn.frame \in Nat
  BY DEF DnnTypeOK
<1>4. /\ Keeps(engine, p.engine) /\ p.faults \in Nat
      /\ Whole(platform, engine) /\ p.faults = 0 /\ dnn.tensor # NoFrame =>
           p.engine.input = dnn.tensor
  BY <1>1, <1>3, PushIs
<1>5. p.engine \in EngineType /\ Whole(platform, p.engine) = Whole(platform, engine)
  BY <1>4 DEF Keeps, Whole
<1>6. /\ Keeps(p.engine, r.engine) /\ r.faults \in Nat
      /\ Whole(platform, p.engine) /\ r.faults = 0 => r.engine.output = p.engine.input
  BY <1>2, <1>5, RunIs
<1>7. Keeps(engine, engine')
  BY <1>2, <1>4, <1>6 DEF Keeps
<1> DEFINE n == p.faults + r.faults
<1>8. n \in Nat /\ Fail(n, dnn.frame) /\ (n = 0 => p.faults = 0 /\ r.faults = 0)
  BY <1>2, <1>4, <1>6
<1> HIDE DEF n
<1>9. /\ failures' \in Seq(Nat) /\ Failed \subseteq Failed' /\ (n # 0 => dnn.frame \in Failed')
      /\ Len(failures') = Len(failures) + n
  BY <1>3, <1>8, FailAdds
<1>10. /\ dnn' \in [pc : {"idle", "preprocess", "infer", "postprocess", "done"}, frame : Nat,
                    rgb : Images, tensor : Int, labels : BOOLEAN]
       /\ dnn'.frame = dnn.frame /\ dnn'.pc = "postprocess" /\ dnn.pc = "infer"
  BY DEF DnnTypeOK, Infer
<1>11. DnnTypeOK'
  BY <1>7, <1>9, <1>10 DEF DnnTypeOK, Infer, Keeps
<1>12. Budget'
  <2>1. g2d' = g2d
    BY DEF Infer
  <2>2. Leaked(g2d.app) \in Nat /\ Leaked(g2d.plugin) \in Nat
    BY DEF DnnTypeOK, Settled, Leaked
  <2>3. Leaked(g2d.app)' = Leaked(g2d.app) /\ Leaked(g2d.plugin)' = Leaked(g2d.plugin)
    BY <2>1 DEF Leaked
  <2> QED
    BY <1>3, <1>8, <1>9, <2>2, <2>3 DEF Budget
<1>13. Stage'
  <2>1. ASSUME Clean(dnn.frame)' PROVE Clean(dnn.frame) /\ n = 0
    BY <1>9, <1>10, <2>1 DEF Clean
  <2>2. Whole(platform, engine)' = Whole(platform, engine)
    BY <1>7 DEF platform, Whole, Keeps, Infer
  <2>3. ASSUME Clean(dnn.frame)' PROVE engine'.output = dnn.frame
    <3>1. Whole(platform, engine) /\ dnn.tensor = dnn.frame
      BY <1>10, <2>1, <2>3 DEF Stage
    <3> QED
      BY <1>2, <1>4, <1>5, <1>6, <1>8, <2>1, <2>3, <3>1
  <2> QED
    BY <1>10, <2>1, <2>2, <2>3 DEF Stage
<1> QED
  BY <1>7, <1>9, <1>10, <1>11, <1>12, <1>13

\* So does postProcess: the boxes found.
LEMMA PostProcessIs ==
  ASSUME DnnTypeOK, Stage, Budget, dnn.frame # NoFrame, PostProcess
  PROVE  /\ DnnTypeOK' /\ Stage' /\ Budget' /\ Failed \subseteq Failed' /\ Keeps(engine, engine')
         /\ dnn'.frame = dnn.frame /\ dnn'.pc = "done"
<1>1. PICK o \in Pop(platform, engine) :
        /\ engine' = o.engine
        /\ IF platform = "nv" THEN DetectNetPostProcess(o) ELSE YoloPostProcess(o)
  BY DEF PostProcess
<1>2. engine \in EngineType /\ failures \in Seq(Nat) /\ dnn.frame \in Nat
  BY DEF DnnTypeOK
<1>3. /\ Keeps(engine, o.engine) /\ o.engine.output = engine.output /\ o.faults \in Nat
      /\ Whole(platform, engine) /\ o.faults = 0 => o.buffers = "all"
  BY <1>1, <1>2, PopIs
<1>4. Keeps(engine, engine') /\ engine' \in EngineType
  BY <1>1, <1>3 DEF Keeps
<1>5. /\ dnn' \in [pc : {"idle", "preprocess", "infer", "postprocess", "done"}, frame : Nat,
                   rgb : Images, tensor : Int, labels : BOOLEAN]
      /\ dnn'.frame = dnn.frame /\ dnn'.pc = "done" /\ dnn.pc = "postprocess"
  <2>1. dnn' = [dnn EXCEPT !.pc = "done"] \/ dnn' = [dnn EXCEPT !.pc = "done", !.labels = TRUE]
    BY <1>1 DEF DetectNetPostProcess, YoloPostProcess
  <2> QED
    BY <2>1 DEF DnnTypeOK, PostProcess
<1>6. \E n \in Nat : /\ Fail(n, dnn.frame)
                     /\ foundIn' \in {engine.output, Unknown}
                     /\ n = 0 /\ Whole(platform, engine) => foundIn' = engine.output
  <2>1. CASE platform = "nv"
    <3>1. /\ IF o.buffers = "all" THEN Decodes(o.engine.output) ELSE FindsNothing
          /\ Fail(o.faults, dnn.frame)
      BY <1>1, <2>1 DEF DetectNetPostProcess
    <3>2. foundIn' = IF o.buffers = "all" THEN engine.output ELSE Unknown
      BY <1>3, <3>1 DEF Decodes, FindsNothing, Finds
    <3> QED
      BY <1>3, <3>1, <3>2
  <2>2. CASE platform # "nv"
    <3>1. YoloPostProcess(o)
      BY <1>1, <2>2
    <3>2. CASE /\ IF o.buffers = "none" \/ "quant" \notin engine.ready THEN FindsNothing
                  ELSE Decodes(IF o.buffers = "all" THEN o.engine.output ELSE Unknown)
               /\ Fail(o.faults, dnn.frame)
      <4>1. foundIn' = IF o.buffers = "none" \/ "quant" \notin engine.ready THEN Unknown
                       ELSE IF o.buffers = "all" THEN engine.output ELSE Unknown
        BY <1>3, <3>2 DEF Decodes, FindsNothing, Finds
      <4>2. o.faults = 0 /\ Whole(platform, engine) => foundIn' = engine.output
        BY <1>3, <2>2, <4>1 DEF Whole
      <4>3. foundIn' \in {engine.output, Unknown}
        BY <4>1
      <4> QED
        BY <1>3, <3>2, <4>2, <4>3
    <3>3. CASE FindsNothing /\ Fail(o.faults + 1, dnn.frame)
      <4>1. foundIn' = Unknown /\ o.faults + 1 \in Nat /\ o.faults + 1 # 0
        BY <1>3, <3>3 DEF FindsNothing, Finds
      <4> QED
        BY <3>3, <4>1
    <3> QED
      BY <3>1, <3>2, <3>3 DEF YoloPostProcess
  <2> QED
    BY <2>1, <2>2
<1>7. PICK n \in Nat : /\ Fail(n, dnn.frame)
                       /\ foundIn' \in {engine.output, Unknown}
                       /\ n = 0 /\ Whole(platform, engine) => foundIn' = engine.output
  BY <1>6
<1>8. /\ failures' \in Seq(Nat) /\ Failed \subseteq Failed' /\ (n # 0 => dnn.frame \in Failed')
      /\ Len(failures') = Len(failures) + n
  BY <1>2, <1>7, FailAdds
<1>9. foundIn' \in Int
  <2>1. engine.output \in Int /\ Unknown \in Int
    BY <1>2 DEF EngineType, Unknown
  <2> QED
    BY <1>7, <2>1
<1>10. DnnTypeOK'
  BY <1>4, <1>5, <1>8, <1>9 DEF DnnTypeOK, PostProcess
<1>11. Budget'
  <2>1. g2d' = g2d
    BY DEF PostProcess
  <2>2. Leaked(g2d.app) \in Nat /\ Leaked(g2d.plugin) \in Nat
    BY DEF DnnTypeOK, Settled, Leaked
  <2>3. Leaked(g2d.app)' = Leaked(g2d.app) /\ Leaked(g2d.plugin)' = Leaked(g2d.plugin)
    BY <2>1 DEF Leaked
  <2> QED
    BY <1>2, <1>8, <2>2, <2>3 DEF Budget
<1>12. Stage'
  <2>1. ASSUME Clean(dnn.frame)' PROVE Clean(dnn.frame) /\ n = 0
    BY <1>5, <1>7, <1>8, <2>1 DEF Clean
  <2>2. Whole(platform, engine)' = Whole(platform, engine)
    BY <1>4 DEF platform, Whole, Keeps, PostProcess
  <2>3. ASSUME Clean(dnn.frame)' PROVE foundIn' = dnn.frame
    <3>1. Whole(platform, engine) /\ engine.output = dnn.frame
      BY <1>5, <2>1, <2>3 DEF Stage
    <3> QED
      BY <1>7, <2>1, <2>3, <3>1
  <2> QED
    BY <1>5, <2>1, <2>2, <2>3 DEF Stage
<1> QED
  BY <1>4, <1>5, <1>8, <1>10, <1>11, <1>12

\* So does every step of dnnObjDetector::detect, and none changes the engine's objects.
LEMMA DnnStepsAre ==
  ASSUME DnnTypeOK, Stage, Budget, dnn.frame # NoFrame, DnnSteps
  PROVE  /\ DnnTypeOK' /\ Stage' /\ Budget' /\ Failed \subseteq Failed' /\ Keeps(engine, engine')
         /\ dnn'.frame = dnn.frame /\ dnn'.pc # "idle" /\ plugin' = plugin
<1>1. CASE PreProcess
  <2>1. engine' = engine /\ plugin' = plugin /\ engine \in EngineType
    BY <1>1 DEF PreProcess, DnnTypeOK
  <2>2. Keeps(engine, engine')
    BY <2>1 DEF Keeps
  <2> QED
    BY <1>1, <2>1, <2>2, PreProcessIs
<1>2. CASE Infer
  BY <1>2, InferIs DEF Infer
<1>3. CASE PostProcess
  BY <1>3, PostProcessIs DEF PostProcess
<1> QED
  BY <1>1, <1>2, <1>3 DEF DnnSteps

(*****************************************************************************)
(* The samples.  A queued frame is handled, waits in the queue or is with    *)
(* the inference thread, each place later than the next.                     *)
(*****************************************************************************)

\* Where the threads of the samples may be.
MainPcs == {"load", "push", "detect", "feed", "settle", "stop", "notify", "join", "decoder",
            "encoder", "destroy", "done"}
InfPcs == {"none", "look", "falling", "asleep", "detect", "draw", "encode", "waiting", "eos",
           "exited"}

Encodings == [image : Images, of : Nat]

\* The types of the samples.
ClientTypeOK ==
  /\ sample \in {"video", "image"}
  /\ main \in [pc : MainPcs, last : Nat, stable : Nat, rounds : Nat]
  /\ cb \in [pc : {"idle", "create", "setup", "push", "full"}, frame : Nat]
  /\ inf \in [pc : InfPcs, frame : Nat]
  /\ queue \in Seq(Nat) /\ running \in BOOLEAN /\ rgba \in Images /\ yuv \in Images
  /\ encoded \in Seq(Encodings) /\ atStop \in Nat

\* The inference thread has a frame at hand, or waits in a call of the encoder, perhaps with it;
\* it has left its loop.
Busy == {"detect", "draw", "encode"}
Held == Busy \cup {"waiting"}
Ended == {"eos", "exited"}

\* Which threads there are, and where each may be.
Threads ==
  /\ sample = "image" => cb.pc = "idle" /\ cb.frame = 0 /\ inf.pc = "none"
  /\ main.pc \in {"push", "detect"} => sample = "image"
  /\ main.pc = "load" => inf.pc = "none"
  /\ main.pc \in {"feed", "settle", "stop", "notify", "join"} => sample = "video"
  /\ inf.pc \notin {"none", "exited"} =>
       main.pc \in {"feed", "settle", "stop", "notify", "join"}
  /\ main.pc \in {"load", "feed", "settle", "stop"} => running
  /\ inf.pc \in Ended => ~running
  /\ cb.pc # "idle" => cb.frame # 0
  /\ inf.pc \in Busy => inf.frame # 0

\* Who is in the detector, and with which frame.
InDetector ==
  ~crashed =>
    /\ dnn.pc # "idle" => inf.pc = "detect" \/ main.pc = "detect"
    /\ inf.pc = "detect" => dnn.frame = inf.frame
    /\ main.pc = "detect" => dnn.frame = 1

\* How many frames have been queued; and the three places one of them may be in.
Pushed == IF cb.pc = "idle" THEN cb.frame ELSE cb.frame - 1
Handled(f) == f \in Failed \/ \E i \in DOMAIN encoded : encoded[i].of = f
Waits(f) == \E i \in DOMAIN queue : queue[i] = f
Taken(f) == inf.pc \in Held /\ inf.frame = f

\* No frame that was queued gets lost.
Drained ==
  /\ \A f \in 1 .. Pushed : Handled(f) \/ Waits(f) \/ Taken(f)
  /\ atStop <= Pushed
  /\ inf.pc \in Ended => \A f \in 1 .. atStop : Handled(f)

\* Each place is later than the next one.
InTurn ==
  /\ inf.frame <= Pushed
  /\ \A i, j \in DOMAIN queue : i < j => queue[i] < queue[j]
  /\ \A i \in DOMAIN queue : inf.frame < queue[i] /\ queue[i] <= Pushed
  /\ \A i, j \in DOMAIN encoded : i < j => encoded[i].of < encoded[j].of
  /\ sample = "video" => \A i \in DOMAIN encoded :
       encoded[i].of <= inf.frame /\ (inf.pc \in Busy => encoded[i].of # inf.frame)

\* A picture of the frame f with its own boxes, or none.
Own(image, f) == image.frame = f /\ (Clean(f) => image.boxes \in {NoFrame, f})

\* Whose picture is where.
OwnPictures ==
  /\ \A i \in DOMAIN encoded : Own(encoded[i].image, encoded[i].of)
  /\ inf.pc = "draw" => rgba.frame = inf.frame /\ (Clean(inf.frame) => foundIn = inf.frame)
  /\ inf.pc = "encode" => Own(yuv, inf.frame)

\* The engine while the sample lives, and what is left of it after.
Equipped ==
  /\ main.pc \notin {"load", "done"} =>
       /\ engine.objects \subseteq Freed(platform)
       /\ NoFrame \notin Failed => Whole(platform, engine)
  /\ main.pc = "done" =>
       engine.objects = {} /\ engine.ready = {} /\ g2d.app.orphans = 0 /\ g2d.plugin.orphans = 0
  /\ dnn.pc # "idle" => Stage

\* The inductive invariant.
ClientInv ==
  /\ DnnTypeOK /\ ClientTypeOK /\ Budget /\ Threads /\ InDetector /\ Equipped
  /\ Drained /\ InTurn /\ OwnPictures

(*****************************************************************************)
(* The steps keep the invariant.                                             *)
(*****************************************************************************)

\* The steps that leave the detector and the pictures alone.
Quiet ==
  \/ DecoderReturnsFrame \/ CallbackSteps \/ Look \/ FallAsleep \/ SendEos \/ FeedEnds
  \/ SettleRound \/ ClearRunning \/ NotifyAll \/ JoinInference \/ TearDownDecoder
  \/ TearDownEncoder

\* What the steps of the detector use, without the failed calls.
detectorVars == <<plugin, engine, g2d, dnn, cells, found, foundIn>>

\* The steps that do not touch the detector leave the pictures and what is encoded alone; a call
\* to the encoder may fail.
LEMMA QuietKeeps ==
  ASSUME DnnTypeOK, ClientTypeOK, Quiet
  PROVE  /\ UNCHANGED <<detectorVars, sample, rgba, yuv, encoded>>
         /\ failures' \in Seq(Nat) /\ Failed \subseteq Failed' /\ Len(failures') >= Len(failures)
         /\ Len(failures') \in Nat /\ Len(failures) \in Nat
<1> DEFINE FailsIn(f) == Fail(1, f)
<1>1. /\ UNCHANGED <<detectorVars, sample, rgba, yuv, encoded>>
      /\ failures' = failures \/ FailsIn(cb.frame) \/ FailsIn(inf.frame)
  BY DEF Quiet, DecoderReturnsFrame, CallbackSteps, CreateEncoder, SetupEncoder, PushTask, Look,
         FallAsleep, SendEos, EosWaits, EosReturns, EosBreaks, FeedEnds, SettleRound, ClearRunning,
         NotifyAll, JoinInference, TearDownDecoder, TearDownEncoder, dnnVars, detectorVars
<1>2. failures \in Seq(Nat) /\ cb.frame \in Nat /\ inf.frame \in Nat
  BY DEF DnnTypeOK, ClientTypeOK
<1>3. CASE failures' = failures
  BY <1>1, <1>2, <1>3 DEF Failed
<1>4. ASSUME NEW f \in Nat, FailsIn(f)
      PROVE  /\ failures' \in Seq(Nat) /\ Failed \subseteq Failed'
             /\ Len(failures') = Len(failures) + 1
  BY <1>2, <1>4, FailAdds
<1> HIDE DEF FailsIn
<1>5. CASE FailsIn(cb.frame) \/ FailsIn(inf.frame)
  BY <1>1, <1>2, <1>4, <1>5
<1> QED
  BY <1>1, <1>3, <1>5

\* What the steps of the callback and of the main thread leave alone.
Stays ==
  /\ inf.pc \in Busy \cup {"none"} \/ inf'.pc \in Busy \cup {"none"} => inf' = inf
  /\ inf.pc = "waiting" => inf' = inf
  /\ inf'.frame = inf.frame /\ (inf'.pc \in Ended => inf.pc \in Ended \/ (queue = <<>> /\ ~running))

\* They keep the threads where they may be.
LEMMA QuietThreads ==
  ASSUME ClientTypeOK, Threads, Quiet, ~crashed
  PROVE  /\ ClientTypeOK' /\ Threads' /\ Stays
         /\ main' = main \/ {main.pc, main'.pc} \cap {"load", "detect", "done"} = {}
<1> USE DEF MainPcs, InfPcs, Busy, Ended, Stays
<1>1. CASE DecoderReturnsFrame
  BY <1>1 DEF ClientTypeOK, Threads, DecoderReturnsFrame, Decoding
<1>2. CASE CreateEncoder \/ SetupEncoder
  <2>1. /\ cb.pc # "idle" /\ cb'.pc \in {"setup", "push"} /\ cb'.frame = cb.frame
        /\ cb' \in [pc : {"idle", "create", "setup", "push", "full"}, frame : Nat]
    BY <1>2 DEF ClientTypeOK, CreateEncoder, SetupEncoder
  <2>2. UNCHANGED <<sample, main, inf, queue, running, rgba, yuv, encoded, atStop>>
    BY <1>2 DEF CreateEncoder, SetupEncoder
  <2>3. ClientTypeOK'
    BY <2>1, <2>2 DEF ClientTypeOK
  <2>4. Threads'
    BY <2>1, <2>2 DEF Threads
  <2> QED
    BY <2>2, <2>3, <2>4 DEF Threads
<1>3. CASE PushTask
  <2>1. /\ cb.pc = "push" /\ cb'.pc \in {"idle", "full"} /\ cb'.frame = cb.frame
        /\ cb' \in [pc : {"idle", "create", "setup", "push", "full"}, frame : Nat]
    BY <1>3 DEF ClientTypeOK, PushTask
  <2>2. UNCHANGED <<sample, main, running, rgba, yuv, encoded, atStop>>
    BY <1>3 DEF PushTask
  <2>3. /\ inf' = inf \/ (inf.pc = "asleep" /\ inf' = [inf EXCEPT !.pc = "look"])
        /\ inf' \in [pc : InfPcs, frame : Nat]
    <3>1. inf' = inf \/ inf' = [inf EXCEPT !.pc = Wake(@)]
      BY <1>3 DEF PushTask
    <3>2. inf \in [pc : InfPcs, frame : Nat]
      BY DEF ClientTypeOK
    <3>3. inf = [inf EXCEPT !.pc = inf.pc]
      BY <3>2
    <3> QED
      BY <3>1, <3>2, <3>3 DEF Wake
  <2>4. queue' \in Seq(Nat)
    <3>1. queue \in Seq(Nat) /\ cb.frame \in Nat
      BY DEF ClientTypeOK
    <3>2. queue' = queue \/ queue' = Append(queue, cb.frame)
      BY <1>3 DEF PushTask
    <3> QED
      BY <3>1, <3>2
  <2>5. ClientTypeOK'
    BY <2>1, <2>2, <2>3, <2>4 DEF ClientTypeOK
  <2>6. inf'.frame = inf.frame /\ (inf'.pc = inf.pc \/ (inf.pc = "asleep" /\ inf'.pc = "look"))
    BY <2>3 DEF ClientTypeOK
  <2>7. Threads'
    BY <2>1, <2>2, <2>6 DEF Threads
  <2> QED
    BY <2>2, <2>3, <2>5, <2>6, <2>7 DEF Threads
<1>4. CASE Look \/ FallAsleep
  BY <1>4 DEF ClientTypeOK, Threads, Look, FallAsleep
<1>9. CASE SendEos
  <2>1. /\ inf.pc = "eos" /\ UNCHANGED <<sample, main, cb, queue, running, rgba, yuv, encoded, atStop>>
        /\ inf' = inf \/ inf' = [inf EXCEPT !.pc = "waiting"] \/ inf' = [inf EXCEPT !.pc = "exited"]
    BY <1>9 DEF SendEos, EosWaits, EosReturns, EosBreaks
  <2>2. /\ inf' \in [pc : InfPcs, frame : Nat] /\ inf'.frame = inf.frame
        /\ inf'.pc \in {"eos", "waiting", "exited"}
    BY <2>1 DEF ClientTypeOK
  <2> QED
    BY <2>1, <2>2 DEF ClientTypeOK, Threads
<1>5. CASE FeedEnds \/ JoinInference \/ TearDownDecoder \/ TearDownEncoder
  BY <1>5 DEF ClientTypeOK, Threads, FeedEnds, JoinInference, TearDownDecoder, TearDownEncoder,
              MainGoes
<1>6. CASE SettleRound
  BY <1>6 DEF ClientTypeOK, Threads, SettleRound
<1>7. CASE ClearRunning
  <2>1. /\ main.pc = "stop" /\ main'.pc = "notify"
        /\ main' \in [pc : MainPcs, last : Nat, stable : Nat, rounds : Nat]
    BY <1>7 DEF ClientTypeOK, ClearRunning, MainGoes
  <2>2. UNCHANGED <<sample, cb, inf, queue, rgba, yuv, encoded>> /\ running' = FALSE
    BY <1>7 DEF ClearRunning
  <2>3. atStop' \in Nat
    <3>1. cb.frame \in Nat /\ (cb.pc # "idle" => cb.frame # 0)
      BY DEF ClientTypeOK, Threads
    <3>2. atStop' = IF cb.pc = "idle" THEN cb.frame ELSE cb.frame - 1
      BY <1>7 DEF ClearRunning
    <3> QED
      BY <3>1, <3>2
  <2>4. ClientTypeOK'
    BY <2>1, <2>2, <2>3 DEF ClientTypeOK
  <2>5. Threads'
    BY <2>1, <2>2 DEF Threads
  <2> QED
    BY <2>1, <2>2, <2>4, <2>5
<1>8. CASE NotifyAll
  BY <1>8 DEF ClientTypeOK, Threads, NotifyAll, MainGoes, Wake, HasSpace
<1> QED
  BY <1>1, <1>2, <1>3, <1>4, <1>5, <1>6, <1>7, <1>8, <1>9 DEF Quiet, CallbackSteps

\* Pushed counts frames.
LEMMA PushedIs ==
  ASSUME ClientTypeOK, Threads
  PROVE  Pushed \in Nat
<1>1. cb.frame \in Nat /\ (cb.pc # "idle" => cb.frame # 0)
  BY DEF ClientTypeOK, Threads
<1> QED
  BY <1>1 DEF Pushed

\* They push the next frame or leave the queue as it is; clearing the flag notes how many
\* have been pushed (VideoDetectApp.hpp 159).
LEMMA QuietQueue ==
  ASSUME ClientTypeOK, Threads, Quiet
  PROVE  /\ \/ queue' = queue /\ Pushed' = Pushed
            \/ queue' = Append(queue, Pushed + 1) /\ Pushed' = Pushed + 1 /\ atStop' = atStop
         /\ atStop' = atStop \/ (running /\ atStop' = Pushed)
<1>1. cb.frame \in Nat /\ (cb.pc # "idle" => cb.frame # 0)
      /\ cb \in [pc : {"idle", "create", "setup", "push", "full"}, frame : Nat]
  BY DEF ClientTypeOK, Threads
<1>2. CASE DecoderReturnsFrame
  <2>1. cb.pc = "idle" /\ cb'.pc # "idle" /\ cb'.frame = cb.frame + 1
    BY <1>2 DEF DecoderReturnsFrame
  <2>2. queue' = queue /\ atStop' = atStop
    BY <1>2 DEF DecoderReturnsFrame
  <2> QED
    BY <1>1, <2>1, <2>2 DEF Pushed
<1>3. CASE CreateEncoder \/ SetupEncoder
  <2>1. cb.pc # "idle" /\ cb'.pc # "idle" /\ cb'.frame = cb.frame
    BY <1>1, <1>3 DEF CreateEncoder, SetupEncoder
  <2>2. queue' = queue /\ atStop' = atStop
    BY <1>3 DEF CreateEncoder, SetupEncoder
  <2> QED
    BY <2>1, <2>2 DEF Pushed
<1>4. CASE PushTask
  <2>1. cb.pc = "push" /\ cb'.frame = cb.frame /\ atStop' = atStop
    BY <1>1, <1>4 DEF PushTask
  <2>2. \/ queue' = Append(queue, cb.frame) /\ cb'.pc = "idle"
        \/ queue' = queue /\ cb'.pc = "full"
    BY <1>1, <1>4 DEF PushTask
  <2>3. Pushed = cb.frame - 1 /\ Pushed + 1 = cb.frame
    BY <1>1, <2>1 DEF Pushed
  <2>4. Pushed' = IF cb'.pc = "idle" THEN cb.frame ELSE cb.frame - 1
    BY <2>1 DEF Pushed
  <2> QED
    BY <2>1, <2>2, <2>3, <2>4
<1>5. CASE ClearRunning
  <2>1. running /\ UNCHANGED <<cb, queue>> /\ atStop' = Pushed
    BY <1>5 DEF ClearRunning, Pushed, Threads
  <2> QED
    BY <2>1 DEF Pushed
<1>6. CASE NotifyAll
  <2>1. UNCHANGED <<queue, atStop>> /\ cb' = HasSpace
    BY <1>6 DEF NotifyAll
  <2>2. cb'.frame = cb.frame /\ (cb'.pc = "idle" <=> cb.pc = "idle")
    BY <1>1, <2>1 DEF HasSpace
  <2> QED
    BY <2>1, <2>2 DEF Pushed
<1>7. CASE Look \/ FallAsleep \/ SendEos \/ FeedEnds \/ SettleRound \/ JoinInference
           \/ TearDownDecoder \/ TearDownEncoder
  <2>1. UNCHANGED <<cb, queue, atStop>>
    BY <1>7 DEF Look, FallAsleep, SendEos, FeedEnds, SettleRound, JoinInference, TearDownDecoder,
                TearDownEncoder
  <2> QED
    BY <2>1 DEF Pushed
<1> QED
  BY <1>2, <1>3, <1>4, <1>5, <1>6, <1>7 DEF Quiet, CallbackSteps

\* They lose no frame: the thread leaves its loop only with an empty queue and a
\* cleared flag (447-471), and atStop counts frames already pushed.
LEMMA QuietDrained ==
  ASSUME DnnTypeOK, ClientTypeOK, Threads, Drained, Quiet, ~crashed
  PROVE  Drained'
<1>1. Failed \subseteq Failed' /\ encoded' = encoded /\ (inf.pc \in Held => inf' = inf)
      /\ (inf'.pc \in Ended => inf.pc \in Ended \/ (queue = <<>> /\ ~running /\ inf.pc \notin Held))
  BY QuietKeeps, QuietThreads DEF Stays, Busy, Held, Ended
<1>2. \A f : Handled(f) => Handled(f)'
  BY <1>1 DEF Handled
<1>3. /\ Pushed \in Nat /\ queue \in Seq(Nat) /\ atStop \in Nat
      /\ \/ queue' = queue /\ Pushed' = Pushed
         \/ queue' = Append(queue, Pushed + 1) /\ Pushed' = Pushed + 1 /\ atStop' = atStop
      /\ atStop' = atStop \/ (running /\ atStop' = Pushed)
  BY PushedIs, QuietQueue DEF ClientTypeOK
<1>4. ASSUME NEW f \in 1 .. Pushed'
      PROVE  Handled(f)' \/ Waits(f)' \/ Taken(f)'
  <2>1. CASE f \in 1 .. Pushed
    <3>1. Handled(f) \/ Waits(f) \/ Taken(f)
      BY <2>1 DEF Drained
    <3>2. Waits(f) => Waits(f)'
      <4>1. CASE queue' = queue
        BY <4>1 DEF Waits
      <4>2. CASE queue' = Append(queue, Pushed + 1)
        <5>1. \A i \in DOMAIN queue : i \in DOMAIN queue' /\ queue'[i] = queue[i]
          BY <1>3, <4>2
        <5> QED
          BY <5>1 DEF Waits
      <4> QED
        BY <1>3, <4>1, <4>2
    <3>3. Taken(f) => Taken(f)'
      BY <1>1 DEF Taken
    <3> QED
      BY <1>2, <3>1, <3>2, <3>3
  <2>2. CASE f \notin 1 .. Pushed
    <3>1. f = Pushed + 1 /\ queue' = Append(queue, Pushed + 1)
      BY <1>3, <2>2
    <3>2. Len(queue) + 1 \in DOMAIN queue' /\ queue'[Len(queue) + 1] = f
      BY <1>3, <3>1
    <3> QED
      BY <3>2 DEF Waits
  <2> QED
    BY <2>1, <2>2
<1>5. atStop' <= Pushed'
  BY <1>3 DEF Drained
<1>6. ASSUME inf'.pc \in Ended, NEW f \in 1 .. atStop'
      PROVE  Handled(f)'
  <2>1. atStop' = atStop /\ f \in 1 .. atStop
    BY <1>1, <1>3, <1>6 DEF Threads
  <2>2. CASE inf.pc \in Ended
    BY <1>2, <2>1, <2>2 DEF Drained
  <2>3. CASE queue = <<>> /\ inf.pc \notin Held
    <3>1. f \in 1 .. Pushed
      BY <1>3, <2>1 DEF Drained
    <3>2. ~Waits(f) /\ ~Taken(f)
      BY <2>3 DEF Waits, Taken
    <3> QED
      BY <1>2, <3>1, <3>2 DEF Drained
  <2> QED
    BY <1>1, <1>6, <2>2, <2>3
<1> QED
  BY <1>4, <1>5, <1>6 DEF Drained

\* They keep the order of the frames.
LEMMA QuietInTurn ==
  ASSUME DnnTypeOK, ClientTypeOK, Threads, InTurn, Quiet, ~crashed
  PROVE  InTurn'
<1>1. /\ UNCHANGED <<sample, encoded>> /\ inf'.frame = inf.frame
      /\ inf'.pc \in Busy => inf.pc \in Busy
  BY QuietKeeps, QuietThreads DEF Stays, Busy
<1>2. /\ Pushed \in Nat /\ queue \in Seq(Nat) /\ inf.frame \in Nat
      /\ \/ queue' = queue /\ Pushed' = Pushed
         \/ queue' = Append(queue, Pushed + 1) /\ Pushed' = Pushed + 1
  BY PushedIs, QuietQueue DEF ClientTypeOK
<1>3. CASE queue' = queue /\ Pushed' = Pushed
  BY <1>1, <1>3 DEF InTurn
<1>4. CASE queue' = Append(queue, Pushed + 1) /\ Pushed' = Pushed + 1
  <2>1. /\ DOMAIN queue' = 1 .. Len(queue) + 1 /\ Len(queue) \in Nat
        /\ queue'[Len(queue) + 1] = Pushed + 1
        /\ \A i \in DOMAIN queue : queue'[i] = queue[i] /\ queue[i] \in Nat
        /\ DOMAIN queue = 1 .. Len(queue)
    BY <1>2, <1>4
  <2>2. /\ \A i, j \in DOMAIN queue : i < j => queue[i] < queue[j]
        /\ \A i \in DOMAIN queue : inf.frame < queue[i] /\ queue[i] <= Pushed
        /\ inf.frame <= Pushed
    BY DEF InTurn
  <2>3. \A i \in DOMAIN queue' : inf.frame < queue'[i] /\ queue'[i] <= Pushed + 1
    BY <1>2, <2>1, <2>2
  <2>4. \A i, j \in DOMAIN queue' : i < j => queue'[i] < queue'[j]
    BY <1>2, <2>1, <2>2
  <2>5. inf.frame <= Pushed + 1
    BY <1>2, <2>2
  <2> QED
    BY <1>1, <1>4, <2>3, <2>4, <2>5 DEF InTurn
<1> QED
  BY <1>2, <1>3, <1>4

\* The surfaces of the sample's own Graphics2D stay within the failed calls, too.
LEMMA AppMapSet ==
  ASSUME DnnTypeOK, Budget, NEW m \in Settled, NEW n \in Nat, NEW f \in Nat,
         g2d' = [g2d EXCEPT !.app = m], Leaked(m) <= Leaked(g2d.app) + n, Fail(n, f)
  PROVE  g2d' \in [plugin : Settled, app : Settled] /\ Budget'
<1>1. g2d' = [plugin |-> g2d.plugin, app |-> m] /\ g2d.app \in Settled /\ g2d.plugin \in Settled
  BY DEF DnnTypeOK
<1>2. g2d'.app = m /\ g2d'.plugin = g2d.plugin
  BY <1>1
<1>3. Leaked(g2d.app) \in Nat /\ Leaked(g2d.plugin) \in Nat /\ Leaked(m) \in Nat
  BY <1>1 DEF Settled, Leaked
<1>4. failures \in Seq(Nat)
  BY DEF DnnTypeOK
<1>5. Len(failures') = Len(failures) + n /\ Len(failures) \in Nat
  BY <1>4, FailAdds
<1>6. Leaked(g2d.plugin)' = Leaked(g2d.plugin) /\ Leaked(g2d.app)' = Leaked(m)
  BY <1>2 DEF Leaked
<1>7. Leaked(m) + Leaked(g2d.plugin) <= Len(failures')
  BY <1>3, <1>5 DEF Budget
<1>8. Budget'
  BY <1>6, <1>7 DEF Budget
<1>9. g2d' \in [plugin : Settled, app : Settled]
  BY <1>1
<1> QED
  BY <1>8, <1>9

\* More calls that failed make nothing wrong.
\* A frame without a failed call had none before, and keeps what it owned.
LEMMA FailedGrows ==
  ASSUME Failed \subseteq Failed'
  PROVE  /\ \A f : Clean(f)' => Clean(f)
         /\ \A image, f : Own(image, f) => Own(image, f)'
<1>1. \A f : Clean(f)' => Clean(f)
  BY DEF Clean
<1>2. ASSUME NEW image, NEW f, Own(image, f) PROVE Own(image, f)'
  BY <1>1, <1>2 DEF Own
<1> QED
  BY <1>1, <1>2

\* A step outside of the detector leaves the detection where it is.
LEMMA StageKept ==
  ASSUME Failed \subseteq Failed', UNCHANGED <<plugin, engine, dnn, foundIn>>, Stage
  PROVE  Stage'
<1>1. Clean(dnn.frame)' => Clean(dnn.frame)
  BY DEF Clean
<1>2. Whole(platform, engine)' = Whole(platform, engine)
  BY DEF platform, Whole
<1> QED
  BY <1>1, <1>2 DEF Stage

\* A step that keeps the engine's objects, and no surface map, keeps the engine usable.
LEMMA EquippedKept ==
  ASSUME Failed \subseteq Failed', UNCHANGED <<plugin, g2d>>, Keeps(engine, engine'), Equipped,
         main' = main \/ ({main.pc, main'.pc} \cap {"load", "done"} = {}),
         dnn'.pc # "idle" => Stage'
  PROVE  Equipped'
<1>1. engine'.objects = engine.objects /\ engine'.ready = engine.ready
  BY DEF Keeps
<1>2. platform' = platform /\ Whole(platform, engine)' = Whole(platform, engine)
  BY <1>1 DEF platform, Whole
<1> QED
  BY <1>1, <1>2 DEF Equipped, Freed

\* The steps outside of the detector keep the invariant.
LEMMA QuietStep ==
  ASSUME ClientInv, Quiet, ~crashed
  PROVE  ClientInv'
<1>1. /\ UNCHANGED <<plugin, engine, g2d, dnn, cells, found, foundIn, sample, rgba, yuv, encoded>>
      /\ failures' \in Seq(Nat) /\ Failed \subseteq Failed' /\ Len(failures') >= Len(failures)
      /\ Len(failures') \in Nat /\ Len(failures) \in Nat
  BY QuietKeeps DEF ClientInv, detectorVars
<1>2. /\ ClientTypeOK' /\ Threads' /\ Stays
      /\ main' = main \/ {main.pc, main'.pc} \cap {"load", "detect", "done"} = {}
  BY QuietThreads DEF ClientInv
<1>3. Drained' /\ InTurn'
  BY QuietDrained, QuietInTurn DEF ClientInv
<1>4. DnnTypeOK'
  BY <1>1 DEF ClientInv, DnnTypeOK
<1>5. Budget'
  <2>1. Leaked(g2d.app) \in Nat /\ Leaked(g2d.plugin) \in Nat
    BY DEF ClientInv, DnnTypeOK, Settled, Leaked
  <2>2. Leaked(g2d.app)' = Leaked(g2d.app) /\ Leaked(g2d.plugin)' = Leaked(g2d.plugin)
    BY <1>1 DEF Leaked
  <2> QED
    BY <1>1, <2>1, <2>2 DEF ClientInv, Budget
<1>6. InDetector'
  <2>1. crashed' = crashed \/ crashed' \/ ~crashed'
    OBVIOUS
  <2> QED
    BY <1>1, <1>2 DEF ClientInv, InDetector, Stays, Busy
<1>7. Equipped'
  <2>1. Stage => Stage'
    BY <1>1, StageKept
  <2>2. Keeps(engine, engine')
    BY <1>1, <1>4 DEF ClientInv, DnnTypeOK, Keeps
  <2>3. main' = main \/ {main.pc, main'.pc} \cap {"load", "done"} = {}
    BY <1>2
  <2>4. dnn'.pc # "idle" => Stage'
    BY <1>1, <2>1 DEF ClientInv, Equipped
  <2> QED
    BY <1>1, <2>2, <2>3, <2>4, EquippedKept DEF ClientInv
<1>8. OwnPictures'
  <2>1. \A image, f : Own(image, f) => Own(image, f)'
    BY <1>1, FailedGrows
  <2>2. inf'.pc \in Busy => inf' = inf
    BY <1>2 DEF Stays
  <2>3. \A f : Clean(f)' => Clean(f)
    BY <1>1, FailedGrows
  <2>4. /\ (\A i \in DOMAIN encoded : Own(encoded[i].image, encoded[i].of))'
        /\ (inf.pc = "encode" => Own(yuv, inf.frame))'
    BY <1>1, <2>1, <2>2, <2>3 DEF ClientInv, OwnPictures, Busy, Own, Clean
  <2>5. (inf.pc = "draw" => rgba.frame = inf.frame /\ (Clean(inf.frame) => foundIn = inf.frame))'
    BY <1>1, <2>2, <2>3 DEF ClientInv, OwnPictures, Busy, Clean
  <2> QED
    BY <2>4, <2>5 DEF OwnPictures
<1> QED
  BY <1>2, <1>3, <1>4, <1>5, <1>6, <1>7, <1>8 DEF ClientInv

\* A frame that leaves the hands of the inference thread is through, or a call failed.
\* A step of the inference thread loses no frame when it keeps what is encoded, and the
\* frame at hand is handled before it is put down.
LEMMA DrainedKept ==
  ASSUME Drained, Failed \subseteq Failed', UNCHANGED <<cb, queue, atStop>>,
         \A f : (\E i \in DOMAIN encoded : encoded[i].of = f) =>
                 \E i \in DOMAIN encoded' : encoded'[i].of = f,
         inf'.frame = inf.frame, inf'.pc \in Ended => inf.pc \in Ended,
         inf.pc \in Held => inf'.pc \in Held \/ Handled(inf.frame)'
  PROVE  Drained'
<1>1. \A f : Handled(f) => Handled(f)'
  BY DEF Handled
<1>2. Pushed' = Pushed /\ \A f : Waits(f)' = Waits(f)
  BY DEF Pushed, Waits
<1>3. \A f : Taken(f) => Taken(f)' \/ Handled(f)'
  BY DEF Taken
<1>4. ASSUME NEW f \in 1 .. Pushed' PROVE Handled(f)' \/ Waits(f)' \/ Taken(f)'
  BY <1>1, <1>2, <1>3 DEF Drained
<1>5. atStop' <= Pushed'
  BY <1>2 DEF Drained
<1>6. ASSUME inf'.pc \in Ended, NEW f \in 1 .. atStop' PROVE Handled(f)'
  BY <1>1, <1>6 DEF Drained
<1> QED
  BY <1>4, <1>5, <1>6 DEF Drained

\* A step of the inference thread that encodes nothing keeps the order.
LEMMA InTurnKept ==
  ASSUME InTurn, UNCHANGED <<cb, queue, encoded, sample>>, inf'.frame = inf.frame,
         inf'.pc \in Busy => inf.pc \in Busy
  PROVE  InTurn'
<1>1. Pushed' = Pushed
  BY DEF Pushed
<1> QED
  BY <1>1 DEF InTurn

\* An exception out of the detector counts as one failed call and changes nothing else.
LEMMA Throws ==
  ASSUME DnnTypeOK, Budget, DetectorThrows
  PROVE  /\ DnnTypeOK' /\ Budget' /\ Failed \subseteq Failed' /\ Keeps(engine, engine')
         /\ UNCHANGED <<plugin, engine, g2d, dnn, cells, found, foundIn>>
<1>1. UNCHANGED <<plugin, engine, g2d, dnn, cells, found, foundIn>>
  BY DEF DetectorThrows
<1>2. failures \in Seq(Nat) /\ dnn.frame \in Nat /\ engine \in EngineType
  BY DEF DnnTypeOK
<1>3. /\ failures' \in Seq(Nat) /\ Failed \subseteq Failed' /\ Len(failures') >= Len(failures)
      /\ Len(failures') \in Nat /\ Len(failures) \in Nat
  <2>1. CASE failures' = failures
    BY <1>2, <2>1 DEF Failed
  <2>2. CASE Fail(1, dnn.frame)
    BY <1>2, <2>2, FailAdds
  <2> QED
    BY <2>1, <2>2 DEF DetectorThrows
<1>4. DnnTypeOK'
  BY <1>1, <1>3 DEF DnnTypeOK
<1>5. Budget'
  <2>1. Leaked(g2d.app) \in Nat /\ Leaked(g2d.plugin) \in Nat
    BY DEF DnnTypeOK, Settled, Leaked
  <2>2. Leaked(g2d.app)' = Leaked(g2d.app) /\ Leaked(g2d.plugin)' = Leaked(g2d.plugin)
    BY <1>1 DEF Leaked
  <2> QED
    BY <1>3, <2>1, <2>2 DEF Budget
<1> QED
  BY <1>1, <1>2, <1>3, <1>4, <1>5 DEF Keeps

\* The detector goes on, or throws, in the hands of either client.
\* A step of the detector, in either sample, keeps the invariant.
LEMMA DetectorStep ==
  ASSUME ClientInv, ~crashed, inf.pc = "detect" \/ main.pc = "detect",
         \/ DnnSteps /\ crashed' = crashed
         \/ DetectorThrows /\ crashed' = TRUE,
         UNCHANGED <<sample, threads, queue, running, rgba, yuv, encoder, encoded, atStop, missed>>
  PROVE  ClientInv'
<1>1. UNCHANGED <<main, cb, inf>>
  BY DEF threads
<1>2. main.pc \notin {"load", "done"} /\ inf.pc \notin {"draw", "encode"}
  BY DEF ClientInv, Threads
<1>3. CASE DnnSteps /\ crashed' = crashed
  <2>1. dnn.pc # "idle"
    BY <1>3 DEF DnnSteps, PreProcess, Infer, PostProcess
  <2>2. dnn.frame # NoFrame
    BY DEF ClientInv, InDetector, Threads, Busy, NoFrame
  <2>3. DnnTypeOK /\ Stage /\ Budget
    BY <2>1 DEF ClientInv, Equipped
  <2>4. /\ DnnTypeOK' /\ Stage' /\ Budget' /\ Failed \subseteq Failed' /\ Keeps(engine, engine')
        /\ dnn'.frame = dnn.frame /\ plugin' = plugin
    BY <1>3, <2>2, <2>3, DnnStepsAre
  <2>5. Equipped'
    <3>1. engine'.objects = engine.objects /\ engine'.ready = engine.ready
      BY <2>4 DEF Keeps
    <3>2. platform' = platform /\ Whole(platform, engine)' = Whole(platform, engine)
      BY <2>4, <3>1 DEF platform, Whole
    <3> QED
      BY <1>1, <1>2, <2>4, <3>1, <3>2 DEF ClientInv, Equipped, Freed
  <2>6. InDetector'
    BY <1>1, <1>3, <2>4 DEF ClientInv, InDetector
  <2>7. OwnPictures'
    BY <1>1, <1>2, <2>4, FailedGrows DEF ClientInv, OwnPictures
  <2> QED
    BY <1>1, <2>4, <2>5, <2>6, <2>7, DrainedKept, InTurnKept
       DEF ClientInv, ClientTypeOK, Threads
<1>4. CASE DetectorThrows /\ crashed' = TRUE
  <2>1. /\ DnnTypeOK' /\ Budget' /\ Failed \subseteq Failed' /\ Keeps(engine, engine')
        /\ UNCHANGED <<plugin, engine, g2d, dnn, cells, found, foundIn>>
    BY <1>4, Throws DEF ClientInv
  <2>2. Equipped'
    BY <1>1, <2>1, StageKept, EquippedKept DEF ClientInv, Equipped
  <2>3. InDetector'
    BY <1>4 DEF InDetector
  <2>4. OwnPictures'
    BY <1>1, <1>2, <2>1, FailedGrows DEF ClientInv, OwnPictures
  <2> QED
    BY <1>1, <2>1, <2>2, <2>3, <2>4, DrainedKept, InTurnKept
       DEF ClientInv, ClientTypeOK, Threads
<1> QED
  BY <1>3, <1>4

\* Taking the frame at the head of the queue into the detector (VideoDetectApp.hpp
\* 444-476) keeps it: the frame was waiting and now is at hand.
LEMMA TakeTaskStep ==
  ASSUME ClientInv, ~crashed, TakeTask
  PROVE  ClientInv'
<1> DEFINE f == Head(queue)
<1>1. /\ inf.pc = "look" /\ queue # <<>> /\ queue' = Tail(queue) /\ cb' = HasSpace
      /\ inf' = [pc |-> "detect", frame |-> f]
      /\ UNCHANGED <<sample, main, running, rgba, yuv, encoder, encoded, atStop, missed>>
  BY DEF TakeTask
<1>2. /\ queue \in Seq(Nat) /\ Len(queue) \in Nat \ {0} /\ f = queue[1] /\ f \in Nat
      /\ Tail(queue) \in Seq(Nat) /\ Len(Tail(queue)) = Len(queue) - 1
      /\ \A i \in 1 .. Len(queue) - 1 : Tail(queue)[i] = queue[i + 1]
      /\ DOMAIN queue = 1 .. Len(queue) /\ DOMAIN queue' = 1 .. Len(queue) - 1
  <2>1. queue \in Seq(Nat) /\ queue # <<>> /\ queue' = Tail(queue)
    BY <1>1 DEF ClientInv, ClientTypeOK
  <2>2. Len(queue) \in Nat \ {0} /\ f = queue[1] /\ f \in Nat
    BY <2>1
  <2> QED
    BY <2>1, <2>2
<1>3. f # 0 /\ inf.frame < f /\ f <= Pushed /\ inf.frame \in Nat /\ Pushed \in Nat
  BY <1>2, PushedIs DEF ClientInv, ClientTypeOK, InTurn
<1> HIDE DEF f
<1>4. /\ inf'.pc = "detect" /\ inf'.frame = f
      /\ main.pc \in {"feed", "settle", "stop", "notify", "join"}
  BY <1>1 DEF ClientInv, Threads
<1>5. /\ cb'.frame = cb.frame /\ (cb'.pc = "idle" <=> cb.pc = "idle")
      /\ cb' \in [pc : {"idle", "create", "setup", "push", "full"}, frame : Nat]
  BY <1>1 DEF ClientInv, ClientTypeOK, HasSpace
<1>6. Pushed' = Pushed
  BY <1>5 DEF Pushed
<1>7. ClientTypeOK'
  <2>1. inf' \in [pc : InfPcs, frame : Nat]
    BY <1>1, <1>2 DEF InfPcs
  <2> QED
    BY <1>1, <1>2, <1>5, <2>1 DEF ClientInv, ClientTypeOK
<1>8. Threads'
  BY <1>1, <1>3, <1>4, <1>5 DEF ClientInv, Threads, Busy, Ended
<1>9. \/ PushInput(f) /\ crashed' = crashed
      \/ DetectorThrows /\ crashed' = TRUE
  BY DEF TakeTask, f
<1>10. /\ DnnTypeOK' /\ Budget' /\ Failed \subseteq Failed' /\ Equipped' /\ InDetector'
  <2>1. CASE PushInput(f) /\ crashed' = crashed
    <3>1. /\ UNCHANGED <<plugin, engine, g2d, foundIn, failures>>
          /\ dnn' = [dnn EXCEPT !.pc = "preprocess", !.frame = f]
      BY <2>1 DEF PushInput
    <3>2. dnn'.pc = "preprocess" /\ dnn'.frame = f /\ DnnTypeOK'
      BY <1>2, <3>1 DEF ClientInv, DnnTypeOK
    <3>3. Failed' = Failed /\ Budget'
      BY <3>1 DEF ClientInv, Budget, Leaked, Failed
    <3>4. Stage'
      <4>1. Clean(dnn.frame)' => NoFrame \notin Failed
        BY <3>3 DEF Clean
      <4>2. Whole(platform, engine)' = Whole(platform, engine)
        BY <3>1 DEF platform, Whole
      <4>3. NoFrame \notin Failed => Whole(platform, engine)
        BY <1>4 DEF ClientInv, Equipped
      <4> QED
        BY <3>2, <4>1, <4>2, <4>3 DEF Stage
    <3>5. Equipped'
      <4>1. Keeps(engine, engine')
        BY <3>1 DEF Keeps, ClientInv, DnnTypeOK
      <4> QED
        BY <1>1, <3>1, <3>3, <3>4, <4>1, EquippedKept DEF ClientInv
    <3>6. InDetector'
      BY <1>1, <1>4, <3>2 DEF InDetector
    <3> QED
      BY <3>2, <3>3, <3>5, <3>6
  <2>2. CASE DetectorThrows /\ crashed' = TRUE
    <3>1. /\ DnnTypeOK' /\ Budget' /\ Failed \subseteq Failed' /\ Keeps(engine, engine')
          /\ UNCHANGED <<plugin, engine, g2d, dnn, cells, found, foundIn>>
      BY <2>2, Throws DEF ClientInv
    <3>2. Equipped'
      BY <1>1, <3>1, StageKept, EquippedKept DEF ClientInv, Equipped
    <3>3. InDetector'
      BY <2>2 DEF InDetector
    <3> QED
      BY <3>1, <3>2, <3>3
  <2> QED
    BY <1>9, <2>1, <2>2
<1>11. Drained'
  <2>1. \A g : Handled(g) => Handled(g)'
    BY <1>1, <1>10 DEF Handled
  <2>2. ASSUME NEW g, Waits(g) PROVE Waits(g)' \/ Taken(g)'
    <3>1. PICK i \in DOMAIN queue : queue[i] = g
      BY <2>2 DEF Waits
    <3>2. CASE i = 1
      BY <1>2, <1>4, <3>1, <3>2 DEF Taken, Held, Busy
    <3>3. CASE i # 1
      <4>1. i - 1 \in DOMAIN queue' /\ queue'[i - 1] = g
        BY <1>1, <1>2, <3>1, <3>3
      <4> QED
        BY <4>1 DEF Waits
    <3> QED
      BY <3>2, <3>3
  <2>3. \A g : ~Taken(g)
    BY <1>1 DEF Taken, Held, Busy
  <2>4. ASSUME NEW g \in 1 .. Pushed' PROVE Handled(g)' \/ Waits(g)' \/ Taken(g)'
    BY <1>6, <2>1, <2>2, <2>3 DEF ClientInv, Drained
  <2>5. atStop' <= Pushed' /\ inf'.pc \notin Ended
    BY <1>1, <1>4, <1>6 DEF ClientInv, Drained, Ended
  <2> QED
    BY <2>4, <2>5 DEF Drained
<1>12. InTurn'
  <2>1. /\ \A i, j \in DOMAIN queue : i < j => queue[i] < queue[j]
        /\ \A i \in DOMAIN queue : inf.frame < queue[i] /\ queue[i] <= Pushed
    BY DEF ClientInv, InTurn
  <2>2. \A i \in DOMAIN queue' : i + 1 \in DOMAIN queue /\ queue'[i] = queue[i + 1] /\ i \in Nat
    BY <1>1, <1>2
  <2>3. \A i, j \in DOMAIN queue' : i < j => queue'[i] < queue'[j]
    BY <2>1, <2>2
  <2>4. \A i \in DOMAIN queue' : f < queue'[i] /\ queue'[i] <= Pushed
    BY <1>2, <2>1, <2>2
  <2>5. ASSUME NEW i \in DOMAIN encoded, sample = "video"
        PROVE  encoded[i].of <= f /\ encoded[i].of # f
    <3>1. encoded[i].of <= inf.frame
      BY <2>5 DEF ClientInv, InTurn
    <3>2. encoded[i] \in Encodings
      BY <2>5 DEF ClientInv, ClientTypeOK
    <3>3. encoded[i].of \in Nat
      BY <3>2 DEF Encodings
    <3> QED
      BY <1>2, <1>3, <3>1, <3>3
  <2> QED
    BY <1>1, <1>3, <1>4, <1>6, <2>3, <2>4, <2>5 DEF ClientInv, InTurn
<1>13. OwnPictures'
  BY <1>1, <1>4, <1>10, FailedGrows DEF ClientInv, OwnPictures
<1> QED
  BY <1>7, <1>8, <1>10, <1>11, <1>12, <1>13 DEF ClientInv

\* popOutput ends the detection of the frame.
LEMMA DoneIs ==
  ASSUME DnnTypeOK, PopOutput
  PROVE  /\ dnn.pc = "done" /\ dnn'.pc = "idle" /\ dnn'.frame = dnn.frame
         /\ dnn' \in [pc : {"idle", "preprocess", "infer", "postprocess", "done"}, frame : Nat,
                      rgb : Images, tensor : Int, labels : BOOLEAN]
  BY DEF DnnTypeOK, PopOutput

\* The conversion to RGBA keeps the invariant: if it fails, the frame is dropped and has
\* a failed call.
LEMMA CvtToRgbaStep ==
  ASSUME ClientInv, ~crashed, CvtToRgba
  PROVE  ClientInv'
<1> DEFINE src == Image(inf.frame, NoFrame)
<1>1. PICK o \in CvtColorToHost(platform, src, rgba, g2d.app) :
         /\ rgba' = o.host /\ g2d' = [g2d EXCEPT !.app = o.map] /\ Fail(o.faults, inf.frame)
         /\ inf' = [inf EXCEPT !.pc = IF o.ret = 0 THEN "draw" ELSE "look"]
  BY DEF CvtToRgba
<1>2. /\ inf.pc = "detect" /\ PopOutput
      /\ UNCHANGED <<plugin, engine, cells, found, foundIn, sample, main, cb, queue, running, yuv,
                     encoder, encoded, atStop, missed, crashed>>
  BY DEF CvtToRgba
<1>3. src \in Images /\ rgba \in Images /\ g2d.app \in Settled /\ inf.frame \in Nat
      /\ failures \in Seq(Nat) /\ src.frame = inf.frame
  BY DEF ClientInv, ClientTypeOK, DnnTypeOK, Image, Images, NoFrame
<1>4. Outcome(src, g2d.app, o)
  BY <1>1, <1>3, CvtOutcome
<1> HIDE DEF src
<1>5. /\ g2d' \in [plugin : Settled, app : Settled] /\ Budget'
      /\ failures' \in Seq(Nat) /\ Failed \subseteq Failed'
      /\ o.faults # 0 => inf.frame \in Failed'
  BY <1>1, <1>3, <1>4, AppMapSet, FailAdds DEF Outcome, ClientInv
<1>6. /\ inf' \in [pc : InfPcs, frame : Nat] /\ inf'.frame = inf.frame
      /\ inf'.pc = IF o.ret = 0 THEN "draw" ELSE "look"
  BY <1>1 DEF ClientInv, ClientTypeOK, InfPcs
<1>7. /\ dnn.pc = "done" /\ dnn'.pc = "idle" /\ DnnTypeOK'
  BY <1>2, <1>5, DoneIs DEF ClientInv, DnnTypeOK
<1>8. ClientTypeOK' /\ Threads'
  BY <1>1, <1>2, <1>4, <1>6 DEF ClientInv, ClientTypeOK, Threads, Outcome, Busy, Ended
<1>9. InDetector'
  <2>1. main.pc # "detect"
    BY <1>2 DEF ClientInv, Threads
  <2> QED
    BY <1>2, <1>6, <1>7, <2>1 DEF InDetector
<1>10. Equipped'
  <2>1. main.pc \notin {"load", "done"} /\ Whole(platform, engine)' = Whole(platform, engine)
        /\ platform' = platform
    BY <1>2 DEF ClientInv, Threads, platform, Whole
  <2> QED
    BY <1>2, <1>5, <1>7, <2>1 DEF ClientInv, Equipped, Freed
<1>11. Drained'
  <2>1. inf.pc \in Held => inf'.pc \in Held \/ Handled(inf.frame)'
    <3>1. o.ret # 0 => inf.frame \in Failed'
      BY <1>4, <1>5 DEF Outcome
    <3> QED
      BY <1>2, <1>6, <3>1 DEF Busy, Held, Handled
  <2>2. inf'.pc \notin Ended
    BY <1>6 DEF Ended
  <2> QED
    BY <1>2, <1>5, <1>6, <2>1, <2>2, DrainedKept DEF ClientInv
<1>12. InTurn'
  BY <1>2, <1>6, InTurnKept DEF ClientInv, Busy
<1>13. OwnPictures'
  <2>1. ASSUME o.ret = 0 PROVE rgba'.frame = inf.frame
    BY <1>1, <1>3, <1>4, <2>1 DEF Outcome
  <2>2. ASSUME Clean(inf.frame)' PROVE foundIn = inf.frame
    <3>1. Clean(inf.frame) /\ dnn.frame = inf.frame
      BY <1>2, <1>5, <1>6, <2>2 DEF Clean, ClientInv, InDetector
    <3> QED
      BY <1>7, <3>1 DEF ClientInv, Equipped, Stage
  <2> QED
    BY <1>2, <1>5, <1>6, <2>1, <2>2, FailedGrows DEF ClientInv, OwnPictures, Clean
<1> QED
  BY <1>5, <1>7, <1>8, <1>9, <1>10, <1>11, <1>12, <1>13 DEF ClientInv

\* Drawing the boxes and the conversion to YUV keep it: the boxes drawn are the
\* frame's, or a call failed.
LEMMA DrawAndCvtToYuvStep ==
  ASSUME ClientInv, ~crashed, DrawAndCvtToYuv
  PROVE  ClientInv'
<1> DEFINE src == Image(rgba.frame, IF found = <<>> THEN NoFrame ELSE foundIn)
<1>1. PICK o \in CvtColorToHost(platform, rgba', yuv, g2d.app) :
         /\ yuv' = o.host /\ g2d' = [g2d EXCEPT !.app = o.map] /\ Fail(o.faults, inf.frame)
         /\ inf' = [inf EXCEPT !.pc = IF o.ret = 0 THEN "encode" ELSE "look"]
  BY DEF DrawAndCvtToYuv
<1>2. /\ inf.pc = "draw" /\ rgba' = src
      /\ UNCHANGED <<plugin, engine, dnn, cells, found, foundIn, sample, main, cb, queue, running,
                     encoder, encoded, atStop, missed, crashed>>
  BY DEF DrawAndCvtToYuv
<1>3. src \in Images /\ yuv \in Images /\ g2d.app \in Settled /\ inf.frame \in Nat
      /\ failures \in Seq(Nat)
  <2>1. rgba.frame \in Int /\ foundIn \in Int /\ NoFrame \in Int
    BY DEF ClientInv, ClientTypeOK, DnnTypeOK, Images, NoFrame
  <2> QED
    BY <2>1 DEF ClientInv, ClientTypeOK, DnnTypeOK, Image, Images
<1>4. src.frame = rgba.frame /\ src.boxes \in {NoFrame, foundIn}
  BY DEF Image
<1> HIDE DEF src
<1>5. Outcome(src, g2d.app, o)
  BY <1>1, <1>2, <1>3, CvtOutcome
<1>6. /\ g2d' \in [plugin : Settled, app : Settled] /\ Budget'
      /\ failures' \in Seq(Nat) /\ Failed \subseteq Failed'
      /\ o.faults # 0 => inf.frame \in Failed'
  BY <1>1, <1>3, <1>5, AppMapSet, FailAdds DEF Outcome, ClientInv
<1>7. /\ inf' \in [pc : InfPcs, frame : Nat] /\ inf'.frame = inf.frame
      /\ inf'.pc = IF o.ret = 0 THEN "encode" ELSE "look"
  BY <1>1 DEF ClientInv, ClientTypeOK, InfPcs
<1>8. DnnTypeOK'
  BY <1>2, <1>6 DEF ClientInv, DnnTypeOK
<1>9. ClientTypeOK' /\ Threads'
  BY <1>1, <1>2, <1>3, <1>5, <1>7 DEF ClientInv, ClientTypeOK, Threads, Outcome, Busy, Ended
<1>10. main.pc \notin {"detect", "load", "done"}
  BY <1>2 DEF ClientInv, Threads
<1>11. dnn.pc = "idle" /\ InDetector'
  BY <1>2, <1>7, <1>10 DEF ClientInv, InDetector
<1>12. Equipped'
  <2>1. Whole(platform, engine)' = Whole(platform, engine) /\ platform' = platform
    BY <1>2 DEF platform, Whole
  <2> QED
    BY <1>2, <1>6, <1>10, <1>11, <2>1 DEF ClientInv, Equipped, Freed
<1>13. Drained'
  <2>1. inf.pc \in Held => inf'.pc \in Held \/ Handled(inf.frame)'
    <3>1. o.ret # 0 => inf.frame \in Failed'
      BY <1>5, <1>6 DEF Outcome
    <3> QED
      BY <1>2, <1>7, <3>1 DEF Busy, Held, Handled
  <2>2. inf'.pc \notin Ended
    BY <1>7 DEF Ended
  <2> QED
    BY <1>2, <1>6, <1>7, <2>1, <2>2, DrainedKept DEF ClientInv
<1>14. InTurn'
  BY <1>2, <1>7, InTurnKept DEF ClientInv, Busy
<1>15. OwnPictures'
  <2>1. rgba.frame = inf.frame /\ (Clean(inf.frame) => foundIn = inf.frame)
    BY <1>2 DEF ClientInv, OwnPictures
  <2>2. Own(src, inf.frame)
    BY <1>4, <2>1 DEF Own
  <2>3. ASSUME o.ret = 0 PROVE Own(yuv, inf.frame)'
    <3>1. yuv' = src
      BY <1>1, <1>5, <2>3 DEF Outcome
    <3>2. Clean(inf.frame)' => Clean(inf.frame)
      BY <1>6, <1>7 DEF Clean
    <3> QED
      BY <1>7, <2>2, <3>1, <3>2 DEF Own
  <2> QED
    BY <1>1, <1>2, <1>5, <1>6, <1>7, <2>3, FailedGrows DEF ClientInv, OwnPictures
<1> QED
  BY <1>6, <1>8, <1>9, <1>11, <1>12, <1>13, <1>14, <1>15 DEF ClientInv

\* Encoding keeps it: the frame at hand is later than all encoded ones.
LEMMA EncodeStep ==
  ASSUME ClientInv, ~crashed, Encode
  PROVE  ClientInv'
<1> DEFINE e == [image |-> yuv, of |-> inf.frame]
<1>0. \/ CallEncode
      \/ UNCHANGED <<inf, encoded, failures>>
      \/ Fail(1, inf.frame) /\ inf' = [inf EXCEPT !.pc = "look"] /\ UNCHANGED encoded
  BY DEF Encode, EncoderBreaks
<1>1. /\ inf.pc = "encode"
      /\ \/ /\ inf' = [inf EXCEPT !.pc = "look"]
            /\ \E n \in {0, 1} : Fail(n, inf.frame) /\ (encoded' = encoded => n = 1)
            /\ encoded' = encoded \/ encoded' = Append(encoded, e)
         \/ /\ inf' = inf \/ inf' = [inf EXCEPT !.pc = "waiting"]
            /\ UNCHANGED <<encoded, failures>>
      /\ UNCHANGED <<plugin, engine, g2d, dnn, cells, found, foundIn, sample, main, cb, queue,
                     running, rgba, yuv, atStop, missed>>
  <2>1. /\ inf.pc = "encode"
        /\ UNCHANGED <<plugin, engine, g2d, dnn, cells, found, foundIn, sample, main, cb, queue,
                       running, rgba, yuv, atStop, missed>>
    BY DEF Encode
  <2>2. encoded \in Seq(Encodings) /\ e \in Encodings
    BY DEF ClientInv, ClientTypeOK, Encodings
  <2> HIDE DEF e
  <2>3. Append(encoded, e) # encoded
    BY <2>2
  <2>4. CASE CallEncode
    <3>1. \/ /\ \E n \in {0, 1} : Fail(n, inf.frame)
             /\ encoded' = Append(encoded, e) /\ inf' = [inf EXCEPT !.pc = "look"]
          \/ inf' = [inf EXCEPT !.pc = "waiting"] /\ UNCHANGED <<encoded, failures>>
      BY <2>4 DEF CallEncode, EncoderTakes, EncoderRefuses, e
    <3> QED
      BY <2>1, <2>3, <3>1
  <2> QED
    BY <1>0, <2>1, <2>4
<1>2. /\ encoded \in Seq(Encodings) /\ e \in Encodings
      /\ e.image = yuv /\ e.of = inf.frame /\ inf.frame \in Nat /\ failures \in Seq(Nat)
  BY DEF ClientInv, ClientTypeOK, DnnTypeOK, Encodings
<1> HIDE DEF e
<1>3. /\ inf' \in [pc : InfPcs, frame : Nat] /\ inf'.frame = inf.frame
      /\ inf'.pc \in {"look", "encode", "waiting"}
      /\ inf'.pc = "look" \/ encoded' = encoded
  BY <1>1 DEF ClientInv, ClientTypeOK, InfPcs
<1>4. /\ failures' \in Seq(Nat) /\ Failed \subseteq Failed' /\ Len(failures') >= Len(failures)
      /\ Len(failures') \in Nat /\ Len(failures) \in Nat
      /\ encoded' = encoded => inf.frame \in Failed' \/ inf'.pc \in Held
  <2>1. CASE UNCHANGED <<encoded, failures>> /\ (inf' = inf \/ inf' = [inf EXCEPT !.pc = "waiting"])
    BY <1>1, <1>2, <1>3, <2>1 DEF Failed, Held, Busy, ClientInv, ClientTypeOK
  <2>2. CASE \E n \in {0, 1} : Fail(n, inf.frame) /\ (encoded' = encoded => n = 1)
    <3>1. PICK n \in {0, 1} : Fail(n, inf.frame) /\ (encoded' = encoded => n = 1)
      BY <2>2
    <3>2. n \in Nat /\ Len(failures) \in Nat
      BY <1>2
    <3>3. /\ failures' \in Seq(Nat) /\ Failed \subseteq Failed'
          /\ Len(failures') = Len(failures) + n /\ (n # 0 => inf.frame \in Failed')
      BY <1>2, <3>1, <3>2, FailAdds
    <3>4. encoded' = encoded => inf.frame \in Failed'
      BY <3>1, <3>3
    <3> QED
      BY <3>2, <3>3, <3>4
  <2> QED
    BY <1>1, <2>1, <2>2
<1>15. /\ Append(encoded, e) \in Seq(Encodings)
       /\ Len(encoded) \in Nat /\ DOMAIN encoded = 1 .. Len(encoded)
       /\ DOMAIN Append(encoded, e) = 1 .. Len(encoded) + 1
       /\ Append(encoded, e)[Len(encoded) + 1] = e
       /\ \A i \in DOMAIN encoded : Append(encoded, e)[i] = encoded[i]
  BY <1>2
<1>16. encoded' = encoded \/ encoded' = Append(encoded, e)
  BY <1>1
<1>5. \/ encoded' = encoded
      \/ /\ DOMAIN encoded' = 1 .. Len(encoded) + 1
         /\ Len(encoded) \in Nat /\ DOMAIN encoded = 1 .. Len(encoded)
         /\ encoded'[Len(encoded) + 1] = e /\ \A i \in DOMAIN encoded : encoded'[i] = encoded[i]
  BY <1>15, <1>16
<1>6. DnnTypeOK' /\ Budget'
  <2>1. Leaked(g2d.app) \in Nat /\ Leaked(g2d.plugin) \in Nat
    BY DEF ClientInv, DnnTypeOK, Settled, Leaked
  <2>2. Leaked(g2d.app)' = Leaked(g2d.app) /\ Leaked(g2d.plugin)' = Leaked(g2d.plugin)
    BY <1>1 DEF Leaked
  <2>3. Budget'
    BY <1>4, <2>1, <2>2 DEF ClientInv, Budget
  <2> QED
    BY <1>1, <1>4, <2>3 DEF ClientInv, DnnTypeOK
<1>7. encoded' \in Seq(Encodings)
  BY <1>2, <1>15, <1>16
<1>8. ClientTypeOK' /\ Threads'
  BY <1>1, <1>3, <1>7 DEF ClientInv, ClientTypeOK, Threads, Busy, Ended
<1>9. main.pc \notin {"detect", "load", "done"}
  BY <1>1 DEF ClientInv, Threads
<1>10. dnn.pc = "idle" /\ InDetector'
  BY <1>1, <1>3, <1>9 DEF ClientInv, InDetector
<1>11. Equipped'
  <2>1. Whole(platform, engine)' = Whole(platform, engine) /\ platform' = platform
    BY <1>1 DEF platform, Whole
  <2> QED
    BY <1>1, <1>4, <1>9, <1>10, <2>1 DEF ClientInv, Equipped, Freed
<1>12. Drained'
  <2>1. \A f : (\E i \in DOMAIN encoded : encoded[i].of = f) =>
              \E i \in DOMAIN encoded' : encoded'[i].of = f
    BY <1>5
  <2>2. inf'.pc \in Held \/ Handled(inf.frame)'
    <3>1. CASE encoded' = encoded
      BY <1>3, <1>4, <3>1 DEF Handled
    <3>2. CASE encoded' # encoded
      <4>1. Len(encoded) + 1 \in DOMAIN encoded' /\ encoded'[Len(encoded) + 1].of = inf.frame
        BY <1>2, <1>5, <3>2
      <4> QED
        BY <1>3, <4>1 DEF Handled
    <3> QED
      BY <3>1, <3>2
  <2>3. inf'.pc \notin Ended
    BY <1>3 DEF Ended
  <2> QED
    BY <1>1, <1>3, <1>4, <2>1, <2>2, <2>3, DrainedKept DEF ClientInv
<1>13. InTurn'
  <2>1. inf.pc \in Busy /\ Pushed' = Pushed
    BY <1>1, <1>3 DEF Busy, Pushed
  <2>2. CASE encoded' = encoded
    BY <1>1, <1>3, <2>1, <2>2, InTurnKept DEF ClientInv
  <2>3. CASE encoded' # encoded
    <3>0. inf'.pc \notin Busy
      BY <1>3, <2>3 DEF Busy
    <3>1. sample = "video"
      BY <1>1 DEF ClientInv, Threads
    <3>2. \A i \in DOMAIN encoded : encoded[i].of \in Nat /\ encoded[i].of < inf.frame
      <4>1. \A i \in DOMAIN encoded : encoded[i].of <= inf.frame /\ encoded[i].of # inf.frame
        BY <2>1, <3>1 DEF ClientInv, InTurn
      <4>2. \A i \in DOMAIN encoded : encoded[i] \in Encodings
        BY <1>2
      <4>3. \A i \in DOMAIN encoded : encoded[i].of \in Nat
        BY <4>2 DEF Encodings
      <4> QED
        BY <1>2, <4>1, <4>3
    <3>3. \A i \in DOMAIN encoded' : encoded'[i].of <= inf.frame
      BY <1>2, <1>5, <2>3, <3>2
    <3>4. \A i, j \in DOMAIN encoded : i < j => encoded[i].of < encoded[j].of
      BY DEF ClientInv, InTurn
    <3>5. \A i, j \in DOMAIN encoded' : i < j => encoded'[i].of < encoded'[j].of
      <4> DEFINE n == Len(encoded) + 1
      <4>1. /\ DOMAIN encoded' = 1 .. n /\ DOMAIN encoded = 1 .. n - 1 /\ n \in Nat
            /\ encoded'[n].of = inf.frame /\ \A i \in DOMAIN encoded : encoded'[i] = encoded[i]
        BY <1>2, <1>5, <2>3
      <4> HIDE DEF n
      <4>2. SUFFICES ASSUME NEW i \in 1 .. n, NEW j \in 1 .. n, i < j
                     PROVE  encoded'[i].of < encoded'[j].of
        BY <4>1
      <4>3. i \in DOMAIN encoded /\ encoded'[i] = encoded[i]
        BY <4>1, <4>2
      <4>4. CASE j = n
        BY <3>2, <4>1, <4>3, <4>4
      <4>5. CASE j # n
        <5>1. j \in DOMAIN encoded /\ encoded'[j] = encoded[j]
          BY <4>1, <4>5
        <5> QED
          BY <3>4, <4>2, <4>3, <5>1
      <4> QED
        BY <4>4, <4>5
    <3> QED
      BY <1>1, <1>3, <2>1, <3>0, <3>3, <3>5 DEF ClientInv, InTurn
  <2> QED
    BY <2>2, <2>3
<1>14. OwnPictures'
  <2>1. /\ \A i \in DOMAIN encoded : Own(encoded[i].image, encoded[i].of)
        /\ Own(e.image, e.of)
    BY <1>1, <1>2 DEF ClientInv, OwnPictures
  <2>2. ASSUME NEW i \in DOMAIN encoded' PROVE Own(encoded'[i].image, encoded'[i].of)
    <3>1. CASE encoded' = encoded
      BY <2>1, <3>1
    <3>2. CASE encoded' # encoded
      <4>1. i \in DOMAIN encoded \/ i = Len(encoded) + 1
        BY <1>5, <3>2
      <4>2. encoded'[i] = e \/ (i \in DOMAIN encoded /\ encoded'[i] = encoded[i])
        BY <1>5, <3>2, <4>1
      <4> QED
        BY <2>1, <4>2
    <3> QED
      BY <3>1, <3>2
  <2>3. \A image, f : Own(image, f) => Own(image, f)'
    BY <1>4, FailedGrows
  <2>4. \A i \in DOMAIN encoded' : Own(encoded[i].image, encoded[i].of)'
    <3> TAKE i \in DOMAIN encoded'
    <3>1. PICK image, f : image = encoded'[i].image /\ f = encoded'[i].of
      OBVIOUS
    <3>2. Own(image, f)'
      BY <2>2, <2>3, <3>1
    <3> QED
      BY <3>1, <3>2 DEF Own, Clean
  <2>5. ASSUME inf'.pc = "encode" PROVE Own(yuv, inf.frame)'
    <3>1. PICK image, f : image = yuv /\ f = inf.frame /\ Own(image, f)
      BY <1>1 DEF ClientInv, OwnPictures
    <3>2. Own(image, f)' /\ image = yuv' /\ f = inf'.frame
      BY <1>1, <1>3, <2>3, <3>1
    <3> QED
      BY <3>2 DEF Own, Clean
  <2> QED
    BY <1>3, <2>4, <2>5 DEF OwnPictures
<1> QED
  BY <1>6, <1>8, <1>10, <1>11, <1>12, <1>13, <1>14 DEF ClientInv

\* What loadModel leaves, whether it returns or throws.
\* Loading the model leaves a whole engine, or a failed call that every frame depends on.
LEMMA LoadEngineIs ==
  ASSUME DnnTypeOK, Budget, NEW ok, LoadEngine(ok)
  PROVE  /\ DnnTypeOK' /\ Budget' /\ Failed \subseteq Failed'
         /\ UNCHANGED <<plugin, g2d, dnn, cells, found, foundIn>>
         /\ ok = TRUE => /\ engine'.objects \subseteq Freed(platform)
                         /\ NoFrame \notin Failed' => Whole(platform, engine')
<1>1. PICK l \in LoadModel(platform) : l.ok = ok /\ engine' = l.engine /\ Fail(l.faults, NoFrame)
  BY DEF LoadEngine
<1>2. UNCHANGED <<plugin, g2d, dnn, cells, found, foundIn>>
  BY DEF LoadEngine
<1>3. /\ l.faults \in Nat /\ l.engine \in EngineType
      /\ l.ok => /\ l.engine.objects \subseteq Freed(platform)
                 /\ l.faults = 0 => Whole(platform, l.engine)
  BY <1>1, LoadIs
<1>4. failures \in Seq(Nat) /\ NoFrame \in Nat
  BY DEF DnnTypeOK, NoFrame
<1>5. /\ failures' \in Seq(Nat) /\ Failed \subseteq Failed' /\ Len(failures') >= Len(failures)
      /\ Len(failures') \in Nat /\ Len(failures) \in Nat
      /\ l.faults # 0 => NoFrame \in Failed'
  BY <1>1, <1>3, <1>4, FailAdds
<1>6. DnnTypeOK'
  BY <1>1, <1>2, <1>3, <1>5 DEF DnnTypeOK
<1>7. Budget'
  <2>1. Leaked(g2d.app) \in Nat /\ Leaked(g2d.plugin) \in Nat
    BY DEF DnnTypeOK, Settled, Leaked
  <2>2. Leaked(g2d.app)' = Leaked(g2d.app) /\ Leaked(g2d.plugin)' = Leaked(g2d.plugin)
    BY <1>2 DEF Leaked
  <2> QED
    BY <1>5, <2>1, <2>2 DEF Budget
<1>8. ASSUME ok = TRUE PROVE l.ok
  <2>1. l.ok = TRUE
    BY <1>1, <1>8, Zenon
  <2> QED
    BY <2>1, Zenon
<1> QED
  BY <1>1, <1>2, <1>3, <1>5, <1>6, <1>7, <1>8

\* onInit keeps the invariant: it loads the model and starts the inference thread.
LEMMA OnInitStep ==
  ASSUME ClientInv, ~crashed, OnInit
  PROVE  ClientInv'
<1>1. main.pc = "load" /\ inf.pc = "none" /\ dnn.pc = "idle"
      /\ UNCHANGED <<sample, cb, queue, running, rgba, yuv, encoder, encoded, atStop, missed>>
  BY DEF OnInit, ClientInv, Threads, InDetector
<1>2. CASE /\ LoadEngine(TRUE) /\ crashed' = crashed
           /\ MainGoes(IF sample = "video" THEN "feed" ELSE "push")
           /\ inf' = [inf EXCEPT !.pc = IF sample = "video" THEN "look" ELSE "none"]
  <2>1. /\ DnnTypeOK' /\ Budget' /\ Failed \subseteq Failed'
        /\ UNCHANGED <<plugin, g2d, dnn, cells, found, foundIn>>
        /\ engine'.objects \subseteq Freed(platform)
        /\ NoFrame \notin Failed' => Whole(platform, engine')
    BY <1>2, LoadEngineIs DEF ClientInv
  <2>2. /\ inf' \in [pc : InfPcs, frame : Nat] /\ inf'.frame = inf.frame
        /\ inf'.pc = IF sample = "video" THEN "look" ELSE "none"
        /\ main' \in [pc : MainPcs, last : Nat, stable : Nat, rounds : Nat]
        /\ main'.pc = IF sample = "video" THEN "feed" ELSE "push"
    BY <1>2 DEF ClientInv, ClientTypeOK, InfPcs, MainPcs, MainGoes
  <2>3. ClientTypeOK'
    BY <1>1, <2>2 DEF ClientInv, ClientTypeOK
  <2>4. Threads'
    BY <1>1, <2>2 DEF ClientInv, ClientTypeOK, Threads, Busy, Ended
  <2>5. InDetector'
    BY <1>1, <2>1, <2>2 DEF InDetector
  <2>6. Equipped'
    <3>1. platform' = platform
      BY <2>1 DEF platform
    <3> QED
      BY <1>1, <2>1, <2>2, <3>1 DEF Equipped
  <2>7. Drained'
    BY <1>1, <2>1, <2>2, DrainedKept DEF ClientInv, Busy, Held, Ended
  <2>8. InTurn'
    BY <1>1, <2>2, InTurnKept DEF ClientInv, Busy
  <2>9. OwnPictures'
    BY <1>1, <2>1, <2>2, FailedGrows DEF ClientInv, OwnPictures
  <2> QED
    BY <2>1, <2>3, <2>4, <2>5, <2>6, <2>7, <2>8, <2>9 DEF ClientInv
<1>3. CASE LoadEngine(FALSE) /\ crashed' = TRUE /\ UNCHANGED <<main, inf>>
  <2>1. /\ DnnTypeOK' /\ Budget' /\ Failed \subseteq Failed'
        /\ UNCHANGED <<plugin, g2d, dnn, cells, found, foundIn>>
    BY <1>3, LoadEngineIs DEF ClientInv
  <2>2. ClientTypeOK' /\ Threads'
    BY <1>1, <1>3 DEF ClientInv, ClientTypeOK, Threads
  <2>3. InDetector' /\ Equipped'
    BY <1>1, <1>3, <2>1 DEF InDetector, Equipped
  <2>4. Drained'
    BY <1>1, <1>3, <2>1, DrainedKept DEF ClientInv, Busy, Held, Ended
  <2>5. InTurn'
    BY <1>1, <1>3, InTurnKept DEF ClientInv
  <2>6. OwnPictures'
    BY <1>1, <1>3, <2>1, FailedGrows DEF ClientInv, OwnPictures
  <2> QED
    BY <2>1, <2>2, <2>3, <2>4, <2>5, <2>6 DEF ClientInv
<1> QED
  BY <1>2, <1>3 DEF OnInit

\* ObjDetectApp pushes its one image into the detector.
LEMMA PushImageStep ==
  ASSUME ClientInv, ~crashed, PushImage
  PROVE  ClientInv'
<1>1. /\ main.pc = "push" /\ sample = "image" /\ inf.pc = "none" /\ inf' = inf
      /\ UNCHANGED <<sample, cb, queue, running, rgba, yuv, encoder, encoded, atStop, missed>>
  BY DEF PushImage, ClientInv, Threads
<1>2. CASE PushInput(1) /\ MainGoes("detect") /\ crashed' = crashed
  <2>1. /\ UNCHANGED <<plugin, engine, g2d, foundIn, failures>>
        /\ dnn' = [dnn EXCEPT !.pc = "preprocess", !.frame = 1]
    BY <1>2 DEF PushInput
  <2>2. dnn'.pc = "preprocess" /\ dnn'.frame = 1 /\ DnnTypeOK'
    BY <2>1 DEF ClientInv, DnnTypeOK
  <2>3. Failed' = Failed /\ Budget'
    BY <2>1 DEF ClientInv, Budget, Leaked, Failed
  <2>4. main'.pc = "detect" /\ main' \in [pc : MainPcs, last : Nat, stable : Nat, rounds : Nat]
    BY <1>2 DEF ClientInv, ClientTypeOK, MainPcs, MainGoes
  <2>5. ClientTypeOK' /\ Threads'
    BY <1>1, <2>4 DEF ClientInv, ClientTypeOK, Threads, Busy, Ended
  <2>6. InDetector'
    BY <1>1, <2>2, <2>4 DEF InDetector
  <2>7. Stage'
    <3>1. Clean(dnn.frame)' => NoFrame \notin Failed
      BY <2>3 DEF Clean
    <3>2. Whole(platform, engine)' = Whole(platform, engine)
      BY <2>1 DEF platform, Whole
    <3>3. NoFrame \notin Failed => Whole(platform, engine)
      BY <1>1 DEF ClientInv, Equipped
    <3> QED
      BY <2>2, <3>1, <3>2, <3>3 DEF Stage
  <2>8. Equipped'
    <3>1. Keeps(engine, engine')
      BY <2>1 DEF Keeps, ClientInv, DnnTypeOK
    <3>2. main' = main \/ ({main.pc, main'.pc} \cap {"load", "done"} = {})
      BY <1>1, <2>4
    <3> QED
      BY <2>1, <2>3, <2>7, <3>1, <3>2, EquippedKept DEF ClientInv
  <2>9. Drained'
    BY <1>1, <2>3, DrainedKept DEF ClientInv, Busy, Held, Ended
  <2>10. InTurn'
    BY <1>1, InTurnKept DEF ClientInv
  <2>11. OwnPictures'
    BY <1>1, <2>3, FailedGrows DEF ClientInv, OwnPictures
  <2> QED
    BY <2>2, <2>3, <2>5, <2>6, <2>8, <2>9, <2>10, <2>11 DEF ClientInv
<1>3. CASE DetectorThrows /\ crashed' = TRUE /\ main' = main
  <2>1. /\ DnnTypeOK' /\ Budget' /\ Failed \subseteq Failed' /\ Keeps(engine, engine')
        /\ UNCHANGED <<plugin, engine, g2d, dnn, cells, found, foundIn>>
    BY <1>3, Throws DEF ClientInv
  <2>2. ClientTypeOK' /\ Threads'
    BY <1>1, <1>3 DEF ClientInv, ClientTypeOK, Threads
  <2>3. Equipped'
    BY <1>3, <2>1, StageKept, EquippedKept DEF ClientInv, Equipped
  <2>4. InDetector'
    BY <1>3 DEF InDetector
  <2>5. Drained'
    BY <1>1, <2>1, DrainedKept DEF ClientInv, Busy, Held, Ended
  <2>6. InTurn'
    BY <1>1, InTurnKept DEF ClientInv
  <2>7. OwnPictures'
    BY <1>1, <2>1, FailedGrows DEF ClientInv, OwnPictures
  <2> QED
    BY <2>1, <2>2, <2>3, <2>4, <2>5, <2>6, <2>7 DEF ClientInv
<1> QED
  BY <1>2, <1>3 DEF PushImage

\* ObjDetectApp draws the boxes into its image.
LEMMA DrawImageStep ==
  ASSUME ClientInv, ~crashed, DrawImage
  PROVE  ClientInv'
<1> DEFINE boxes == IF found = <<>> THEN NoFrame ELSE foundIn
           e == [image |-> Image(dnn.frame, boxes), of |-> dnn.frame]
<1>1. /\ main.pc = "detect" /\ PopOutput /\ MainGoes("destroy") /\ encoded' = <<e>>
      /\ UNCHANGED <<plugin, engine, g2d, cells, found, foundIn, failures, sample, cb, inf, queue,
                     running, rgba, yuv, encoder, atStop, missed, crashed>>
  BY DEF DrawImage
<1>2. /\ dnn.frame \in Nat /\ boxes \in Int /\ boxes \in {NoFrame, foundIn}
      /\ failures \in Seq(Nat)
  BY DEF ClientInv, DnnTypeOK, NoFrame
<1> HIDE DEF boxes
<1>3. /\ e.image = Image(dnn.frame, boxes) /\ e.of = dnn.frame /\ e \in Encodings
      /\ e.image.frame = dnn.frame /\ e.image.boxes = boxes
  BY <1>2 DEF Image, Images, Encodings
<1> HIDE DEF e
<1>4. /\ dnn.pc = "done" /\ dnn'.pc = "idle" /\ DnnTypeOK'
  BY <1>1, DoneIs DEF ClientInv, DnnTypeOK
<1>5. Failed' = Failed /\ Budget' /\ Pushed' = Pushed
  BY <1>1 DEF ClientInv, Budget, Leaked, Failed, Pushed
<1>6. main'.pc = "destroy" /\ main' \in [pc : MainPcs, last : Nat, stable : Nat, rounds : Nat]
  BY <1>1 DEF ClientInv, ClientTypeOK, MainPcs, MainGoes
<1>7. encoded' \in Seq(Encodings) /\ DOMAIN encoded' = {1} /\ encoded'[1] = e
  BY <1>1, <1>3
<1>8. sample = "image" /\ inf.pc = "none" /\ Pushed = 0
  BY <1>1 DEF ClientInv, Threads, Pushed
<1>9. ClientTypeOK' /\ Threads'
  BY <1>1, <1>6, <1>7, <1>8 DEF ClientInv, ClientTypeOK, Threads, Busy, Ended
<1>10. InDetector'
  BY <1>1, <1>4, <1>6, <1>8 DEF InDetector
<1>11. Equipped'
  <2>1. Keeps(engine, engine')
    BY <1>1 DEF Keeps, ClientInv, DnnTypeOK
  <2>2. main' = main \/ ({main.pc, main'.pc} \cap {"load", "done"} = {})
    BY <1>1, <1>6
  <2> QED
    BY <1>1, <1>4, <1>5, <2>1, <2>2, EquippedKept DEF ClientInv
<1>12. Drained'
  BY <1>1, <1>5, <1>8 DEF ClientInv, Drained, Ended
<1>13. InTurn'
  BY <1>1, <1>5, <1>7, <1>8 DEF ClientInv, InTurn, Busy
<1>14. OwnPictures'
  <2>1. Clean(dnn.frame) => foundIn = dnn.frame
    BY <1>4 DEF ClientInv, Equipped, Stage
  <2>2. Own(e.image, e.of)
    BY <1>2, <1>3, <2>1 DEF Own
  <2>3. Own(encoded'[1].image, encoded'[1].of)
    BY <1>7, <2>2
  <2>4. \A f : Clean(f)' = Clean(f)
    BY <1>5 DEF Clean
  <2>5. ASSUME NEW i \in DOMAIN encoded' PROVE Own(encoded[i].image, encoded[i].of)'
    BY <1>7, <2>3, <2>4, <2>5 DEF Own
  <2> QED
    BY <1>1, <1>5, <1>7, <1>8, <2>5 DEF OwnPictures
<1> QED
  BY <1>4, <1>5, <1>9, <1>10, <1>11, <1>12, <1>13, <1>14 DEF ClientInv

\* The engine's destructor frees all that a loaded engine holds.
LEMMA FreeIs ==
  ASSUME NEW p, NEW e \in EngineType
  PROVE  /\ Free(p, e) \in EngineType /\ Free(p, e).ready = {}
         /\ e.objects \subseteq Freed(p) => Free(p, e).objects = {}
<1> DEFINE left == e.objects \ Freed(p)
           f == [NoEngine EXCEPT !.objects = left]
<1>1. Free(p, e) = f
  BY DEF Free, TrtFree, RknnFree, Freed
<1>2. /\ NoEngine \in EngineType /\ NoEngine.ready = {}
  <2>1. Unknown \in Int /\ {} \in SUBSET Objects /\ {} \in SUBSET Parts
    BY DEF Unknown
  <2> QED
    BY <2>1 DEF NoEngine, EngineType
<1>3. left \in SUBSET Objects
  BY DEF EngineType
<1>4. f \in EngineType /\ f.objects = left /\ f.ready = {}
  <2> HIDE DEF left
  <2> QED
    BY <1>2, <1>3 DEF EngineType
<1> HIDE DEF f
<1> QED
  BY <1>1, <1>4

\* Destroying a Graphics2D releases the surfaces its map still has.
LEMMA DestroyedIs ==
  ASSUME g2d \in [plugin : Settled, app : Settled],
         g2d' = [u \in DOMAIN g2d |-> DestroySurfaces(g2d[u])]
  PROVE  /\ g2d' \in [plugin : Settled, app : Settled]
         /\ g2d'.plugin.orphans = 0 /\ g2d'.app.orphans = 0
         /\ Leaked(g2d.plugin)' <= Leaked(g2d.plugin) /\ Leaked(g2d.app)' <= Leaked(g2d.app)
<1>1. ASSUME NEW m \in Settled
      PROVE  /\ DestroySurfaces(m) \in Settled /\ DestroySurfaces(m).orphans = 0
             /\ Leaked(DestroySurfaces(m)) <= Leaked(m)
  <2>1. m.orphans \in Nat /\ m.lost \in Nat
    BY DEF Settled
  <2>2. /\ DestroySurfaces(m) \in Settled /\ DestroySurfaces(m).orphans = 0
        /\ DestroySurfaces(m).lost = m.lost
    BY DEF DestroySurfaces, Settled
  <2> QED
    BY <2>1, <2>2 DEF Leaked
<1>2. g2d.plugin \in Settled /\ g2d.app \in Settled /\ DOMAIN g2d = {"plugin", "app"}
  OBVIOUS
<1>3. /\ DOMAIN g2d' = {"plugin", "app"} /\ g2d'.plugin = DestroySurfaces(g2d.plugin)
      /\ g2d'.app = DestroySurfaces(g2d.app)
  BY <1>2
<1>4. g2d' = [u \in {"plugin", "app"} |-> g2d'[u]]
  BY <1>2
<1>5. g2d' = [plugin |-> g2d'.plugin, app |-> g2d'.app]
  BY <1>4
<1>6. g2d'.plugin \in Settled /\ g2d'.app \in Settled
  BY <1>1, <1>2, <1>3
<1>7. g2d' \in [plugin : Settled, app : Settled]
  BY <1>5, <1>6
<1>8. g2d'.plugin.orphans = 0 /\ g2d'.app.orphans = 0
  BY <1>1, <1>2, <1>3
<1>9. Leaked(g2d'.plugin) <= Leaked(g2d.plugin) /\ Leaked(g2d'.app) <= Leaked(g2d.app)
  BY <1>1, <1>2, <1>3
<1> QED
  BY <1>7, <1>8, <1>9

\* Destroying the sample keeps the invariant.
LEMMA DestroyStep ==
  ASSUME ClientInv, ~crashed, Destroy
  PROVE  ClientInv'
<1>1. /\ main.pc = "destroy" /\ MainGoes("done") /\ engine' = Free(platform, engine)
      /\ g2d' = [u \in DOMAIN g2d |-> DestroySurfaces(g2d[u])]
      /\ UNCHANGED <<plugin, dnn, cells, found, foundIn, failures, sample, cb, inf, queue, running,
                     rgba, yuv, encoder, encoded, atStop, missed, crashed>>
  BY DEF Destroy, DestroyDetector
<1>2. inf.pc \in {"none", "exited"} /\ dnn.pc = "idle"
  BY <1>1 DEF ClientInv, Threads, InDetector
<1>3. /\ engine' \in EngineType /\ engine'.ready = {} /\ engine'.objects = {}
  BY <1>1, FreeIs DEF ClientInv, DnnTypeOK, Equipped
<1>4. /\ g2d' \in [plugin : Settled, app : Settled]
      /\ g2d'.plugin.orphans = 0 /\ g2d'.app.orphans = 0
      /\ Leaked(g2d.plugin)' <= Leaked(g2d.plugin) /\ Leaked(g2d.app)' <= Leaked(g2d.app)
  BY <1>1, DestroyedIs DEF ClientInv, DnnTypeOK
<1>5. DnnTypeOK'
  BY <1>1, <1>3, <1>4 DEF ClientInv, DnnTypeOK
<1>6. Budget'
  <2>1. Leaked(g2d.plugin) \in Nat /\ Leaked(g2d.app) \in Nat
    BY DEF ClientInv, DnnTypeOK, Settled, Leaked
  <2>2. Leaked(g2d.plugin)' \in Nat /\ Leaked(g2d.app)' \in Nat
    BY <1>4 DEF Settled, Leaked
  <2>3. Len(failures') = Len(failures) /\ Len(failures) \in Nat
    BY <1>1 DEF ClientInv, DnnTypeOK
  <2>4. Leaked(g2d.app) + Leaked(g2d.plugin) <= Len(failures)
    BY DEF ClientInv, Budget
  <2>5. Leaked(g2d.app)' + Leaked(g2d.plugin)' <= Len(failures')
    BY <1>4, <2>1, <2>2, <2>3, <2>4
  <2> QED
    BY <2>5 DEF Budget
<1>7. main'.pc = "done" /\ main' \in [pc : MainPcs, last : Nat, stable : Nat, rounds : Nat]
  BY <1>1 DEF ClientInv, ClientTypeOK, MainPcs, MainGoes
<1>8. ClientTypeOK' /\ Threads'
  BY <1>1, <1>2, <1>7 DEF ClientInv, ClientTypeOK, Threads
<1>9. InDetector' /\ Equipped'
  BY <1>1, <1>2, <1>3, <1>4, <1>7 DEF InDetector, Equipped
<1>10. Failed' = Failed
  BY <1>1 DEF Failed
<1>11. Drained'
  BY <1>1, <1>2, <1>10, DrainedKept DEF ClientInv, Busy, Held, Ended
<1>12. InTurn'
  BY <1>1, InTurnKept DEF ClientInv
<1>13. OwnPictures'
  BY <1>1, <1>2, <1>10, FailedGrows DEF ClientInv, OwnPictures
<1> QED
  BY <1>5, <1>6, <1>8, <1>9, <1>11, <1>12, <1>13 DEF ClientInv

(*****************************************************************************)
(* The theorems.                                                             *)
(*****************************************************************************)

\* The samples start in the invariant.
LEMMA InitClient == DetectInit => ClientInv
<1> SUFFICES ASSUME DetectInit PROVE ClientInv
  OBVIOUS
<1>1. /\ engine = NoEngine /\ g2d = [plugin |-> NoSurfaces, app |-> NoSurfaces]
      /\ dnn = [pc |-> "idle", frame |-> NoFrame, rgb |-> Torn, tensor |-> NoFrame,
                labels |-> FALSE]
      /\ foundIn = NoFrame /\ failures = <<>>
  BY DEF DetectInit, DnnInit
<1>2. /\ main = [pc |-> "load", last |-> 0, stable |-> 0, rounds |-> 0]
      /\ cb = [pc |-> "idle", frame |-> NoFrame] /\ inf = [pc |-> "none", frame |-> NoFrame]
      /\ queue = <<>> /\ running = TRUE /\ rgba = Torn /\ yuv = Torn /\ encoded = <<>>
      /\ atStop = 0 /\ sample \in {"video", "image"}
      /\ plugin \in {"vic", "resnet", "rga", "yolo"}
  BY DEF DetectInit
<1>3. /\ NoEngine \in EngineType /\ NoSurfaces \in Settled /\ NoFrame = 0 /\ Torn \in Images
      /\ Leaked(NoSurfaces) = 0
  <2>1. Unknown \in Int /\ {} \in SUBSET Objects /\ {} \in SUBSET Parts
    BY DEF Unknown
  <2>2. NoEngine \in EngineType
    BY <2>1 DEF NoEngine, EngineType
  <2> QED
    BY <2>2 DEF NoSurfaces, Settled, NoFrame, Torn, Image, Images, Leaked
<1>4. DnnTypeOK
  <2>1. dnn \in [pc : {"idle", "preprocess", "infer", "postprocess", "done"}, frame : Nat,
                 rgb : Images, tensor : Int, labels : BOOLEAN]
    BY <1>1, <1>3
  <2>2. g2d \in [plugin : Settled, app : Settled]
    BY <1>1, <1>3
  <2> QED
    BY <1>1, <1>2, <1>3, <2>1, <2>2 DEF DnnTypeOK
<1>5. ClientTypeOK
  BY <1>2, <1>3 DEF ClientTypeOK, MainPcs, InfPcs
<1>6. Budget
  <2>1. g2d.app = NoSurfaces /\ g2d.plugin = NoSurfaces /\ Len(failures) = 0
    BY <1>1
  <2> QED
    BY <1>3, <2>1 DEF Budget
<1>7. dnn.pc = "idle" /\ main.pc = "load" /\ inf.pc = "none" /\ inf.frame = 0
      /\ cb.pc = "idle" /\ cb.frame = 0
  BY <1>1, <1>2, <1>3
<1>8. Threads /\ InDetector /\ Equipped
  BY <1>2, <1>7 DEF Threads, InDetector, Equipped, Busy, Ended
<1>9. Pushed = 0
  BY <1>7 DEF Pushed
<1>10. Drained
  BY <1>2, <1>7, <1>9 DEF Drained, Ended
<1>11. InTurn
  BY <1>2, <1>7, <1>9 DEF InTurn, Busy
<1>12. OwnPictures
  BY <1>2, <1>7 DEF OwnPictures
<1> QED
  BY <1>4, <1>5, <1>6, <1>8, <1>10, <1>11, <1>12 DEF ClientInv

\* Every step keeps it: the quiet ones, those of the detector, and one by one those of the
\* inference thread and of the main thread.
LEMMA NextClient == ClientInv /\ [DetectNext]_detectVars => ClientInv'
<1> SUFFICES ASSUME ClientInv, [DetectNext]_detectVars PROVE ClientInv'
  OBVIOUS
<1>1. CASE UNCHANGED detectVars
  <2>1. UNCHANGED <<plugin, engine, g2d, dnn, foundIn, failures, sample, main, cb, inf, queue,
                    running, rgba, yuv, encoded, atStop, crashed>>
    BY <1>1 DEF detectVars, dnnVars, threads
  <2>2. DnnTypeOK' /\ ClientTypeOK' /\ Threads' /\ InDetector'
    BY <2>1 DEF ClientInv, DnnTypeOK, ClientTypeOK, Threads, InDetector
  <2>3. Failed' = Failed /\ Pushed' = Pushed /\ platform' = platform
    BY <2>1 DEF Failed, Pushed, platform
  <2>4. Budget' /\ InTurn' /\ Stage' = Stage /\ OwnPictures'
    BY <2>1, <2>3 DEF ClientInv, Budget, Leaked, InTurn, Stage, Clean, Whole, OwnPictures, Own
  <2>5. Equipped'
    BY <2>1, <2>3, <2>4 DEF ClientInv, Equipped, Freed, Whole
  <2>6. Drained'
    BY <2>1, <2>3, DrainedKept DEF ClientInv
  <2> QED
    BY <2>2, <2>4, <2>5, <2>6 DEF ClientInv
<1>2. CASE DetectNext
  <2>1. ~crashed
    BY <1>2 DEF DetectNext
  <2>2. CASE Quiet
    BY <2>1, <2>2, QuietStep
  <2>3. CASE Detect
    BY <2>1, <2>3, DetectorStep DEF Detect
  <2>4. CASE DetectInImage
    BY <2>1, <2>4, DetectorStep DEF DetectInImage
  <2> QED
    BY <1>2, <2>1, <2>2, <2>3, <2>4, TakeTaskStep, CvtToRgbaStep, DrawAndCvtToYuvStep, EncodeStep,
       OnInitStep, PushImageStep, DrawImageStep, DestroyStep
       DEF DetectNext, InferenceSteps, MainSteps, ImageSteps, Quiet
<1> QED
  BY <1>1, <1>2

\* When the inference thread has exited, every frame queued before the flag was cleared has
\* been encoded, or a call failed in it, for any number of frames, rounds and failing calls.
THEOREM NoFrameLost == DetectSpec => []StopDrains
<1>1. ClientInv => StopDrains
  BY DEF ClientInv, Drained, Handled, Ended, StopDrains
<1> QED
  BY <1>1, InitClient, NextClient, PTL DEF DetectSpec

\* Frames are encoded in the order they were decoded in, none twice, each with its
\* own picture and, unless a call failed in it or when the model was loaded, its own boxes.
THEOREM PicturesAreTheirs == DetectSpec => []EncodedAsShown
<1>1. ClientInv => EncodedAsShown
  <2> SUFFICES ASSUME ClientInv PROVE EncodedAsShown
    OBVIOUS
  <2>1. \A i, j \in DOMAIN encoded : i < j => encoded[i].of < encoded[j].of
    BY DEF ClientInv, InTurn
  <2>2. ASSUME NEW i \in DOMAIN encoded
        PROVE  LET e == encoded[i]
               IN /\ e.image.frame = e.of
                  /\ e.image.boxes \in {NoFrame, e.of} \/ {NoFrame, e.of} \cap Failed # {}
    BY DEF ClientInv, OwnPictures, Own, Clean
  <2> QED
    BY <2>1, <2>2 DEF EncodedAsShown
<1> QED
  BY <1>1, InitClient, NextClient, PTL DEF DetectSpec

\* Between the steps no surface is in use, one that is kept is paid for by a failed call,
\* and once the sample is gone its Graphics2D and its engine hold nothing.
THEOREM SurfacesFreed == DetectSpec => []NothingKept
<1>1. ClientInv => NothingKept
  <2> SUFFICES ASSUME ClientInv PROVE NothingKept
    OBVIOUS
  <2>1. g2d \in [plugin : Settled, app : Settled] /\ DOMAIN g2d = {"plugin", "app"}
    BY DEF ClientInv, DnnTypeOK
  <2>2. /\ g2d.app.live = 0 /\ g2d.app.orphans \in Nat /\ g2d.app.lost \in Nat
        /\ g2d.plugin.live = 0 /\ g2d.plugin.orphans \in Nat /\ g2d.plugin.lost \in Nat
    BY <2>1 DEF Settled
  <2>3. g2d.app.orphans + g2d.app.lost + g2d.plugin.orphans + g2d.plugin.lost <= Len(failures)
    <3>1. Len(failures) \in Nat
      BY DEF ClientInv, DnnTypeOK
    <3> QED
      BY <2>2, <3>1 DEF ClientInv, Budget, Leaked
  <2>4. main.pc = "done" =>
          engine.objects = {} /\ engine.ready = {} /\ \A u \in DOMAIN g2d : g2d[u].orphans = 0
    BY <2>1 DEF ClientInv, Equipped
  <2> QED
    BY <2>1, <2>2, <2>3, <2>4 DEF NothingKept
<1> QED
  BY <1>1, InitClient, NextClient, PTL DEF DetectSpec
=============================================================================
