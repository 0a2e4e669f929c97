---------------------------- MODULE RecorderProofs ----------------------------
(***************************************************************************)
(* The data recorder, for queues and pools of any size, any messages of    *)
(* the sensor and any configuration of the user interface.                 *)
(*                                                                         *)
(* CameraPipeline: a buffer has one owner, and what is published is in the *)
(* sensor's order.  The two depend on each other.  A buffer is used for    *)
(* packet after packet, so the packets that wait are in order only as long *)
(* as none of their buffers is received into; and the order is kept across *)
(* four threads, so the invariant has to say, for each place a packet or a *)
(* frame may be at, what it is later than: the frames than what was        *)
(* published, what is yet to come out of the decoder than the frames, the  *)
(* waiting packets than what decode() was given, the packet received last  *)
(* than those, and the message on the wire than everything.                *)
(*                                                                         *)
(* Viewer: a frame of the object detector has one owner, and its queues    *)
(* keep their limits because the queue is made shorter before a frame is   *)
(* looked for; and a widget shows what was announced for it, because a     *)
(* buffer is never behind the signal that points to it.                    *)
(*                                                                         *)
(* Recording: the packets an encoder has returned, those it has and the    *)
(* frames in its device are three queues, each older than the next and all *)
(* older than the call that still has its frame to give.  So packets come  *)
(* out in order although a call may return that of an earlier one, and a   *)
(* call that returns none leaves its own to be returned later.  A buffer   *)
(* that is in use without a frame is one that a failed call pays for.  And *)
(* the file that is open has its header exactly when the muxer thinks so,  *)
(* and as many packets as it counts.  What a tool makes of its input is    *)
(* said without recursion, by the number of a packet among those before    *)
(* it, and holds of the part that has been read.                           *)
(***************************************************************************)
EXTENDS CameraPipeline, Viewer, Recording, FiniteSetTheorems, TLAPS

Up(q) == \A i, j \in DOMAIN q : i < j => q[i] < q[j]

\* The last packet given to decode(), the last whose frame came out or was lost,
\* and the last that left the queue of packets.
LastFed == IF fed = <<>> THEN 0 ELSE fed[Len(fed)]
LastOut == IF output = 0 THEN 0 ELSE fed[output]
LastTaken == IF dec.pc = "decode" THEN data[dec.buf] ELSE LastFed

TypeOK ==
    /\ size \in [Buffers -> Nat] /\ data \in [Buffers -> Nat] /\ minSize \in Nat
    /\ free \in Seq(Buffers) /\ pkts \in Seq(Buffers) /\ Len(pkts) <= PktCap
    /\ rx \in [pc : {"get", "receive", "send"}, buf : Buffers \cup {None}]
    /\ dec \in [pc : {"idle", "decode", "release"}, buf : Buffers \cup {None}]
    /\ rx.buf = None <=> rx.pc = "get"
    /\ dec.buf = None <=> dec.pc = "idle"
    /\ number \in Nat
    /\ fed \in Seq(Nat) /\ output \in 0 .. Len(fed) /\ frames \in Seq(Nat)
    /\ cons \in [pc : {"idle", "publish"}, frame : Nat] /\ published \in Seq(Nat)

\* One owner for each buffer.
OneOwner ==
    /\ IsInjective(free) /\ IsInjective(pkts) /\ Range(free) \cap Range(pkts) = {}
    /\ \A b \in {rx.buf, dec.buf} \ {None} : b \notin Range(free) \cup Range(pkts)
    /\ rx.buf = dec.buf => rx.buf = None

\* What the consumer has published, has in hand and has waiting.
FramesOrdered ==
    /\ Up(published) /\ Up(frames)
    /\ \A i \in DOMAIN published : published[i] <= LastOut
    /\ \A i \in DOMAIN frames : frames[i] <= LastOut
    /\ \A i \in DOMAIN published, j \in DOMAIN frames : published[i] < frames[j]
    /\ cons.pc = "publish" =>
         /\ cons.frame <= LastOut
         /\ \A i \in DOMAIN published : published[i] < cons.frame
         /\ \A j \in DOMAIN frames : cons.frame < frames[j]

\* What the decoder has been given and what waits for it.
PacketsOrdered ==
    /\ Up(fed) /\ \A i \in DOMAIN fed : 0 < fed[i]
    /\ dec.pc = "decode" => LastFed < data[dec.buf]
    /\ \A i \in DOMAIN pkts : LastTaken < data[pkts[i]]
    /\ \A i, j \in DOMAIN pkts : i < j => data[pkts[i]] < data[pkts[j]]

\* The packet received last, and the message on the wire.
Newer(n) == LastTaken < n /\ \A i \in DOMAIN pkts : data[pkts[i]] < n
NotNewer(n) == LastTaken <= n /\ \A i \in DOMAIN pkts : data[pkts[i]] <= n

ReceptionOrdered ==
    /\ NotNewer(number)
    /\ rx.pc = "send" => Newer(data[rx.buf]) /\ data[rx.buf] <= number /\ wire = <<>>
    /\ wire # <<>> => Newer(number)

IInv == TypeOK /\ OneOwner /\ FramesOrdered /\ PacketsOrdered /\ ReceptionOrdered

-------------------------------------------------------------------------------
(* Queues *)

\* Newest leaves out the first entries of a queue.
LEMMA NewestIs ==
  ASSUME NEW S, NEW q \in Seq(S), NEW cap \in Nat
  PROVE  \E k \in 0 .. Len(q) :
            /\ Newest(q, cap) \in Seq(S)
            /\ Len(Newest(q, cap)) = Len(q) - k
            /\ \A i \in 1 .. Len(q) - k : Newest(q, cap)[i] = q[i + k]
            /\ Len(q) <= cap => k = 0
            /\ Len(q) = cap + 1 => k = 1
<1> DEFINE m == IF Len(q) > cap THEN Len(q) - cap + 1 ELSE 1
<1>1. Len(q) \in Nat /\ m \in 1 .. Len(q) + 1 /\ Newest(q, cap) = SubSeq(q, m, Len(q))
  BY DEF Newest
<1> HIDE DEF m
<1>2. /\ SubSeq(q, m, Len(q)) \in Seq(S)
      /\ Len(SubSeq(q, m, Len(q))) = Len(q) - m + 1
      /\ \A i \in 1 .. Len(q) - m + 1 : SubSeq(q, m, Len(q))[i] = q[i + m - 1]
  BY <1>1
<1>3. m - 1 \in 0 .. Len(q) /\ (Len(q) <= cap => m - 1 = 0) /\ (Len(q) = cap + 1 => m - 1 = 1)
  BY <1>1 DEF m
<1>4. PICK k \in 0 .. Len(q) : k = m - 1
  BY <1>3
<1>5. /\ Newest(q, cap) \in Seq(S) /\ Len(Newest(q, cap)) = Len(q) - k
      /\ (Len(q) <= cap => k = 0) /\ (Len(q) = cap + 1 => k = 1)
  BY <1>1, <1>2, <1>3, <1>4
<1>6. \A i \in 1 .. Len(q) - k : Newest(q, cap)[i] = q[i + k]
  BY <1>1, <1>2, <1>4
<1> QED
  BY <1>5, <1>6, Zenon

\* So what holds of all entries, or of all pairs of them, still does.
LEMMA NewestKeeps ==
  ASSUME NEW S, NEW q \in Seq(S), NEW cap \in Nat
  PROVE  /\ Newest(q, cap) \in Seq(S)
         /\ Range(Newest(q, cap)) \subseteq Range(q)
         /\ IsInjective(q) => IsInjective(Newest(q, cap))
<1>1. PICK k \in 0 .. Len(q) :
            /\ Newest(q, cap) \in Seq(S)
            /\ Len(Newest(q, cap)) = Len(q) - k
            /\ \A i \in 1 .. Len(q) - k : Newest(q, cap)[i] = q[i + k]
            /\ Len(q) <= cap => k = 0
            /\ Len(q) = cap + 1 => k = 1
  BY NewestIs, Zenon
<1>2. \A i \in DOMAIN Newest(q, cap) :
         Newest(q, cap)[i] = q[i + k] /\ i + k \in DOMAIN q /\ i \in Int
  BY <1>1
<1>3. Range(Newest(q, cap)) \subseteq Range(q)
  BY <1>2 DEF Range
<1>4. IsInjective(q) => IsInjective(Newest(q, cap))
  BY <1>2 DEF IsInjective
<1> QED
  BY <1>1, <1>3, <1>4

\* A queue of rising numbers keeps rising when old ones are left out.
LEMMA NewestRises ==
  ASSUME NEW q \in Seq(Nat), NEW cap \in Nat, Up(q)
  PROVE  Up(Newest(q, cap))
<1>1. PICK k \in 0 .. Len(q) :
            /\ Newest(q, cap) \in Seq(Nat)
            /\ Len(Newest(q, cap)) = Len(q) - k
            /\ \A i \in 1 .. Len(q) - k : Newest(q, cap)[i] = q[i + k]
            /\ Len(q) <= cap => k = 0
            /\ Len(q) = cap + 1 => k = 1
  BY NewestIs, Zenon
<1> DEFINE w == Newest(q, cap)
<1>2. w \in Seq(Nat) /\ Len(w) = Len(q) - k /\ \A i \in 1 .. Len(q) - k : w[i] = q[i + k]
  BY <1>1
<1> HIDE DEF w
<1>3. Len(q) \in Nat /\ k \in Nat /\ DOMAIN w = 1 .. Len(q) - k /\ DOMAIN q = 1 .. Len(q)
  BY <1>2
<1>4. \A i \in DOMAIN w : w[i] = q[i + k] /\ i + k \in DOMAIN q /\ i \in Int
  <2> SUFFICES ASSUME NEW i \in DOMAIN w
               PROVE  w[i] = q[i + k] /\ i + k \in DOMAIN q /\ i \in Int
    OBVIOUS
  <2>1. i \in 1 .. Len(q) - k /\ Len(q) \in Nat /\ k \in Nat
    BY <1>3
  <2>2. i \in Int /\ i + k \in 1 .. Len(q)
    BY <2>1
  <2> QED
    BY <1>2, <1>3, <2>1, <2>2
<1>5. Up(w)
  BY <1>3, <1>4 DEF Up
<1> QED
  BY <1>5 DEF w

\* A higher number at the end keeps a queue rising.
LEMMA AppendRises ==
  ASSUME NEW q \in Seq(Nat), NEW x \in Nat, Up(q), \A i \in DOMAIN q : q[i] < x
  PROVE  Append(q, x) \in Seq(Nat) /\ Up(Append(q, x))
<1>1. /\ DOMAIN q = 1 .. Len(q) /\ Len(q) \in Nat
      /\ DOMAIN Append(q, x) = 1 .. Len(q) + 1 /\ Append(q, x)[Len(q) + 1] = x
      /\ \A i \in 1 .. Len(q) : Append(q, x)[i] = q[i]
  OBVIOUS
<1>2. ASSUME NEW i \in DOMAIN Append(q, x), NEW j \in DOMAIN Append(q, x), i < j
      PROVE  Append(q, x)[i] < Append(q, x)[j]
  <2>1. i \in DOMAIN q /\ Append(q, x)[i] = q[i]
    BY <1>1, <1>2
  <2>2. CASE j \in DOMAIN q
    BY <1>1, <1>2, <2>1, <2>2 DEF Up
  <2>3. CASE j \notin DOMAIN q
    BY <1>1, <1>2, <2>1, <2>3
  <2> QED
    BY <2>2, <2>3
<1> QED
  BY <1>2 DEF Up

\* The entries of a queue one longer, and of one shorter.
LEMMA AppendRange ==
  ASSUME NEW S, NEW q \in Seq(S), NEW x \in S
  PROVE  /\ Append(q, x) \in Seq(S) /\ Range(Append(q, x)) = Range(q) \cup {x}
         /\ IsInjective(q) /\ x \notin Range(q) => IsInjective(Append(q, x))
<1>1. /\ DOMAIN q = 1 .. Len(q) /\ Len(q) \in Nat /\ Append(q, x) \in Seq(S)
      /\ DOMAIN Append(q, x) = 1 .. Len(q) + 1 /\ Append(q, x)[Len(q) + 1] = x
      /\ \A i \in 1 .. Len(q) : Append(q, x)[i] = q[i]
  OBVIOUS
<1>2. Range(Append(q, x)) = Range(q) \cup {x}
  BY <1>1 DEF Range
<1>3. ASSUME IsInjective(q), x \notin Range(q)
      PROVE  IsInjective(Append(q, x))
  <2>1. \A i \in 1 .. Len(q) : q[i] # x
    BY <1>1, <1>3 DEF Range
  <2>2. ASSUME NEW i \in 1 .. Len(q) + 1, NEW j \in 1 .. Len(q) + 1,
               Append(q, x)[i] = Append(q, x)[j]
        PROVE  i = j
    <3>1. CASE i \in 1 .. Len(q) /\ j \in 1 .. Len(q)
      BY <1>1, <1>3, <2>2, <3>1 DEF IsInjective
    <3>2. CASE i = Len(q) + 1 \/ j = Len(q) + 1
      BY <1>1, <2>1, <2>2, <3>2
    <3> QED
      BY <1>1, <3>1, <3>2
  <2> QED
    BY <1>1, <2>2 DEF IsInjective
<1> QED
  BY <1>1, <1>2, <1>3

\* What is taken from the front of a queue without repetitions is not in the
\* rest.
LEMMA TailRange ==
  ASSUME NEW S, NEW q \in Seq(S), q # <<>>, IsInjective(q)
  PROVE  /\ Tail(q) \in Seq(S) /\ q[1] \in S /\ Len(Tail(q)) <= Len(q)
         /\ q[1] \in Range(q) \ Range(Tail(q)) /\ Range(Tail(q)) \subseteq Range(q)
         /\ IsInjective(Tail(q))
<1>1. /\ Tail(q) \in Seq(S) /\ q[1] \in S /\ 1 \in DOMAIN q
      /\ DOMAIN q = 1 .. Len(q) /\ Len(q) \in Nat
      /\ DOMAIN Tail(q) = 1 .. Len(q) - 1 /\ Len(Tail(q)) <= Len(q)
  OBVIOUS
<1>2. \A i \in DOMAIN Tail(q) :
         Tail(q)[i] = q[i + 1] /\ i + 1 \in DOMAIN q /\ i \in Nat /\ i + 1 # 1
  BY <1>1
<1>3. q[1] \in Range(q) \ Range(Tail(q)) /\ Range(Tail(q)) \subseteq Range(q)
  BY <1>1, <1>2 DEF Range, IsInjective
<1>4. IsInjective(Tail(q))
  BY <1>2 DEF IsInjective
<1> QED
  BY <1>1, <1>3, <1>4

\* releaseRtpVideoBuffer adds the buffer to the pool, or drops one for it; sorting
\* neither adds nor doubles any.
LEMMA ReleasedKeeps ==
  ASSUME FreeCap \in Nat, free \in Seq(Buffers), IsInjective(free),
         NEW b \in Buffers, b \notin Range(free), NEW s \in Released(b)
  PROVE  s \in Seq(Buffers) /\ IsInjective(s) /\ Range(s) \subseteq Range(free) \cup {b}
<1> DEFINE kept == Newest(Append(free, b), FreeCap)
<1>1. /\ kept \in Seq(Buffers) /\ IsInjective(kept) /\ Range(kept) \subseteq Range(free) \cup {b}
  <2>1. /\ Append(free, b) \in Seq(Buffers) /\ IsInjective(Append(free, b))
        /\ Range(Append(free, b)) = Range(free) \cup {b}
    BY AppendRange
  <2> QED
    BY <2>1, NewestKeeps
<1>2. PICK p \in Bijection(DOMAIN kept, DOMAIN kept) : s = [i \in DOMAIN kept |-> kept[p[i]]]
  BY DEF Released
<1> HIDE DEF kept
<1>3. p \in [DOMAIN kept -> DOMAIN kept] /\ IsInjective(p)
  BY DEF Bijection, Injection
<1>4. DOMAIN kept = 1 .. Len(kept) /\ Len(kept) \in Nat
  BY <1>1
<1>5. s \in Seq(Buffers) /\ DOMAIN s = DOMAIN kept
  BY <1>1, <1>2, <1>3, <1>4
<1>6. Range(s) \subseteq Range(kept)
  BY <1>2, <1>3 DEF Range
<1>7. IsInjective(s)
  BY <1>1, <1>2, <1>3 DEF IsInjective
<1> QED
  BY <1>1, <1>5, <1>6, <1>7

-------------------------------------------------------------------------------
(* What a step leaves alone *)

\* A step that touches neither the decoder's output nor consumerLoop keeps
\* the order of the frames.
LEMMA FramesKept ==
  ASSUME FramesOrdered, UNCHANGED <<fed, output, frames, cons, published>>
  PROVE  FramesOrdered'
  BY DEF FramesOrdered, Up, LastOut

\* A step that touches neither the waiting packets nor decoderLoop keeps
\* their order.
LEMMA PacketsKept ==
  ASSUME PacketsOrdered, UNCHANGED <<data, pkts, dec, fed>>
  PROVE  PacketsOrdered' /\ LastTaken' = LastTaken /\ LastFed' = LastFed
  BY DEF PacketsOrdered, Up, LastTaken, LastFed

\* A step that touches neither the message on the wire nor what waits keeps
\* the order of reception, as long as no packet becomes ready to send.
LEMMA ReceptionKept ==
  ASSUME ReceptionOrdered, UNCHANGED <<data, pkts, dec, fed, number, wire>>,
         rx' = rx \/ rx'.pc # "send"
  PROVE  ReceptionOrdered'
<1>1. LastTaken' = LastTaken
  BY DEF LastTaken, LastFed
<1> QED
  BY <1>1 DEF ReceptionOrdered, Newer, NotNewer

\* The numbers that are compared.
LEMMA Numbered ==
  ASSUME TypeOK
  PROVE  /\ LastFed \in Nat /\ LastOut \in Nat /\ LastTaken \in Nat
         /\ \A i \in DOMAIN pkts : pkts[i] \in Buffers /\ data[pkts[i]] \in Nat
         /\ \A b \in Buffers : data[b] \in Nat
         /\ \A i \in DOMAIN fed : fed[i] \in Nat
         /\ \A i \in DOMAIN frames : frames[i] \in Nat
         /\ \A i \in DOMAIN published : published[i] \in Nat
         /\ cons.frame \in Nat /\ None \notin Buffers
         /\ rx.pc # "get" => rx.buf \in Buffers
         /\ dec.pc # "idle" => dec.buf \in Buffers
<1>1. /\ \A i \in DOMAIN fed : fed[i] \in Nat
      /\ \A i \in DOMAIN frames : frames[i] \in Nat
      /\ \A i \in DOMAIN published : published[i] \in Nat
      /\ \A i \in DOMAIN pkts : pkts[i] \in Buffers
      /\ \A b \in Buffers : data[b] \in Nat
  <2>1. /\ fed \in Seq(Nat) /\ frames \in Seq(Nat) /\ published \in Seq(Nat)
        /\ pkts \in Seq(Buffers) /\ data \in [Buffers -> Nat]
    BY DEF TypeOK
  <2> QED
    BY <2>1
<1>2. None \notin Buffers
  BY DEF None, Buffers
<1>3. /\ rx.pc # "get" => rx.buf \in Buffers
      /\ dec.pc # "idle" => dec.buf \in Buffers
      /\ cons.frame \in Nat
  BY DEF TypeOK
<1>4. LastFed \in Nat
  <2>1. fed # <<>> => Len(fed) \in DOMAIN fed
    BY DEF TypeOK
  <2> QED
    BY <1>1, <2>1 DEF LastFed
<1>5. LastOut \in Nat
  <2>1. output # 0 => output \in DOMAIN fed
    BY DEF TypeOK
  <2> QED
    BY <1>1, <2>1 DEF LastOut
<1>6. LastTaken \in Nat
  BY <1>1, <1>3, <1>4 DEF LastTaken
<1> QED
  BY <1>1, <1>2, <1>3, <1>4, <1>5, <1>6

-------------------------------------------------------------------------------
(* runLoop *)

\* getRtpVideoBuffer: a buffer from the pool leaves it, a new one is
\* nobody's, so the one owner is runLoop.
LEMMA GetBufferStep ==
  ASSUME IInv, GetRtpVideoBuffer
  PROVE  IInv'
<1>0. /\ TypeOK /\ OneOwner /\ FramesOrdered /\ PacketsOrdered /\ ReceptionOrdered
      /\ rx.pc = "get" /\ rx.buf = None
      /\ UNCHANGED <<data, minSize, wire, number, pkts, dec, fed, output, frames,
                     cons, published>>
  BY DEF IInv, TypeOK, GetRtpVideoBuffer
<1>1. FramesOrdered' /\ PacketsOrdered'
  BY <1>0, FramesKept, PacketsKept
<1>2. CASE free # <<>> /\ size[free[Len(free)]] >= minSize
  <2> DEFINE b == free[Len(free)]
             rest == SubSeq(free, 1, Len(free) - 1)
  <2>1. rx' = [pc |-> "receive", buf |-> b] /\ free' = rest /\ UNCHANGED size
    BY <1>2 DEF GetRtpVideoBuffer
  <2>2. /\ free \in Seq(Buffers) /\ Len(free) \in Nat /\ Len(free) > 0
        /\ DOMAIN free = 1 .. Len(free) /\ b \in Buffers
    BY <1>0, <1>2 DEF TypeOK
  <2>3. /\ rest \in Seq(Buffers) /\ DOMAIN rest = 1 .. Len(free) - 1
        /\ \A i \in DOMAIN rest : rest[i] = free[i] /\ i \in DOMAIN free /\ i # Len(free)
    BY <2>2
  <2>4. b \in Range(free) /\ Range(rest) \subseteq Range(free) \ {b} /\ IsInjective(rest)
    BY <1>0, <2>2, <2>3 DEF OneOwner, IsInjective, Range
  <2> HIDE DEF b, rest
  <2>5. rx'.buf = b /\ rx'.pc = "receive" /\ b # None
    BY <2>1, <2>2, <1>0, Numbered
  <2>6. TypeOK'
    BY <1>0, <2>1, <2>2, <2>3, <2>5 DEF TypeOK
  <2>7. OneOwner'
    BY <1>0, <2>1, <2>4, <2>5 DEF OneOwner
  <2>8. ReceptionOrdered'
    BY <1>0, <2>5, ReceptionKept
  <2> QED
    BY <1>1, <2>6, <2>7, <2>8 DEF IInv
<1>3. CASE ~(free # <<>> /\ size[free[Len(free)]] >= minSize)
  <2>1. PICK new \in Buffers \ Owned :
           /\ rx' = [pc |-> "receive", buf |-> new]
           /\ size' = [size EXCEPT ![new] = NewSize]
           /\ UNCHANGED free
    BY <1>3 DEF GetRtpVideoBuffer
  <2>2. rx'.buf = new /\ rx'.pc = "receive" /\ new # None
    BY <1>0, <2>1, Numbered
  <2>3. TypeOK'
    <3>1. NewSize \in Nat
      BY <1>0 DEF NewSize, TypeOK
    <3>2. size' \in [Buffers -> Nat]
      BY <1>0, <2>1, <3>1 DEF TypeOK
    <3> QED
      BY <1>0, <2>1, <2>2, <3>2 DEF TypeOK
  <2>4. OneOwner'
    BY <1>0, <2>1, <2>2 DEF OneOwner, Owned
  <2>5. ReceptionOrdered'
    BY <1>0, <2>2, ReceptionKept
  <2> QED
    BY <1>1, <2>3, <2>4, <2>5 DEF IInv
<1> QED
  BY <1>2, <1>3

\* A message the sensor sends is later than everything received.
LEMMA ArriveStep ==
  ASSUME IInv, Arrive
  PROVE  IInv'
<1>0. /\ TypeOK /\ OneOwner /\ FramesOrdered /\ PacketsOrdered /\ ReceptionOrdered
      /\ rx.pc = "receive" /\ number' = number + 1
      /\ UNCHANGED <<size, data, free, minSize, rx, pkts, dec, fed, output, frames,
                     cons, published>>
  BY DEF IInv, Arrive
<1>1. FramesOrdered' /\ PacketsOrdered' /\ LastTaken' = LastTaken
  BY <1>0, FramesKept, PacketsKept
<1>2. TypeOK' /\ OneOwner'
  BY <1>0 DEF TypeOK, OneOwner
<1>3. NotNewer(number) /\ number \in Nat
  BY <1>0 DEF ReceptionOrdered, TypeOK
<1>4. Newer(number + 1) /\ NotNewer(number + 1)
  BY <1>0, <1>3, Numbered DEF Newer, NotNewer
<1>5. ReceptionOrdered'
  BY <1>0, <1>1, <1>4 DEF ReceptionOrdered, Newer, NotNewer
<1> QED
  BY <1>1, <1>2, <1>5 DEF IInv

\* receiveDataMore fails: runLoop has no buffer, and the rest of the message
\* is as new as the message.
LEMMA ReceiveFailsStep ==
  ASSUME IInv, ReceiveFails
  PROVE  IInv'
<1>0. /\ TypeOK /\ OneOwner /\ FramesOrdered /\ PacketsOrdered /\ ReceptionOrdered
      /\ wire # <<>> /\ minSize' = minSize * 2
      /\ rx' = [pc |-> "get", buf |-> None]
      /\ UNCHANGED <<size, data, free, number, pkts, dec, fed, output, frames,
                     cons, published>>
  BY DEF IInv, ReceiveFails
<1>1. FramesOrdered' /\ PacketsOrdered' /\ LastTaken' = LastTaken
  BY <1>0, FramesKept, PacketsKept
<1>2. TypeOK' /\ OneOwner'
  BY <1>0 DEF TypeOK, OneOwner
<1>3. ReceptionOrdered'
  BY <1>0, <1>1 DEF ReceptionOrdered, Newer, NotNewer
<1> QED
  BY <1>1, <1>2, <1>3 DEF IInv

\* The buffer that is written is nobody else's, so what waits stays as it was.
LEMMA ReceiveStep ==
  ASSUME IInv, Receive
  PROVE  IInv'
<1>0. /\ TypeOK /\ OneOwner /\ FramesOrdered /\ PacketsOrdered /\ ReceptionOrdered
      /\ rx.pc = "receive" /\ wire # <<>> /\ wire' = <<>>
      /\ data' = [data EXCEPT ![rx.buf] = number]
      /\ rx' \in {[pc |-> "get", buf |-> None], [rx EXCEPT !.pc = "send"]}
      /\ UNCHANGED <<size, free, minSize, number, pkts, dec, fed, output, frames,
                     cons, published>>
  BY DEF IInv, Receive
<1>1. rx.buf \in Buffers /\ rx.buf # None /\ number \in Nat
  BY <1>0, Numbered DEF TypeOK
<1>2. /\ rx' = [pc |-> "get", buf |-> None] \/ (rx'.pc = "send" /\ rx'.buf = rx.buf)
      /\ rx' \in [pc : {"get", "receive", "send"}, buf : Buffers \cup {None}]
      /\ rx'.buf = None <=> rx'.pc = "get"
  BY <1>0, <1>1 DEF TypeOK
<1>3. data' \in [Buffers -> Nat] /\ data'[rx.buf] = number
      /\ \A b \in Buffers \ {rx.buf} : data'[b] = data[b]
  BY <1>0, <1>1 DEF TypeOK
<1>4. TypeOK' /\ OneOwner'
  BY <1>0, <1>2, <1>3 DEF TypeOK, OneOwner
<1>5. \A i \in DOMAIN pkts : data'[pkts[i]] = data[pkts[i]]
  <2>1. \A i \in DOMAIN pkts : pkts[i] \in Range(pkts)
    BY DEF Range
  <2> QED
    BY <1>0, <1>1, <1>3, <2>1, Numbered DEF OneOwner
<1>6. dec.pc = "decode" => data'[dec.buf] = data[dec.buf]
  BY <1>0, <1>1, <1>3, Numbered DEF OneOwner
<1>7. LastTaken' = LastTaken /\ LastFed' = LastFed
  BY <1>0, <1>6 DEF LastTaken, LastFed
<1>8. FramesOrdered'
  BY <1>0, FramesKept
<1>9. PacketsOrdered'
  BY <1>0, <1>5, <1>6, <1>7 DEF PacketsOrdered
<1>10. ReceptionOrdered'
  BY <1>0, <1>1, <1>2, <1>3, <1>5, <1>7 DEF ReceptionOrdered, Newer, NotNewer
<1> QED
  BY <1>4, <1>8, <1>9, <1>10 DEF IInv

\* A full queue loses its first entry.
LEMMA NewestDrops ==
  ASSUME NEW S, NEW q \in Seq(S), NEW cap \in Nat, IsInjective(q), Len(q) = cap + 1
  PROVE  q[1] \notin Range(Newest(q, cap))
<1>1. PICK k \in 0 .. Len(q) :
            /\ Newest(q, cap) \in Seq(S)
            /\ Len(Newest(q, cap)) = Len(q) - k
            /\ \A i \in 1 .. Len(q) - k : Newest(q, cap)[i] = q[i + k]
            /\ Len(q) <= cap => k = 0
            /\ Len(q) = cap + 1 => k = 1
  BY NewestIs, Zenon
<1>2. \A i \in DOMAIN Newest(q, cap) :
         Newest(q, cap)[i] = q[i + 1] /\ i + 1 \in DOMAIN q /\ i + 1 # 1 /\ 1 \in DOMAIN q
  BY <1>1
<1> QED
  BY <1>2 DEF Range, IsInjective

\* sendToDecoder: the packet received last is the last of the queue; the one
\* dropped for it was in the queue, so its buffer has no other owner.
LEMMA SendStep ==
  ASSUME IInv, SendToDecoder
  PROVE  IInv'
<1> DEFINE b == rx.buf
           q == Append(pkts, b)
<1>0. /\ TypeOK /\ OneOwner /\ FramesOrdered /\ PacketsOrdered /\ ReceptionOrdered
      /\ rx.pc = "send" /\ rx' = [pc |-> "get", buf |-> None]
      /\ pkts' = Newest(q, PktCap)
      /\ free' \in IF Len(pkts) = PktCap THEN Released(pkts[1]) ELSE {free}
      /\ UNCHANGED <<size, data, minSize, wire, number, dec, fed, output, frames,
                     cons, published>>
  BY DEF IInv, SendToDecoder
<1>1. /\ b \in Buffers /\ b # None /\ pkts \in Seq(Buffers) /\ Len(pkts) \in 0 .. PktCap
      /\ PktCap \in Nat /\ FreeCap \in Nat /\ free \in Seq(Buffers) /\ PktCap # 0
      /\ b \notin Range(pkts) /\ b \notin Range(free) /\ b # dec.buf
  <2>1. b \in Buffers /\ b # None
    BY <1>0, Numbered
  <2>2. /\ pkts \in Seq(Buffers) /\ Len(pkts) \in 0 .. PktCap /\ free \in Seq(Buffers)
        /\ PktCap \in Nat /\ FreeCap \in Nat /\ PktCap # 0
    BY <1>0, CameraAssumption DEF TypeOK
  <2>3. b \notin Range(pkts) /\ b \notin Range(free) /\ b # dec.buf
    BY <1>0, <2>1 DEF OneOwner
  <2> QED
    BY <2>1, <2>2, <2>3
<1> HIDE DEF b
<1>2. /\ q \in Seq(Buffers) /\ Range(q) = Range(pkts) \cup {b} /\ IsInjective(q)
      /\ Len(q) = Len(pkts) + 1 /\ DOMAIN q = 1 .. Len(pkts) + 1
      /\ \A i \in 1 .. Len(pkts) : q[i] = pkts[i] /\ i \in DOMAIN pkts
      /\ q[Len(pkts) + 1] = b
  <2>1. q \in Seq(Buffers) /\ Range(q) = Range(pkts) \cup {b} /\ IsInjective(q)
    BY <1>0, <1>1, AppendRange DEF OneOwner
  <2> QED
    BY <1>1, <2>1
<1> HIDE DEF q
<1>3. pkts' \in Seq(Buffers) /\ Range(pkts') \subseteq Range(pkts) \cup {b} /\ IsInjective(pkts')
  BY <1>0, <1>1, <1>2, NewestKeeps
<1>4. PICK k \in 0 .. Len(q) :
            /\ Newest(q, PktCap) \in Seq(Buffers)
            /\ Len(Newest(q, PktCap)) = Len(q) - k
            /\ \A i \in 1 .. Len(q) - k : Newest(q, PktCap)[i] = q[i + k]
            /\ Len(q) <= PktCap => k = 0
            /\ Len(q) = PktCap + 1 => k = 1
  BY <1>1, <1>2, NewestIs, Zenon
<1>5. Len(pkts') <= PktCap
  BY <1>0, <1>1, <1>2, <1>4
<1>6. /\ free' \in Seq(Buffers) /\ IsInjective(free') /\ Range(free') \cap Range(pkts') = {}
      /\ Range(free') \subseteq Range(free) \cup Range(pkts)
  <2>1. CASE Len(pkts) = PktCap
    <3>1. pkts[1] \in Range(pkts) /\ pkts[1] \in Buffers /\ q[1] = pkts[1]
      BY <1>1, <1>2, <2>1 DEF Range
    <3>2. pkts[1] \notin Range(free)
      BY <1>0, <3>1 DEF OneOwner
    <3>3. /\ free' \in Seq(Buffers) /\ IsInjective(free')
          /\ Range(free') \subseteq Range(free) \cup {pkts[1]}
      <4>1. free' \in Released(pkts[1]) /\ IsInjective(free)
        BY <1>0, <2>1 DEF OneOwner
      <4> QED
        BY <4>1, <1>1, <3>1, <3>2, ReleasedKeeps
    <3>4. pkts[1] \notin Range(pkts')
      BY <1>0, <1>1, <1>2, <2>1, <3>1, NewestDrops
    <3> QED
      BY <1>0, <1>1, <1>3, <3>1, <3>3, <3>4 DEF OneOwner
  <2>2. CASE Len(pkts) # PktCap
    BY <1>0, <1>1, <1>3, <2>2 DEF OneOwner
  <2> QED
    BY <2>1, <2>2
<1>7. TypeOK'
  BY <1>0, <1>3, <1>5, <1>6 DEF TypeOK
<1>8. OneOwner'
  <2>1. dec.buf # None => dec.buf \notin Range(free') \cup Range(pkts')
    BY <1>0, <1>1, <1>3, <1>6 DEF OneOwner
  <2>2. rx'.buf = None /\ dec' = dec
    BY <1>0
  <2> QED
    BY <1>3, <1>6, <2>1, <2>2 DEF OneOwner
<1>9. FramesOrdered'
  BY <1>0, FramesKept
<1>10. LastTaken' = LastTaken /\ LastFed' = LastFed
  BY <1>0 DEF LastTaken, LastFed
<1>11. Newer(data[b]) /\ data[b] <= number /\ wire = <<>>
  BY <1>0 DEF ReceptionOrdered, b
<1>12. /\ \A i \in DOMAIN q : LastTaken < data[q[i]] /\ data[q[i]] <= number
       /\ \A i, j \in DOMAIN q : i < j => data[q[i]] < data[q[j]]
  <2>1. \A i \in 1 .. Len(pkts) : LastTaken < data[q[i]] /\ data[q[i]] <= number
    BY <1>0, <1>2 DEF PacketsOrdered, ReceptionOrdered, NotNewer
  <2>2. ASSUME NEW i \in DOMAIN q, NEW j \in DOMAIN q, i < j
        PROVE  data[q[i]] < data[q[j]]
    <3>1. i \in 1 .. Len(pkts)
      BY <1>1, <1>2, <2>2
    <3>2. CASE j \in 1 .. Len(pkts)
      BY <1>0, <1>2, <2>2, <3>1, <3>2 DEF PacketsOrdered
    <3>3. CASE j = Len(pkts) + 1
      BY <1>2, <1>11, <3>1, <3>3 DEF Newer
    <3> QED
      BY <1>1, <1>2, <3>2, <3>3
  <2>3. \A i \in DOMAIN q : i \in 1 .. Len(pkts) \/ i = Len(pkts) + 1
    BY <1>1, <1>2
  <2> QED
    BY <1>2, <1>11, <2>1, <2>2, <2>3 DEF Newer
<1>13. \A i \in DOMAIN pkts' : pkts'[i] = q[i + k] /\ i + k \in DOMAIN q /\ i \in Nat
  BY <1>0, <1>1, <1>2, <1>4
<1>14. PacketsOrdered'
  <2>1. \A i \in DOMAIN pkts' : LastTaken < data[pkts'[i]]
    BY <1>12, <1>13
  <2>2. \A i, j \in DOMAIN pkts' : i < j => data[pkts'[i]] < data[pkts'[j]]
    BY <1>12, <1>13
  <2> QED
    BY <1>0, <1>10, <2>1, <2>2 DEF PacketsOrdered, Up
<1>15. ReceptionOrdered'
  <2>1. \A i \in DOMAIN pkts' : data[pkts'[i]] <= number
    BY <1>12, <1>13
  <2> QED
    BY <1>0, <1>10, <1>11, <2>1 DEF ReceptionOrdered, NotNewer
<1> QED
  BY <1>7, <1>8, <1>9, <1>14, <1>15 DEF IInv

-------------------------------------------------------------------------------
(* decoderLoop *)

\* decoderLoop takes the first packet, the oldest of those that wait.
LEMMA TakesStep ==
  ASSUME IInv, DecoderTakes
  PROVE  IInv'
<1>0. /\ TypeOK /\ OneOwner /\ FramesOrdered /\ PacketsOrdered /\ ReceptionOrdered
      /\ dec.pc = "idle" /\ pkts # <<>> /\ dec' = [pc |-> "decode", buf |-> pkts[1]]
      /\ pkts' = Tail(pkts)
      /\ UNCHANGED <<size, data, free, minSize, wire, number, rx, fed, output, frames,
                     cons, published>>
  BY DEF IInv, DecoderTakes
<1>1. /\ Tail(pkts) \in Seq(Buffers) /\ pkts[1] \in Buffers /\ Len(Tail(pkts)) <= PktCap
      /\ pkts[1] \in Range(pkts) \ Range(Tail(pkts)) /\ Range(Tail(pkts)) \subseteq Range(pkts)
      /\ IsInjective(Tail(pkts))
  <2>1. pkts \in Seq(Buffers) /\ IsInjective(pkts) /\ Len(pkts) <= PktCap /\ PktCap \in Nat
    BY <1>0, CameraAssumption DEF TypeOK, OneOwner
  <2>2. Len(Tail(pkts)) \in Nat /\ Len(pkts) \in Nat /\ Len(Tail(pkts)) <= Len(pkts)
    BY <1>0, <2>1
  <2> QED
    BY <1>0, <2>1, <2>2, TailRange
<1>2. dec'.pc = "decode" /\ dec'.buf = pkts[1] /\ pkts[1] # None
  BY <1>0, <1>1, Numbered
<1>3. TypeOK'
  BY <1>0, <1>1, <1>2 DEF TypeOK
<1>4. OneOwner'
  BY <1>0, <1>1, <1>2 DEF OneOwner
<1>5. FramesOrdered'
  BY <1>0, FramesKept
<1>6. LastTaken = LastFed /\ LastFed' = LastFed /\ LastTaken' = data[pkts[1]]
  BY <1>0, <1>2 DEF LastTaken, LastFed
<1>7. \A i \in DOMAIN Tail(pkts) :
         /\ Tail(pkts)[i] = pkts[i + 1] /\ i + 1 \in DOMAIN pkts /\ i \in Nat
         /\ 1 \in DOMAIN pkts /\ 1 < i + 1
  <2>1. pkts \in Seq(Buffers) /\ pkts # <<>>
    BY <1>0 DEF TypeOK
  <2>2. Len(pkts) \in Nat \ {0} /\ DOMAIN pkts = 1 .. Len(pkts)
        /\ DOMAIN Tail(pkts) = 1 .. Len(pkts) - 1
    BY <2>1
  <2>3. \A i \in 1 .. Len(pkts) - 1 : Tail(pkts)[i] = pkts[i + 1]
    BY <2>1, <2>2
  <2> QED
    BY <2>2, <2>3
<1>8. 1 \in DOMAIN pkts
  BY <1>0 DEF TypeOK
<1>9. PacketsOrdered'
  <2>1. LastFed < data[pkts[1]]
    BY <1>0, <1>6, <1>8 DEF PacketsOrdered
  <2>2. \A i \in DOMAIN Tail(pkts) : data[pkts[1]] < data[Tail(pkts)[i]]
    BY <1>0, <1>7 DEF PacketsOrdered
  <2>3. \A i, j \in DOMAIN Tail(pkts) : i < j => data[Tail(pkts)[i]] < data[Tail(pkts)[j]]
    BY <1>0, <1>7 DEF PacketsOrdered
  <2> QED
    BY <1>0, <1>2, <1>6, <2>1, <2>2, <2>3 DEF PacketsOrdered, Up
<1>10. ReceptionOrdered'
  BY <1>0, <1>6, <1>7, <1>8 DEF ReceptionOrdered, Newer, NotNewer
<1> QED
  BY <1>3, <1>4, <1>5, <1>9, <1>10 DEF IInv

\* decode() is given a packet later than all it was given before.
LEMMA DecodeStep ==
  ASSUME IInv, Decode
  PROVE  IInv'
<1> DEFINE n == data[dec.buf]
<1>0. /\ TypeOK /\ OneOwner /\ FramesOrdered /\ PacketsOrdered /\ ReceptionOrdered
      /\ dec.pc = "decode" /\ dec' = [dec EXCEPT !.pc = "release"]
      /\ fed' = Append(fed, n)
      /\ UNCHANGED <<size, data, free, minSize, wire, number, rx, pkts, output, frames,
                     cons, published>>
  BY DEF IInv, Decode
<1>1. /\ n \in Nat /\ fed \in Seq(Nat) /\ output \in 0 .. Len(fed) /\ LastFed < n
      /\ LastTaken = n
  BY <1>0, Numbered DEF TypeOK, PacketsOrdered, LastTaken
<1>2. dec'.pc = "release" /\ dec'.buf = dec.buf
      /\ dec' \in [pc : {"idle", "decode", "release"}, buf : Buffers \cup {None}]
  BY <1>0 DEF TypeOK
<1> HIDE DEF n
<1>3. /\ fed' \in Seq(Nat) /\ fed' # <<>> /\ Len(fed') = Len(fed) + 1 /\ fed'[Len(fed')] = n
      /\ \A i \in 1 .. Len(fed) : fed'[i] = fed[i]
      /\ output \in 0 .. Len(fed')
  BY <1>0, <1>1
<1>4. TypeOK' /\ OneOwner'
  BY <1>0, <1>2, <1>3 DEF TypeOK, OneOwner
<1>5. LastFed' = n /\ LastTaken' = n
  BY <1>2, <1>3 DEF LastFed, LastTaken
<1>6. LastOut' = LastOut
  BY <1>0, <1>1, <1>3 DEF LastOut
<1>7. FramesOrdered'
  BY <1>0, <1>6 DEF FramesOrdered, Up
<1>8. Up(fed')
  <2>1. \A i \in DOMAIN fed : fed[i] <= LastFed
    BY <1>0, <1>1 DEF PacketsOrdered, Up, LastFed
  <2>2. \A i \in DOMAIN fed : fed[i] < n
    BY <1>0, <1>1, <2>1, Numbered
  <2> QED
    BY <1>0, <1>1, <2>2, AppendRises DEF PacketsOrdered
<1>9. PacketsOrdered'
  <2>1. 0 < n
    BY <1>0, <1>1, Numbered
  <2>2. \A i \in DOMAIN fed' : 0 < fed'[i]
    BY <1>0, <1>1, <1>3, <2>1 DEF PacketsOrdered
  <2> QED
    BY <1>0, <1>1, <1>2, <1>5, <1>8, <2>2 DEF PacketsOrdered
<1>10. ReceptionOrdered'
  BY <1>0, <1>1, <1>5 DEF ReceptionOrdered, Newer, NotNewer
<1> QED
  BY <1>4, <1>7, <1>9, <1>10 DEF IInv

\* decoderLoop gives its buffer back to the pool.
LEMMA DecoderReleasesStep ==
  ASSUME IInv, DecoderReleases
  PROVE  IInv'
<1>0. /\ TypeOK /\ OneOwner /\ FramesOrdered /\ PacketsOrdered /\ ReceptionOrdered
      /\ dec.pc = "release" /\ dec' = [pc |-> "idle", buf |-> None]
      /\ free' \in Released(dec.buf)
      /\ UNCHANGED <<size, data, minSize, wire, number, rx, pkts, fed, output, frames,
                     cons, published>>
  BY DEF IInv, DecoderReleases
<1>1. /\ dec.buf \in Buffers /\ dec.buf # None /\ dec.buf \notin Range(free) \cup Range(pkts)
      /\ dec.buf # rx.buf /\ free \in Seq(Buffers) /\ IsInjective(free) /\ FreeCap \in Nat
  BY <1>0, Numbered, CameraAssumption DEF OneOwner, TypeOK
<1>2. /\ free' \in Seq(Buffers) /\ IsInjective(free')
      /\ Range(free') \subseteq Range(free) \cup {dec.buf}
  BY <1>0, <1>1, ReleasedKeeps
<1>3. TypeOK'
  BY <1>0, <1>2 DEF TypeOK
<1>4. OneOwner'
  BY <1>0, <1>1, <1>2 DEF OneOwner
<1>5. FramesOrdered'
  BY <1>0, FramesKept
<1>6. LastTaken' = LastTaken /\ LastFed' = LastFed /\ dec'.pc # "decode"
  BY <1>0 DEF LastTaken, LastFed
<1>7. PacketsOrdered' /\ ReceptionOrdered'
  BY <1>0, <1>6 DEF PacketsOrdered, ReceptionOrdered, Newer, NotNewer
<1> QED
  BY <1>3, <1>4, <1>5, <1>7 DEF IInv

-------------------------------------------------------------------------------
(* The decoder's callback and consumerLoop *)

\* decoderCallback: the frame is later than those that came out before, of
\* which the oldest may be dropped.
LEMMA CallbackStep ==
  ASSUME IInv, DecoderCallback
  PROVE  IInv'
<1>0. /\ TypeOK /\ OneOwner /\ FramesOrdered /\ PacketsOrdered /\ ReceptionOrdered
      /\ UNCHANGED <<size, data, free, minSize, wire, number, rx, pkts, dec, fed,
                     cons, published>>
  BY DEF IInv, DecoderCallback
<1>1. PICK n \in output + 1 .. Len(fed) :
         output' = n /\ frames' = Newest(Append(frames, fed[n]), FrameCap)
  BY DEF DecoderCallback
<1>2. /\ n \in DOMAIN fed /\ n \in 0 .. Len(fed) /\ n # 0 /\ fed[n] \in Nat
      /\ FrameCap \in Nat /\ frames \in Seq(Nat)
  BY <1>0, CameraAssumption DEF TypeOK
<1>3. LastOut < fed[n] /\ LastOut' = fed[n] /\ LastOut \in Nat
  <2>1. LastOut' = fed[n] /\ LastOut \in Nat
    BY <1>0, <1>1, <1>2, Numbered DEF LastOut
  <2>0. Up(fed) /\ \A i \in DOMAIN fed : 0 < fed[i]
    BY <1>0 DEF PacketsOrdered
  <2>2. CASE output = 0
    <3>1. 0 < fed[n]
      BY <1>2, <2>0
    <3> QED
      BY <2>1, <2>2, <3>1 DEF LastOut
  <2>3. CASE output # 0
    <3>1. output \in DOMAIN fed /\ output < n
      BY <1>0, <1>1, <2>3 DEF TypeOK
    <3>2. fed[output] < fed[n]
      BY <1>2, <2>0, <3>1 DEF Up
    <3> QED
      BY <2>1, <2>3, <3>2 DEF LastOut
  <2> QED
    BY <2>1, <2>2, <2>3
<1> DEFINE q == Append(frames, fed[n])
<1>4. /\ q \in Seq(Nat) /\ Up(q) /\ Range(q) = Range(frames) \cup {fed[n]}
  <2>1. \A i \in DOMAIN frames : frames[i] < fed[n]
    BY <1>0, <1>2, <1>3, Numbered DEF FramesOrdered
  <2> QED
    BY <1>0, <1>2, <2>1, AppendRises, AppendRange DEF FramesOrdered
<1> HIDE DEF q
<1>5. frames' \in Seq(Nat) /\ Up(frames') /\ Range(frames') \subseteq Range(frames) \cup {fed[n]}
  BY <1>1, <1>2, <1>4, NewestKeeps, NewestRises DEF q
<1>6. TypeOK' /\ OneOwner'
  BY <1>0, <1>1, <1>2, <1>5 DEF TypeOK, OneOwner
<1>7. FramesOrdered'
  <2>1. ASSUME NEW j \in DOMAIN frames'
        PROVE  frames'[j] = fed[n] \/ \E i \in DOMAIN frames : frames'[j] = frames[i]
    BY <1>5 DEF Range
  <2>6. /\ fed[n] \in Nat /\ LastOut \in Nat /\ LastOut < fed[n]
        /\ \A i \in DOMAIN frames : frames[i] \in Nat /\ frames[i] <= LastOut
        /\ \A i \in DOMAIN published : published[i] \in Nat /\ published[i] <= LastOut
        /\ \A i \in DOMAIN published, j \in DOMAIN frames : published[i] < frames[j]
    BY <1>0, <1>2, <1>3, Numbered DEF FramesOrdered
  <2>2. \A j \in DOMAIN frames' : frames'[j] <= fed[n]
    BY <2>1, <2>6
  <2>3. \A i \in DOMAIN published : published[i] <= fed[n] /\ published[i] < fed[n]
    BY <2>6
  <2>4. \A i \in DOMAIN published, j \in DOMAIN frames' : published[i] < frames'[j]
    BY <2>1, <2>3, <2>6
  <2>5. cons.pc = "publish" =>
          cons.frame <= fed[n] /\ \A j \in DOMAIN frames' : cons.frame < frames'[j]
    <3> SUFFICES ASSUME cons.pc = "publish"
                 PROVE  cons.frame <= fed[n] /\ \A j \in DOMAIN frames' : cons.frame < frames'[j]
      OBVIOUS
    <3>1. /\ cons.frame \in Nat /\ cons.frame <= LastOut
          /\ \A j \in DOMAIN frames : cons.frame < frames[j]
      BY <1>0, Numbered DEF FramesOrdered
    <3>2. cons.frame < fed[n] /\ cons.frame <= fed[n]
      BY <2>6, <3>1
    <3> QED
      BY <2>1, <3>1, <3>2
  <2> QED
    BY <1>0, <1>3, <1>5, <2>2, <2>3, <2>4, <2>5 DEF FramesOrdered
<1>8. PacketsOrdered' /\ ReceptionOrdered'
  BY <1>0, PacketsKept, ReceptionKept
<1> QED
  BY <1>6, <1>7, <1>8 DEF IInv

\* getDecodedFrame: consumerLoop takes the oldest frame, later than all that
\* were published.
LEMMA GetFrameStep ==
  ASSUME IInv, GetDecodedFrame
  PROVE  IInv'
<1>0. /\ TypeOK /\ OneOwner /\ FramesOrdered /\ PacketsOrdered /\ ReceptionOrdered
      /\ cons.pc = "idle" /\ frames # <<>> /\ frames' = Tail(frames)
      /\ cons' = [pc |-> "publish", frame |-> frames[1]] \/ cons' = cons
      /\ UNCHANGED <<size, data, free, minSize, wire, number, rx, pkts, dec, fed,
                     output, published>>
  BY DEF IInv, GetDecodedFrame
<1>1. /\ frames' \in Seq(Nat) /\ 1 \in DOMAIN frames /\ frames[1] \in Nat
      /\ \A i \in DOMAIN frames' :
            frames'[i] = frames[i + 1] /\ i + 1 \in DOMAIN frames /\ i \in Nat /\ 1 < i + 1
  BY <1>0 DEF TypeOK
<1>2. TypeOK' /\ OneOwner'
  <2>1. cons' \in [pc : {"idle", "publish"}, frame : Nat]
    BY <1>0, <1>1 DEF TypeOK
  <2> QED
    BY <1>0, <1>1, <2>1 DEF TypeOK, OneOwner
<1>3. LastOut' = LastOut
  BY <1>0 DEF LastOut
<1>4. /\ Up(frames')
      /\ \A i \in DOMAIN frames' : frames'[i] <= LastOut /\ frames[1] < frames'[i]
      /\ \A i \in DOMAIN published, j \in DOMAIN frames' : published[i] < frames'[j]
  BY <1>0, <1>1 DEF FramesOrdered, Up
<1>5. frames[1] <= LastOut /\ \A i \in DOMAIN published : published[i] < frames[1]
  BY <1>0, <1>1 DEF FramesOrdered
<1>6. FramesOrdered'
  <2>1. cons'.pc = "publish" => cons'.frame = frames[1]
    BY <1>0
  <2> QED
    BY <1>0, <1>3, <1>4, <1>5, <2>1 DEF FramesOrdered
<1>7. PacketsOrdered' /\ ReceptionOrdered'
  BY <1>0, PacketsKept, ReceptionKept
<1> QED
  BY <1>2, <1>6, <1>7 DEF IInv

\* consumerLoop publishes the frame it has.
LEMMA PublishStep ==
  ASSUME IInv, PublishData
  PROVE  IInv'
<1>0. /\ TypeOK /\ OneOwner /\ FramesOrdered /\ PacketsOrdered /\ ReceptionOrdered
      /\ cons.pc = "publish" /\ published' = Append(published, cons.frame)
      /\ cons' = [cons EXCEPT !.pc = "idle"]
      /\ UNCHANGED <<size, data, free, minSize, wire, number, rx, pkts, dec, fed,
                     output, frames>>
  BY DEF IInv, PublishData
<1>1. cons'.pc = "idle" /\ cons' \in [pc : {"idle", "publish"}, frame : Nat]
      /\ cons.frame \in Nat /\ published \in Seq(Nat)
  BY <1>0 DEF TypeOK
<1>2. published' \in Seq(Nat) /\ Up(published')
  BY <1>0, <1>1, AppendRises DEF FramesOrdered
<1>3. \A i \in DOMAIN published' :
         published'[i] = cons.frame \/ (i \in DOMAIN published /\ published'[i] = published[i])
  BY <1>0, <1>1
<1>4. TypeOK' /\ OneOwner'
  BY <1>0, <1>1, <1>2 DEF TypeOK, OneOwner
<1>5. LastOut' = LastOut
  BY <1>0 DEF LastOut
<1>6. FramesOrdered'
  BY <1>0, <1>1, <1>2, <1>3, <1>5 DEF FramesOrdered
<1>7. PacketsOrdered' /\ ReceptionOrdered'
  BY <1>0, PacketsKept, ReceptionKept
<1> QED
  BY <1>4, <1>6, <1>7 DEF IInv

-------------------------------------------------------------------------------
(* The theorem *)

\* The constructors establish the invariant.
LEMMA InitIInv == Init => IInv
<1> SUFFICES ASSUME Init PROVE IInv
  OBVIOUS
<1> USE DEF Init
<1>1. TypeOK
  BY CameraAssumption DEF TypeOK, Buffers, None
<1>2. OneOwner
  BY DEF OneOwner, IsInjective, Range, None
<1>3. FramesOrdered /\ PacketsOrdered
  BY DEF FramesOrdered, PacketsOrdered, Up, LastTaken, LastFed
<1>4. ReceptionOrdered
  BY DEF ReceptionOrdered, NotNewer, LastTaken, LastFed
<1> QED
  BY <1>1, <1>2, <1>3, <1>4 DEF IInv

\* Every step of runLoop, decoderLoop, the decoder, consumerLoop and the
\* destructor preserves it.
LEMMA NextIInv == IInv /\ [Next]_vars => IInv'
<1> SUFFICES ASSUME IInv, [Next]_vars PROVE IInv'
  OBVIOUS
<1>1. CASE Next
  <2>1. CASE Stop \/ Join
    <3>1. UNCHANGED <<size, data, free, minSize, wire, number, rx, pkts, dec, fed, output,
                      frames, cons, published>>
      BY <2>1 DEF Stop, Join
    <3>2. TypeOK' /\ OneOwner'
      BY <3>1 DEF IInv, TypeOK, OneOwner
    <3> QED
      BY <3>1, <3>2, FramesKept, PacketsKept, ReceptionKept DEF IInv
  <2> QED
    BY <1>1, <2>1, GetBufferStep, ArriveStep, ReceiveFailsStep, ReceiveStep, SendStep,
       TakesStep, DecodeStep, DecoderReleasesStep, CallbackStep, GetFrameStep, PublishStep
       DEF Next
<1>2. CASE UNCHANGED vars
  <2>1. UNCHANGED <<size, data, free, minSize, wire, number, rx, pkts, dec, fed, output,
                    frames, cons, published>>
    BY <1>2 DEF vars
  <2>2. TypeOK' /\ OneOwner'
    BY <2>1 DEF IInv, TypeOK, OneOwner
  <2> QED
    BY <2>1, <2>2, FramesKept, PacketsKept, ReceptionKept DEF IInv
<1> QED
  BY <1>1, <1>2

\* A packet buffer is free, queued or in the hands of one thread, and the frames
\* published are in the order of the sensor's packets, none twice, whatever was
\* dropped (VideoDecHelper.cpp 54-200, CameraClient.cpp 81-149).
THEOREM OwnedAndInOrder == Spec => []BufferOwnedOnce
<1>1. Init => IInv
  BY InitIInv
<1>2. IInv /\ [Next]_vars => IInv'
  BY NextIInv
<1>3. IInv => BufferOwnedOnce
  BY DEF IInv, OneOwner, FramesOrdered, Up, BufferOwnedOnce
<1> QED
  BY <1>1, <1>2, <1>3, PTL DEF Spec

-------------------------------------------------------------------------------
(* The object detector *)

\* The detector's two threads and what their frames and queues hold.
DetectorTypeOK ==
    /\ inferQueue \in Seq(FrameBuffers) /\ freeQueue \in Seq(FrameBuffers)
    /\ run \in [pc : {"receive", "copy", "push", "trim"}, buf : FrameBuffers \cup {NoFrame}]
    /\ inf \in [pc : {"idle", "infer", "publish", "free"},
                buf : FrameBuffers \cup {NoFrame}, boxes : Nat]
    /\ run.buf = NoFrame <=> run.pc # "push"
    /\ inf.buf = NoFrame <=> inf.pc = "idle"
    /\ arrived \in Nat /\ holds \in [FrameBuffers -> Nat]
    /\ results \in Seq([image : Nat, boxes : Nat])

\* One owner for each frame.
OneFrameOwner ==
    /\ IsInjective(inferQueue) /\ IsInjective(freeQueue)
    /\ Range(inferQueue) \cap Range(freeQueue) = {}
    /\ \A b \in {run.buf, inf.buf} \ {NoFrame} :
         b \notin Range(inferQueue) \cup Range(freeQueue)
    /\ run.buf = inf.buf => run.buf = NoFrame

\* The queue of frames has room for the frame of a message that has come.
QueuesLimited ==
    /\ Len(inferQueue) <= QueueCap /\ Len(freeQueue) <= FreeQueueCap
    /\ run.pc \in {"copy", "push"} => Len(inferQueue) < QueueCap

DetectorInv == DetectorTypeOK /\ OneFrameOwner /\ QueuesLimited

\* Youngest leaves out old entries, and no more than the limit stay.
LEMMA YoungestIs ==
  ASSUME NEW S, NEW q \in Seq(S), NEW cap \in Nat
  PROVE  /\ Youngest(q, cap) \in Seq(S)
         /\ Range(Youngest(q, cap)) \subseteq Range(q)
         /\ IsInjective(q) => IsInjective(Youngest(q, cap))
         /\ Len(Youngest(q, cap)) <= cap
<1>1. Youngest(q, cap) = Newest(q, cap)
  BY DEF Youngest, Newest
<1>2. Len(Newest(q, cap)) <= cap
  <2> DEFINE m == IF Len(q) > cap THEN Len(q) - cap + 1 ELSE 1
  <2>1. Len(q) \in Nat /\ m \in 1 .. Len(q) + 1 /\ Newest(q, cap) = SubSeq(q, m, Len(q))
        /\ Len(q) - m + 1 <= cap
    BY DEF Newest
  <2> HIDE DEF m
  <2>2. Len(SubSeq(q, m, Len(q))) = Len(q) - m + 1
    BY <2>1
  <2> QED
    BY <2>1, <2>2
<1> QED
  BY <1>1, <1>2, NewestKeeps

\* A queue has no more different entries than its length.
LEMMA RangeBounded ==
  ASSUME NEW S, NEW q \in Seq(S)
  PROVE  IsFiniteSet(Range(q)) /\ Cardinality(Range(q)) <= Len(q) /\ Cardinality(Range(q)) \in Nat
<1>1. DOMAIN q = 1 .. Len(q) /\ Len(q) \in Nat
  OBVIOUS
<1>2. IsFiniteSet(1 .. Len(q)) /\ Cardinality(1 .. Len(q)) = Len(q)
  BY <1>1, FS_Interval
<1>3. q \in Surjection(1 .. Len(q), Range(q))
  BY <1>1 DEF Surjection, Range
<1>4. IsFiniteSet(Range(q)) /\ Cardinality(Range(q)) <= Cardinality(1 .. Len(q))
  BY <1>2, <1>3, FS_Surjection
<1> QED
  BY <1>2, <1>4, FS_CardinalityType

\* There is always a frame to copy into: with a place free in the queue, the
\* threads and the queue hold fewer frames than there can be.
LEMMA NewFrameExists ==
  ASSUME DetectorInv, run.pc = "copy", freeQueue = <<>>
  PROVE  FrameBuffers \ Used # {}
<1>1. /\ inferQueue \in Seq(FrameBuffers) /\ Len(inferQueue) \in Nat
      /\ Len(inferQueue) < QueueCap /\ run.buf = NoFrame
      /\ QueueCap \in Nat /\ FreeQueueCap \in Nat
  BY ObjDetectorAssumption DEF DetectorInv, DetectorTypeOK, QueuesLimited
<1> DEFINE R == Range(inferQueue)
<1>2. IsFiniteSet(R) /\ Cardinality(R) <= Len(inferQueue) /\ Cardinality(R) \in Nat
  BY <1>1, RangeBounded
<1> HIDE DEF R
<1>3. /\ IsFiniteSet(R \cup {inf.buf}) /\ Cardinality(R \cup {inf.buf}) \in Nat
      /\ Cardinality(R \cup {inf.buf}) <= QueueCap
  <2>1. /\ IsFiniteSet(R \cup {inf.buf})
        /\ Cardinality(R \cup {inf.buf}) =
             IF inf.buf \in R THEN Cardinality(R) ELSE Cardinality(R) + 1
    BY <1>2, FS_AddElement
  <2> DEFINE n == Cardinality(R)
             m == Cardinality(R \cup {inf.buf})
  <2>2. n \in Nat /\ n <= Len(inferQueue) /\ (m = n \/ m = n + 1)
    BY <1>2, <2>1
  <2> HIDE DEF n, m
  <2>3. m \in Nat /\ m <= QueueCap
    BY <1>1, <2>2
  <2> QED
    BY <2>1, <2>3 DEF m
<1>4. IsFiniteSet(FrameBuffers) /\ Cardinality(FrameBuffers) = QueueCap + FreeQueueCap + 2
  BY <1>1, FS_Interval DEF FrameBuffers
<1>5. ~(FrameBuffers \subseteq R \cup {inf.buf})
  <2> SUFFICES ASSUME FrameBuffers \subseteq R \cup {inf.buf} PROVE FALSE
    OBVIOUS
  <2>1. Cardinality(FrameBuffers) <= Cardinality(R \cup {inf.buf})
    BY <1>3, FS_Subset
  <2> QED
    BY <1>1, <1>3, <1>4, <2>1
<1>6. Used \cap FrameBuffers \subseteq R \cup {inf.buf}
  <2>1. ToSet(freeQueue) = {} /\ ToSet(inferQueue) = R
    BY DEF ToSet, Range, R
  <2>2. NoFrame \notin FrameBuffers
    BY DEF NoFrame, FrameBuffers
  <2> QED
    BY <1>1, <2>1, <2>2 DEF Used
<1> QED
  BY <1>5, <1>6

\* The detector begins with its queues empty.
LEMMA InitDetector == ViewerInit => DetectorInv
<1> SUFFICES ASSUME ViewerInit PROVE DetectorInv
  OBVIOUS
<1>1. /\ arrived = 0 /\ run = [pc |-> "receive", buf |-> NoFrame]
      /\ inferQueue = <<>> /\ freeQueue = <<>> /\ holds = [b \in FrameBuffers |-> 0]
      /\ inf = [pc |-> "idle", buf |-> NoFrame, boxes |-> NoFrame]
      /\ results = <<>>
  BY DEF ViewerInit, OdInit
<1>2. DetectorTypeOK
  BY <1>1 DEF DetectorTypeOK, NoFrame
<1>3. OneFrameOwner
  BY <1>1 DEF OneFrameOwner, IsInjective, Range
<1>4. QueuesLimited
  BY <1>1, ObjDetectorAssumption DEF QueuesLimited
<1> QED
  BY <1>2, <1>3, <1>4 DEF DetectorInv

\* A message makes the queue shorter than its limit, whether or not it is
\* unpacked.
LEMMA ReceiveMsgStep ==
  ASSUME DetectorInv, ReceiveMsg
  PROVE  DetectorInv'
<1>1. /\ DetectorTypeOK /\ OneFrameOwner /\ QueuesLimited
      /\ run.pc = "receive" /\ run.buf = NoFrame /\ arrived' = arrived + 1
      /\ inferQueue' = Youngest(inferQueue, QueueCap - 1)
      /\ UNCHANGED <<freeQueue, holds, inf, results>>
      /\ run'.pc \in {"receive", "copy"} /\ run'.buf = run.buf
      /\ run' \in [pc : {"receive", "copy", "push", "trim"}, buf : FrameBuffers \cup {NoFrame}]
  BY DEF DetectorInv, DetectorTypeOK, ReceiveMsg, Trim
<1>2. QueueCap - 1 \in Nat /\ QueueCap \in Nat /\ FreeQueueCap \in Nat
  BY ObjDetectorAssumption
<1>3. inferQueue \in Seq(FrameBuffers)
  BY <1>1 DEF DetectorTypeOK
<1>4. /\ inferQueue' \in Seq(FrameBuffers) /\ Range(inferQueue') \subseteq Range(inferQueue)
      /\ IsInjective(inferQueue) => IsInjective(inferQueue')
      /\ Len(inferQueue') <= QueueCap - 1 /\ Len(inferQueue') \in Nat
  BY <1>1, <1>2, <1>3, YoungestIs
<1>5. DetectorTypeOK'
  BY <1>1, <1>4 DEF DetectorTypeOK
<1>6. OneFrameOwner'
  BY <1>1, <1>4 DEF OneFrameOwner
<1>7. QueuesLimited'
  BY <1>1, <1>2, <1>4 DEF QueuesLimited
<1> QED
  BY <1>5, <1>6, <1>7 DEF DetectorInv

\* The frame that is copied into leaves the free list, or is a new one.
LEMMA CopyDataStep ==
  ASSUME DetectorInv, CopyData
  PROVE  DetectorInv'
<1>1. /\ DetectorTypeOK /\ OneFrameOwner /\ QueuesLimited
      /\ run.pc = "copy" /\ run.buf = NoFrame
      /\ UNCHANGED <<arrived, inferQueue, inf, results>>
  BY DEF DetectorInv, DetectorTypeOK, CopyData
<1> DEFINE new == CHOOSE x \in FrameBuffers \ Used : TRUE
           b == IF freeQueue # <<>> THEN Head(freeQueue) ELSE new
<1>2. /\ run' = [pc |-> "push", buf |-> b]
      /\ holds' = [holds EXCEPT ![b] = arrived]
      /\ freeQueue' = IF freeQueue # <<>> THEN Tail(freeQueue) ELSE freeQueue
  BY DEF CopyData
<1> HIDE DEF b, new
<1>3. /\ b \in FrameBuffers /\ b \notin Range(inferQueue) /\ b # inf.buf
      /\ b \notin Range(freeQueue') /\ Range(freeQueue') \subseteq Range(freeQueue)
      /\ freeQueue' \in Seq(FrameBuffers) /\ IsInjective(freeQueue')
      /\ Len(freeQueue') <= Len(freeQueue)
  <2>1. CASE freeQueue # <<>>
    <3>1. /\ freeQueue \in Seq(FrameBuffers) /\ IsInjective(freeQueue) /\ b = freeQueue[1]
          /\ freeQueue' = Tail(freeQueue)
      <4>1. freeQueue \in Seq(FrameBuffers) /\ IsInjective(freeQueue)
        BY <1>1 DEF DetectorTypeOK, OneFrameOwner
      <4>2. b = Head(freeQueue) /\ freeQueue' = Tail(freeQueue)
        BY <1>2, <2>1 DEF b
      <4> QED
        BY <4>1, <4>2, <2>1
    <3>2. /\ Tail(freeQueue) \in Seq(FrameBuffers) /\ freeQueue[1] \in FrameBuffers
          /\ Len(Tail(freeQueue)) <= Len(freeQueue)
          /\ freeQueue[1] \in Range(freeQueue) \ Range(Tail(freeQueue))
          /\ Range(Tail(freeQueue)) \subseteq Range(freeQueue)
          /\ IsInjective(Tail(freeQueue))
      BY <2>1, <3>1, TailRange
    <3>3. NoFrame \notin FrameBuffers
      BY DEF NoFrame, FrameBuffers
    <3>4. b \notin Range(inferQueue) /\ b # inf.buf
      BY <1>1, <3>1, <3>2, <3>3 DEF OneFrameOwner
    <3> QED
      BY <3>1, <3>2, <3>4
  <2>2. CASE freeQueue = <<>>
    <3>1. b \in FrameBuffers \ Used
      <4>1. FrameBuffers \ Used # {}
        BY <1>1, <2>2, NewFrameExists
      <4>2. new \in FrameBuffers \ Used
        BY <4>1 DEF new
      <4> QED
        BY <2>2, <4>2 DEF b
    <3>2. freeQueue' = freeQueue
      BY <1>2, <2>2
    <3>3. freeQueue \in Seq(FrameBuffers) /\ IsInjective(freeQueue) /\ Len(freeQueue) \in Nat
      BY <1>1 DEF DetectorTypeOK, OneFrameOwner
    <3>4. b \notin Range(inferQueue) /\ b # inf.buf /\ b \notin Range(freeQueue)
      BY <3>1 DEF Used, ToSet, Range
    <3> QED
      BY <3>1, <3>2, <3>3, <3>4
  <2> QED
    BY <2>1, <2>2
<1>4. b # NoFrame
  BY <1>3 DEF NoFrame, FrameBuffers
<1>5. holds' \in [FrameBuffers -> Nat]
  BY <1>1, <1>2, <1>3 DEF DetectorTypeOK
<1>6. run'.pc = "push" /\ run'.buf = b /\ run' \in
        [pc : {"receive", "copy", "push", "trim"}, buf : FrameBuffers \cup {NoFrame}]
  BY <1>2, <1>3
<1>7. DetectorTypeOK'
  BY <1>1, <1>3, <1>4, <1>5, <1>6 DEF DetectorTypeOK
<1>8. OneFrameOwner'
  BY <1>1, <1>3, <1>4, <1>6 DEF OneFrameOwner
<1>9. QueuesLimited'
  <2>1. freeQueue \in Seq(FrameBuffers) /\ FreeQueueCap \in Nat
    BY <1>1, ObjDetectorAssumption DEF DetectorTypeOK
  <2>2. Len(freeQueue) \in Nat /\ Len(freeQueue') \in Nat
    BY <1>3, <2>1
  <2> QED
    BY <1>1, <1>3, <1>6, <2>1, <2>2 DEF QueuesLimited
<1> QED
  BY <1>7, <1>8, <1>9 DEF DetectorInv

\* The frame goes from runLoop to the queue, which has room for it.
LEMMA PushFrameStep ==
  ASSUME DetectorInv, PushFrame
  PROVE  DetectorInv'
<1>1. /\ DetectorTypeOK /\ OneFrameOwner /\ QueuesLimited
      /\ run.pc = "push" /\ run.buf # NoFrame /\ run.buf \in FrameBuffers
      /\ inferQueue' = Append(inferQueue, run.buf)
      /\ run'.pc = "trim" /\ run'.buf = NoFrame
      /\ run' \in [pc : {"receive", "copy", "push", "trim"}, buf : FrameBuffers \cup {NoFrame}]
      /\ UNCHANGED <<arrived, freeQueue, holds, inf, results>>
  BY DEF DetectorInv, DetectorTypeOK, PushFrame
<1>2. inferQueue \in Seq(FrameBuffers) /\ QueueCap \in Nat
  BY <1>1, ObjDetectorAssumption DEF DetectorTypeOK
<1>3. /\ inferQueue' \in Seq(FrameBuffers) /\ Range(inferQueue') = Range(inferQueue) \cup {run.buf}
      /\ IsInjective(inferQueue')
  <2>1. IsInjective(inferQueue) /\ run.buf \notin Range(inferQueue)
    BY <1>1 DEF OneFrameOwner
  <2> QED
    BY <1>1, <1>2, <2>1, AppendRange
<1>4. Len(inferQueue') = Len(inferQueue) + 1 /\ Len(inferQueue) \in Nat
  BY <1>1, <1>2
<1>5. DetectorTypeOK'
  BY <1>1, <1>3 DEF DetectorTypeOK
<1>6. OneFrameOwner'
  BY <1>1, <1>3 DEF OneFrameOwner
<1>7. QueuesLimited'
  BY <1>1, <1>2, <1>4 DEF QueuesLimited
<1> QED
  BY <1>5, <1>6, <1>7 DEF DetectorInv

\* The free list only becomes shorter.
LEMMA TrimFreeStep ==
  ASSUME DetectorInv, TrimFree
  PROVE  DetectorInv'
<1>1. /\ DetectorTypeOK /\ OneFrameOwner /\ QueuesLimited
      /\ run.pc = "trim" /\ run.buf = NoFrame
      /\ run'.pc = "receive" /\ run'.buf = NoFrame
      /\ run' \in [pc : {"receive", "copy", "push", "trim"}, buf : FrameBuffers \cup {NoFrame}]
      /\ freeQueue' = Youngest(freeQueue, FreeQueueCap - 1)
      /\ UNCHANGED <<arrived, inferQueue, holds, inf, results>>
  BY DEF DetectorInv, DetectorTypeOK, TrimFree
<1>2. freeQueue \in Seq(FrameBuffers) /\ FreeQueueCap - 1 \in Nat /\ FreeQueueCap \in Nat
  BY <1>1, ObjDetectorAssumption DEF DetectorTypeOK
<1>3. /\ freeQueue' \in Seq(FrameBuffers) /\ Range(freeQueue') \subseteq Range(freeQueue)
      /\ IsInjective(freeQueue) => IsInjective(freeQueue')
      /\ Len(freeQueue') <= FreeQueueCap - 1 /\ Len(freeQueue') \in Nat
  BY <1>1, <1>2, YoungestIs
<1>4. DetectorTypeOK'
  BY <1>1, <1>3 DEF DetectorTypeOK
<1>5. OneFrameOwner'
  BY <1>1, <1>3 DEF OneFrameOwner
<1>6. QueuesLimited'
  BY <1>1, <1>2, <1>3 DEF QueuesLimited
<1> QED
  BY <1>4, <1>5, <1>6 DEF DetectorInv

\* inferenceLoop has the oldest frame, which is no longer in the queue.
LEMMA TakeFrameStep ==
  ASSUME DetectorInv, TakeFrame
  PROVE  DetectorInv'
<1>1. /\ DetectorTypeOK /\ OneFrameOwner /\ QueuesLimited
      /\ inf.pc = "idle" /\ inferQueue # <<>>
      /\ inf' = [pc |-> "infer", buf |-> inferQueue[1], boxes |-> NoFrame]
      /\ inferQueue' = Tail(inferQueue)
      /\ UNCHANGED <<arrived, run, freeQueue, holds, results>>
  BY DEF DetectorInv, TakeFrame
<1>2. inferQueue \in Seq(FrameBuffers) /\ IsInjective(inferQueue) /\ QueueCap \in Nat
  BY <1>1, ObjDetectorAssumption DEF DetectorTypeOK, OneFrameOwner
<1>3. /\ inferQueue' \in Seq(FrameBuffers) /\ inferQueue[1] \in FrameBuffers
      /\ inferQueue[1] \in Range(inferQueue) \ Range(inferQueue')
      /\ Range(inferQueue') \subseteq Range(inferQueue) /\ IsInjective(inferQueue')
  BY <1>1, <1>2, TailRange
<1>4. Len(inferQueue') \in Nat /\ Len(inferQueue) \in Nat /\ Len(inferQueue') <= Len(inferQueue)
  BY <1>1, <1>2
<1>5. inferQueue[1] # NoFrame
  BY <1>3 DEF NoFrame, FrameBuffers
<1>6. /\ inf'.pc = "infer" /\ inf'.buf = inferQueue[1]
      /\ inf' \in [pc : {"idle", "infer", "publish", "free"},
                   buf : FrameBuffers \cup {NoFrame}, boxes : Nat]
  BY <1>1, <1>3 DEF NoFrame
<1>7. DetectorTypeOK'
  BY <1>1, <1>3, <1>5, <1>6 DEF DetectorTypeOK
<1>8. OneFrameOwner'
  BY <1>1, <1>3, <1>5, <1>6 DEF OneFrameOwner
<1>9. QueuesLimited'
  <2>1. Len(inferQueue') <= QueueCap
        /\ (Len(inferQueue) < QueueCap => Len(inferQueue') < QueueCap)
    BY <1>1, <1>2, <1>4 DEF QueuesLimited
  <2> QED
    BY <1>1, <2>1 DEF QueuesLimited
<1> QED
  BY <1>7, <1>8, <1>9 DEF DetectorInv

\* Detecting and publishing leave the frame where it is.
LEMMA DetectStep ==
  ASSUME DetectorInv, RunDnnInference \/ Publish
  PROVE  DetectorInv'
<1>1. /\ DetectorTypeOK /\ OneFrameOwner /\ QueuesLimited
      /\ inf.pc \in {"infer", "publish"} /\ inf.buf \in FrameBuffers /\ inf.boxes \in Nat
      /\ holds[inf.buf] \in Nat
      /\ UNCHANGED <<arrived, run, inferQueue, freeQueue, holds>>
  BY DEF DetectorInv, DetectorTypeOK, RunDnnInference, Publish
<1>2. /\ inf' \in [pc : {"idle", "infer", "publish", "free"},
                   buf : FrameBuffers \cup {NoFrame}, boxes : Nat]
      /\ inf'.buf = inf.buf /\ inf'.pc # "idle" /\ results' \in Seq([image : Nat, boxes : Nat])
  <2>1. CASE Publish
    <3>1. [image |-> holds[inf.buf], boxes |-> inf.boxes] \in [image : Nat, boxes : Nat]
      BY <1>1
    <3>2. results' \in Seq([image : Nat, boxes : Nat])
      BY <1>1, <2>1, <3>1 DEF Publish, DetectorTypeOK
    <3> QED
      BY <1>1, <2>1, <3>2 DEF Publish, DetectorTypeOK
  <2>2. CASE RunDnnInference
    <3>1. PICK b : b \in Nat /\ inf' = [inf EXCEPT !.pc = "publish", !.boxes = b]
      <4>1. \A b \in {NoFrame} \cup {results[i].boxes : i \in {Len(results)} \ {0}} : b \in Nat
        <5> DEFINE Result == [image : Nat, boxes : Nat]
        <5>1. results \in Seq(Result)
          BY <1>1 DEF DetectorTypeOK
        <5> HIDE DEF Result
        <5>2. Len(results) # 0 => results[Len(results)] \in Result
          <6>1. Len(results) \in Nat /\ (Len(results) # 0 => Len(results) \in 1 .. Len(results))
            BY <5>1
          <6> QED
            BY <5>1, <6>1
        <5>3. Len(results) # 0 => results[Len(results)].boxes \in Nat
          BY <5>2 DEF Result
        <5> QED
          BY <5>3 DEF NoFrame
      <4> QED
        BY <1>1, <2>2, <4>1 DEF RunDnnInference
    <3> QED
      BY <1>1, <2>2, <3>1 DEF RunDnnInference, DetectorTypeOK
  <2> QED
    BY <2>1, <2>2
<1>3. DetectorTypeOK'
  BY <1>1, <1>2 DEF DetectorTypeOK
<1>4. OneFrameOwner' /\ QueuesLimited'
  BY <1>1, <1>2 DEF OneFrameOwner, QueuesLimited
<1> QED
  BY <1>3, <1>4 DEF DetectorInv

\* The frame goes back to the free list, or is given up.
LEMMA FreeFrameStep ==
  ASSUME DetectorInv, FreeFrame
  PROVE  DetectorInv'
<1>1. /\ DetectorTypeOK /\ OneFrameOwner /\ QueuesLimited
      /\ inf.buf \in FrameBuffers /\ inf.buf # NoFrame
      /\ inf' = [pc |-> "idle", buf |-> NoFrame, boxes |-> NoFrame]
      /\ freeQueue' = IF Len(freeQueue) < FreeQueueCap THEN Append(freeQueue, inf.buf)
                      ELSE freeQueue
      /\ UNCHANGED <<arrived, run, inferQueue, holds, results>>
  BY DEF DetectorInv, DetectorTypeOK, FreeFrame
<1>2. freeQueue \in Seq(FrameBuffers) /\ FreeQueueCap \in Nat /\ Len(freeQueue) \in Nat
  BY <1>1, ObjDetectorAssumption DEF DetectorTypeOK
<1>3. /\ freeQueue' \in Seq(FrameBuffers) /\ IsInjective(freeQueue')
      /\ Range(freeQueue') \subseteq Range(freeQueue) \cup {inf.buf}
      /\ Len(freeQueue') <= FreeQueueCap
  <2>1. /\ IsInjective(freeQueue) /\ inf.buf \notin Range(freeQueue)
        /\ Len(freeQueue) <= FreeQueueCap
    BY <1>1 DEF OneFrameOwner, QueuesLimited
  <2>2. /\ Append(freeQueue, inf.buf) \in Seq(FrameBuffers)
        /\ Range(Append(freeQueue, inf.buf)) = Range(freeQueue) \cup {inf.buf}
        /\ IsInjective(Append(freeQueue, inf.buf))
    BY <1>1, <1>2, <2>1, AppendRange
  <2>3. Len(Append(freeQueue, inf.buf)) = Len(freeQueue) + 1
    BY <1>2
  <2> QED
    BY <1>1, <1>2, <2>1, <2>2, <2>3
<1>4. /\ inf'.pc = "idle" /\ inf'.buf = NoFrame
      /\ inf' \in [pc : {"idle", "infer", "publish", "free"},
                   buf : FrameBuffers \cup {NoFrame}, boxes : Nat]
  BY <1>1 DEF NoFrame
<1>5. DetectorTypeOK'
  BY <1>1, <1>3, <1>4 DEF DetectorTypeOK
<1>6. OneFrameOwner'
  BY <1>1, <1>3, <1>4 DEF OneFrameOwner
<1>7. QueuesLimited'
  BY <1>1, <1>3 DEF QueuesLimited
<1> QED
  BY <1>5, <1>6, <1>7 DEF DetectorInv

\* Every step of the two processes keeps the detector's frames apart.
LEMMA NextDetector ==
  ASSUME DetectorInv, [ViewerNext]_viewerVars
  PROVE  DetectorInv'
<1>1. CASE UNCHANGED odVars
  <2>1. UNCHANGED <<arrived, run, inferQueue, freeQueue, holds, inf, results>>
    BY <1>1 DEF odVars
  <2> QED
    BY <2>1 DEF DetectorInv, DetectorTypeOK, OneFrameOwner, QueuesLimited
<1>2. CASE OdNext
  BY <1>2, ReceiveMsgStep, CopyDataStep, PushFrameStep, TrimFreeStep, TakeFrameStep,
     DetectStep, FreeFrameStep DEF OdNext, RunLoop, InferenceLoop
<1>3. UNCHANGED odVars \/ OdNext
  BY DEF ViewerNext, viewerVars, Detector, Show, CameraPublishes, Consume, Emit
<1> QED
  BY <1>1, <1>2, <1>3

\* A queue without repetitions has an entry once or not at all.
LEMMA TimesIn ==
  ASSUME NEW q, IsInjective(q), NEW b
  PROVE  LET n == Cardinality({i \in DOMAIN q : q[i] = b})
         IN  n \in {0, 1} /\ (n = 1 => b \in Range(q))
<1> DEFINE I == {i \in DOMAIN q : q[i] = b}
<1>1. CASE I = {}
  BY <1>1, FS_EmptySet
<1>2. CASE I # {}
  <2>1. PICK i \in I : TRUE
    BY <1>2
  <2>2. I = {i} /\ b \in Range(q)
    BY <2>1 DEF IsInjective, Range
  <2>3. Cardinality(I) = 1
    BY <2>2, FS_Singleton
  <2> QED
    BY <2>2, <2>3
<1> QED
  BY <1>1, <1>2

\* With one owner for each frame, every frame is in one place.
LEMMA OwnedFrames == DetectorInv => FramesOwnedOnce
<1> SUFFICES ASSUME DetectorInv PROVE FramesOwnedOnce
  OBVIOUS
<1>1. OneFrameOwner /\ QueuesLimited
  BY DEF DetectorInv
<1>2. ASSUME NEW b \in FrameBuffers
      PROVE  Cardinality({i \in DOMAIN inferQueue : inferQueue[i] = b})
             + Cardinality({i \in DOMAIN freeQueue : freeQueue[i] = b})
             + (IF run.buf = b THEN 1 ELSE 0) + (IF inf.buf = b THEN 1 ELSE 0) <= 1
  <2> DEFINE m == Cardinality({i \in DOMAIN inferQueue : inferQueue[i] = b})
             n == Cardinality({i \in DOMAIN freeQueue : freeQueue[i] = b})
  <2>1. m \in {0, 1} /\ (m = 1 => b \in Range(inferQueue))
    BY <1>1, TimesIn DEF OneFrameOwner
  <2>2. n \in {0, 1} /\ (n = 1 => b \in Range(freeQueue))
    BY <1>1, TimesIn DEF OneFrameOwner
  <2> HIDE DEF m, n
  <2>3. b # NoFrame
    BY DEF NoFrame, FrameBuffers
  <2>4. m + n + (IF run.buf = b THEN 1 ELSE 0) + (IF inf.buf = b THEN 1 ELSE 0) <= 1
    BY <1>1, <2>1, <2>2, <2>3 DEF OneFrameOwner
  <2> QED
    BY <2>4 DEF m, n
<1> QED
  BY <1>1, <1>2 DEF FramesOwnedOnce, QueuesLimited

\* A frame of the object detector is queued, free or with one thread, once,
\* and both queues keep their limits, whatever messages cannot be unpacked
\* and whatever detections fail (objDetector.cpp 158-290).
THEOREM DetectorOwns == ViewerSpec => []FramesOwnedOnce
<1>1. ViewerInit => DetectorInv
  BY InitDetector
<1>2. DetectorInv /\ [ViewerNext]_viewerVars => DetectorInv'
  BY NextDetector
<1>3. DetectorInv => FramesOwnedOnce
  BY OwnedFrames
<1> QED
  BY <1>1, <1>2, <1>3, PTL DEF ViewerSpec

-------------------------------------------------------------------------------
(* The user interface *)

\* Where a source is shown, and how, depends on the configuration alone.
LEMMA PlacesKept ==
  ASSUME layout' = layout
  PROVE  /\ Sources' = Sources /\ Detectors' = Detectors /\ Cells' = Cells
         /\ \A s : Kind(s)' = Kind(s) /\ Node(s)' = Node(s) /\ Widget(s)' = Widget(s)
<1>1. Cameras' = Cameras /\ Detectors' = Detectors
  BY DEF Cameras, Detectors
<1>2. Sources' = Sources
  BY <1>1 DEF Sources
<1>3. ASSUME NEW s PROVE Kind(s)' = Kind(s)
  BY <1>1 DEF Kind
<1>4. ASSUME NEW s PROVE Node(s)' = Node(s)
  BY DEF Node
<1>5. Columns' = Columns
  BY DEF Columns
<1>6. Rows' = Rows
  BY <1>5 DEF Rows
<1>7. Cells' = Cells
  BY <1>5, <1>6 DEF Cells
<1>8. ASSUME NEW s PROVE Place(s)' = Place(s)
  BY <1>1, <1>4, <1>5 DEF Place
<1>9. frameWidgetMap' = frameWidgetMap
  BY <1>2, <1>4, <1>7, <1>8 DEF frameWidgetMap
<1>10. ASSUME NEW s PROVE Widget(s)' = Widget(s)
  BY <1>9 DEF Widget
<1> QED
  BY <1>1, <1>2, <1>3, <1>4, <1>7, <1>10

Announcements == [source : Sources, frame : Nat]

\* A buffer is behind what its thread has received while it is written.
BuffersFollow ==
    /\ taken \in [Sources -> Nat] /\ buffer \in [Sources -> Nat]
    /\ copying \in [Sources -> BOOLEAN]
    /\ \A s \in Sources : /\ buffer[s] <= taken[s]
                          /\ copying[s] => buffer[s] < taken[s]

\* No frame is announced before it is in the buffer.
EventsFollow ==
    /\ events \in Seq(Announcements)
    /\ \A i \in DOMAIN events : events[i].frame <= buffer[events[i].source]

\* What a widget shows of a source, and why its memory has the format it has.
ShowsSource(c, s) ==
    /\ s \in Sources /\ Widget(s) = c /\ Kind(s) = current
    /\ shown[c].image \in Nat /\ shown[c].image >= shown[c].announced
    /\ shown[c].torn => taken[s] > shown[c].image
    /\ \/ shown[c].format = Node(s).format
       \/ \E t \in Sources \ {s} : Widget(t) = c /\ Kind(t) = Kind(s)

FormatOfASource(c) ==
    \E t \in Sources : /\ Widget(t) = c /\ Kind(t) = current
                       /\ shown[c].format = Node(t).format

ShownFollows ==
    /\ shown = [c \in Cells |-> shown[c]]
    /\ \A c \in Cells :
         /\ shown[c].source # "none" => ShowsSource(c, shown[c].source)
         /\ shown[c].format # "none" => FormatOfASource(c)

GuiInv == BuffersFollow /\ EventsFollow /\ ShownFollows

\* Nothing changes for the widgets as long as a thread does no more than receive.
LEMMA ShownKept ==
  ASSUME BuffersFollow, ShownFollows, UNCHANGED <<layout, current, shown>>,
         \A s \in Sources : taken'[s] \in Nat /\ taken'[s] >= taken[s]
  PROVE  ShownFollows'
<1>1. /\ Sources' = Sources /\ Cells' = Cells
      /\ \A s : Kind(s)' = Kind(s) /\ Node(s)' = Node(s) /\ Widget(s)' = Widget(s)
  BY PlacesKept
<1>2. shown' = [c \in Cells' |-> shown'[c]]
  BY <1>1 DEF ShownFollows
<1>3. ASSUME NEW c \in Cells, shown[c].source # "none"
      PROVE  ShowsSource(c, shown[c].source)'
  <2> DEFINE s == shown[c].source
  <2>1. ShowsSource(c, s)
    BY <1>3 DEF ShownFollows
  <2>2. s \in Sources /\ s' = s
    BY <2>1 DEF ShowsSource
  <2>3. shown[c].torn => taken'[s] > shown[c].image
    <3>1. ASSUME shown[c].torn PROVE taken[s] > shown[c].image /\ shown[c].image \in Nat
      BY <2>1, <3>1 DEF ShowsSource
    <3>2. taken[s] \in Nat /\ taken'[s] \in Nat /\ taken'[s] >= taken[s]
      BY <2>2 DEF BuffersFollow
    <3> HIDE DEF s
    <3> QED
      BY <3>1, <3>2
  <2> HIDE DEF s
  <2>4. ShowsSource(c, s)'
    BY <1>1, <2>1, <2>2, <2>3, Zenon DEF ShowsSource
  <2> QED
    BY <2>4 DEF s
<1>4. ASSUME NEW c \in Cells, shown[c].format # "none"
      PROVE  FormatOfASource(c)'
  <2>1. FormatOfASource(c)
    BY <1>4 DEF ShownFollows
  <2> QED
    BY <1>1, <2>1, Zenon DEF FormatOfASource
<1> QED
  BY <1>1, <1>2, <1>3, <1>4 DEF ShownFollows

\* The buffer is behind from the moment a frame is received.
LEMMA ConsumeStep ==
  ASSUME GuiInv, NEW s \in Sources, BeginCopy(s)
  PROVE  GuiInv'
<1>1. /\ BuffersFollow /\ EventsFollow /\ ShownFollows
      /\ taken' = [taken EXCEPT ![s] = @ + 1] /\ copying' = [copying EXCEPT ![s] = TRUE]
      /\ UNCHANGED <<layout, buffer, events, current, shown, switches>>
  BY DEF GuiInv, BeginCopy
<1>2. Sources' = Sources
  BY <1>1, PlacesKept
<1>3. /\ taken' \in [Sources -> Nat] /\ copying' \in [Sources -> BOOLEAN]
      /\ \A t \in Sources : taken'[t] >= taken[t] /\ (copying'[t] => copying[t] \/ t = s)
      /\ taken'[s] = taken[s] + 1
  BY <1>1 DEF BuffersFollow
<1>4. BuffersFollow'
  BY <1>1, <1>2, <1>3 DEF BuffersFollow
<1>5. EventsFollow'
  <2>1. Announcements' = Announcements
    BY <1>2 DEF Announcements
  <2> QED
    BY <1>1, <2>1 DEF EventsFollow
<1>6. ShownFollows'
  BY <1>1, <1>3, ShownKept
<1> QED
  BY <1>4, <1>5, <1>6 DEF GuiInv

\* A frame is in the buffer before it is announced.
LEMMA EmitStep ==
  ASSUME GuiInv, NEW s \in Sources, EndCopyAndEmit(s)
  PROVE  GuiInv'
<1>1. /\ BuffersFollow /\ EventsFollow /\ ShownFollows
      /\ copying' = [copying EXCEPT ![s] = FALSE]
      /\ buffer' = [buffer EXCEPT ![s] = taken[s]]
      /\ events' = Append(events, [source |-> s, frame |-> taken[s]])
      /\ UNCHANGED <<layout, taken, current, shown>>
  BY DEF GuiInv, EndCopyAndEmit
<1>2. Sources' = Sources
  BY <1>1, PlacesKept
<1>3. /\ buffer' \in [Sources -> Nat] /\ copying' \in [Sources -> BOOLEAN]
      /\ \A t \in Sources : buffer'[t] = IF t = s THEN taken[s] ELSE buffer[t]
      /\ \A t \in Sources : buffer'[t] \in Nat /\ buffer[t] \in Nat /\ taken[t] \in Nat
      /\ \A t \in Sources : buffer[t] <= buffer'[t]
      /\ \A t \in Sources : copying'[t] => copying[t] /\ t # s
  BY <1>1 DEF BuffersFollow
<1>4. BuffersFollow'
  BY <1>1, <1>2, <1>3 DEF BuffersFollow
<1>5. EventsFollow'
  <2> DEFINE e == [source |-> s, frame |-> taken[s]]
  <2>1. Announcements' = Announcements
    BY <1>2 DEF Announcements
  <2>2. e \in Announcements /\ e.source = s /\ e.frame = taken[s]
    BY <1>3 DEF Announcements
  <2>3. events \in Seq(Announcements) /\ events' = Append(events, e)
    BY <1>1 DEF EventsFollow
  <2> HIDE DEF e
  <2>4. /\ events' \in Seq(Announcements)
        /\ \A i \in DOMAIN events' : \/ i \in DOMAIN events /\ events'[i] = events[i]
                                     \/ events'[i] = e
    BY <2>2, <2>3
  <2>5. ASSUME NEW i \in DOMAIN events'
        PROVE  events'[i].frame <= buffer'[events'[i].source]
    <3>1. CASE i \in DOMAIN events /\ events'[i] = events[i]
      <4>1. events[i] \in Announcements
        BY <2>3, <3>1
      <4>2. events[i].source \in Sources /\ events[i].frame \in Nat
        BY <4>1 DEF Announcements
      <4>3. events[i].frame <= buffer[events[i].source]
        BY <1>1, <3>1 DEF EventsFollow
      <4>4. events[i].frame <= buffer'[events[i].source]
        BY <1>3, <4>2, <4>3
      <4> QED
        BY <3>1, <4>4
    <3>2. CASE events'[i] = e
      BY <1>3, <2>2, <3>2
    <3> QED
      BY <2>4, <3>1, <3>2
  <2> QED
    BY <2>1, <2>4, <2>5 DEF EventsFollow
<1>6. ShownFollows'
  <2>1. \A t \in Sources : taken'[t] \in Nat /\ taken'[t] >= taken[t]
    BY <1>1, <1>3
  <2> QED
    BY <1>1, <2>1, ShownKept
<1> QED
  BY <1>4, <1>5, <1>6 DEF GuiInv

\* The frame shown is the one in the buffer now, no older than the announced
\* one; its memory has a format that a source of the same widget gave it.
LEMMA ShowStep ==
  ASSUME GuiInv, OnFrameUpdated
  PROVE  GuiInv'
<1>1. /\ BuffersFollow /\ EventsFollow /\ ShownFollows
      /\ events # <<>> /\ events' = Tail(events)
      /\ UNCHANGED <<layout, taken, copying, buffer, current>>
  BY DEF GuiInv, OnFrameUpdated
<1>2. /\ Sources' = Sources /\ Cells' = Cells /\ Announcements' = Announcements
      /\ \A s : Kind(s)' = Kind(s) /\ Node(s)' = Node(s) /\ Widget(s)' = Widget(s)
  BY <1>1, PlacesKept DEF Announcements
<1>3. BuffersFollow'
  BY <1>1, <1>2 DEF BuffersFollow
<1>4. EventsFollow'
  <2>1. events \in Seq(Announcements)
    BY <1>1 DEF EventsFollow
  <2>2. /\ events' \in Seq(Announcements)
        /\ \A i \in DOMAIN events' : i + 1 \in DOMAIN events /\ events'[i] = events[i + 1]
    BY <1>1, <2>1
  <2> QED
    BY <1>1, <1>2, <2>2 DEF EventsFollow
<1>5. PICK e : e = Head(events)
  OBVIOUS
<1>8. PICK s : s = e.source
  OBVIOUS
<1>9. PICK w : w = Widget(s)
  OBVIOUS
<1>10. s \in Sources /\ e.frame \in Nat /\ e.frame <= buffer[s]
  <2>1. events \in Seq(Announcements) /\ 1 \in DOMAIN events /\ e = events[1]
    BY <1>1, <1>5 DEF EventsFollow
  <2>2. e \in Announcements
    BY <2>1
  <2>3. s \in Sources /\ e.frame \in Nat
    BY <1>8, <2>2 DEF Announcements
  <2>4. e.frame <= buffer[s]
    BY <1>1, <1>8, <2>1 DEF EventsFollow
  <2> QED
    BY <2>3, <2>4
<1>6. CASE Kind(s) # current
  <2>1. shown' = shown
    BY <1>5, <1>6, <1>8 DEF OnFrameUpdated
  <2>2. \A t \in Sources : taken'[t] \in Nat /\ taken'[t] >= taken[t]
    BY <1>1 DEF BuffersFollow
  <2>3. ShownFollows'
    BY <1>1, <2>1, <2>2, ShownKept
  <2> QED
    BY <1>3, <1>4, <2>3 DEF GuiInv
<1>7. CASE Kind(s) = current
  <2> DEFINE f == IF shown[w].format = "none" THEN Node(s).format ELSE shown[w].format
             r == [source |-> s, image |-> buffer[s], torn |-> copying[s],
                   announced |-> e.frame, format |-> f]
  <2>1. shown' = [shown EXCEPT ![w] = r]
    BY <1>5, <1>7, <1>8, <1>9, Zenon DEF OnFrameUpdated, setFrame
  <2>2. r.source = s /\ r.image = buffer[s] /\ r.announced = e.frame /\ r.format = f
    OBVIOUS
  <2>3. r.torn = copying[s]
    OBVIOUS
  <2>4. /\ r.image \in Nat /\ r.image >= r.announced
        /\ copying[s] => taken[s] > r.image
    BY <1>1, <1>10, <2>2 DEF BuffersFollow
  <2>5. ASSUME w \in Cells
        PROVE  /\ \/ f = Node(s).format
                  \/ \E t \in Sources \ {s} : Widget(t) = w /\ Kind(t) = Kind(s)
               /\ \E t \in Sources : Widget(t) = w /\ Kind(t) = current /\ f = Node(t).format
    <3>1. CASE shown[w].format = "none"
      BY <1>7, <1>9, <1>10, <3>1
    <3>2. CASE shown[w].format # "none"
      <4>1. PICK t \in Sources : /\ Widget(t) = w /\ Kind(t) = current
                                 /\ shown[w].format = Node(t).format
        BY <1>1, <2>5, <3>2 DEF ShownFollows, FormatOfASource
      <4> QED
        BY <1>7, <1>9, <1>10, <3>2, <4>1
    <3> QED
      BY <3>1, <3>2
  <2> HIDE DEF r, f
  <2>6. /\ shown' = [c \in Cells |-> shown'[c]]
        /\ \A c \in Cells : shown'[c] = IF c = w THEN r ELSE shown[c]
    BY <1>1, <2>1 DEF ShownFollows
  <2>7. ASSUME NEW c \in Cells
        PROVE  /\ (shown[c].source # "none" => ShowsSource(c, shown[c].source))'
               /\ shown'[c].format # "none" => FormatOfASource(c)'
    <3>1. CASE c = w
      <4>1. shown'[c] = r
        BY <2>6, <3>1
      <4>2. Widget(s) = c
        BY <1>9, <3>1
      <4>3. shown'[c].source = s
        BY <2>2, <4>1
      <4>4. ShowsSource(c, s)'
        <5>1. s \in Sources' /\ Widget(s)' = c /\ Kind(s)' = current'
          BY <1>1, <1>2, <1>7, <1>10, <4>2
        <5>2. shown'[c].image \in Nat /\ shown'[c].image >= shown'[c].announced
          BY <2>4, <4>1
        <5>3. shown'[c].torn => taken'[s] > shown'[c].image
          BY <1>1, <2>3, <2>4, <4>1, Zenon
        <5>4. \/ shown'[c].format = Node(s).format
              \/ \E t \in Sources \ {s} : Widget(t) = c /\ Kind(t) = Kind(s)
          BY <2>2, <2>5, <3>1, <4>1, Zenon
        <5> QED
          BY <1>2, <5>1, <5>2, <5>3, <5>4, Zenon DEF ShowsSource
      <4>5. FormatOfASource(c)'
        <5>1. PICK t \in Sources : Widget(t) = w /\ Kind(t) = current /\ f = Node(t).format
          BY <2>5, <3>1
        <5>2. shown'[c].format = f
          BY <2>2, <4>1
        <5>3. /\ t \in Sources' /\ Widget(t)' = c /\ Kind(t)' = current'
              /\ shown'[c].format = Node(t)'.format
          BY <1>1, <1>2, <3>1, <5>1, <5>2
        <5> QED
          BY <5>3 DEF FormatOfASource
      <4>6. ShowsSource(c, shown[c].source)'
        BY <4>3, <4>4 DEF ShowsSource
      <4> QED
        BY <4>5, <4>6
    <3>2. CASE c # w
      <4>1. shown'[c] = shown[c]
        BY <2>6, <3>2
      <4>2. ASSUME shown[c].source # "none" PROVE ShowsSource(c, shown[c].source)'
        <5>1. ShowsSource(c, shown[c].source)
          BY <1>1, <4>2 DEF ShownFollows
        <5> QED
          BY <1>1, <1>2, <4>1, <5>1, Zenon DEF ShowsSource
      <4>3. ASSUME shown[c].format # "none" PROVE FormatOfASource(c)'
        <5>1. PICK t \in Sources : /\ Widget(t) = c /\ Kind(t) = current
                                   /\ shown[c].format = Node(t).format
          BY <1>1, <4>3 DEF ShownFollows, FormatOfASource
        <5>2. /\ t \in Sources' /\ Widget(t)' = c /\ Kind(t)' = current'
              /\ shown'[c].format = Node(t)'.format
          BY <1>1, <1>2, <4>1, <5>1
        <5> QED
          BY <5>2 DEF FormatOfASource
      <4> QED
        BY <4>1, <4>2, <4>3
    <3> QED
      BY <3>1, <3>2
  <2>8. ShownFollows'
    <3>1. shown' = [c \in Cells' |-> shown'[c]]
      BY <1>2, <2>6
    <3> QED
      BY <1>2, <2>7, <3>1 DEF ShownFollows
  <2> QED
    BY <1>3, <1>4, <2>8 DEF GuiInv
<1> QED
  BY <1>6, <1>7

\* A change of the data source makes every widget black and frees its memory.
LEMMA SwitchStep ==
  ASSUME GuiInv, OnDataSourceChanged
  PROVE  GuiInv'
<1>1. /\ BuffersFollow /\ EventsFollow
      /\ shown' = [c \in Cells |-> Black]
      /\ UNCHANGED <<layout, taken, copying, buffer, events>>
  BY DEF GuiInv, OnDataSourceChanged
<1>2. Sources' = Sources /\ Cells' = Cells /\ Announcements' = Announcements
  BY <1>1, PlacesKept DEF Announcements
<1>3. BuffersFollow' /\ EventsFollow'
  BY <1>1, <1>2 DEF BuffersFollow, EventsFollow
<1>4. \A c \in Cells : shown'[c].source = "none" /\ shown'[c].format = "none"
  BY <1>1 DEF Black
<1>5. shown' = [c \in Cells |-> shown'[c]]
  BY <1>1
<1>6. ShownFollows'
  BY <1>2, <1>4, <1>5 DEF ShownFollows
<1> QED
  BY <1>3, <1>6 DEF GuiInv

\* The user interface begins with black widgets and nothing announced.
LEMMA InitGui == ViewerInit => GuiInv
<1> SUFFICES ASSUME ViewerInit PROVE GuiInv
  OBVIOUS
<1>1. /\ taken = [s \in Sources |-> 0] /\ copying = [s \in Sources |-> FALSE]
      /\ buffer = [s \in Sources |-> 0] /\ events = <<>>
      /\ shown = [c \in Cells |-> Black]
  BY DEF ViewerInit, GuiInit
<1>2. BuffersFollow /\ EventsFollow
  BY <1>1 DEF BuffersFollow, EventsFollow
<1>3. \A c \in Cells : shown[c].source = "none" /\ shown[c].format = "none"
  BY <1>1 DEF Black
<1>4. ShownFollows
  BY <1>1, <1>3 DEF ShownFollows
<1> QED
  BY <1>2, <1>4 DEF GuiInv

\* Every step of the two processes keeps what the widgets show true.
LEMMA NextGui ==
  ASSUME GuiInv, [ViewerNext]_viewerVars
  PROVE  GuiInv'
<1>1. CASE UNCHANGED guiVars
  <2>1. UNCHANGED <<layout, taken, copying, buffer, events, current, shown, switches>>
    BY <1>1 DEF guiVars
  <2>2. BuffersFollow /\ EventsFollow /\ ShownFollows
    BY DEF GuiInv
  <2>3. Announcements' = Announcements /\ Sources' = Sources
    BY <2>1, PlacesKept DEF Announcements
  <2>4. BuffersFollow' /\ EventsFollow'
    BY <2>1, <2>2, <2>3 DEF BuffersFollow, EventsFollow
  <2>5. \A s \in Sources : taken'[s] \in Nat /\ taken'[s] >= taken[s]
    BY <2>1, <2>2 DEF BuffersFollow
  <2>6. ShownFollows'
    BY <2>1, <2>2, <2>5, ShownKept
  <2> QED
    BY <2>4, <2>6 DEF GuiInv
<1>2. CASE \E s \in Sources : BeginCopy(s) \/ EndCopyAndEmit(s)
  BY <1>2, ConsumeStep, EmitStep
<1>3. CASE OnFrameUpdated \/ OnDataSourceChanged
  BY <1>3, ShowStep, SwitchStep
<1>4. \/ UNCHANGED guiVars \/ \E s \in Sources : BeginCopy(s) \/ EndCopyAndEmit(s)
      \/ OnFrameUpdated \/ OnDataSourceChanged
  BY DEF ViewerNext, viewerVars, Detector, Show, CameraPublishes, Consume, Emit
<1> QED
  BY <1>1, <1>2, <1>3, <1>4

\* The invariant says it of every widget.
LEMMA Announced == GuiInv => ShownAsAnnounced
  BY Zenon DEF GuiInv, ShownFollows, ShowsSource, ShownAsAnnounced

\* A widget shows an image of a source of its own and of the current data
\* source, no older than the one announced for it, torn only while the next
\* is written, for any configuration of cameras, detectors and grid
\* (RawCamera.cpp 66-77, GuiController.cpp 84-102).
THEOREM WidgetsShowTheirs == ViewerSpec => []ShownAsAnnounced
<1>1. ViewerInit => GuiInv
  BY InitGui
<1>2. GuiInv /\ [ViewerNext]_viewerVars => GuiInv'
  BY NextGui
<1>3. GuiInv => ShownAsAnnounced
  BY Announced
<1> QED
  BY <1>1, <1>2, <1>3, PTL DEF ViewerSpec

-----------------------------------------------------------------------------
(* Recording: the encoders *)

\* Packets and frames in three queues, each older than the next, the last at most top.
Line(r, c, w, top) ==
  /\ r \in Seq(Nat) /\ c \in Seq(Nat) /\ w \in Seq(Nat) /\ top \in Nat
  /\ Up(r) /\ Up(c) /\ Up(w)
  /\ \A i \in DOMAIN r : r[i] <= top
  /\ \A i \in DOMAIN c : 0 < c[i] /\ c[i] <= top
  /\ \A i \in DOMAIN w : 0 < w[i] /\ w[i] <= top
  /\ \A i \in DOMAIN r, j \in DOMAIN c : r[i] < c[j]
  /\ \A i \in DOMAIN r, j \in DOMAIN w : r[i] < w[j]
  /\ \A i \in DOMAIN c, j \in DOMAIN w : c[i] < w[j]

\* The calls that still have their frame to give, where a call may be, and what it may be.
Pending == {"encode", "slot", "eos"}
CallPcs == Pending \cup {"idle", "packet", "back"}
Calls == [pc : CallPcs, len : Nat]

\* The last frame that may be in the device.
Entered == IF call.pc \in Pending THEN given - 1 ELSE given

\* What has been returned, and the packets and the frames in the device.
CodecInv ==
  /\ kind \in {"nv", "rk"} /\ call \in Calls /\ given \in Nat
  /\ call.pc \in Pending => given # 0
  /\ Line(returned, coded, raw, Entered)

\* A queue without its oldest element.
LEMMA TailIs ==
  ASSUME NEW q \in Seq(Nat), q # <<>>, Up(q)
  PROVE  /\ Tail(q) \in Seq(Nat) /\ Up(Tail(q)) /\ Head(q) = q[1] /\ 1 \in DOMAIN q
         /\ \A i \in DOMAIN Tail(q) : i + 1 \in DOMAIN q /\ Tail(q)[i] = q[i + 1] /\ q[1] < q[i + 1]
<1>1. /\ Tail(q) \in Seq(Nat) /\ Head(q) = q[1] /\ 1 \in DOMAIN q
      /\ DOMAIN q = 1 .. Len(q) /\ Len(q) \in Nat /\ DOMAIN Tail(q) = 1 .. Len(q) - 1
  OBVIOUS
<1>2. \A i \in DOMAIN Tail(q) :
         Tail(q)[i] = q[i + 1] /\ i + 1 \in DOMAIN q /\ i \in Nat /\ 1 < i + 1
  BY <1>1
<1>3. Up(Tail(q))
  BY <1>2 DEF Up
<1>4. \A i \in DOMAIN Tail(q) : q[1] < q[i + 1]
  BY <1>1, <1>2 DEF Up
<1> QED
  BY <1>1, <1>2, <1>3, <1>4

\* A queue with a later element.
LEMMA AppendIs ==
  ASSUME NEW q \in Seq(Nat), NEW x \in Nat, Up(q), \A i \in DOMAIN q : q[i] < x
  PROVE  /\ Append(q, x) \in Seq(Nat) /\ Up(Append(q, x))
         /\ \A i \in DOMAIN Append(q, x) : \/ Append(q, x)[i] = x
                                           \/ i \in DOMAIN q /\ Append(q, x)[i] = q[i]
<1>1. Append(q, x) \in Seq(Nat) /\ Up(Append(q, x))
  BY AppendRises
<1>2. /\ DOMAIN q = 1 .. Len(q) /\ Len(q) \in Nat
      /\ DOMAIN Append(q, x) = 1 .. Len(q) + 1 /\ Append(q, x)[Len(q) + 1] = x
      /\ \A i \in 1 .. Len(q) : Append(q, x)[i] = q[i]
  OBVIOUS
<1>3. \A i \in DOMAIN Append(q, x) : \/ Append(q, x)[i] = x
                                     \/ i \in DOMAIN q /\ Append(q, x)[i] = q[i]
  BY <1>2
<1> QED
  BY <1>1, <1>3

\* A later frame enters the device.
LEMMA LineEnters ==
  ASSUME NEW r, NEW c, NEW w, NEW top, Line(r, c, w, top), NEW x \in Nat, top < x
  PROVE  Line(r, c, Append(w, x), x)
<1>1. /\ r \in Seq(Nat) /\ c \in Seq(Nat) /\ w \in Seq(Nat) /\ top \in Nat
      /\ Up(r) /\ Up(c) /\ Up(w)
      /\ \A i \in DOMAIN w : 0 < w[i] /\ w[i] <= top /\ w[i] \in Nat
      /\ \A i \in DOMAIN c : 0 < c[i] /\ c[i] <= top /\ c[i] \in Nat
      /\ \A i \in DOMAIN r : r[i] <= top /\ r[i] \in Nat
  BY DEF Line
<1> DEFINE v == Append(w, x)
<1>0. \A i \in DOMAIN w : w[i] < x
  BY <1>1
<1>2. /\ v \in Seq(Nat) /\ Up(v)
      /\ \A i \in DOMAIN v : v[i] = x \/ (i \in DOMAIN w /\ v[i] = w[i])
  BY <1>0, <1>1, AppendIs
<1> HIDE DEF v
<1>3. 0 < x /\ x \in Nat /\ top < x
  BY <1>1
<1>4. ASSUME NEW i \in DOMAIN v
      PROVE  /\ 0 < v[i] /\ v[i] <= x
             /\ \A j \in DOMAIN r : r[j] < v[i]
             /\ \A j \in DOMAIN c : c[j] < v[i]
  <2>1. CASE v[i] = x
    BY <1>1, <1>3, <2>1
  <2>2. CASE i \in DOMAIN w /\ v[i] = w[i]
    BY <1>0, <1>1, <2>2 DEF Line
  <2> QED
    BY <1>2, <2>1, <2>2
<1>5. Line(r, c, v, x)
  BY <1>1, <1>2, <1>4 DEF Line
<1> QED
  BY <1>5 DEF v

\* The device encodes its oldest frame.
LEMMA LineEncodes ==
  ASSUME NEW r, NEW c, NEW w, NEW top, Line(r, c, w, top), w # <<>>
  PROVE  Line(r, Append(c, Head(w)), Tail(w), top)
<1>1. /\ r \in Seq(Nat) /\ c \in Seq(Nat) /\ w \in Seq(Nat) /\ top \in Nat
      /\ Up(r) /\ Up(c) /\ Up(w)
  BY DEF Line
<1> DEFINE h == Head(w)
           t == Tail(w)
           d == Append(c, h)
<1>2. /\ t \in Seq(Nat) /\ Up(t) /\ h = w[1] /\ 1 \in DOMAIN w
      /\ \A i \in DOMAIN t : i + 1 \in DOMAIN w /\ t[i] = w[i + 1] /\ w[1] < w[i + 1]
  BY <1>1, TailIs
<1>3. h \in Nat /\ 0 < h /\ h <= top /\ \A i \in DOMAIN c : c[i] < h
  BY <1>1, <1>2 DEF Line
<1>4. /\ d \in Seq(Nat) /\ Up(d)
      /\ \A i \in DOMAIN d : d[i] = h \/ (i \in DOMAIN c /\ d[i] = c[i])
  <2> HIDE DEF h
  <2> QED
    BY <1>1, <1>3, AppendIs
<1>5. \A i \in DOMAIN r : r[i] < h
  BY <1>2 DEF Line
<1> HIDE DEF h, t, d
<1>6. \A i \in DOMAIN d : 0 < d[i] /\ d[i] <= top
  BY <1>3, <1>4 DEF Line
<1>7. \A i \in DOMAIN t : h < t[i] /\ 0 < t[i] /\ t[i] <= top
  BY <1>2 DEF Line
<1>8. \A i \in DOMAIN r, j \in DOMAIN d : r[i] < d[j]
  BY <1>4, <1>5 DEF Line
<1>9. \A i \in DOMAIN r, j \in DOMAIN t : r[i] < t[j]
  BY <1>2 DEF Line
<1>10. \A i \in DOMAIN d, j \in DOMAIN t : d[i] < t[j]
  BY <1>2, <1>4, <1>7 DEF Line
<1>11. Line(r, d, t, top)
  BY <1>1, <1>2, <1>4, <1>6, <1>7, <1>8, <1>9, <1>10 DEF Line
<1> QED
  BY <1>11 DEF d, t, h

\* The oldest packet is returned.
LEMMA LineReturns ==
  ASSUME NEW r, NEW c, NEW w, NEW top, Line(r, c, w, top), c # <<>>
  PROVE  /\ Line(r, Tail(c), w, top) /\ Line(Append(r, Head(c)), Tail(c), w, top)
         /\ Head(c) \in Nat /\ 0 < Head(c) /\ Head(c) <= top
         /\ \A i \in DOMAIN r : r[i] < Head(c)
<1>1. /\ r \in Seq(Nat) /\ c \in Seq(Nat) /\ w \in Seq(Nat) /\ top \in Nat
      /\ Up(r) /\ Up(c) /\ Up(w)
  BY DEF Line
<1> DEFINE h == Head(c)
           t == Tail(c)
           d == Append(r, h)
<1>2. /\ t \in Seq(Nat) /\ Up(t) /\ h = c[1] /\ 1 \in DOMAIN c
      /\ \A i \in DOMAIN t : i + 1 \in DOMAIN c /\ t[i] = c[i + 1] /\ c[1] < c[i + 1]
  BY <1>1, TailIs
<1>3. h \in Nat /\ 0 < h /\ h <= top /\ \A i \in DOMAIN r : r[i] < h
  BY <1>1, <1>2 DEF Line
<1>4. /\ d \in Seq(Nat) /\ Up(d)
      /\ \A i \in DOMAIN d : d[i] = h \/ (i \in DOMAIN r /\ d[i] = r[i])
  <2> HIDE DEF h
  <2> QED
    BY <1>1, <1>3, AppendIs
<1>5. \A j \in DOMAIN w : h < w[j]
  BY <1>2 DEF Line
<1> HIDE DEF h, t, d
<1>6. Line(r, t, w, top)
  BY <1>2 DEF Line
<1>7. Line(d, t, w, top)
  <2>1. \A i \in DOMAIN d : d[i] <= top
    BY <1>3, <1>4 DEF Line
  <2>2. \A i \in DOMAIN d, j \in DOMAIN w : d[i] < w[j]
    BY <1>4, <1>5 DEF Line
  <2>3. \A i \in DOMAIN d, j \in DOMAIN t : d[i] < t[j]
    <3>1. \A j \in DOMAIN t : h < t[j]
      BY <1>2
    <3>2. \A i \in DOMAIN r, j \in DOMAIN t : r[i] < t[j]
      BY <1>6 DEF Line
    <3> QED
      BY <1>4, <3>1, <3>2
  <2> QED
    BY <1>4, <1>6, <2>1, <2>2, <2>3 DEF Line
<1> QED
  BY <1>3, <1>6, <1>7 DEF d, t, h

\* A later bound, and a device that is made anew.
LEMMA LineShrinks ==
  ASSUME NEW r, NEW c, NEW w, NEW top, Line(r, c, w, top), NEW new \in Nat, top <= new
  PROVE  Line(r, c, w, new) /\ Line(r, <<>>, <<>>, new)
<1>1. Line(r, c, w, new)
  <2>1. /\ \A i \in DOMAIN r : r[i] \in Nat /\ r[i] <= top
        /\ \A i \in DOMAIN c : c[i] \in Nat /\ c[i] <= top
        /\ \A i \in DOMAIN w : w[i] \in Nat /\ w[i] <= top
        /\ top \in Nat
    BY DEF Line
  <2> QED
    BY <2>1 DEF Line
<1>2. Line(r, <<>>, <<>>, new)
  <2> DEFINE e == <<>>
  <2>1. e \in Seq(Nat) /\ DOMAIN e = {}
    OBVIOUS
  <2> HIDE DEF e
  <2>2. Line(r, e, e, new)
    BY <1>1, <2>1 DEF Line, Up
  <2> QED
    BY <2>2 DEF e
<1> QED
  BY <1>1, <1>2

\* The step of the abstract codec that a step comes to.
PromisedCodec == [Codec!Decode \/ Codec!Show]_<<given, returned>>

\* A step that returns no packet keeps the invariant, and is that of a call or none, if it keeps
\* the line.
LEMMA CallStep ==
  ASSUME CodecInv, kind' = kind, call' \in Calls, given' = given \/ given' = given + 1,
         call'.pc \in Pending => given' # 0, returned' = returned,
         Line(returned, coded', raw', Entered')
  PROVE  CodecInv' /\ PromisedCodec
<1>1. given' \in Nat /\ kind' \in {"nv", "rk"}
  BY DEF CodecInv
<1>2. CodecInv'
  BY <1>1 DEF CodecInv
<1>3. PromisedCodec
  BY DEF PromisedCodec, Codec!Decode
<1> QED
  BY <1>2, <1>3

\* The device and its queues are left alone, or emptied.
LEMMA QuietCall ==
  ASSUME CodecInv, kind' = kind, call' \in Calls, given' = given \/ given' = given + 1,
         call'.pc \in Pending => given' # 0 /\ (call.pc \in Pending \/ given' = given + 1),
         returned' = returned,
         UNCHANGED <<raw, coded>> \/ (raw' = <<>> /\ coded' = <<>>)
  PROVE  CodecInv' /\ PromisedCodec
<1>1. given \in Nat /\ Line(returned, coded, raw, Entered) /\ Entered \in Nat
  BY DEF CodecInv, Entered, Line
<1>2. Entered' \in Nat /\ Entered <= Entered'
  BY <1>1 DEF Entered
<1>3. Line(returned, coded, raw, Entered') /\ Line(returned, <<>>, <<>>, Entered')
  BY <1>1, <1>2, LineShrinks
<1>4. Line(returned, coded', raw', Entered')
  BY <1>3
<1> QED
  BY <1>4, CallStep

\* A call gives its frame to the device.
LEMMA QueueStep ==
  ASSUME CodecInv, kind' = kind, call.pc \in Pending, call' \in Calls, call'.pc \notin Pending,
         raw' = Append(raw, given), UNCHANGED <<coded, given, returned>>
  PROVE  CodecInv' /\ PromisedCodec
<1>1. /\ given \in Nat /\ given # 0 /\ Line(returned, coded, raw, Entered)
      /\ Entered = given - 1 /\ Entered' = given
  BY DEF CodecInv, Entered
<1>2. Line(returned, coded, Append(raw, given), given)
  <2>1. Entered < given
    BY <1>1
  <2> QED
    BY <1>1, <2>1, LineEnters
<1> QED
  BY <1>1, <1>2, CallStep

\* The device encodes a frame, or a call drops a packet.
LEMMA DeviceStep ==
  ASSUME CodecInv, kind' = kind, call' \in Calls, call'.pc \in Pending <=> call.pc \in Pending,
         UNCHANGED <<given, returned>>,
         \/ raw # <<>> /\ coded' = Append(coded, Head(raw)) /\ raw' = Tail(raw)
         \/ coded # <<>> /\ coded' = Tail(coded) /\ raw' = raw
  PROVE  CodecInv' /\ PromisedCodec
<1>1. /\ Line(returned, coded, raw, Entered) /\ Entered' = Entered
      /\ call.pc \in Pending => given # 0
  BY DEF CodecInv, Entered
<1>2. Line(returned, coded', raw', Entered)
  BY <1>1, LineEncodes, LineReturns DEF CodecInv
<1> QED
  BY <1>1, <1>2, CallStep DEF CodecInv

\* The packet that is returned is later than all before it, and that of a frame of the calls.
LEMMA TakeStep ==
  ASSUME CodecInv, TakePacket
  PROVE  CodecInv' /\ PromisedCodec
<1> DEFINE n == Head(coded)
<1>1. /\ given \in Nat /\ kind \in {"nv", "rk"} /\ Line(returned, coded, raw, Entered)
      /\ call.pc = "packet" /\ coded # <<>>
      /\ coded' = Tail(coded) /\ returned' = Append(returned, n) /\ call' = Back(n)
      /\ UNCHANGED <<kind, raw, given>>
  BY DEF CodecInv, TakePacket
<1>2. /\ Line(Append(returned, n), Tail(coded), raw, Entered)
      /\ n \in Nat /\ 0 < n /\ n <= Entered /\ \A i \in DOMAIN returned : returned[i] < n
  BY <1>1, LineReturns
<1>3. call' \in Calls /\ call'.pc \notin Pending /\ Entered = given
  BY <1>1, <1>2 DEF Back, Calls, CallPcs, Pending, Entered
<1>4. Entered' = Entered
  BY <1>1, <1>3 DEF Entered
<1>5. CodecInv'
  BY <1>1, <1>2, <1>3, <1>4 DEF CodecInv
<1>6. returned \in Seq(Nat)
  BY <1>1 DEF Line
<1>7. Codec!Latest \in Nat /\ Codec!Latest < n
  <2>1. CASE returned = <<>>
    BY <1>2, <2>1 DEF Codec!Latest
  <2>2. CASE returned # <<>>
    <3>1. Len(returned) \in DOMAIN returned /\ returned[Len(returned)] \in Nat
      BY <1>6, <2>2
    <3> QED
      BY <1>2, <2>2, <3>1 DEF Codec!Latest
  <2> QED
    BY <2>1, <2>2
<1>8. n \in Codec!Latest + 1 .. given
  BY <1>1, <1>2, <1>3, <1>7
<1> HIDE DEF n
<1>9. Codec!Show
  BY <1>1, <1>8 DEF Codec!Show
<1> QED
  BY <1>5, <1>9 DEF PromisedCodec

\* What a step may do to the call.
LEMMA PcsAre ==
  ASSUME CodecInv
  PROVE  /\ call \in Calls /\ given \in Nat /\ given + 1 # 0
         /\ \A pc \in CallPcs : At(pc) \in Calls /\ At(pc).pc = pc
         /\ Back(0) \in Calls /\ Back(0).pc = "back"
         /\ "idle" \in CallPcs /\ "encode" \in CallPcs /\ "slot" \in CallPcs /\ "packet" \in CallPcs
         /\ "eos" \in CallPcs /\ {"idle", "packet", "back"} \cap Pending = {}
         /\ call.pc \in Pending => given # 0
  BY DEF CodecInv, Calls, CallPcs, Pending, At, Back

\* The steps of the client.
LEMMA ClientStep ==
  ASSUME CodecInv,
         \/ AppSetup \/ AppEncodes \/ AppEnds \/ AppWrites \/ StartNewRecord \/ FirstRecordFrame
         \/ NextRecordFrame \/ ConvertAndEncode \/ MuxPacket \/ StopAndSaveRecord \/ Quit
  PROVE  CodecInv' /\ PromisedCodec
<1>1. /\ kind' = kind /\ returned' = returned
      /\ UNCHANGED <<raw, coded>> \/ (raw' = <<>> /\ coded' = <<>>)
  BY DEF AppSetup, AppEncodes, AppEnds, AppWrites, StartNewRecord, FirstRecordFrame,
         NextRecordFrame,
         ConvertAndEncode, MuxPacket, StopAndSaveRecord, Quit, EncoderUnchanged, encVars, device,
         Setup, NvSetup, RkSetup, TearDown, NvTearDown, RkTearDown, Fresh
<1>2. \/ call' = call /\ given' = given
      \/ call' = At("idle") /\ given' = given
      \/ call' \in {At("encode"), At("eos")} /\ given' = given + 1
  BY DEF AppSetup, AppEncodes, AppEnds, AppWrites, StartNewRecord, FirstRecordFrame,
         NextRecordFrame,
         ConvertAndEncode, MuxPacket, StopAndSaveRecord, Quit, EncoderUnchanged, encVars, Begin
<1>3. /\ call' \in Calls /\ (given' = given \/ given' = given + 1)
      /\ call'.pc \in Pending => given' # 0 /\ (call.pc \in Pending \/ given' = given + 1)
  BY <1>2, PcsAre DEF Pending
<1> QED
  BY <1>1, <1>3, QuietCall

\* A call that ends without a packet.
LEMMA FailsStep ==
  ASSUME CodecInv, Fails
  PROVE  CodecInv' /\ PromisedCodec
  BY PcsAre, QuietCall DEF Fails, device, Pending

\* The steps of a call and of the device.
LEMMA EncoderStep ==
  ASSUME CodecInv, CallGoesOn \/ CallFails \/ Device
  PROVE  CodecInv' /\ PromisedCodec
<1>0. ASSUME call' \in {Back(0), At("idle")}, UNCHANGED <<kind, raw, coded, given, returned>>
      PROVE  CodecInv' /\ PromisedCodec
  BY <1>0, PcsAre, QuietCall DEF Pending
<1>1. CASE NvEncode
  <2>1. CASE Fails
    BY <2>1, FailsStep
  <2>2. CASE /\ NvQueue /\ call' \in {At("packet"), Back(0)}
             /\ UNCHANGED <<kind, coded, given, returned>>
    BY <1>1, <2>2, PcsAre, QueueStep DEF NvEncode, NvQueue, Pending
  <2>3. CASE call' = At("slot") /\ UNCHANGED <<kind, raw, coded, given, returned>>
    BY <1>1, <2>3, PcsAre, QuietCall DEF NvEncode, Pending
  <2> QED
    BY <1>1, <2>1, <2>2, <2>3 DEF NvEncode, device
<1>2. CASE NvDequeueOutput
  BY <1>2, PcsAre, QueueStep DEF NvDequeueOutput, NvQueue, Pending
<1>3. CASE NvGivesUp \/ NvPacketFails
  BY <1>0, <1>3 DEF NvGivesUp, NvPacketFails, NvWithoutPacket, device
<1>4. CASE NvDequeueFails \/ NvEos
  <2>1. CASE Fails
    BY <2>1, FailsStep
  <2>2. CASE call' = Back(0) /\ UNCHANGED <<kind, raw, coded, given, returned>>
    BY <1>0, <2>2
  <2> QED
    BY <1>4, <2>1, <2>2 DEF NvDequeueFails, NvEos, NvLosesOutput
<1>5. CASE RkPutFrame
  <2>1. CASE Fails
    BY <2>1, FailsStep
  <2>2. CASE /\ raw' = Append(raw, given) /\ call' = At("packet")
             /\ UNCHANGED <<kind, coded, given, returned>>
    BY <1>5, <2>2, PcsAre, QueueStep DEF RkPutFrame, Pending
  <2> QED
    BY <1>5, <2>1, <2>2 DEF RkPutFrame
<1>6. CASE NvTakesPacket \/ RkCopyPacket
  BY <1>6, TakeStep DEF NvTakesPacket, RkCopyPacket
<1>7. CASE RkGetPacketFails
  BY <1>7, FailsStep DEF RkGetPacketFails
<1>8. CASE NvDropsPacket
  BY <1>8, PcsAre, DeviceStep DEF NvDropsPacket, Pending
<1>9. CASE Device
  BY <1>9, PcsAre, DeviceStep DEF Device, Encodes
<1>10. CASE CallCrashes
  BY <1>0, <1>10 DEF CallCrashes, device
<1> QED
  BY <1>1, <1>2, <1>3, <1>4, <1>5, <1>6, <1>7, <1>8, <1>9, <1>10
  DEF CallGoesOn, CallFails, NvCopyPacket, NvCaptureFails

\* At first nothing has been given and nothing returned.
LEMMA InitCodec == RecordingInit => CodecInv /\ Codec!DecInit
<1> SUFFICES ASSUME RecordingInit PROVE CodecInv /\ Codec!DecInit
  OBVIOUS
<1>1. /\ kind \in {"nv", "rk"} /\ raw = <<>> /\ coded = <<>> /\ returned = <<>> /\ given = 0
      /\ call = [pc |-> "idle", len |-> 0]
  BY DEF RecordingInit, EncInit
<1>2. call \in Calls /\ call.pc \notin Pending /\ Entered = 0
  BY <1>1 DEF Calls, CallPcs, Pending, Entered
<1>3. Line(returned, coded, raw, 0)
  <2>1. /\ returned \in Seq(Nat) /\ coded \in Seq(Nat) /\ raw \in Seq(Nat)
        /\ DOMAIN returned = {} /\ DOMAIN coded = {} /\ DOMAIN raw = {}
    BY <1>1
  <2> QED
    BY <2>1 DEF Line, Up
<1> QED
  BY <1>1, <1>2, <1>3 DEF CodecInv, Codec!DecInit

\* Every step of the program keeps the queues in line and is a step of the codec or none.
LEMMA NextCodec == CodecInv /\ [RecordingNext]_recordingVars => CodecInv' /\ PromisedCodec
<1> SUFFICES ASSUME CodecInv, [RecordingNext]_recordingVars PROVE CodecInv' /\ PromisedCodec
  OBVIOUS
<1>1. CASE RecordSteps
  BY <1>1, ClientStep, EncoderStep DEF RecordSteps
<1>2. CASE UNCHANGED encVars
  BY <1>2, PcsAre, QuietCall DEF encVars, device
<1> QED
  BY <1>1, <1>2 DEF RecordingNext, recordingVars

\* The encoders return the packets of their frames in the order of the calls, none twice, however
\* many buffers there are, whichever calls fail, and across recordings that end with frames in
\* the device.
THEOREM EncodersImplement == RecordingSpec => ImplementsCodec
<1>1. CodecInv /\ [RecordingNext]_recordingVars => CodecInv'
  BY NextCodec
<1>2. CodecInv /\ [RecordingNext]_recordingVars => [Codec!Decode \/ Codec!Show]_<<given, returned>>
  BY NextCodec DEF PromisedCodec
<1>3. RecordingInit => CodecInv /\ Codec!DecInit
  BY InitCodec
<1> QED
  BY <1>1, <1>2, <1>3, PTL DEF RecordingSpec, ImplementsCodec, Codec!DecSpec

(* The input buffers of nvVideoEnc *)

\* Whether the buffer that is in_use is that of a frame on its way.
InUse == at \in {"convert", "crashed"} \/ call.pc \in Pending

\* A buffer that is in_use and no frame's, and those lost before, are paid for by failed calls.
PoolInv ==
  /\ held \in BOOLEAN /\ leaked \in Nat /\ failed \in Nat
  /\ at \in {"setup", "frames", "idle", "convert", "ended", "crashed"} => call.pc = "idle"
  /\ kind = "rk" => ~held
  /\ leaked <= failed /\ (held /\ ~InUse => leaked < failed)

\* The client takes a buffer for a frame; what it takes without one is lost with a failed call.
LEMMA ClientPool ==
  ASSUME PoolInv,
         \/ AppSetup \/ AppEncodes \/ AppEnds \/ AppWrites \/ StartNewRecord \/ FirstRecordFrame
         \/ NextRecordFrame \/ ConvertAndEncode \/ MuxPacket \/ StopAndSaveRecord \/ Quit
  PROVE  PoolInv'
<1>1. CASE AppSetup \/ StartNewRecord \/ NextRecordFrame \/ StopAndSaveRecord \/ Quit
  <2>1. /\ at \in {"setup", "idle"} /\ at' \in {"frames", "idle", "convert", "ended"}
        /\ UNCHANGED <<kind, held, leaked, failed, call>>
    BY <1>1 DEF AppSetup, StartNewRecord, NextRecordFrame, StopAndSaveRecord, Quit, Goto,
                EncoderUnchanged, encVars, pool
  <2> QED
    BY <2>1 DEF PoolInv, InUse, Pending
<1>2. CASE AppEncodes \/ AppEnds \/ FirstRecordFrame
  <2>1. /\ at \in {"frames", "idle"} /\ UNCHANGED <<kind, failed>>
        /\ \/ GetInputBuffer /\ at' \in {"coding", "last"} /\ call'.pc \in {"encode", "eos"}
           \/ GetInputBuffer /\ at' \in {"crashed", "convert"} /\ call' = call
           \/ at' \in {"ended", "crashed"} /\ UNCHANGED <<held, leaked, call>>
    BY <1>2 DEF AppEncodes, AppEnds, FirstRecordFrame, Goto, Begin, At, EncoderUnchanged, encVars,
                pool
  <2>2. ASSUME GetInputBuffer
        PROVE  /\ held' \in BOOLEAN /\ (kind = "rk" => ~held')
               /\ leaked' = leaked \/ (held /\ leaked' = leaked + 1)
    <3>1. CASE NvGetInputBuffer
      <4>1. held' = TRUE /\ kind = "nv" /\ held \in BOOLEAN
        BY <3>1 DEF NvGetInputBuffer, PoolInv
      <4>2. CASE held = TRUE
        BY <3>1, <4>1, <4>2 DEF NvGetInputBuffer
      <4>3. CASE held = FALSE
        BY <3>1, <4>1, <4>3 DEF NvGetInputBuffer
      <4> QED
        BY <4>1, <4>2, <4>3
    <3>2. CASE RkGetInputBuffer
      BY <3>2 DEF RkGetInputBuffer, pool, PoolInv
    <3> QED
      BY <2>2, <3>1, <3>2 DEF GetInputBuffer
  <2> QED
    BY <2>1, <2>2 DEF PoolInv, InUse, Pending
<1>3. CASE AppWrites \/ MuxPacket
  <2>1. /\ call.pc = "back" /\ call'.pc = "idle" /\ at \in {"coding", "last", "mux"}
        /\ at' \in {"frames", "ended", "idle"} /\ UNCHANGED <<kind, held, leaked, failed>>
    BY <1>3 DEF AppWrites, MuxPacket, Goto, At, pool
  <2> QED
    BY <2>1 DEF PoolInv, InUse, Pending
<1>4. CASE ConvertAndEncode
  <2>1. /\ at = "convert" /\ UNCHANGED <<kind, held, leaked>>
        /\ \/ failed' = failed + 1 /\ at' = "idle" /\ call' = call
           \/ failed' = failed /\ at' = "mux" /\ call'.pc = "encode"
    BY <1>4 DEF ConvertAndEncode, Goto, Begin, At, pool
  <2> QED
    BY <2>1 DEF PoolInv, InUse, Pending
<1> QED
  BY <1>1, <1>2, <1>3, <1>4

\* A call releases its buffer, or fails.
LEMMA EncoderPool ==
  ASSUME PoolInv, kind \in {"nv", "rk"}, CallGoesOn \/ CallFails \/ Device
  PROVE  PoolInv'
<1>1. CASE CallCrashes
  <2>1. /\ kind = "rk" /\ at' = "crashed" /\ call'.pc = "idle"
        /\ UNCHANGED <<kind, held, leaked, failed>>
    BY <1>1 DEF CallCrashes, RkNoContext, Goto, At, pool
  <2> QED
    BY <2>1 DEF PoolInv, InUse
<1>2. CASE ~CallCrashes
  <2>1. UNCHANGED <<kind, at>>
    BY <1>2 DEF CallGoesOn, CallFails, Device, clientVars, NvEncode, NvDequeueOutput, NvGivesUp,
           NvEos, NvLosesOutput, RkPutFrame, NvCopyPacket, NvTakesPacket, RkCopyPacket, TakePacket,
           NvDequeueFails, NvCaptureFails, NvDropsPacket, NvPacketFails, NvWithoutPacket,
           RkGetPacketFails, Fails, Encodes
  <2>2. \/ failed' = failed + 1 /\ call.pc # "idle" /\ UNCHANGED <<held, leaked>>
        \/ /\ held' = FALSE /\ call.pc # "idle" /\ UNCHANGED <<leaked, failed>>
        \/ /\ UNCHANGED <<held, leaked, failed>>
           /\ \/ call' = call
              \/ call.pc \in Pending /\ call'.pc \in Pending
              \/ kind = "rk" /\ call.pc # "idle"
              \/ call.pc = "packet"
    <3>1. CASE Device
      BY <3>1 DEF Device, Encodes, pool
    <3>2. CASE NvEncode
      BY <3>2 DEF NvEncode, Fails, NvQueue, pool, At, Pending
    <3>3. CASE NvDequeueOutput \/ NvDequeueFails \/ NvEos
      BY <3>3 DEF NvDequeueOutput, NvQueue, NvDequeueFails, NvEos, NvLosesOutput, Fails, pool
    <3>4. CASE NvGivesUp \/ NvPacketFails \/ NvTakesPacket \/ NvDropsPacket
      BY <3>4 DEF NvGivesUp, NvPacketFails, NvWithoutPacket, NvTakesPacket, TakePacket,
             NvDropsPacket, pool
    <3>5. CASE RkPutFrame \/ RkCopyPacket \/ RkGetPacketFails
      BY <3>5 DEF RkPutFrame, RkCopyPacket, TakePacket, RkGetPacketFails, Fails, pool
    <3> QED
      BY <1>2, <3>1, <3>2, <3>3, <3>4, <3>5
      DEF CallGoesOn, CallFails, NvCopyPacket, NvCaptureFails
  <2>3. at \notin {"setup", "frames", "idle", "convert", "ended", "crashed"} \/ call.pc = "idle"
    BY DEF PoolInv
  <2>4. CASE failed' = failed + 1 /\ call.pc # "idle" /\ UNCHANGED <<held, leaked>>
    BY <2>1, <2>3, <2>4 DEF PoolInv, InUse
  <2>5. CASE held' = FALSE /\ call.pc # "idle" /\ UNCHANGED <<leaked, failed>>
    BY <2>1, <2>3, <2>5 DEF PoolInv, InUse
  <2>6. CASE /\ UNCHANGED <<held, leaked, failed>>
             /\ \/ call' = call
                \/ call.pc \in Pending /\ call'.pc \in Pending
                \/ kind = "rk" /\ call.pc # "idle"
                \/ call.pc = "packet"
    BY <2>1, <2>3, <2>6 DEF PoolInv, InUse, Pending
  <2> QED
    BY <2>2, <2>4, <2>5, <2>6
<1> QED
  BY <1>1, <1>2

\* A buffer of nvVideoEnc's pool is lost only with a call that failed, never came or was for the
\* EOS: frames that are encoded, and calls that time out, lose none.
THEOREM BuffersPaid == RecordingSpec => []LeaksOnlyOnFailure
<1>1. RecordingInit => PoolInv
  <2> SUFFICES ASSUME RecordingInit PROVE PoolInv
    OBVIOUS
  <2>1. leaked = 0 /\ failed = 0 /\ call.pc = "idle"
    BY DEF RecordingInit, EncInit
  <2>2. ~held
    BY Zenon DEF RecordingInit, EncInit
  <2>3. held \in BOOLEAN
    BY Zenon DEF RecordingInit, EncInit
  <2> QED
    BY <2>1, <2>2, <2>3 DEF PoolInv
<1>2. CodecInv /\ PoolInv /\ [RecordingNext]_recordingVars => PoolInv'
  <2> SUFFICES ASSUME CodecInv, PoolInv, [RecordingNext]_recordingVars PROVE PoolInv'
    OBVIOUS
  <2>1. CASE RecordSteps
    BY <2>1, ClientPool, EncoderPool DEF RecordSteps, CodecInv
  <2>2. CASE UNCHANGED <<encVars, clientVars>>
    BY <2>2 DEF PoolInv, InUse, encVars, clientVars, pool
  <2> QED
    BY <2>1, <2>2 DEF RecordingNext, recordingVars
<1>3. CodecInv /\ [RecordingNext]_recordingVars => CodecInv'
  BY NextCodec
<1>4. RecordingInit => CodecInv
  BY InitCodec
<1>5. PoolInv => LeaksOnlyOnFailure
  BY DEF PoolInv, LeaksOnlyOnFailure
<1> QED
  BY <1>1, <1>2, <1>3, <1>4, <1>5, PTL DEF RecordingSpec

(* The files *)

\* The file that is being written, by the recorder or by MuxApp.
Recorded == client = "recorder" /\ enabled /\ at # "ended"
Muxed == tool.pc \in {"add", "copy"}

\* The files of packets of S.
Files(S) == [headers : Nat, packets : Seq(S), stamps : Seq(Nat), trailers : Nat]

\* A file that is in order, ended or not.
FileShape == FileFormed /\ count \in Nat /\ \E S : file \in Files(S)

\* The file can take its next packet.
Continues ==
  /\ FileShape /\ file.trailers = 0 /\ count = Len(file.packets)
  /\ headerWritten <=> file.headers = 1

\* The file is as open made it, and its header is still to be written.
Begins == FileShape /\ file = EmptyFile /\ ~headerWritten

\* Who is where: the tools run when the recorder or EncodeApp has ended.
PlacesInv ==
  /\ client # "recorder" => ~enabled /\ at \notin {"idle", "convert", "mux"}
  /\ at \in {"convert", "mux"} => enabled /\ ~first
  /\ client = "recorder" => tool.pc \notin {"mux", "add", "copy", "close"}
  /\ tool.pc # "none" => at = "ended"
  /\ "pc" \in DOMAIN tool

\* While the recorder or MuxApp has a file open it begins or continues, and where there is none
\* open no header is taken for written.
FileInv ==
  /\ PlacesInv /\ FileShape
  /\ (Recorded /\ first) \/ tool.pc = "add" => Begins
  /\ (Recorded /\ ~first) \/ tool.pc = "copy" => Continues
  /\ client = "recorder" /\ ~enabled => ~headerWritten
  /\ client # "recorder" /\ tool.pc \in {"none", "mux"} => ~headerWritten

\* openContainerMux makes an empty file.
LEMMA OpenFile ==
  ASSUME OpenContainerMux, count \in Nat
  PROVE  /\ FileShape' /\ UNCHANGED headerWritten
         /\ ~headerWritten => Begins'
<1>1. file' = EmptyFile /\ UNCHANGED <<headerWritten, count>>
  BY DEF OpenContainerMux
<1>2. EmptyFile \in Files(Nat)
  BY DEF EmptyFile, Files
<1>3. FileFormed'
  BY <1>1 DEF FileFormed, EmptyFile
<1> QED
  BY <1>1, <1>2, <1>3 DEF FileShape, Begins

\* addStream starts the count anew, and so fits an empty file.
LEMMA AddFile ==
  ASSUME Begins, AddStream
  PROVE  Continues'
<1>1. file' = EmptyFile /\ count' = 0 /\ ~headerWritten' /\ UNCHANGED file
  BY DEF Begins, AddStream
<1>2. FileShape'
  BY <1>1 DEF FileShape, FileFormed, Begins
<1> QED
  BY <1>1, <1>2 DEF Continues, EmptyFile

\* A header is put before the first packet and only there.
LEMMA HeadedFile ==
  ASSUME Continues
  PROVE  /\ \E S : Headed \in Files(S)
         /\ Headed.headers = 1 /\ Headed.packets = file.packets
         /\ Headed.stamps = file.stamps /\ Headed.trailers = file.trailers
<1>1. PICK S : file \in Files(S)
  BY DEF Continues, FileShape
<1>2. CASE headerWritten
  BY <1>1, <1>2 DEF Headed, Files, Continues
<1>3. CASE ~headerWritten
  <2>1. file.headers = 0
    BY <1>1, <1>3 DEF Continues, FileShape, FileFormed, Files
  <2> QED
    BY <1>1, <1>3, <2>1 DEF Headed, Files
<1> QED
  BY <1>2, <1>3

\* writeStreamPacket leaves a file to which the next packet can be added, refused or not.
LEMMA WriteFile ==
  ASSUME Continues, NEW p, WriteStreamPacket(p) \/ RefusePacket
  PROVE  Continues'
<1>1. CASE UNCHANGED muxVars
  BY <1>1 DEF muxVars, Continues, FileShape, FileFormed
<1>2. CASE headerWritten' = TRUE /\ file' = Headed /\ UNCHANGED count
  <2>1. FileFormed'
    BY <1>2, HeadedFile DEF FileFormed, Continues, FileShape
  <2> QED
    BY <1>2, <2>1, HeadedFile DEF Continues, FileShape
<1>3. CASE /\ headerWritten' = TRUE /\ count' = count + 1
           /\ file' = [Headed EXCEPT !.packets = Append(@, p), !.stamps = Append(@, count)]
  <2>1. PICK S : Headed \in Files(S)
    BY HeadedFile
  <2> DEFINE T == S \cup {p}
  <2>2. /\ file.packets \in Seq(T) /\ p \in T /\ file.stamps \in Seq(Nat) /\ count \in Nat
        /\ Headed.packets = file.packets /\ Headed.stamps = file.stamps
    BY <2>1, HeadedFile DEF Files, Continues, FileShape
  <2> HIDE DEF T
  <2>3. /\ file'.packets = Append(file.packets, p) /\ file'.stamps = Append(file.stamps, count)
        /\ file'.headers = 1 /\ file'.trailers = 0 /\ file' \in Files(T)
    <3>1. /\ Headed \in Files(T) /\ Headed.headers = 1 /\ Headed.trailers = 0
          /\ Append(file.packets, p) \in Seq(T) /\ Append(file.stamps, count) \in Seq(Nat)
      BY <2>1, <2>2, HeadedFile DEF Files, Continues
    <3> QED
      BY <1>3, <2>2, <3>1 DEF Files
  <2>4. file.stamps = [i \in DOMAIN file.packets |-> i - 1] /\ count = Len(file.packets)
    BY DEF Continues, FileShape, FileFormed
  <2>5. /\ DOMAIN file.packets = 1 .. count /\ Len(file.stamps) = count
        /\ Len(file'.packets) = count + 1 /\ DOMAIN file'.packets = 1 .. count + 1
    BY <2>2, <2>3, <2>4
  <2>6. file'.stamps = [i \in DOMAIN file'.packets |-> i - 1]
    BY <2>2, <2>3, <2>4, <2>5
  <2>7. FileFormed'
    BY <2>3, <2>6 DEF FileFormed
  <2> QED
    BY <1>3, <2>2, <2>3, <2>5, <2>7 DEF Continues, FileShape
<1> QED
  BY <1>1, <1>2, <1>3 DEF WriteStreamPacket, RefusePacket

\* endStreamMux ends a file that had no trailer, and the next one gets a header of its own.
LEMMA EndFile ==
  ASSUME Begins \/ Continues, EndStreamMux
  PROVE  FileShape' /\ ~headerWritten'
<1>1. PICK S : file \in Files(S)
  BY DEF Begins, Continues, FileShape
<1>2. file.trailers = 0 /\ FileShape
  BY DEF Begins, Continues, EmptyFile
<1>3. file' = [file EXCEPT !.trailers = @ + 1] /\ headerWritten' = FALSE /\ UNCHANGED count
  BY DEF EndStreamMux
<1>4. /\ file' \in Files(S) /\ file'.headers = file.headers /\ file'.packets = file.packets
      /\ file'.stamps = file.stamps /\ file'.trailers = 1
  BY <1>1, <1>2, <1>3 DEF Files
<1>5. FileFormed'
  BY <1>2, <1>4 DEF FileShape, FileFormed
<1> QED
  BY <1>2, <1>3, <1>4, <1>5 DEF FileShape

\* A step that leaves the file alone.
LEMMA SameFile ==
  ASSUME UNCHANGED <<headerWritten, count, file>>
  PROVE  /\ FileShape => FileShape'
         /\ Begins => Begins'
         /\ Continues => Continues'
BY DEF FileShape, FileFormed, Begins, Continues

\* A step that leaves the file alone, of a client that is neither recording nor between frames.
LEMMA QuietPlace ==
  ASSUME FileInv, UNCHANGED <<client, enabled, first, tool, headerWritten, count, file>>,
         at' = at \/ at \notin {"idle", "convert", "mux", "ended"},
         at' = at \/ at' \notin {"idle", "convert", "mux"}
  PROVE  FileInv'
BY SameFile DEF FileInv, PlacesInv, Recorded

\* EncodeApp has no container; the recorder opens a file, writes to it and ends it.
LEMMA ClientFile ==
  ASSUME FileInv, UNCHANGED tool,
         \/ AppSetup \/ AppEncodes \/ AppEnds \/ AppWrites \/ StartNewRecord \/ FirstRecordFrame
         \/ NextRecordFrame \/ ConvertAndEncode \/ MuxPacket \/ StopAndSaveRecord \/ Quit
  PROVE  FileInv'
<1>1. CASE AppSetup \/ AppEncodes \/ AppEnds \/ AppWrites
  <2>1. /\ UNCHANGED <<client, enabled, first, headerWritten, count, file>>
        /\ at \in {"setup", "frames", "coding", "last"}
        /\ at' \in {"frames", "ended", "coding", "crashed", "last"}
    BY <1>1 DEF AppSetup, AppEncodes, AppEnds, AppWrites, Goto, muxVars
  <2> QED
    BY <2>1, QuietPlace
<1>2. CASE StartNewRecord
  <2>1. /\ client = "recorder" /\ at = "idle" /\ ~enabled /\ OpenContainerMux
        /\ enabled' = TRUE /\ first' = TRUE /\ UNCHANGED <<client, at>>
    BY <1>2 DEF StartNewRecord
  <2>2. FileShape' /\ Begins'
    BY <2>1, OpenFile DEF FileInv, FileShape
  <2> QED
    BY <2>1, <2>2 DEF FileInv, PlacesInv, Recorded
<1>3. CASE FirstRecordFrame
  <2>1. /\ at = "idle" /\ enabled /\ first /\ AddStream /\ first' = FALSE
        /\ at' \in {"convert", "crashed"} /\ UNCHANGED <<client, enabled>>
    BY <1>3 DEF FirstRecordFrame
  <2>2. client = "recorder" /\ Continues'
    BY <2>1, AddFile DEF FileInv, PlacesInv, Recorded
  <2> QED
    BY <2>1, <2>2 DEF FileInv, PlacesInv, Recorded, Continues
<1>4. CASE NextRecordFrame \/ ConvertAndEncode
  <2>1. /\ at \in {"idle", "convert"} /\ enabled /\ ~first /\ at' \in {"idle", "convert", "mux"}
        /\ UNCHANGED <<client, enabled, first, headerWritten, count, file>>
    BY <1>4 DEF NextRecordFrame, ConvertAndEncode, Goto, muxVars, FileInv, PlacesInv
  <2> QED
    BY <2>1, SameFile DEF FileInv, PlacesInv, Recorded
<1>5. CASE MuxPacket
  <2>1. /\ at = "mux" /\ WriteStreamPacket(call.len) /\ at' = "idle"
        /\ UNCHANGED <<client, enabled, first>>
    BY <1>5 DEF MuxPacket, Goto
  <2>2. client = "recorder" /\ enabled /\ ~first /\ Continues'
    BY <2>1, WriteFile DEF FileInv, PlacesInv, Recorded
  <2> QED
    BY <2>1, <2>2 DEF FileInv, PlacesInv, Recorded, Continues
<1>6. CASE StopAndSaveRecord
  <2>1. /\ at = "idle" /\ enabled /\ EndStreamMux /\ ~enabled' /\ UNCHANGED <<client, at>>
    BY <1>6 DEF StopAndSaveRecord
  <2>2. client = "recorder" /\ (Begins \/ Continues)
    BY <2>1 DEF FileInv, PlacesInv, Recorded
  <2>3. FileShape' /\ ~headerWritten'
    BY <2>1, <2>2, EndFile
  <2> QED
    BY <2>1, <2>2, <2>3 DEF FileInv, PlacesInv, Recorded
<1>7. CASE Quit
  <2>1. /\ client = "recorder" /\ at = "idle" /\ at' = "ended"
        /\ UNCHANGED <<client, enabled, first, headerWritten, count, file>>
    BY <1>7 DEF Quit, Goto
  <2> QED
    BY <2>1, SameFile DEF FileInv, PlacesInv, Recorded
<1> QED
  BY <1>1, <1>2, <1>3, <1>4, <1>5, <1>6, <1>7

\* DemuxApp reads the container and writes files of its own.
LEMMA DemuxPlaces ==
  ASSUME DemuxSteps, "pc" \in DOMAIN tool
  PROVE  /\ tool.pc \in {"demux", "info", "read", "trailers"}
         /\ tool'.pc \in {"info", "read", "trailers", "ended", "crashed"}
         /\ "pc" \in DOMAIN tool'
<1>1. CASE OpenContainerDemux
  BY <1>1 DEF OpenContainerDemux, Failing
<1>2. CASE GetStreamWriters
  <2>1. PICK ws :
          \/ tool' = [tool EXCEPT !.pc = "read", !.writers = ws]
          \/ tool' = Failing([tool EXCEPT !.pc = "read", !.writers = ws])
    BY <1>2 DEF GetStreamWriters
  <2> QED
    BY <1>2, <2>1 DEF GetStreamWriters, Failing
<1>3. CASE ReadStreamPacket
  <2>1. /\ tool.pc = "read"
        /\ DOMAIN tool' = DOMAIN tool /\ tool'.pc \in {"read", "crashed"}
    BY <1>3 DEF ReadStreamPacket, Failing
  <2> QED
    BY <2>1
<1>4. CASE EndOfInput
  BY <1>4 DEF EndOfInput, Failing
<1>5. CASE WriteTrailers
  BY <1>5 DEF WriteTrailers
<1> QED
  BY <1>1, <1>2, <1>3, <1>4, <1>5 DEF DemuxSteps

\* MuxApp writes the one file, from an opening to the trailer.
LEMMA MuxFile ==
  ASSUME FileInv, MuxSteps, UNCHANGED clientVars
  PROVE  FileInv'
<1> USE DEF clientVars
<1>1. client # "recorder" /\ at = "ended" /\ tool.pc \in {"mux", "add", "copy", "close"}
  BY DEF MuxSteps, OpenStreamReader, AddReader, CopyPacket, EndCopy, CloseReader, FileInv, PlacesInv
<1>2. CASE OpenStreamReader
  <2>1. /\ tool.pc = "mux" /\ OpenContainerMux
        /\ tool'.pc \in {"add", "crashed"} /\ "pc" \in DOMAIN tool'
    BY <1>2 DEF OpenStreamReader, FileInv, PlacesInv
  <2>2. FileShape' /\ Begins'
    BY <1>1, <2>1, OpenFile DEF FileInv, FileShape
  <2> QED
    BY <1>1, <2>1, <2>2 DEF FileInv, PlacesInv, Recorded
<1>3. CASE AddReader
  <2>1. tool.pc = "add" /\ AddStream /\ tool'.pc = "copy" /\ "pc" \in DOMAIN tool'
    BY <1>3 DEF AddReader, FileInv, PlacesInv
  <2>2. Continues'
    BY <2>1, AddFile DEF FileInv
  <2> QED
    BY <1>1, <2>1, <2>2 DEF FileInv, PlacesInv, Recorded, Continues
<1>4. CASE CopyPacket
  <2>1. /\ tool.pc = "copy" /\ tool'.pc = "copy" /\ "pc" \in DOMAIN tool'
        /\ WriteStreamPacket(Head(tool.source)) \/ RefusePacket
    BY <1>4 DEF CopyPacket, Failing, FileInv, PlacesInv
  <2>2. Continues'
    BY <2>1, WriteFile DEF FileInv
  <2> QED
    BY <1>1, <2>1, <2>2 DEF FileInv, PlacesInv, Recorded, Continues
<1>5. CASE EndCopy
  <2>1. /\ tool.pc = "copy" /\ "pc" \in DOMAIN tool'
        /\ \/ EndStreamMux /\ tool'.pc = "close"
           \/ tool'.pc = "crashed" /\ UNCHANGED muxVars
    BY <1>5 DEF EndCopy, Failing, FileInv, PlacesInv
  <2>2. FileShape'
    BY <2>1, EndFile, SameFile DEF FileInv, muxVars
  <2> QED
    BY <1>1, <2>1, <2>2 DEF FileInv, PlacesInv, Recorded
<1>6. CASE CloseReader
  <2>1. /\ tool'.pc \in {"crashed", "ended"} /\ "pc" \in DOMAIN tool'
        /\ UNCHANGED <<headerWritten, count, file>>
    BY <1>6 DEF CloseReader, FileInv, PlacesInv
  <2> QED
    BY <1>1, <2>1, SameFile DEF FileInv, PlacesInv, Recorded
<1> QED
  BY <1>2, <1>3, <1>4, <1>5, <1>6 DEF MuxSteps

\* Of the two samples only MuxApp writes this file.
LEMMA ToolFile ==
  ASSUME FileInv, ToolSteps, UNCHANGED clientVars
  PROVE  FileInv'
<1>1. CASE StartTool
  <2>1. /\ at = "ended" /\ tool.pc = "none" /\ "pc" \in DOMAIN tool'
        /\ client = "recorder" => tool'.pc = "demux"
        /\ tool'.pc \in {"mux", "demux"} /\ UNCHANGED muxVars
    BY <1>1 DEF StartTool, Starts, NoTool
  <2> QED
    BY <2>1, SameFile DEF FileInv, PlacesInv, Recorded, clientVars, muxVars
<1>2. CASE DemuxSteps /\ UNCHANGED muxVars
  BY <1>2, DemuxPlaces, SameFile DEF FileInv, PlacesInv, Recorded, clientVars, muxVars
<1>3. CASE MuxSteps
  BY <1>3, MuxFile
<1> QED
  BY <1>1, <1>2, <1>3 DEF ToolSteps

\* At first there is no file.
LEMMA InitFile == RecordingInit => FileInv
<1> SUFFICES ASSUME RecordingInit PROVE FileInv
  OBVIOUS
<1>1. /\ file = EmptyFile /\ count = 0 /\ ~headerWritten /\ ~enabled
      /\ tool = NoTool
      /\ client # "recorder" => at \in {"setup", "ended"}
      /\ at \in {"setup", "idle", "ended"}
  BY DEF RecordingInit, MuxInit, ToolInit
<1>2. EmptyFile \in Files(Nat) /\ FileFormed
  BY <1>1 DEF EmptyFile, Files, FileFormed
<1>3. tool.pc = "none" /\ "pc" \in DOMAIN tool
  BY <1>1 DEF NoTool
<1> QED
  BY <1>1, <1>2, <1>3 DEF FileInv, FileShape, PlacesInv, Recorded

\* Every step of the program keeps the file in order.
LEMMA NextFile == FileInv /\ [RecordingNext]_recordingVars => FileInv'
<1> SUFFICES ASSUME FileInv, [RecordingNext]_recordingVars PROVE FileInv'
  OBVIOUS
<1>1. CASE RecordSteps /\ UNCHANGED toolVars
  <2>1. CASE CallGoesOn \/ CallFails \/ Device
    <3>1. /\ UNCHANGED <<client, enabled, first, headerWritten, count, file>>
          /\ at' = at \/ (at \in {"coding", "last", "mux"} /\ at' = "crashed")
      BY <2>1 DEF CallGoesOn, CallFails, Device, CallCrashes, Goto, muxVars, clientVars
    <3>2. CASE at = "mux" /\ at' = "crashed"
      BY <1>1, <3>1, <3>2, SameFile DEF FileInv, PlacesInv, Recorded, toolVars
    <3>3. CASE ~(at = "mux" /\ at' = "crashed")
      BY <1>1, <3>1, <3>3, QuietPlace DEF toolVars
    <3> QED
      BY <3>2, <3>3
  <2> QED
    BY <1>1, <2>1, ClientFile DEF RecordSteps, toolVars
<1>2. CASE ToolSteps /\ UNCHANGED clientVars
  BY <1>2, ToolFile
<1>3. CASE UNCHANGED recordingVars
  BY <1>3, QuietPlace DEF recordingVars, muxVars, clientVars, toolVars
<1> QED
  BY <1>1, <1>2, <1>3 DEF RecordingNext

-----------------------------------------------------------------------------
(* Recording: what the tools copy *)

\* The places are as many as the next is, if it is one.
LEMMA NextPlace ==
  ASSUME NEW q, NEW k \in Nat
  PROVE  /\ IsFiniteSet(Places(q, k)) /\ Cardinality(Places(q, k)) \in Nat
         /\ q[k + 1].stream # 0 => Places(q, k + 1) = Places(q, k)
         /\ q[k + 1].stream = 0 =>
              Cardinality(Places(q, k + 1)) = Cardinality(Places(q, k)) + 1
<1>1. IsFiniteSet(Places(q, k)) /\ Cardinality(Places(q, k)) \in Nat
  <2>1. IsFiniteSet(1 .. k)
    BY FS_Interval
  <2>2. Places(q, k) \subseteq 1 .. k
    BY DEF Places
  <2> QED
    BY <2>1, <2>2, FS_Subset, FS_CardinalityType
<1>2. 1 .. k + 1 = 1 .. k \cup {k + 1} /\ k + 1 \notin 1 .. k
  OBVIOUS
<1>3. q[k + 1].stream # 0 => Places(q, k + 1) = Places(q, k)
  BY <1>2 DEF Places
<1>4. ASSUME q[k + 1].stream = 0
      PROVE  Cardinality(Places(q, k + 1)) = Cardinality(Places(q, k)) + 1
  <2>1. Places(q, k + 1) = Places(q, k) \cup {k + 1} /\ k + 1 \notin Places(q, k)
    BY <1>2, <1>4 DEF Places
  <2> QED
    BY <1>1, <2>1, FS_AddElement
<1> QED
  BY <1>1, <1>3, <1>4

\* A place is the first, the second, ... of those up to k.
LEMMA PlaceIs ==
  ASSUME NEW q, NEW k \in Nat, NEW i \in Places(q, k)
  PROVE  Cardinality(Places(q, i)) \in 1 .. Cardinality(Places(q, k))
<1>1. i \in 1 .. k /\ i \in Nat /\ q[i].stream = 0
  BY DEF Places
<1>2. Places(q, i) \subseteq Places(q, k) /\ i \in Places(q, i)
  BY <1>1 DEF Places
<1>3. /\ IsFiniteSet(Places(q, k)) /\ Cardinality(Places(q, i)) \in Nat
      /\ Cardinality(Places(q, k)) \in Nat /\ IsFiniteSet(Places(q, i))
  BY <1>1, NextPlace
<1>4. Cardinality(Places(q, i)) <= Cardinality(Places(q, k))
  BY <1>2, <1>3, FS_Subset
<1>5. Cardinality(Places(q, i)) # 0
  BY <1>2, <1>3, FS_EmptySet
<1> QED
  BY <1>3, <1>4, <1>5

\* A packet of stream 0 is added, ...
LEMMA HasNext ==
  ASSUME NEW S, NEW p \in Seq(S), NEW q, NEW k \in Nat, Has(p, q, k), q[k + 1] \in S,
         q[k + 1].stream = 0
  PROVE  Has(Append(p, q[k + 1]), q, k + 1)
<1>1. /\ Len(p) = Cardinality(Places(q, k)) /\ Len(p) \in Nat
      /\ Cardinality(Places(q, k + 1)) = Len(p) + 1
  BY NextPlace DEF Has
<1>2. /\ Len(Append(p, q[k + 1])) = Len(p) + 1
      /\ Append(p, q[k + 1])[Len(p) + 1] = q[k + 1]
      /\ \A n \in 1 .. Len(p) : Append(p, q[k + 1])[n] = p[n]
  BY <1>1
<1>3. ASSUME NEW i \in Places(q, k + 1)
      PROVE  Append(p, q[k + 1])[Cardinality(Places(q, i))] = q[i]
  <2>1. CASE i = k + 1
    BY <1>1, <1>2, <2>1
  <2>2. CASE i # k + 1
    <3>1. i \in Places(q, k)
      BY <2>2 DEF Places
    <3>2. Cardinality(Places(q, i)) \in 1 .. Len(p)
      BY <1>1, <3>1, PlaceIs
    <3>3. p[Cardinality(Places(q, i))] = q[i]
      BY <3>1 DEF Has
    <3> QED
      BY <1>2, <3>2, <3>3
  <2> QED
    BY <2>1, <2>2
<1> QED
  BY <1>1, <1>2, <1>3 DEF Has

\* ... and another is passed over.
LEMMA HasSame ==
  ASSUME NEW p, NEW q, NEW k \in Nat, Has(p, q, k), q[k + 1].stream # 0
  PROVE  Has(p, q, k + 1)
BY NextPlace DEF Has

\* At first there is none.
LEMMA HasNone ==
  ASSUME NEW q, NEW k \in Nat, \A i \in 1 .. k : q[i].stream # 0
  PROVE  Has(<<>>, q, k)
<1>1. Places(q, k) = {}
  BY DEF Places
<1>2. Cardinality({}) = 0
  BY FS_EmptySet
<1> QED
  BY <1>1, <1>2 DEF Has

\* Who is first among one packet more.
LEMMA LedNext ==
  ASSUME NEW q, NEW k \in Nat, NEW s
  PROVE  /\ ~OfVideo(q[k + 1]) => (LedBy(s, q, k + 1) <=> LedBy(s, q, k))
         /\ (\E i \in 1 .. k : OfVideo(q[i])) => (LedBy(s, q, k + 1) <=> LedBy(s, q, k))
         /\ (\A i \in 1 .. k : ~OfVideo(q[i])) =>
              /\ ~LedBy(s, q, k)
              /\ OfVideo(q[k + 1]) => (LedBy(s, q, k + 1) <=> q[k + 1].stream = s)
<1>1. /\ 1 .. k + 1 = 1 .. k \cup {k + 1} /\ k + 1 \notin 1 .. k
      /\ \A i \in 1 .. k : 1 .. i - 1 \subseteq 1 .. k
      /\ 1 .. (k + 1) - 1 = 1 .. k
  OBVIOUS
<1> DEFINE First(i) == /\ OfVideo(q[i]) /\ q[i].stream = s
                       /\ \A j \in 1 .. i - 1 : ~OfVideo(q[j])
<1>2. LedBy(s, q, k) <=> \E i \in 1 .. k : First(i)
  BY DEF LedBy
<1>3. LedBy(s, q, k + 1) <=> \E i \in 1 .. k + 1 : First(i)
  BY DEF LedBy
<1>4. LedBy(s, q, k + 1) <=> LedBy(s, q, k) \/ First(k + 1)
  <2> HIDE DEF First
  <2> QED
    BY <1>1, <1>2, <1>3
<1>5. ~OfVideo(q[k + 1]) => ~First(k + 1)
  OBVIOUS
<1>6. (\E i \in 1 .. k : OfVideo(q[i])) => ~First(k + 1)
  BY <1>1
<1>7. (\A i \in 1 .. k : ~OfVideo(q[i])) => ~LedBy(s, q, k)
  BY <1>2
<1>8. (\A i \in 1 .. k : ~OfVideo(q[i])) /\ OfVideo(q[k + 1]) =>
        (First(k + 1) <=> q[k + 1].stream = s)
  BY <1>1
<1> HIDE DEF First
<1> QED
  BY <1>4, <1>5, <1>6, <1>7, <1>8

\* The layout decides who is first.
LEMMA LedSame ==
  ASSUME tool'.layout = tool.layout, copied' = copied
  PROVE  /\ \A s, k : LedBy(s, copied, k)' <=> LedBy(s, copied, k)
         /\ \A i : OfVideo(copied[i])' <=> OfVideo(copied[i])
BY DEF LedBy, OfVideo

\* If stream 0 has the first packet of a video, all of its packets are.
LEMMA LedIsVideo ==
  ASSUME NEW q, NEW k \in Nat, LedBy(0, q, k), NEW p, p.stream = 0
  PROVE  OfVideo(p)
BY DEF LedBy, OfVideo

\* The fields of a tool and of a writer; and whether there are no writers.
ToolFields == {"pc", "layout", "source", "frames", "writers", "extradata", "failed"}
WriterFields == {"made", "headers", "packets", "trailers"}
NoFiles == tool.writers = NoTool.writers

\* What a tool has been given, and how much of it is taken.
Copied == {copied[i] : i \in DOMAIN copied}
Taken == Len(copied) - Len(tool.source)

\* What is left of the input is its end.
SourceInv ==
  /\ ToolFields \subseteq DOMAIN tool
  /\ tool.layout \in Seq({"video", "audio"})
  /\ copied \in Seq(Copied) /\ \A i \in DOMAIN copied : copied[i].stream \in Streams(tool.layout)
  /\ tool.source \in Seq(Copied) /\ Len(tool.source) <= Len(copied)
  /\ \A i \in DOMAIN tool.source : tool.source[i] = copied[Taken + i]
  /\ tool.failed \in Nat /\ tool.frames \in Nat

\* MuxApp has written the packets of stream 0 among those it has taken.
MuxInv ==
  /\ tool.pc \in {"mux", "add", "copy", "close"} => NoFiles
  /\ tool.pc \in {"mux", "add"} => Taken = 0
  /\ tool.pc \in {"copy", "close", "ended"} /\ NoFiles /\ tool.failed = 0 =>
       Has(file.packets, copied, Taken)
  /\ tool.pc \in {"close", "ended"} /\ NoFiles /\ tool.failed = 0 =>
       Taken = Len(copied) /\ (copied # <<>> => file.trailers = 1)

\* The file of a stream.
WriterIs(s) ==
  /\ WriterFields \subseteq DOMAIN tool.writers[s]
  /\ tool.writers[s].packets \in Seq(Copied)
  /\ tool.writers[s].headers = (IF LedBy(s, copied, Taken) THEN 1 ELSE 0)
  /\ IF s = 0 /\ LedBy(s, copied, Taken)
       THEN Has(tool.writers[s].packets, copied, Taken) ELSE tool.writers[s].packets = <<>>

\* There is a file for each stream.
WritersInv ==
  /\ DOMAIN tool.writers = Streams(tool.layout)
  /\ \A s \in Streams(tool.layout) : WriterIs(s)

\* DemuxApp has written those that belong into the file of stream 0.
DemuxInv ==
  /\ tool.pc \in {"demux", "info"} => Taken = 0 /\ tool.frames = 0
  /\ tool.pc = "read" => (tool.frames = 0 <=> \A i \in 1 .. Taken : ~OfVideo(copied[i]))
  /\ tool.failed = 0 =>
       /\ tool.pc \in {"read", "trailers"} => WritersInv
       /\ tool.pc \in {"trailers", "ended"} => Taken = Len(copied)
       /\ tool.pc = "ended" /\ ~NoFiles =>
            WritersInv /\ \A s \in Streams(tool.layout) :
                            tool.writers[s].trailers = tool.writers[s].headers

\* A tool finds no file but one of the recorder.
StartInv ==
  /\ written \in Seq(Nat)
  /\ tool.pc = "none" => tool = NoTool /\ copied = <<>>
  /\ client = "recorder" /\ tool.pc # "none" => tool.layout # <<>>
  /\ client # "recorder" /\ tool.pc \notin {"add", "copy", "close", "ended", "crashed"} =>
       file = EmptyFile

ToolInv == SourceInv /\ MuxInv /\ DemuxInv /\ StartInv

\* The recorder and EncodeApp have ended when a tool runs, and leave it alone.
LEMMA RecordTool ==
  ASSUME CodecInv, FileInv, ToolInv, RecordSteps, UNCHANGED toolVars
  PROVE  ToolInv'
<1>1. client' = client
  BY DEF RecordSteps, AppSetup, AppEncodes, AppEnds, AppWrites, StartNewRecord, FirstRecordFrame,
         NextRecordFrame, ConvertAndEncode, MuxPacket, StopAndSaveRecord, Quit, CallGoesOn,
         CallCrashes, CallFails, Device, Goto, clientVars
<1>2. file' = file \/ (client = "recorder" /\ tool.pc = "none")
  BY DEF RecordSteps, AppSetup, AppEncodes, AppEnds, AppWrites, StartNewRecord, FirstRecordFrame,
         NextRecordFrame, ConvertAndEncode, MuxPacket, StopAndSaveRecord, Quit, CallGoesOn,
         CallCrashes, CallFails, Device, AddStream, muxVars, FileInv, PlacesInv
<1>3. written' \in Seq(Nat)
  <2>1. written \in Seq(Nat) /\ call.len \in Nat
    BY DEF CodecInv, Calls, ToolInv, StartInv
  <2>2. written' = written \/ written' = Append(written, call.len)
    BY DEF RecordSteps, AppSetup, AppEncodes, AppEnds, AppWrites, StartNewRecord,
           FirstRecordFrame, NextRecordFrame, ConvertAndEncode, MuxPacket, StopAndSaveRecord,
           Quit, CallGoesOn, CallCrashes, CallFails, Device, Goto, clientVars
  <2> QED
    BY <2>1, <2>2
<1>4. SourceInv' /\ Taken' = Taken /\ Copied' = Copied
  BY DEF ToolInv, SourceInv, toolVars, Taken, Copied
<1>5. MuxInv'
  BY <1>2, <1>4 DEF ToolInv, MuxInv, toolVars, NoFiles
<1>6. DemuxInv'
  <2>1. \A s : WriterIs(s)' <=> WriterIs(s)
    BY <1>4, LedSame DEF WriterIs, toolVars
  <2>2. WritersInv' <=> WritersInv
    BY <2>1 DEF WritersInv, toolVars
  <2> QED
    BY <1>4, <2>2, LedSame DEF ToolInv, DemuxInv, toolVars, NoFiles
<1>7. StartInv'
  BY <1>1, <1>2, <1>3 DEF ToolInv, StartInv, toolVars
<1> QED
  BY <1>4, <1>5, <1>6, <1>7 DEF ToolInv

\* A tool starts with the whole of its input before it.
LEMMA StartTools ==
  ASSUME FileInv, ToolInv, StartTool, UNCHANGED clientVars
  PROVE  ToolInv'
<1>1. /\ tool.pc = "none" /\ copied' = tool'.source /\ UNCHANGED muxVars
      /\ client' = client /\ written' = written
  BY DEF StartTool, clientVars
<1> DEFINE From(pc, kinds, source) ==
             /\ tool' = [NoTool EXCEPT !.pc = pc, !.layout = kinds, !.source = source]
             /\ \/ client = "encode_app" /\ kinds = <<"video">> /\ source = Video(written)
                \/ client = "recorder" /\ kinds = <<"video">> /\ source = Video(file.packets)
                \/ client = "none" /\ \E s \in Containers : kinds = s.layout /\ source = s.packets
<1>2. \E pc \in {"mux", "demux"} : \E kinds : \E source : From(pc, kinds, source)
  <2>1. CASE client = "encode_app" /\ Starts("mux", <<"video">>, Video(written))
    <3>1. From("mux", <<"video">>, Video(written))
      BY <2>1 DEF Starts
    <3> HIDE DEF From
    <3> QED
      BY <3>1
  <2>2. CASE client = "recorder" /\ Starts("demux", <<"video">>, Video(file.packets))
    <3>1. From("demux", <<"video">>, Video(file.packets))
      BY <2>2 DEF Starts
    <3> HIDE DEF From
    <3> QED
      BY <3>1
  <2>3. CASE /\ client = "none"
             /\ \E s \in Containers, sample \in {"mux", "demux"} :
                  Starts(sample, s.layout, s.packets)
    <3>1. PICK s \in Containers, sample \in {"mux", "demux"} :
                  Starts(sample, s.layout, s.packets)
      BY <2>3
    <3>2. From(sample, s.layout, s.packets)
      BY <2>3, <3>1 DEF Starts
    <3> HIDE DEF From
    <3> QED
      BY <3>2
  <2> QED
    BY <2>1, <2>2, <2>3 DEF StartTool
<1>8. PICK pc \in {"mux", "demux"} : \E kinds : \E source : From(pc, kinds, source)
  BY <1>2
<1>9. PICK kinds : \E source : From(pc, kinds, source)
  BY <1>8
<1>10. PICK source : From(pc, kinds, source)
  BY <1>9
<1>3. /\ tool'.pc = pc /\ tool'.layout = kinds /\ tool'.source = source /\ tool'.frames = 0
      /\ tool'.failed = 0 /\ tool'.writers = NoTool.writers /\ ToolFields \subseteq DOMAIN tool'
  BY <1>8, <1>10 DEF NoTool, ToolFields
<1>4. /\ kinds \in Seq({"video", "audio"}) /\ source \in Seq(Copied')
      /\ \A i \in DOMAIN source : source[i].stream \in Streams(kinds)
      /\ client = "recorder" => kinds # <<>>
  <2>1. CASE kinds = <<"video">> /\ \E S, q : q \in Seq(S) /\ source = Video(q)
    <3>1. PICK S, q : q \in Seq(S) /\ source = Video(q)
      BY <2>1
    <3>2. /\ DOMAIN source = 1 .. Len(q) /\ Len(q) \in Nat
          /\ \A i \in DOMAIN source : source[i].stream = 0
      BY <3>1 DEF Video
    <3>3. source \in Seq(Copied')
      <4>1. source = [i \in 1 .. Len(q) |-> source[i]]
        BY <3>1, <3>2 DEF Video
      <4>2. \A i \in 1 .. Len(q) : source[i] \in Copied'
        BY <1>1, <1>3, <3>2 DEF Copied
      <4> QED
        BY <3>2, <4>1, <4>2
    <3>4. kinds \in Seq({"video", "audio"}) /\ Len(kinds) = 1 /\ kinds # <<>>
      BY <2>1
    <3> QED
      BY <3>2, <3>3, <3>4 DEF Streams
  <2>2. CASE client = "none" /\ \E s \in Containers : kinds = s.layout /\ source = s.packets
    <3>1. /\ kinds \in Seq({"video", "audio"})
          /\ source \in Seq([stream : 0 .. Len(kinds) - 1, n : Nat])
      BY <2>2, RecordingAssumption
    <3> DEFINE P == [stream : 0 .. Len(kinds) - 1, n : Nat]
    <3>2. source \in Seq(P) /\ \A x \in P : x.stream \in Streams(kinds)
      BY <3>1 DEF Streams
    <3> HIDE DEF P
    <3>3. \A i \in DOMAIN source : source[i] \in P /\ source[i] \in Copied'
      BY <1>1, <1>3, <3>2 DEF Copied
    <3>4. source \in Seq(Copied')
      BY <3>2, <3>3
    <3> QED
      BY <2>2, <3>1, <3>2, <3>3, <3>4
  <2>3. \E S : written \in Seq(S)
    BY DEF ToolInv, StartInv
  <2>4. \E S : file.packets \in Seq(S)
    BY DEF FileInv, FileShape, Files
  <2> QED
    BY <1>10, <2>1, <2>2, <2>3, <2>4
<1>5. SourceInv' /\ Taken' = 0
  BY <1>1, <1>3, <1>4 DEF SourceInv, Taken
<1>6. MuxInv' /\ DemuxInv'
  BY <1>8, <1>3, <1>5 DEF MuxInv, DemuxInv, NoFiles
<1>7. StartInv'
  BY <1>1, <1>2, <1>3, <1>4 DEF ToolInv, StartInv, muxVars
<1> QED
  BY <1>5, <1>6, <1>7 DEF ToolInv

\* A sequence without its head.
LEMMA TailSeq ==
  ASSUME NEW S, NEW q \in Seq(S), q # <<>>
  PROVE  /\ Tail(q) \in Seq(S) /\ Len(q) \in Nat /\ Len(q) > 0 /\ Len(Tail(q)) = Len(q) - 1
         /\ 1 \in DOMAIN q /\ Head(q) = q[1] /\ Tail(q) # q
         /\ DOMAIN q = 1 .. Len(q) /\ DOMAIN Tail(q) = 1 .. Len(q) - 1
         /\ \A i \in 1 .. Len(q) - 1 : Tail(q)[i] = q[i + 1]
<1>1. /\ Tail(q) \in Seq(S) /\ Len(q) \in Nat /\ Len(q) > 0 /\ Len(Tail(q)) = Len(q) - 1
      /\ Head(q) = q[1] /\ DOMAIN q = 1 .. Len(q) /\ DOMAIN Tail(q) = 1 .. Len(q) - 1
      /\ \A i \in 1 .. Len(q) - 1 : Tail(q)[i] = q[i + 1]
  OBVIOUS
<1>2. \A n \in Nat : n # n - 1
  OBVIOUS
<1>3. Tail(q) # q
  <2>1. Len(Tail(q)) # Len(q)
    BY <1>1, <1>2
  <2> QED
    BY <2>1
<1>4. 1 \in DOMAIN q
  BY <1>1
<1> QED
  BY <1>1, <1>3, <1>4

\* A step of a tool that takes nothing, or the next packet.
LEMMA SourceStep ==
  ASSUME SourceInv, copied' = copied, ToolFields \subseteq DOMAIN tool',
         tool'.layout = tool.layout, tool'.failed \in Nat, tool'.frames \in Nat,
         \/ tool'.source = tool.source
         \/ tool.source # <<>> /\ tool'.source = Tail(tool.source)
         \/ tool'.source = <<>>
  PROVE  /\ SourceInv' /\ Copied' = Copied
         /\ tool'.source = tool.source => Taken' = Taken
         /\ tool'.source = <<>> => Taken' = Len(copied)
         /\ tool.source # <<>> /\ tool'.source = Tail(tool.source) =>
              /\ Taken \in Nat /\ Taken' = Taken + 1 /\ Taken + 1 \in DOMAIN copied
              /\ Head(tool.source) = copied[Taken + 1]
<1>1. /\ Copied' = Copied /\ copied \in Seq(Copied) /\ tool.source \in Seq(Copied)
      /\ Len(copied) \in Nat /\ Len(tool.source) \in Nat /\ Len(tool.source) <= Len(copied)
      /\ \A i \in DOMAIN tool.source : tool.source[i] = copied[Taken + i]
      /\ Taken = Len(copied) - Len(tool.source) /\ DOMAIN copied = 1 .. Len(copied)
  BY DEF SourceInv, Copied, Taken
<1>2. CASE tool'.source = tool.source
  <2>1. Taken' = Taken
    BY <1>2 DEF Taken
  <2>2. SourceInv'
    BY <1>1, <1>2, <2>1 DEF SourceInv
  <2>3. ~(tool.source # <<>> /\ tool'.source = Tail(tool.source))
    BY <1>1, <1>2, TailSeq
  <2>4. tool'.source = <<>> => Taken' = Len(copied)
    BY <1>1 DEF Taken
  <2> QED
    BY <1>1, <2>1, <2>2, <2>3, <2>4
<1>3. CASE tool.source # <<>> /\ tool'.source = Tail(tool.source)
  <2>1. PICK q : q = tool.source
    OBVIOUS
  <2>2. /\ q \in Seq(Copied) /\ q # <<>> /\ tool'.source = Tail(q)
        /\ \A i \in DOMAIN q : q[i] = copied[Taken + i]
        /\ Taken = Len(copied) - Len(q) /\ Len(q) <= Len(copied)
    BY <1>1, <1>3, <2>1
  <2>3. /\ Tail(q) \in Seq(Copied) /\ Len(q) \in Nat /\ Len(q) > 0 /\ Len(Tail(q)) = Len(q) - 1
        /\ 1 \in DOMAIN q /\ Head(q) = q[1] /\ Tail(q) # q
        /\ DOMAIN q = 1 .. Len(q) /\ DOMAIN Tail(q) = 1 .. Len(q) - 1
        /\ \A i \in 1 .. Len(q) - 1 : Tail(q)[i] = q[i + 1]
    BY <2>2, TailSeq
  <2>4. Taken' = Len(copied) - Len(Tail(q))
    BY <2>2 DEF Taken
  <2>5. /\ Taken \in Nat /\ Taken' = Taken + 1 /\ Taken + 1 \in DOMAIN copied
        /\ Len(Tail(q)) <= Len(copied)
    <3>1. PICK n \in Nat, m \in Nat : n = Len(copied) /\ m = Len(q)
      BY <1>1, <2>3
    <3>2. PICK l : l = Len(Tail(q))
      OBVIOUS
    <3>3. /\ Taken = n - m /\ Taken' = n - l /\ l = m - 1 /\ m > 0 /\ m <= n
          /\ DOMAIN copied = 1 .. n
      BY <1>1, <2>2, <2>3, <2>4, <3>1, <3>2
    <3>4. Taken \in Nat /\ Taken' = Taken + 1 /\ Taken + 1 \in 1 .. n /\ l <= n
      BY <3>3
    <3> QED
      BY <3>1, <3>2, <3>3, <3>4
  <2>6. ASSUME NEW i \in DOMAIN Tail(q) PROVE Tail(q)[i] = copied[Taken' + i]
    <3>1. i \in Nat /\ i + 1 \in DOMAIN q /\ Tail(q)[i] = q[i + 1]
      <4>1. PICK m \in Nat : m = Len(q)
        BY <2>3
      <4>2. i \in 1 .. m - 1 /\ DOMAIN q = 1 .. m
        BY <2>3, <4>1
      <4>3. i \in Nat /\ i + 1 \in DOMAIN q
        BY <4>2
      <4> QED
        BY <2>3, <4>1, <4>2, <4>3
    <3>2. q[i + 1] = copied[Taken + (i + 1)] /\ Taken + (i + 1) = Taken' + i
      <4>1. q[i + 1] = copied[Taken + (i + 1)]
        BY <2>2, <3>1
      <4>2. \A t \in Nat : t + (i + 1) = (t + 1) + i
        BY <3>1
      <4> QED
        BY <2>5, <4>1, <4>2
    <3> QED
      BY <3>1, <3>2
  <2>7. SourceInv'
    BY <1>1, <2>2, <2>3, <2>5, <2>6 DEF SourceInv
  <2>8. Head(tool.source) = copied[Taken + 1] /\ tool'.source # tool.source
    BY <2>1, <2>2, <2>3
  <2>9. tool'.source = <<>> => Taken' = Len(copied)
    BY <1>1 DEF Taken
  <2> QED
    BY <1>1, <2>5, <2>7, <2>8, <2>9
<1>4. CASE tool'.source = <<>>
  <2>1. <<>> \in Seq(Copied) /\ Len(<<>>) = 0 /\ DOMAIN <<>> = {}
    OBVIOUS
  <2>2. SourceInv' /\ Taken' = Len(copied)
    BY <1>1, <1>4, <2>1 DEF SourceInv, Taken
  <2>3. tool'.source = tool.source => Taken' = Taken
    BY <1>1, <1>4, <2>2 DEF Taken
  <2> QED
    BY <1>1, <1>2, <1>3, <2>2, <2>3
<1> QED
  BY <1>2, <1>3, <1>4

\* What a step of DemuxApp leaves alone.
LEMMA DemuxStart ==
  ASSUME ToolInv, DemuxSteps, UNCHANGED <<muxVars, clientVars, copied>>, "pc" \in DOMAIN tool,
         tool'.layout = tool.layout
  PROVE  StartInv'
BY DemuxPlaces DEF ToolInv, StartInv, muxVars, clientVars

\* The container is opened, its streams get their files.
LEMMA DemuxBegins ==
  ASSUME ToolInv, OpenContainerDemux \/ GetStreamWriters,
         UNCHANGED <<muxVars, clientVars, copied>>
  PROVE  ToolInv'
<1>1. /\ SourceInv /\ MuxInv /\ DemuxInv /\ ToolFields \subseteq DOMAIN tool
      /\ "pc" \in DOMAIN tool /\ tool.failed \in Nat /\ tool.frames \in Nat
  BY DEF ToolInv, SourceInv, ToolFields
<1>2. CASE OpenContainerDemux
  <2>1. /\ tool.pc = "demux" /\ DOMAIN tool' = DOMAIN tool /\ tool'.layout = tool.layout
        /\ tool'.frames = tool.frames
        /\ \/ tool'.pc = "info" /\ tool'.source = tool.source /\ tool'.failed = tool.failed
           \/ tool'.pc = "trailers" /\ tool'.source = <<>> /\ tool'.failed = tool.failed + 1
    BY <1>1, <1>2 DEF OpenContainerDemux, Failing, ToolFields
  <2>2. SourceInv' /\ (tool'.source = tool.source => Taken' = Taken)
    BY <1>1, <2>1, SourceStep
  <2>3. MuxInv' /\ DemuxInv'
    BY <1>1, <2>1, <2>2 DEF MuxInv, DemuxInv
  <2> QED
    BY <1>1, <1>2, <2>1, <2>2, <2>3, DemuxStart DEF ToolInv, DemuxSteps
<1>3. CASE GetStreamWriters
  <2>1. PICK made \in SUBSET Streams(tool.layout) :
          LET t == [tool EXCEPT !.pc = "read", !.writers =
                      [i \in Streams(tool.layout) |-> [NoWriter EXCEPT !.made = i \in made]]]
          IN tool' = IF made = Streams(tool.layout) THEN t ELSE Failing(t)
    BY <1>3 DEF GetStreamWriters
  <2> DEFINE ws == [i \in Streams(tool.layout) |-> [NoWriter EXCEPT !.made = i \in made]]
  <2>2. \A i \in Streams(tool.layout) :
          /\ WriterFields \subseteq DOMAIN ws[i] /\ ws[i].packets = <<>> /\ ws[i].headers = 0
    BY DEF NoWriter, WriterFields
  <2>3. DOMAIN ws = Streams(tool.layout)
    OBVIOUS
  <2>4. \/ tool' = [tool EXCEPT !.pc = "read", !.writers = ws]
        \/ tool' = Failing([tool EXCEPT !.pc = "read", !.writers = ws])
    BY <2>1
  <2> HIDE DEF ws
  <2>5. /\ tool.pc = "info" /\ DOMAIN tool' = DOMAIN tool /\ tool'.layout = tool.layout
        /\ tool'.frames = tool.frames /\ tool'.pc = "read" /\ tool'.source = tool.source
        /\ tool'.writers = ws /\ tool'.failed \in Nat
    <3>1. tool.pc = "info"
      BY <1>3 DEF GetStreamWriters
    <3>2. CASE tool' = [tool EXCEPT !.pc = "read", !.writers = ws]
      BY <1>1, <3>1, <3>2 DEF ToolFields
    <3>3. CASE tool' = Failing([tool EXCEPT !.pc = "read", !.writers = ws])
      <4>1. PICK t : t = [tool EXCEPT !.pc = "read", !.writers = ws]
        OBVIOUS
      <4>2. /\ DOMAIN t = DOMAIN tool /\ t.layout = tool.layout /\ t.frames = tool.frames
            /\ t.pc = "read" /\ t.source = tool.source /\ t.writers = ws
            /\ t.failed = tool.failed
        BY <1>1, <4>1 DEF ToolFields
      <4>3. tool' = [t EXCEPT !.failed = @ + 1]
        BY <3>3, <4>1 DEF Failing
      <4> QED
        BY <1>1, <3>1, <4>2, <4>3 DEF ToolFields
    <3> QED
      BY <2>4, <3>2, <3>3
  <2>6. SourceInv' /\ Taken' = 0 /\ Copied' = Copied /\ tool'.frames = 0
    BY <1>1, <2>5, SourceStep DEF DemuxInv
  <2>7. \A s : ~LedBy(s, copied, 0)'
    BY DEF LedBy
  <2>8. WritersInv'
    <3>1. <<>> \in Seq(Copied)
      OBVIOUS
    <3>2. \A s \in Streams(tool.layout) : WriterIs(s)'
      BY <2>2, <2>5, <2>6, <2>7, <3>1 DEF WriterIs
    <3> QED
      BY <2>3, <2>5, <3>2 DEF WritersInv
  <2>9. MuxInv' /\ DemuxInv'
    BY <1>1, <2>5, <2>6, <2>8 DEF MuxInv, DemuxInv
  <2> QED
    BY <1>1, <1>3, <2>5, <2>6, <2>9, DemuxStart DEF ToolInv, DemuxSteps
<1> QED
  BY <1>2, <1>3

\* A packet is appended to the file with a header, if it is one of stream 0.
LEMMA WritesIs ==
  ASSUME NEW S, NEW w, WriterFields \subseteq DOMAIN w, w.packets \in Seq(S), NEW p \in S,
         NEW n, NEW v, v = WritePacket(WriteHeader(w, n), p)
  PROVE  /\ WriterFields \subseteq DOMAIN v /\ v.packets \in Seq(S)
         /\ v.headers = IF n = 0 THEN 1 ELSE w.headers
         /\ v.packets = IF p.stream = 0 /\ v.headers = 1 THEN Append(w.packets, p) ELSE w.packets
<1>1. PICK h : h = WriteHeader(w, n)
  OBVIOUS
<1>2. /\ WriterFields \subseteq DOMAIN h /\ h.packets = w.packets
      /\ h.headers = IF n = 0 THEN 1 ELSE w.headers
  BY <1>1 DEF WriteHeader, WriterFields
<1>3. Append(w.packets, p) \in Seq(S)
  OBVIOUS
<1>4. v = IF p.stream = 0 /\ h.headers = 1 THEN [h EXCEPT !.packets = Append(@, p)] ELSE h
  BY <1>1 DEF WritePacket
<1>5. CASE p.stream = 0 /\ h.headers = 1
  <2>1. v = [h EXCEPT !.packets = Append(w.packets, p)]
    BY <1>2, <1>4, <1>5
  <2>2. /\ WriterFields \subseteq DOMAIN v /\ v.packets = Append(w.packets, p)
        /\ v.headers = h.headers
    BY <1>2, <2>1 DEF WriterFields
  <2> QED
    BY <1>2, <1>3, <1>5, <2>2
<1>6. CASE ~(p.stream = 0 /\ h.headers = 1)
  <2>1. v = h
    BY <1>4, <1>6
  <2> QED
    BY <1>2, <1>6, <2>1
<1> QED
  BY <1>5, <1>6

\* The writer of a stream when a packet that is none of a video has been read.
LEMMA WriterPasses ==
  ASSUME SourceInv, NEW s \in Streams(tool.layout), WriterIs(s), Taken \in Nat,
         Taken' = Taken + 1, ~OfVideo(copied[Taken + 1]),
         UNCHANGED copied, tool'.layout = tool.layout, tool'.writers[s] = tool.writers[s]
  PROVE  WriterIs(s)'
<1>1. LedBy(s, copied, Taken)' <=> LedBy(s, copied, Taken)
  BY LedSame, LedNext
<1>2. LedBy(0, copied, Taken) => copied[Taken + 1].stream # 0
  BY LedIsVideo
<1>3. s = 0 /\ LedBy(s, copied, Taken) => Has(tool'.writers[s].packets, copied', Taken')
  BY <1>2, HasSame DEF WriterIs
<1>4. Copied' = Copied
  BY DEF Copied
<1> QED
  BY <1>1, <1>3, <1>4 DEF WriterIs

\* Another one when a packet of a video has been read.
LEMMA WriterWaits ==
  ASSUME SourceInv, NEW s \in Streams(tool.layout), WriterIs(s), Taken \in Nat,
         Taken' = Taken + 1, OfVideo(copied[Taken + 1]), copied[Taken + 1].stream # s,
         UNCHANGED copied, tool'.layout = tool.layout, tool'.writers[s] = tool.writers[s]
  PROVE  WriterIs(s)'
<1>1. LedBy(s, copied, Taken)' <=> LedBy(s, copied, Taken)
  BY LedSame, LedNext
<1>2. s = 0 /\ LedBy(s, copied, Taken) => Has(tool'.writers[s].packets, copied', Taken')
  BY HasSame DEF WriterIs
<1>3. Copied' = Copied
  BY DEF Copied
<1> QED
  BY <1>1, <1>2, <1>3 DEF WriterIs

\* And its own: the first of all gets the header, and stream 0 its packets after it.
LEMMA WriterWrites ==
  ASSUME SourceInv, NEW s \in Streams(tool.layout), WriterIs(s), Taken \in Nat,
         Taken' = Taken + 1, Taken + 1 \in DOMAIN copied,
         OfVideo(copied[Taken + 1]), copied[Taken + 1].stream = s,
         tool.frames = 0 <=> \A i \in 1 .. Taken : ~OfVideo(copied[i]),
         UNCHANGED copied, tool'.layout = tool.layout,
         tool'.writers[s] =
           WritePacket(WriteHeader(tool.writers[s], tool.frames), copied[Taken + 1])
  PROVE  WriterIs(s)'
<1>1. PICK k, p, w, v, n :
        /\ k \in Nat /\ k = Taken /\ p = copied[k + 1] /\ n = tool.frames
        /\ w = tool.writers[s] /\ v = tool'.writers[s]
  OBVIOUS
<1>2. /\ p \in Copied /\ w.packets \in Seq(Copied) /\ WriterFields \subseteq DOMAIN w
      /\ Copied' = Copied
  BY <1>1 DEF Copied, WriterIs
<1>3. /\ WriterFields \subseteq DOMAIN v /\ v.packets \in Seq(Copied)
      /\ v.headers = IF tool.frames = 0 THEN 1 ELSE w.headers
      /\ v.packets = IF s = 0 /\ v.headers = 1 THEN Append(w.packets, p) ELSE w.packets
  <2>1. v = WritePacket(WriteHeader(w, n), p)
    BY <1>1
  <2>2. /\ WriterFields \subseteq DOMAIN v /\ v.packets \in Seq(Copied)
        /\ v.headers = IF n = 0 THEN 1 ELSE w.headers
        /\ v.packets = IF p.stream = 0 /\ v.headers = 1 THEN Append(w.packets, p)
                                                       ELSE w.packets
    <3>1. PICK C : C = Copied
      OBVIOUS
    <3>2. p \in C /\ w.packets \in Seq(C) /\ WriterFields \subseteq DOMAIN w
      BY <1>2, <3>1
    <3>3. v.packets \in Seq(C)
      BY <2>1, <3>2, WritesIs
    <3>4. /\ WriterFields \subseteq DOMAIN v
          /\ v.headers = IF n = 0 THEN 1 ELSE w.headers
          /\ v.packets = IF p.stream = 0 /\ v.headers = 1 THEN Append(w.packets, p)
                                                         ELSE w.packets
      BY <2>1, <3>2, WritesIs
    <3> QED
      BY <3>1, <3>3, <3>4
  <2> QED
    BY <1>1, <2>2
<1>4. /\ w.headers = (IF LedBy(s, copied, k) THEN 1 ELSE 0)
      /\ IF s = 0 /\ LedBy(s, copied, k) THEN Has(w.packets, copied, k) ELSE w.packets = <<>>
  BY <1>1 DEF WriterIs
<1>5. LedBy(s, copied, Taken)' <=> LedBy(s, copied, k + 1)
  BY <1>1, LedSame
<1>6. /\ v.headers = (IF LedBy(s, copied, k + 1) THEN 1 ELSE 0)
      /\ IF s = 0 /\ LedBy(s, copied, k + 1) THEN Has(v.packets, copied, k + 1)
                                             ELSE v.packets = <<>>
  <2>1. CASE tool.frames = 0
    <3>1. /\ ~LedBy(s, copied, k) /\ LedBy(s, copied, k + 1) /\ w.packets = <<>>
          /\ \A i \in 1 .. k : ~OfVideo(copied[i])
      BY <1>1, <1>4, <2>1, LedNext
    <3>2. s = 0 => \A i \in 1 .. k : copied[i].stream # 0
      BY <1>1, <3>1 DEF OfVideo
    <3>3. s = 0 => Has(w.packets, copied, k)
      BY <1>1, <3>1, <3>2, HasNone
    <3>4. s = 0 => Has(Append(w.packets, p), copied, k + 1)
      BY <1>1, <1>2, <3>3, HasNext
    <3> QED
      BY <1>3, <2>1, <3>1, <3>4
  <2>2. CASE tool.frames # 0
    <3>1. LedBy(s, copied, k + 1) <=> LedBy(s, copied, k)
      BY <1>1, <2>2, LedNext
    <3>2. s = 0 /\ LedBy(s, copied, k) => Has(Append(w.packets, p), copied, k + 1)
      BY <1>1, <1>2, <1>4, HasNext
    <3> QED
      BY <1>3, <1>4, <2>2, <3>1, <3>2
  <2> QED
    BY <2>1, <2>2
<1> QED
  BY <1>1, <1>2, <1>3, <1>5, <1>6 DEF WriterIs

\* A packet is read, and written if it is one of a video.
LEMMA DemuxReads ==
  ASSUME ToolInv, ReadStreamPacket, UNCHANGED <<muxVars, clientVars, copied>>
  PROVE  ToolInv'
<1>1. /\ SourceInv /\ MuxInv /\ DemuxInv /\ ToolFields \subseteq DOMAIN tool
      /\ tool.failed \in Nat /\ tool.frames \in Nat /\ tool.pc = "read" /\ tool.source # <<>>
  BY DEF ToolInv, SourceInv, ReadStreamPacket
<1>2. PICK p, w, header, next :
        /\ p = Head(tool.source) /\ w = tool.writers[p.stream]
        /\ header = WriteHeader(w, tool.frames)
        /\ next = [tool EXCEPT !.source = Tail(@), !.frames = IF OfVideo(p) THEN @ + 1 ELSE @]
  OBVIOUS
<1>3. \/ ~OfVideo(p) /\ tool' = next
      \/ OfVideo(p) /\ tool' = [next EXCEPT !.pc = "crashed"]
      \/ OfVideo(p) /\ tool' = [next EXCEPT !.writers[p.stream] = WritePacket(header, p)]
      \/ OfVideo(p) /\ tool' = Failing([next EXCEPT !.writers[p.stream] = header])
  BY <1>2 DEF ReadStreamPacket, OfVideo
<1>4. /\ DOMAIN next = DOMAIN tool /\ next.pc = "read" /\ next.layout = tool.layout
      /\ next.source = Tail(tool.source) /\ next.writers = tool.writers
      /\ next.failed = tool.failed
      /\ next.frames = IF OfVideo(p) THEN tool.frames + 1 ELSE tool.frames
  BY <1>1, <1>2 DEF ToolFields
<1>5. /\ DOMAIN tool' = DOMAIN tool /\ tool'.layout = tool.layout
      /\ tool'.source = Tail(tool.source) /\ tool'.frames = next.frames
      /\ \/ ~OfVideo(p) /\ tool'.pc = "read" /\ UNCHANGED tool.writers /\ tool'.failed = tool.failed
         \/ OfVideo(p) /\ tool'.pc = "crashed" /\ tool'.failed = tool.failed
         \/ /\ OfVideo(p) /\ tool'.pc = "read" /\ tool'.failed = tool.failed
            /\ tool'.writers = [tool.writers EXCEPT ![p.stream] = WritePacket(header, p)]
         \/ OfVideo(p) /\ tool'.pc = "read" /\ tool'.failed = tool.failed + 1
  <2>1. CASE ~OfVideo(p) /\ tool' = next
    BY <1>4, <2>1
  <2>2. CASE OfVideo(p) /\ tool' = [next EXCEPT !.pc = "crashed"]
    BY <1>1, <1>4, <2>2 DEF ToolFields
  <2>3. CASE OfVideo(p) /\ tool' = [next EXCEPT !.writers[p.stream] = WritePacket(header, p)]
    <3>1. tool' = [next EXCEPT !.writers =
                     [next.writers EXCEPT ![p.stream] = WritePacket(header, p)]]
      BY <2>3
    <3> QED
      BY <1>1, <1>4, <2>3, <3>1 DEF ToolFields
  <2>4. CASE OfVideo(p) /\ tool' = Failing([next EXCEPT !.writers[p.stream] = header])
    <3>1. PICK ws : ws = [next.writers EXCEPT ![p.stream] = header]
      OBVIOUS
    <3>2. PICK t : t = [next EXCEPT !.writers = ws] /\ tool' = Failing(t)
      BY <2>4, <3>1
    <3>3. /\ DOMAIN t = DOMAIN tool /\ t.pc = "read" /\ t.layout = tool.layout
          /\ t.source = Tail(tool.source) /\ t.frames = next.frames /\ t.failed = tool.failed
      BY <1>1, <1>4, <3>2 DEF ToolFields
    <3>4. tool' = [t EXCEPT !.failed = @ + 1]
      BY <3>2 DEF Failing
    <3> QED
      BY <1>1, <2>4, <3>3, <3>4 DEF ToolFields
  <2> QED
    BY <1>3, <2>1, <2>2, <2>3, <2>4
<1>6. tool'.failed \in Nat /\ tool'.frames \in Nat
  BY <1>1, <1>4, <1>5
<1>7. /\ SourceInv' /\ Taken \in Nat /\ Taken' = Taken + 1 /\ Taken + 1 \in DOMAIN copied
      /\ p = copied[Taken + 1]
  BY <1>1, <1>2, <1>5, <1>6, SourceStep
<1>8. tool.frames = 0 <=> \A i \in 1 .. Taken : ~OfVideo(copied[i])
  BY <1>1 DEF DemuxInv
<1>9. tool'.frames = 0 <=> \A i \in 1 .. Taken' : ~OfVideo(copied[i])'
  <2>1. \A i : OfVideo(copied[i])' <=> OfVideo(copied[i])
    BY <1>5, LedSame
  <2>2. 1 .. Taken' = 1 .. Taken \cup {Taken + 1}
    BY <1>7
  <2> QED
    BY <1>1, <1>4, <1>5, <1>7, <1>8, <2>1, <2>2
<1>10. ASSUME tool'.failed = 0, tool'.pc = "read"
       PROVE  WritersInv'
  <2>1. WritersInv /\ p.stream \in Streams(tool.layout)
    BY <1>1, <1>5, <1>7, <1>10 DEF DemuxInv, SourceInv
  <2>2. CASE ~OfVideo(p) /\ tool'.writers = tool.writers
    <3>1. \A s \in Streams(tool.layout) : WriterIs(s)'
      BY <1>1, <1>5, <1>7, <2>1, <2>2, WriterPasses DEF WritersInv
    <3> QED
      BY <1>5, <2>1, <2>2, <3>1 DEF WritersInv
  <2>3. CASE /\ OfVideo(p)
             /\ tool'.writers = [tool.writers EXCEPT ![p.stream] = WritePacket(header, p)]
    <3>1. DOMAIN tool.writers = Streams(tool.layout)
      BY <2>1 DEF WritersInv
    <3>2. ASSUME NEW s \in Streams(tool.layout) PROVE WriterIs(s)'
      <4>1. CASE s = p.stream
        <5>1. tool'.writers[s] =
                WritePacket(WriteHeader(tool.writers[s], tool.frames), copied[Taken + 1])
          BY <1>2, <1>7, <2>3, <3>1, <4>1
        <5> QED
          BY <1>1, <1>5, <1>7, <1>8, <2>1, <2>3, <4>1, <5>1, WriterWrites DEF WritersInv
      <4>2. CASE s # p.stream
        <5>1. tool'.writers[s] = tool.writers[s]
          BY <2>3, <3>1, <4>2
        <5> QED
          BY <1>1, <1>5, <1>7, <2>1, <2>3, <4>2, <5>1, WriterWaits DEF WritersInv
      <4> QED
        BY <4>1, <4>2
    <3>3. DOMAIN tool'.writers = DOMAIN tool.writers
      BY <2>3
    <3> QED
      BY <1>5, <3>1, <3>2, <3>3 DEF WritersInv
  <2> QED
    BY <1>1, <1>5, <1>10, <2>2, <2>3
<1>11. tool'.pc \in {"read", "crashed"}
  BY <1>5
<1>12. MuxInv' /\ DemuxInv'
  BY <1>9, <1>10, <1>11 DEF MuxInv, DemuxInv
<1> QED
  BY <1>1, <1>5, <1>7, <1>12, DemuxStart DEF ToolInv, DemuxSteps, ToolFields

\* The end of the input, and the trailers.
LEMMA DemuxEnds ==
  ASSUME ToolInv, EndOfInput \/ WriteTrailers, UNCHANGED <<muxVars, clientVars, copied>>
  PROVE  ToolInv'
<1>1. /\ SourceInv /\ MuxInv /\ DemuxInv /\ StartInv /\ ToolFields \subseteq DOMAIN tool
      /\ tool.failed \in Nat /\ tool.frames \in Nat /\ Len(copied) \in Nat
      /\ tool.source \in Seq(Copied)
  BY DEF ToolInv, SourceInv
<1>2. CASE EndOfInput
  <2>1. PICK t : /\ t = (IF tool.source = <<>> THEN tool ELSE Failing(tool))
                 /\ tool' = [t EXCEPT !.pc = "trailers"]
    BY <1>2 DEF EndOfInput
  <2>2. /\ DOMAIN t = DOMAIN tool /\ t.layout = tool.layout /\ t.source = tool.source
        /\ t.frames = tool.frames /\ t.writers = tool.writers
        /\ \/ t.failed = tool.failed /\ tool.source = <<>>
           \/ t.failed = tool.failed + 1
    BY <1>1, <2>1 DEF Failing, ToolFields
  <2>3. /\ DOMAIN tool' = DOMAIN tool /\ tool'.layout = tool.layout /\ tool.pc = "read"
        /\ tool'.source = tool.source /\ tool'.frames = tool.frames
        /\ tool'.writers = tool.writers /\ tool'.pc = "trailers" /\ tool'.failed = t.failed
    BY <1>1, <1>2, <2>1, <2>2 DEF EndOfInput, ToolFields
  <2>4. tool'.failed \in Nat /\ (tool'.failed = 0 => tool.failed = 0 /\ tool.source = <<>>)
    BY <1>1, <2>2, <2>3
  <2>5. /\ SourceInv' /\ Taken' = Taken /\ Copied' = Copied
        /\ tool.source = <<>> => Taken' = Len(copied)
    BY <1>1, <2>3, <2>4, SourceStep
  <2>6. WritersInv => WritersInv'
    <3>1. \A s : WriterIs(s) => WriterIs(s)'
      BY <2>3, <2>5, LedSame DEF WriterIs
    <3> QED
      BY <2>3, <3>1 DEF WritersInv
  <2>7. MuxInv' /\ DemuxInv'
    BY <1>1, <2>3, <2>4, <2>5, <2>6 DEF MuxInv, DemuxInv
  <2> QED
    BY <1>1, <1>2, <2>3, <2>5, <2>7, DemuxStart DEF ToolInv, DemuxSteps, ToolFields
<1>3. CASE WriteTrailers
  <2>1. PICK ws : /\ ws = [i \in DOMAIN tool.writers |->
                             [tool.writers[i] EXCEPT !.trailers = tool.writers[i].headers]]
                  /\ \/ tool' = [tool EXCEPT !.pc = "crashed"]
                     \/ tool' = [tool EXCEPT !.pc = "ended", !.writers = ws]
    BY <1>3 DEF WriteTrailers
  <2>2. /\ DOMAIN tool' = DOMAIN tool /\ tool'.layout = tool.layout /\ tool.pc = "trailers"
        /\ tool'.source = tool.source /\ tool'.frames = tool.frames
        /\ tool'.failed = tool.failed
        /\ tool'.pc = "crashed" \/ (tool'.pc = "ended" /\ tool'.writers = ws)
    BY <1>1, <1>3, <2>1 DEF WriteTrailers, ToolFields
  <2>3. SourceInv' /\ Taken' = Taken /\ Copied' = Copied
    BY <1>1, <2>2, SourceStep
  <2>4. ASSUME tool'.pc = "ended", tool.failed = 0
        PROVE  /\ WritersInv' /\ Taken = Len(copied)
               /\ \A s \in Streams(tool.layout) :
                    tool'.writers[s].trailers = tool'.writers[s].headers
    <3>1. WritersInv /\ Taken = Len(copied) /\ tool'.writers = ws
      BY <1>1, <2>2, <2>4 DEF DemuxInv
    <3>2. DOMAIN ws = Streams(tool.layout) /\ DOMAIN tool.writers = Streams(tool.layout)
      BY <2>1, <3>1 DEF WritersInv
    <3>3. ASSUME NEW s \in Streams(tool.layout)
          PROVE  WriterIs(s)' /\ ws[s].trailers = ws[s].headers
      <4>1. PICK w : w = tool.writers[s]
        OBVIOUS
      <4>2. ws[s] = [w EXCEPT !.trailers = w.headers] /\ WriterFields \subseteq DOMAIN w
        BY <2>1, <3>1, <3>2, <4>1 DEF WritersInv, WriterIs
      <4>3. /\ DOMAIN ws[s] = DOMAIN w /\ ws[s].packets = w.packets /\ ws[s].headers = w.headers
            /\ ws[s].trailers = w.headers
        BY <4>2 DEF WriterFields
      <4>4. WriterIs(s)
        BY <3>1 DEF WritersInv
      <4>5. WriterIs(s)'
        BY <2>2, <2>3, <3>1, <4>1, <4>3, <4>4, LedSame DEF WriterIs
      <4> QED
        BY <4>3, <4>5
    <3> QED
      BY <2>2, <3>1, <3>2, <3>3 DEF WritersInv
  <2>5. DemuxInv'
    BY <1>1, <2>2, <2>3, <2>4 DEF DemuxInv
  <2>6. ASSUME tool'.pc = "ended", tool.failed = 0, NoFiles'
        PROVE  Has(file.packets, copied, Taken) /\ copied = <<>>
    <3>1. Streams(tool.layout) = {}
      BY <2>2, <2>4, <2>6 DEF WritersInv, NoFiles, NoTool
    <3>2. tool.layout = <<>>
      BY <1>1, <3>1 DEF Streams, SourceInv
    <3>3. file = EmptyFile
      BY <1>1, <2>2, <3>2 DEF StartInv
    <3>4. copied = <<>>
      <4>1. DOMAIN copied = {}
        BY <1>1, <3>1 DEF SourceInv
      <4> QED
        BY <1>1, <4>1 DEF SourceInv
    <3>5. Taken = 0 /\ file.packets = <<>>
      BY <2>4, <2>6, <3>3, <3>4 DEF EmptyFile
    <3> QED
      BY <3>4, <3>5, HasNone
  <2>7. MuxInv'
    BY <1>1, <2>2, <2>3, <2>4, <2>6 DEF MuxInv, muxVars
  <2> QED
    BY <1>1, <1>3, <2>2, <2>3, <2>5, <2>7, DemuxStart DEF ToolInv, DemuxSteps, ToolFields
<1> QED
  BY <1>2, <1>3

\* What writeStreamPacket does to the packets of the file.
LEMMA WrittenPackets ==
  ASSUME Continues, NEW p
  PROVE  /\ RefusePacket => file'.packets = file.packets
         /\ WriteStreamPacket(p) => \/ file'.packets = file.packets
                                    \/ file'.packets = Append(file.packets, p)
<1>1. PICK S : Headed \in Files(S) /\ Headed.packets = file.packets
  BY HeadedFile
<1>2. RefusePacket => file'.packets = file.packets
  BY <1>1 DEF RefusePacket, muxVars
<1>3. CASE file' = [Headed EXCEPT !.packets = Append(@, p), !.stamps = Append(@, count)]
  <2>1. PICK h, q : h = Headed /\ q = Append(file.packets, p)
    OBVIOUS
  <2>2. /\ file' = [h EXCEPT !.packets = q, !.stamps = Append(@, count)]
        /\ h \in Files(S)
    BY <1>1, <1>3, <2>1
  <2>3. file'.packets = q
    BY <2>2 DEF Files
  <2> QED
    BY <1>2, <2>1, <2>3
<1> QED
  BY <1>2, <1>3 DEF WriteStreamPacket

\* The step of MuxApp leaves what it has been given, and where it is.
LEMMA MuxStart ==
  ASSUME ToolInv, UNCHANGED <<clientVars, copied>>, tool'.layout = tool.layout,
         tool.pc # "none", tool'.pc \in {"add", "copy", "close", "ended", "crashed"}
  PROVE  StartInv'
BY DEF ToolInv, StartInv, clientVars

\* MuxApp copies the packets it takes.
LEMMA MuxTools ==
  ASSUME FileInv, ToolInv, MuxSteps, UNCHANGED <<clientVars, copied>>
  PROVE  ToolInv'
<1>1. /\ SourceInv /\ MuxInv /\ ToolFields \subseteq DOMAIN tool
      /\ tool.failed \in Nat /\ tool.frames \in Nat
  BY DEF ToolInv, SourceInv
<1>2. CASE OpenStreamReader
  <2>1. /\ tool.pc = "mux" /\ DOMAIN tool' = DOMAIN tool /\ tool'.layout = tool.layout
        /\ tool'.source = tool.source /\ tool'.frames = tool.frames
        /\ tool'.failed = tool.failed /\ tool'.writers = tool.writers
        /\ tool'.pc \in {"add", "crashed"}
    BY <1>1, <1>2 DEF OpenStreamReader, ToolFields
  <2>2. SourceInv' /\ Taken' = Taken
    BY <1>1, <2>1, SourceStep
  <2>3. MuxInv' /\ DemuxInv'
    BY <1>1, <2>1, <2>2 DEF MuxInv, DemuxInv, NoFiles, NoTool
  <2> QED
    BY <2>1, <2>2, <2>3, MuxStart DEF ToolInv
<1>3. CASE AddReader
  <2>1. /\ tool.pc = "add" /\ DOMAIN tool' = DOMAIN tool /\ tool'.layout = tool.layout
        /\ tool'.source = tool.source /\ tool'.frames = tool.frames
        /\ tool'.failed = tool.failed /\ tool'.writers = tool.writers
        /\ tool'.pc = "copy" /\ file' = file
    BY <1>1, <1>3 DEF AddReader, AddStream, ToolFields
  <2>2. SourceInv' /\ Taken' = Taken
    BY <1>1, <2>1, SourceStep
  <2>3. file.packets = <<>> /\ Taken = 0
    BY <1>1, <2>1 DEF FileInv, Begins, EmptyFile, MuxInv
  <2>4. Has(file'.packets, copied', Taken')
    BY <2>1, <2>2, <2>3, HasNone
  <2>5. MuxInv' /\ DemuxInv'
    BY <1>1, <2>1, <2>2, <2>4 DEF MuxInv, DemuxInv, NoFiles, NoTool
  <2> QED
    BY <2>1, <2>2, <2>5, MuxStart DEF ToolInv
<1>4. CASE CopyPacket
  <2>1. PICK p, t :
          /\ p = Head(tool.source)
          /\ IF p.stream = 0 THEN WriteStreamPacket(p) ELSE RefusePacket
          /\ t = IF p.stream = 0 /\ file'.packets = file.packets THEN Failing(tool) ELSE tool
          /\ tool' = [t EXCEPT !.source = Tail(@)]
    BY <1>4 DEF CopyPacket
  <2>2. tool.pc = "copy" /\ tool.source # <<>> /\ Continues
    BY <1>4 DEF CopyPacket, FileInv
  <2>3. /\ DOMAIN t = DOMAIN tool /\ t.layout = tool.layout /\ t.source = tool.source
        /\ t.frames = tool.frames /\ t.writers = tool.writers /\ t.pc = tool.pc
        /\ t.failed = IF p.stream = 0 /\ file'.packets = file.packets THEN tool.failed + 1
                                                                      ELSE tool.failed
    BY <1>1, <2>1 DEF Failing, ToolFields
  <2>4. /\ DOMAIN tool' = DOMAIN tool /\ tool'.layout = tool.layout
        /\ tool'.source = Tail(tool.source) /\ tool'.frames = tool.frames
        /\ tool'.failed = t.failed /\ tool'.writers = tool.writers /\ tool'.pc = "copy"
    BY <1>1, <2>1, <2>2, <2>3 DEF ToolFields
  <2>5. tool'.failed \in Nat /\ (tool'.failed = 0 => tool.failed = 0)
    BY <1>1, <2>3, <2>4
  <2>6. /\ SourceInv' /\ Taken \in Nat /\ Taken' = Taken + 1 /\ Taken + 1 \in DOMAIN copied
        /\ p = copied[Taken + 1]
    BY <1>1, <2>1, <2>2, <2>4, <2>5, SourceStep
  <2>7. ASSUME tool'.failed = 0 PROVE Has(file'.packets, copied', Taken')
    <3>1. Has(file.packets, copied, Taken)
      BY <1>1, <2>2, <2>5, <2>7 DEF MuxInv
    <3>2. CASE p.stream # 0
      <4>1. file'.packets = file.packets
        BY <2>1, <2>2, <3>2, WrittenPackets
      <4> QED
        BY <2>6, <3>1, <3>2, <4>1, HasSame
    <3>3. CASE p.stream = 0
      <4>1. file'.packets # file.packets
        BY <1>1, <2>3, <2>4, <2>7, <3>3
      <4>2. file'.packets = Append(file.packets, p)
        BY <2>1, <2>2, <3>3, <4>1, WrittenPackets
      <4>3. PICK S : file.packets \in Seq(S)
        BY <2>2 DEF Continues, FileShape, Files
      <4>4. PICK T : T = S \cup {p}
        OBVIOUS
      <4>5. file.packets \in Seq(T) /\ p \in T
        BY <4>3, <4>4
      <4>6. Has(Append(file.packets, p), copied, Taken + 1)
        BY <2>6, <3>1, <3>3, <4>5, HasNext
      <4> QED
        BY <2>6, <4>2, <4>6
    <3> QED
      BY <3>2, <3>3
  <2>8. MuxInv' /\ DemuxInv'
    BY <1>1, <2>2, <2>4, <2>7 DEF MuxInv, DemuxInv, NoFiles, NoTool
  <2> QED
    BY <2>2, <2>4, <2>6, <2>8, MuxStart DEF ToolInv
<1>5. CASE EndCopy
  <2>1. PICK t : /\ t = (IF tool.source = <<>> THEN tool ELSE Failing(tool))
                 /\ \/ tool' = [t EXCEPT !.pc = "close"] /\ EndStreamMux
                    \/ tool' = [tool EXCEPT !.pc = "crashed"]
    BY <1>5 DEF EndCopy
  <2>2. /\ DOMAIN t = DOMAIN tool /\ t.layout = tool.layout /\ t.source = tool.source
        /\ t.frames = tool.frames /\ t.writers = tool.writers
        /\ \/ t.failed = tool.failed /\ tool.source = <<>>
           \/ t.failed = tool.failed + 1
    BY <1>1, <2>1 DEF Failing, ToolFields
  <2>3. /\ DOMAIN tool' = DOMAIN tool /\ tool'.layout = tool.layout /\ tool.pc = "copy"
        /\ tool'.source = tool.source /\ tool'.frames = tool.frames
        /\ tool'.writers = tool.writers
        /\ \/ tool'.pc = "crashed" /\ tool'.failed = tool.failed
           \/ tool'.pc = "close" /\ tool'.failed = t.failed /\ EndStreamMux
    BY <1>1, <1>5, <2>1, <2>2 DEF EndCopy, ToolFields
  <2>4. tool'.failed \in Nat
    BY <1>1, <2>2, <2>3
  <2>5. /\ SourceInv' /\ Taken' = Taken
        /\ tool.source = <<>> => Taken' = Len(copied)
    BY <1>1, <2>3, <2>4, SourceStep
  <2>6. ASSUME tool'.pc = "close"
        PROVE  file'.packets = file.packets /\ file'.trailers = 1
    <3>1. PICK S : file \in Files(S)
      BY <2>3 DEF FileInv, Continues, FileShape
    <3>2. file.trailers = 0 /\ file' = [file EXCEPT !.trailers = @ + 1]
      BY <2>3, <2>6 DEF FileInv, Continues, EndStreamMux
    <3> QED
      BY <3>1, <3>2 DEF Files
  <2>7. tool'.pc = "close" /\ tool'.failed = 0 => tool.failed = 0 /\ tool.source = <<>>
    BY <1>1, <2>2, <2>3
  <2>8. MuxInv' /\ DemuxInv'
    BY <1>1, <2>3, <2>5, <2>6, <2>7 DEF MuxInv, DemuxInv, NoFiles, NoTool
  <2> QED
    BY <2>3, <2>5, <2>8, MuxStart DEF ToolInv
<1>6. CASE CloseReader
  <2>1. /\ tool.pc = "close" /\ DOMAIN tool' = DOMAIN tool /\ tool'.layout = tool.layout
        /\ tool'.source = tool.source /\ tool'.frames = tool.frames
        /\ tool'.failed = tool.failed /\ tool'.writers = tool.writers
        /\ tool'.pc \in {"ended", "crashed"} /\ file' = file
    BY <1>1, <1>6 DEF CloseReader, ToolFields
  <2>2. SourceInv' /\ Taken' = Taken
    BY <1>1, <2>1, SourceStep
  <2>3. NoFiles /\ NoFiles' /\ (tool.failed = 0 => Taken = Len(copied))
    BY <1>1, <2>1 DEF MuxInv, NoFiles, NoTool
  <2>4. MuxInv' /\ DemuxInv'
    BY <1>1, <2>1, <2>2, <2>3 DEF MuxInv, DemuxInv
  <2> QED
    BY <2>1, <2>2, <2>4, MuxStart DEF ToolInv
<1> QED
  BY <1>2, <1>3, <1>4, <1>5, <1>6 DEF MuxSteps

\* Either sample keeps the invariant.
LEMMA ToolTools ==
  ASSUME FileInv, ToolInv, ToolSteps, UNCHANGED <<encVars, clientVars>>
  PROVE  ToolInv'
<1>1. CASE StartTool
  BY <1>1, StartTools
<1>2. CASE DemuxSteps /\ UNCHANGED <<muxVars, copied>>
  BY <1>2, DemuxBegins, DemuxReads, DemuxEnds DEF DemuxSteps
<1>3. CASE MuxSteps /\ UNCHANGED copied
  BY <1>3, MuxTools
<1> QED
  BY <1>1, <1>2, <1>3 DEF ToolSteps

\* At first no tool runs.
LEMMA InitTool == RecordingInit => ToolInv
<1> SUFFICES ASSUME RecordingInit PROVE ToolInv
  OBVIOUS
<1>1. tool = NoTool /\ copied = <<>> /\ written = <<>> /\ file = EmptyFile
  BY DEF RecordingInit, ToolInit, MuxInit
<1>2. /\ ToolFields \subseteq DOMAIN tool /\ tool.pc = "none" /\ tool.layout = <<>>
      /\ tool.source = <<>> /\ tool.frames = 0 /\ tool.failed = 0
  BY <1>1 DEF NoTool, ToolFields
<1>3. SourceInv
  <2>1. <<>> \in Seq(Copied) /\ <<>> \in Seq({"video", "audio"}) /\ DOMAIN <<>> = {}
    OBVIOUS
  <2> QED
    BY <1>1, <1>2, <2>1 DEF SourceInv
<1>4. MuxInv /\ DemuxInv
  BY <1>2 DEF MuxInv, DemuxInv
<1>5. StartInv
  BY <1>1, <1>2 DEF StartInv
<1> QED
  BY <1>3, <1>4, <1>5 DEF ToolInv

\* Every file is formed: one header before its packets, time stamps that count from zero, at most
\* one trailer. And what a tool made of its input, when no call failed, is what it should be:
\* MuxApp's file has the packets of stream 0, in order, and of DemuxApp's files that of the first
\* video packet has a header and a trailer and, if it is that of stream 0, those packets.
THEOREM FilesCanBePlayed == RecordingSpec => []FilesPlayable
<1>1. RecordingInit => CodecInv /\ FileInv /\ ToolInv
  BY InitCodec, InitFile, InitTool
<1>2. CodecInv /\ FileInv /\ ToolInv /\ [RecordingNext]_recordingVars =>
        CodecInv' /\ FileInv' /\ ToolInv'
  <2> SUFFICES ASSUME CodecInv, FileInv, ToolInv, [RecordingNext]_recordingVars
               PROVE  CodecInv' /\ FileInv' /\ ToolInv'
    OBVIOUS
  <2>1. CodecInv' /\ FileInv'
    BY NextCodec, NextFile
  <2>2. CASE RecordSteps /\ UNCHANGED toolVars
    BY <2>1, <2>2, RecordTool
  <2>3. CASE ToolSteps /\ UNCHANGED <<encVars, clientVars>>
    BY <2>1, <2>3, ToolTools
  <2>4. CASE UNCHANGED recordingVars
    <3>1. \A s : WriterIs(s)' <=> WriterIs(s)
      BY <2>4, LedSame DEF WriterIs, recordingVars, toolVars, Taken, Copied
    <3>2. WritersInv' <=> WritersInv
      BY <2>4, <3>1 DEF WritersInv, recordingVars, toolVars
    <3>3. SourceInv'
      BY <2>4 DEF ToolInv, SourceInv, Taken, Copied, recordingVars, toolVars
    <3>4. MuxInv' /\ StartInv'
      BY <2>4 DEF ToolInv, MuxInv, StartInv, Taken, NoFiles, recordingVars, toolVars,
                  clientVars, muxVars
    <3>5. DemuxInv'
      BY <2>4, <3>2, LedSame DEF ToolInv, DemuxInv, Taken, NoFiles, recordingVars, toolVars
    <3> QED
      BY <2>1, <3>3, <3>4, <3>5 DEF ToolInv
  <2> QED
    BY <2>1, <2>2, <2>3, <2>4 DEF RecordingNext
<1>3. FileInv /\ ToolInv => FilesPlayable
  <2> SUFFICES ASSUME FileInv, ToolInv PROVE FilesPlayable
    OBVIOUS
  <2>1. FileFormed
    BY DEF FileInv, FileShape
  <2>2. ASSUME tool.pc = "ended", tool.failed = 0, tool.writers = NoTool.writers
        PROVE  /\ Has(file.packets, copied, Len(copied))
               /\ copied # <<>> => file.trailers = 1
    BY <2>2 DEF ToolInv, MuxInv, NoFiles
  <2>3. ASSUME tool.pc = "ended", tool.failed = 0, tool.writers # NoTool.writers,
               NEW i \in DOMAIN tool.writers
        PROVE  LET w == tool.writers[i]
                   led == LedBy(i, copied, Len(copied))
               IN /\ w.headers = (IF led THEN 1 ELSE 0) /\ w.trailers = w.headers
                  /\ IF i = 0 /\ led THEN Has(w.packets, copied, Len(copied))
                                     ELSE w.packets = <<>>
    BY <2>3 DEF ToolInv, DemuxInv, NoFiles, WritersInv, WriterIs
  <2> QED
    BY <2>1, <2>2, <2>3 DEF FilesPlayable
<1> QED
  BY <1>1, <1>2, <1>3, PTL DEF RecordingSpec
===============================================================================
