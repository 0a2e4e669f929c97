------------------------------ MODULE ShmPort ------------------------------
(***************************************************************************)
(* The two ways the repository uses a shared-memory port.  "free": as the  *)
(* data recorder does, the publisher never waits for its subscribers.      *)
(* "lockstep": as samples/midware/zmq_shmem does to copy a file, waitSync  *)
(* before each chunk on the one side and replySync before each receiveMsg  *)
(* on the other, over a REQ/REP pair of ZeroMQ.                            *)
(***************************************************************************)
EXTENDS ShmRing

CONSTANTS Frames,     \* bound: frames, or the chunks of the file
          Client      \* the subscriber of the sample

ASSUME PortAssumption == Frames \in Nat \ {0} /\ Client \in Subs

VARIABLES mode,       \* "free" or "lockstep"
          pubAt,      \* shmem_pub: hello, wait, publish or done
          subAt,      \* shmem_sub: hello, ask, receive or done
          request,    \* of the REQ/REP pair: none, sent, answered or lost
          written,    \* what shmem_sub has written to its file
          missed      \* history: a message was sent before Client had joined

syncVars == <<mode, pubAt, subAt, request, written, missed>>
vars == <<ringVars, syncVars>>

Init ==
  /\ RingInit
  /\ mode \in {"free", "lockstep"}
  /\ pubAt = "hello" /\ subAt = "hello" /\ request = "none"
  /\ written = <<>> /\ missed = FALSE

(* replySync: READY is sent, and the answer waited for. *)
AskSync ==
  /\ mode = "lockstep" /\ subAt \in {"hello", "ask"} /\ request = "none"
  /\ request' = "sent"
  /\ UNCHANGED <<ringVars, mode, pubAt, subAt, written, missed>>

(* Mutant: waitSync does not wait for the request. *)
WaitSyncBlind ==
  /\ mode = "lockstep" /\ pubAt \in {"hello", "wait"}
  /\ request' = IF request = "sent" THEN "answered" ELSE request
  /\ pubAt' = IF pubAt = "hello" THEN "wait" ELSE "publish"
  /\ UNCHANGED <<ringVars, mode, subAt, written, missed>>

(* waitSync: the request is received and answered.  The first one greets.  *)
WaitSync ==
  /\ mode = "lockstep" /\ pubAt \in {"hello", "wait"} /\ request = "sent"
  /\ request' = "answered"
  /\ pubAt' = IF pubAt = "hello" THEN "wait" ELSE "publish"
  /\ UNCHANGED <<ringVars, mode, subAt, written, missed>>

(* Each waitSync binds a socket of its own and closes it.  A request that   *)
(* still reaches the socket of an earlier call is lost, and not sent again. *)
RequestIsLost ==
  /\ pubAt # "hello" /\ request = "sent"
  /\ request' = "lost"
  /\ UNCHANGED <<ringVars, mode, pubAt, subAt, written, missed>>

Synced ==
  /\ request = "answered"
  /\ request' = "none"
  /\ subAt' = IF subAt = "hello" THEN "ask" ELSE "receive"
  /\ UNCHANGED <<ringVars, mode, pubAt, written, missed>>

(* The loop of shmem_pub.  A chunk is no larger than a slot. *)
Publish ==
  /\ mode = "free" \/ pubAt = "publish"
  /\ \/ GetFreeSlotIndex /\ pub.frame < Frames /\ UNCHANGED syncVars
     \/ CopyIn /\ UNCHANGED syncVars
     \/ Refuse /\ mode = "free" /\ UNCHANGED syncVars
     \/ /\ SendMsg
        /\ missed' = (missed \/ Client \notin joined)
        /\ pubAt' = CASE mode = "free" -> pubAt
                      [] mode = "lockstep" /\ pub.frame = Frames -> "done"
                      [] OTHER -> "wait"
        /\ UNCHANGED <<mode, subAt, request, written>>

(* The loop of shmem_sub, or of a subscriber of the data recorder. *)
Receive(s) ==
  /\ mode = "free" \/ (s = Client /\ subAt = "receive")
  /\ \/ (ReceiveMsg(s) \/ CopyOut(s)) /\ UNCHANGED syncVars
     \/ /\ Release(s)
        /\ IF mode = "free" THEN UNCHANGED syncVars
           ELSE /\ written' = Append(written, sub[s].buf)
                /\ subAt' = IF sub[s].msg.frame = Frames THEN "done" ELSE "ask"
                /\ UNCHANGED <<mode, pubAt, request, missed>>

Next == \/ AskSync \/ WaitSync \/ RequestIsLost \/ Synced
        \/ Publish
        \/ \E s \in Subs : Receive(s) \/ (Join(s) /\ UNCHANGED syncVars)

Spec == /\ Init /\ [][Next]_vars
        /\ WF_vars(AskSync) /\ WF_vars(WaitSync) /\ WF_vars(Synced)
        /\ WF_vars(Publish) /\ WF_vars(Receive(Client))

(***************************************************************************)
(* Properties of the lockstep.                                             *)
(***************************************************************************)

(* In lockstep the file is copied whole and in order, however few slots    *)
(* there are: shmem_sub asks for the next chunk only when it has copied the*)
(* last one out, and shmem_pub waits for it (shmem_sub.cpp:48-90,          *)
(* shmem_pub.cpp:61-78).  Unless the first message was sent before the     *)
(* subscription had arrived, which the sample's sleep(1) makes unlikely, or*)
(* a request was lost to a socket that was being closed: then each waits   *)
(* for the other for ever.                                                 *)
CopiesTheFile ==
  (mode = "lockstep") ~>
    (missed \/ request = "lost" \/ written = [i \in 1 .. Frames |-> [lo |-> i, hi |-> i]])
=============================================================================
