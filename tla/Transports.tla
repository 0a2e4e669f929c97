----------------------------- MODULE Transports -----------------------------
(***************************************************************************)
(* The two transports under MsgDispatcher: a server whose user chose TCP   *)
(* serves connections (TcpConnection), one whose user chose UDP takes      *)
(* datagrams (Udp).  Both cut what arrives into messages by the same head. *)
(***************************************************************************)
EXTENDS TcpConnection, Udp

VARIABLE transport    \* "tcp" or "udp"

allVars == <<vars, udpVars, transport>>

TransportsInit == transport \in {"tcp", "udp"} /\ Init /\ UdpInit

TransportsNext ==
  \/ transport = "tcp" /\ Next /\ UNCHANGED <<udpVars, transport>>
  \/ transport = "udp" /\ UdpNext /\ UNCHANGED <<vars, transport>>

TransportsSpec == TransportsInit /\ [][TransportsNext]_allVars

(* For TLC.  TCP: an empty message and one with two words of data, a head  *)
(* without a callback, and one whose length is over the limit.  UDP, from  *)
(* a stranger: half a head, a head with too much and with too little data, *)
(* a message, and one without a callback.                                  *)
MCMessages == {[length |-> 0, cmd |-> "known"], [length |-> 2, cmd |-> "known"],
               [length |-> 0, cmd |-> "unknown"], [length |-> 0, cmd |-> "too_long"]}

MCStrange == {[n |-> 2, length |-> 1, cmd |-> "known"], [n |-> 6, length |-> 1, cmd |-> "known"],
              [n |-> 5, length |-> 2, cmd |-> "known"], [n |-> 5, length |-> 1, cmd |-> "known"],
              [n |-> 5, length |-> 1, cmd |-> "unknown"]}
=============================================================================
