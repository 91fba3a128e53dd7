---------------------------- MODULE OrderedStream ---------------------------
(***************************************************************************)
(* What one end of a TcpUdp connection promises about reliable messages    *)
(* (bridge.rs:37, the header of tcpudp/mod.rs): those handed on are the    *)
(* first ones of those sent, whole and in order, and as long as the        *)
(* connection lasts the others follow.                                     *)
(***************************************************************************)
EXTENDS Naturals, Sequences

CONSTANT Messages

VARIABLES sent,         \* the messages sent, in order
          got,          \* the messages handed on, in order
          open          \* whether the receiving end still has its connection

vars == <<sent, got, open>>

Init == sent = <<>> /\ got = <<>> /\ open = TRUE

Send(m) == sent' = Append(sent, m) /\ UNCHANGED <<got, open>>

\* One call of receive may hand on several messages.
Deliver ==
  /\ open
  /\ \E n \in Len(got) + 1 .. Len(sent) : got' = SubSeq(sent, 1, n)
  /\ UNCHANGED <<sent, open>>

Close == open /\ open' = FALSE /\ UNCHANGED <<sent, got>>

Next == (\E m \in Messages : Send(m)) \/ Deliver \/ Close

Spec == Init /\ [][Next]_vars

FairSpec == Spec /\ WF_vars(Deliver)
=============================================================================
