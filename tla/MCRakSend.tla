----------------------------- MODULE MCRakSend -----------------------------
(***************************************************************************)
(* Messages for the runs of RakSend.                                       *)
(***************************************************************************)
EXTENDS RakSend

Message(rel, len) == [rel |-> rel, len |-> len]

\* The longest ordered message that is not split and the shortest one that is,
\* an empty one, one of three parts, and the longest unreliable one in one piece.
EdgeMessages ==
  {Message("ReliableOrdered", 1190), Message("ReliableOrdered", 1191),
   Message("UnreliableSequenced", 0), Message("Reliable", 3000),
   Message("Unreliable", 1195)}

LongMessages == {Message("ReliableOrdered", 400000)}
=============================================================================
