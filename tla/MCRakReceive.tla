---------------------------- MODULE MCRakReceive ----------------------------
(***************************************************************************)
(* Kinds of messages for the runs of RakReceive.                           *)
(***************************************************************************)
EXTENDS RakReceive

Kind(rel, count) == [rel |-> rel, count |-> count, disc |-> FALSE]
Goodbye == [rel |-> "ReliableOrdered", count |-> 1, disc |-> TRUE]

WrapKinds      == {Kind("ReliableOrdered", 1), Kind("ReliableOrdered", 2),
                   Kind("UnreliableSequenced", 1)}
SplitKinds     == {Kind("ReliableOrdered", 2), Kind("ReliableOrdered", 3)}
MixedKinds     == {Kind("ReliableOrdered", 1), Kind("ReliableOrdered", 2),
                   Kind("Reliable", 2), Kind("UnreliableSequenced", 2),
                   Kind("Unreliable", 1), Goodbye}
=============================================================================
