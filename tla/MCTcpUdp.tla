------------------------------ MODULE MCTcpUdp ------------------------------
(***************************************************************************)
(* Messages for the run of TcpUdp: none, one and two bytes long, the last  *)
(* one with the bytes of a length in it.                                   *)
(***************************************************************************)
EXTENDS TcpUdp

SmallMessages == {<<>>, <<1>>, <<1, 0>>}
=============================================================================
