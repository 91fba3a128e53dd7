---------------------------- MODULE MCShimLoop ------------------------------
(***************************************************************************)
(* Symmetry for the safety runs of ShimLoop: clients are interchangeable.  *)
(***************************************************************************)
EXTENDS ShimLoop, TLC

ClientSymmetry == Permutations(Clients)
=============================================================================
