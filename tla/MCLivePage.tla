---------------------------- MODULE MCLivePage ----------------------------
(* LivePage for TLC. *)
EXTENDS LivePage, TLC

Symmetry == Permutations(Peer)
=============================================================================
