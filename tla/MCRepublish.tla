---------------------------- MODULE MCRepublish ----------------------------
(* Small instances of Republish for TLC. *)
EXTENDS Republish, TLC

PublisherSymmetry == Permutations(Publishers)
=============================================================================
