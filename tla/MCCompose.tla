----------------------------- MODULE MCCompose -----------------------------
(* Small instances of Compose for TLC. *)
EXTENDS Compose, TLC

ViewerSymmetry == Permutations(Viewers)
=============================================================================
