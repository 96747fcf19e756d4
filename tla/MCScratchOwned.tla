--------------------------- MODULE MCScratchOwned ---------------------------
(* Small instances of ScratchOwned for TLC. *)
EXTENDS ScratchOwned, TLC

RunSymmetry == Permutations(Runs)
=============================================================================
