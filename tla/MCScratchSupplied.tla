------------------------- MODULE MCScratchSupplied -------------------------
(* Small instances of ScratchSupplied for TLC. *)
EXTENDS ScratchSupplied, TLC

=============================================================================
