--------------------------- MODULE MCProjectInit ---------------------------
(* Small instances of ProjectInit for TLC. *)
EXTENDS ProjectInit, TLC

=============================================================================
