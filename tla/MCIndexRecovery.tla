-------------------------- MODULE MCIndexRecovery --------------------------
(* Small instances of IndexRecovery for TLC. *)
EXTENDS IndexRecovery
=============================================================================
