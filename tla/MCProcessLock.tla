---------------------------- MODULE MCProcessLock ----------------------------
(* Instances of ProcessLock for TLC. *)
EXTENDS ProcessLock
=============================================================================
