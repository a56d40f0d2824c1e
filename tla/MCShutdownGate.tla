--------------------------- MODULE MCShutdownGate ---------------------------
(* Small instances of ShutdownGate for TLC. *)
EXTENDS ShutdownGate
=============================================================================
