---------------------------- MODULE MCServeProcess ----------------------------
(* Small instances of ServeProcess for TLC. *)
EXTENDS ServeProcess
=============================================================================
