------------------------ MODULE MCCancellationToken ------------------------
(* Small instances of CancellationToken for TLC. *)
EXTENDS CancellationToken
=============================================================================
