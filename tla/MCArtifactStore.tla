---------------------------- MODULE MCArtifactStore ----------------------------
(* Small instances of ArtifactStore for TLC. *)
EXTENDS ArtifactStore
================================================================================
