------------------------- MODULE MCSidecarLifecycle -------------------------
(* Small instances of SidecarLifecycle for TLC. *)
EXTENDS SidecarLifecycle, TLC

\* Requests and process identities are interchangeable (safety runs only).
Symmetry == Permutations(Requests) \cup Permutations(Children)
=============================================================================
