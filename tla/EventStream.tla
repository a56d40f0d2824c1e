----------------------------- MODULE EventStream -----------------------------
(***************************************************************************)
(* What GenerationEngine::generate promises the reader of a                *)
(* GenerationStream, independent of tasks, channels and permits: at most   *)
(* MaxTokens deltas, then usage, then finished; or an error in place of    *)
(* whatever has not been delivered yet; and nothing after either.  The     *)
(* reader may walk away at any time.                                       *)
(***************************************************************************)
EXTENDS Naturals

CONSTANTS Requests, MaxTokens

VARIABLES phase,  \* how far the reader of each stream is
          tokens  \* deltas it has been handed

vars == <<phase, tokens>>

Init ==
    /\ phase = [r \in Requests |-> "idle"]
    /\ tokens = [r \in Requests |-> 0]

Open(r) ==
    /\ phase[r] = "idle"
    /\ phase' = [phase EXCEPT ![r] = "open"]
    /\ UNCHANGED tokens

Delta(r) ==
    /\ phase[r] = "open"
    /\ tokens[r] < MaxTokens
    /\ tokens' = [tokens EXCEPT ![r] = @ + 1]
    /\ UNCHANGED phase

Usage(r) ==
    /\ phase[r] = "open"
    /\ phase' = [phase EXCEPT ![r] = "usage"]
    /\ UNCHANGED tokens

Finished(r) ==
    /\ phase[r] = "usage"
    /\ phase' = [phase EXCEPT ![r] = "finished"]
    /\ UNCHANGED tokens

Error(r) ==
    /\ phase[r] \in {"open", "usage"}
    /\ phase' = [phase EXCEPT ![r] = "failed"]
    /\ UNCHANGED tokens

WalkAway(r) ==
    /\ phase[r] \in {"open", "usage"}
    /\ phase' = [phase EXCEPT ![r] = "left"]
    /\ UNCHANGED tokens

Next ==
    \E r \in Requests :
        Open(r) \/ Delta(r) \/ Usage(r) \/ Finished(r) \/ Error(r) \/ WalkAway(r)

Spec == Init /\ [][Next]_vars
=============================================================================
