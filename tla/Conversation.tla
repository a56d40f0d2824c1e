----------------------------- MODULE Conversation -----------------------------
(***************************************************************************)
(* What a WebSocket session promises its client, independent of sockets,   *)
(* engine and cancellation: the accepted requests are answered one after   *)
(* the other, each with deltas and then exactly one terminal message; and  *)
(* a final message carries the usage of its own request.                   *)
(***************************************************************************)
EXTENDS Naturals

CONSTANT Generations  \* the accepted requests, numbered in order

VARIABLE told  \* what the client has been told of each

Terminal == {"final", "cancelled", "failed"}

Init == told = [g \in Generations |-> "nothing"]

\* It is g's turn: every earlier request has had its terminal message.
Turn(g) ==
    /\ told[g] \in {"nothing", "deltas"}
    /\ \A h \in Generations : h < g => told[h] \in Terminal

Delta(g) == Turn(g) /\ told' = [told EXCEPT ![g] = "deltas"]

End(g) == Turn(g) /\ \E how \in Terminal : told' = [told EXCEPT ![g] = how]

Next == \E g \in Generations : Delta(g) \/ End(g)

Spec == Init /\ [][Next]_told
=============================================================================
