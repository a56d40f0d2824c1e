---------------------------- MODULE OneShotSignal ----------------------------
(***************************************************************************)
(* What CancellationToken promises: a signal raised at most once, seen by  *)
(* every waiter that came before or after it, and by nobody before it.     *)
(***************************************************************************)
CONSTANT Waiters

VARIABLES raised,   \* the signal
          waiter    \* idle, waiting or returned

vars == <<raised, waiter>>

Init ==
    /\ raised = FALSE
    /\ waiter = [w \in Waiters |-> "idle"]

Raise ==
    /\ ~raised
    /\ raised' = TRUE
    /\ UNCHANGED waiter

Wait(w) ==
    /\ waiter[w] = "idle"
    /\ waiter' = [waiter EXCEPT ![w] = "waiting"]
    /\ UNCHANGED raised

Return(w) ==
    /\ waiter[w] = "waiting"
    /\ raised
    /\ waiter' = [waiter EXCEPT ![w] = "returned"]
    /\ UNCHANGED raised

Next == Raise \/ \E w \in Waiters : Wait(w) \/ Return(w)

Safety == Init /\ [][Next]_vars

\* Nobody waits for ever on a raised signal.
Spec == Safety /\ \A w \in Waiters : WF_vars(Return(w))
=============================================================================
