-------------------------- MODULE CancellationToken --------------------------
(***************************************************************************)
(* CancellationToken of impossible-server-core (src/cancellation.rs): an   *)
(* AtomicBool and a tokio::sync::Notify, awaited by every select of the    *)
(* product.  cancel() swaps the flag and then notifies; cancelled()        *)
(* creates its Notified future, looks at the flag and then awaits.         *)
(***************************************************************************)
EXTENDS Naturals

CONSTANTS Waiters,    \* calls of cancelled()
          Cancellers  \* calls of cancel()

VARIABLES cancelled,  \* the AtomicBool
          calls,      \* Notify: how often notify_waiters was called
          ticket,     \* Notified: `calls` when the future was created
          waiter,     \* where each cancelled() is
          canceller,  \* where each cancel() is
          won         \* cancel() returned true

vars == <<cancelled, calls, ticket, waiter, canceller, won>>

TypeOK ==
    /\ cancelled \in BOOLEAN
    /\ calls \in {0, 1}
    /\ ticket \in [Waiters -> {0, 1}]
    /\ waiter \in [Waiters -> {"idle", "top", "second", "await", "returned"}]
    /\ canceller \in [Cancellers -> {"idle", "notify", "returned"}]
    /\ won \in [Cancellers -> BOOLEAN]

Init ==
    /\ cancelled = FALSE
    /\ calls = 0
    /\ ticket = [w \in Waiters |-> 0]
    /\ waiter = [w \in Waiters |-> "idle"]
    /\ canceller = [c \in Cancellers |-> "idle"]
    /\ won = [c \in Cancellers |-> FALSE]

-----------------------------------------------------------------------------
(* cancel *)

\* The swap: only the call that finds FALSE goes on to notify.
Swap(c) ==
    /\ canceller[c] = "idle"
    /\ cancelled' = TRUE
    /\ canceller' = [canceller EXCEPT ![c] =
                       IF cancelled THEN "returned" ELSE "notify"]
    /\ UNCHANGED <<calls, ticket, waiter, won>>

\* notify_waiters() wakes every Notified created before it, polled or not.
NotifyWaiters(c) ==
    /\ canceller[c] = "notify"
    /\ calls' = calls + 1
    /\ canceller' = [canceller EXCEPT ![c] = "returned"]
    /\ won' = [won EXCEPT ![c] = TRUE]
    /\ UNCHANGED <<cancelled, ticket, waiter>>

-----------------------------------------------------------------------------
(* cancelled *)

Call(w) ==
    /\ waiter[w] = "idle"
    /\ waiter' = [waiter EXCEPT ![w] = "top"]
    /\ UNCHANGED <<cancelled, calls, ticket, canceller, won>>

\* let notified = self.0.notify.notified();
CreateNotified(w, from, to) ==
    /\ waiter[w] = from
    /\ ticket' = [ticket EXCEPT ![w] = calls]
    /\ waiter' = [waiter EXCEPT ![w] = to]
    /\ UNCHANGED <<cancelled, calls, canceller, won>>

\* if self.is_cancelled() { return; }
Check(w, from, to) ==
    /\ waiter[w] = from
    /\ waiter' = [waiter EXCEPT ![w] = IF cancelled THEN "returned" ELSE to]
    /\ UNCHANGED <<cancelled, calls, ticket, canceller, won>>

\* notified.await completes and the loop starts over.
Notified(w) ==
    /\ waiter[w] = "await"
    /\ calls # ticket[w]
    /\ waiter' = [waiter EXCEPT ![w] = "top"]
    /\ UNCHANGED <<cancelled, calls, ticket, canceller, won>>

\* Broken variant: the look at the flag comes before the future is created.
CancelledLooksFirst(w) ==
    Check(w, "top", "second") \/ CreateNotified(w, "second", "await") \/ Notified(w)

Cancelled(w) ==
    CreateNotified(w, "top", "second") \/ Check(w, "second", "await") \/ Notified(w)

-----------------------------------------------------------------------------
Cancel(c) == Swap(c) \/ NotifyWaiters(c)

Next ==
    \/ \E c \in Cancellers : Cancel(c)
    \/ \E w \in Waiters : Call(w) \/ Cancelled(w)

\* A cancel() that has swapped goes on (nothing is awaited in between), and
\* woken waiters are polled.
Fairness ==
    /\ \A c \in Cancellers : WF_vars(NotifyWaiters(c))
    /\ \A w \in Waiters : WF_vars(Cancelled(w))

Spec == Init /\ [][Next]_vars /\ Fairness

-----------------------------------------------------------------------------
(* Properties *)

\* However many calls race, at most one cancel() returns true, and none does
\* before the flag is up.
SingleWinner ==
    /\ \A c, d \in Cancellers : won[c] /\ won[d] => c = d
    /\ \A c \in Cancellers : won[c] => cancelled

\* No missed wake-up: a waiter that has not been notified sleeps on a raised
\* flag only while the notification is still to come.
NoMissedWakeup ==
    \A w \in Waiters : waiter[w] = "await" /\ ticket[w] = calls /\ cancelled =>
        \E c \in Cancellers : canceller[c] = "notify"

Signal == INSTANCE OneShotSignal WITH
    raised <- cancelled,
    waiter <- [w \in Waiters |->
                 IF waiter[w] \in {"idle", "returned"} THEN waiter[w] ELSE "waiting"]

\* Every wake-up comes, and none too early: although the flag and the notification
\* are two steps and every waiter takes three, the token implements a signal
\* that every waiter, earlier or later, observes.
ImplementsSignal == Signal!Spec
=============================================================================
