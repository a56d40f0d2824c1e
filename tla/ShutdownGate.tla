----------------------------- MODULE ShutdownGate -----------------------------
(***************************************************************************)
(* ShutdownGate of impossible-server-core (src/shutdown.rs): admission of  *)
(* HTTP work, bounded drain and forced stop.                               *)
(*                                                                         *)
(* Every method takes the state mutex for one block and only afterwards,   *)
(* with the mutex free, cancels the stop token: the two are separate steps *)
(* here, so that other calls run in between.  The token is the one-shot    *)
(* signal that module CancellationToken is shown to implement.             *)
(***************************************************************************)
EXTENDS Naturals, FiniteSets

CONSTANTS Workers,   \* operations that call try_enter
          Drainers,  \* calls of drain()
          Stoppers   \* direct calls of stop_now()

ASSUME GateConstantsOK == IsFiniteSet(Workers)

VARIABLES phase,    \* accepting, draining, or Stopped(graceful | forced)
          active,   \* State.active
          stopped,  \* the stop token
          owner,    \* whether a gate handle outside guards and calls is left
          worker,   \* where each operation is
          drainer,  \* where each drain() is
          outcome,  \* what each drain() returned
          stopper   \* where each stop_now() is

vars == <<phase, active, stopped, owner, worker, drainer, outcome, stopper>>

Terminal == {"graceful", "forced"}

TypeOK ==
    /\ phase \in {"accepting", "draining"} \cup Terminal
    /\ active \in Nat
    /\ stopped \in BOOLEAN
    /\ owner \in BOOLEAN
    /\ worker \in [Workers -> {"out", "in", "signal", "left", "rejected"}]
    /\ drainer \in [Drainers -> {"idle", "signal", "wait", "force", "forceSignal",
                                 "drop", "dropSignal", "done", "dropped"}]
    /\ outcome \in [Drainers -> Terminal \cup {"none"}]
    /\ stopper \in [Stoppers -> {"idle", "signal", "done"}]

Init ==
    /\ phase = "accepting"
    /\ active = 0
    /\ stopped = FALSE
    /\ owner = TRUE
    /\ worker = [w \in Workers |-> "out"]
    /\ drainer = [d \in Drainers |-> "idle"]
    /\ outcome = [d \in Drainers |-> "none"]
    /\ stopper = [s \in Stoppers |-> "idle"]

-----------------------------------------------------------------------------
(* try_enter and WorkGuard *)

\* Broken variant: only a terminal gate refuses.
TryEnterWhileDraining(w) ==
    /\ worker[w] = "out" /\ owner
    /\ IF phase \notin Terminal
       THEN /\ active' = active + 1
            /\ worker' = [worker EXCEPT ![w] = "in"]
       ELSE /\ worker' = [worker EXCEPT ![w] = "rejected"]
            /\ UNCHANGED active
    /\ UNCHANGED <<phase, stopped, owner, drainer, outcome, stopper>>

\* try_enter.  (The counter is a usize and the number of live guards is
\* bounded by memory, so checked_add does not fail here.)
TryEnter(w) ==
    /\ worker[w] = "out" /\ owner
    /\ IF phase = "accepting"
       THEN /\ active' = active + 1
            /\ worker' = [worker EXCEPT ![w] = "in"]
       ELSE /\ worker' = [worker EXCEPT ![w] = "rejected"]
            /\ UNCHANGED active
    /\ UNCHANGED <<phase, stopped, owner, drainer, outcome, stopper>>

\* Broken variant: the last guard does not finish the drain.
GuardDropForgets(w) ==
    /\ worker[w] = "in"
    /\ active' = active - 1
    /\ worker' = [worker EXCEPT ![w] = "left"]
    /\ UNCHANGED <<phase, stopped, owner, drainer, outcome, stopper>>

\* Broken variant: the last guard completes the gate and tells nobody.
GuardDropSilent(w) ==
    /\ worker[w] = "in"
    /\ active' = active - 1
    /\ phase' = IF active' = 0 /\ phase = "draining" THEN "graceful" ELSE phase
    /\ worker' = [worker EXCEPT ![w] = "left"]
    /\ UNCHANGED <<stopped, owner, drainer, outcome, stopper>>

\* WorkGuard::drop under the mutex: the last guard of a draining gate makes
\* it terminal and goes on to cancel the token.
GuardDrop(w) ==
    /\ worker[w] = "in"
    /\ active' = active - 1
    /\ IF active' = 0 /\ phase = "draining"
       THEN /\ phase' = "graceful"
            /\ worker' = [worker EXCEPT ![w] = "signal"]
       ELSE /\ worker' = [worker EXCEPT ![w] = "left"]
            /\ UNCHANGED phase
    /\ UNCHANGED <<stopped, owner, drainer, outcome, stopper>>

\* The completing guard cancels the token, outside the mutex.
GuardSignal(w) ==
    /\ worker[w] = "signal"
    /\ stopped' = TRUE
    /\ worker' = [worker EXCEPT ![w] = "left"]
    /\ UNCHANGED <<phase, active, owner, drainer, outcome, stopper>>

-----------------------------------------------------------------------------
(* drain *)

\* begin_drain: a terminal gate answers at once (its token may not be
\* cancelled yet), an idle one is completed, otherwise the caller waits.
BeginDrain(d) ==
    /\ drainer[d] = "idle" /\ owner
    /\ IF phase \in Terminal
       THEN /\ outcome' = [outcome EXCEPT ![d] = phase]
            /\ drainer' = [drainer EXCEPT ![d] = "done"]
            /\ UNCHANGED phase
       ELSE /\ phase' = IF active = 0 THEN "graceful" ELSE "draining"
            /\ drainer' = [drainer EXCEPT ![d] =
                             IF active = 0 THEN "signal" ELSE "wait"]
            /\ UNCHANGED outcome
    /\ UNCHANGED <<active, stopped, owner, worker, stopper>>

\* The drain that found the gate idle cancels the token, outside the mutex.
DrainSignal(d) ==
    /\ drainer[d] = "signal"
    /\ stopped' = TRUE
    /\ drainer' = [drainer EXCEPT ![d] = "done"]
    /\ outcome' = [outcome EXCEPT ![d] = "graceful"]
    /\ UNCHANGED <<phase, active, owner, worker, stopper>>

\* Broken variant: the wait is believed without a look at the phase.
DrainStoppedOptimist(d) ==
    /\ drainer[d] = "wait" /\ stopped
    /\ outcome' = [outcome EXCEPT ![d] = "graceful"]
    /\ drainer' = [drainer EXCEPT ![d] = "done"]
    /\ UNCHANGED <<phase, active, stopped, owner, worker, stopper>>

\* The token is cancelled within the bound: terminal_outcome.
DrainStopped(d) ==
    /\ drainer[d] = "wait" /\ stopped
    /\ outcome' = [outcome EXCEPT ![d] =
                     IF phase \in Terminal THEN phase ELSE "forced"]
    /\ drainer' = [drainer EXCEPT ![d] = "done"]
    /\ UNCHANGED <<phase, active, stopped, owner, worker, stopper>>

\* The bound passes first, or the caller drops the future: stop_now follows.
DrainTimesOut(d) ==
    /\ drainer[d] = "wait" /\ ~stopped
    /\ drainer' = [drainer EXCEPT ![d] = "force"]
    /\ UNCHANGED <<phase, active, stopped, owner, worker, outcome, stopper>>

DrainDropped(d) ==
    /\ drainer[d] = "wait"
    /\ drainer' = [drainer EXCEPT ![d] = "drop"]
    /\ UNCHANGED <<phase, active, stopped, owner, worker, outcome, stopper>>

-----------------------------------------------------------------------------
(* stop_now *)

\* Broken variant: a terminal phase is overwritten.
StopNowAlways == phase' = "forced"

\* The block under the mutex: a terminal phase is kept.
StopNow == phase' = IF phase \in Terminal THEN phase ELSE "forced"

\* stop_now on behalf of drain() (timeout) or of its cancellation guard.
DrainForce(d) ==
    /\ drainer[d] \in {"force", "drop"}
    /\ StopNow
    /\ drainer' = [drainer EXCEPT ![d] =
                     IF @ = "force" THEN "forceSignal" ELSE "dropSignal"]
    /\ UNCHANGED <<active, stopped, owner, worker, outcome, stopper>>

\* stop_now cancels the token; a timed-out drain() then reports Forced.
DrainForceSignal(d) ==
    /\ drainer[d] \in {"forceSignal", "dropSignal"}
    /\ stopped' = TRUE
    /\ outcome' = IF drainer[d] = "forceSignal"
                  THEN [outcome EXCEPT ![d] = "forced"] ELSE outcome
    /\ drainer' = [drainer EXCEPT ![d] =
                     IF @ = "forceSignal" THEN "done" ELSE "dropped"]
    /\ UNCHANGED <<phase, active, owner, worker, stopper>>

\* stop_now called directly, then its signal.
StopperForce(s) ==
    /\ stopper[s] = "idle" /\ owner
    /\ StopNow
    /\ stopper' = [stopper EXCEPT ![s] = "signal"]
    /\ UNCHANGED <<active, stopped, owner, worker, drainer, outcome>>

StopperSignal(s) ==
    /\ stopper[s] = "signal"
    /\ stopped' = TRUE
    /\ stopper' = [stopper EXCEPT ![s] = "done"]
    /\ UNCHANGED <<phase, active, owner, worker, drainer, outcome>>

-----------------------------------------------------------------------------
\* The last owner drops the gate while no guard or call holds it: Inner::drop
\* cancels the token.
OwnerDropped ==
    /\ owner
    /\ \A w \in Workers : worker[w] \notin {"in", "signal"}
    /\ \A d \in Drainers : drainer[d] \in {"idle", "done", "dropped"}
    /\ \A s \in Stoppers : stopper[s] # "signal"
    /\ owner' = FALSE
    /\ stopped' = TRUE
    /\ UNCHANGED <<phase, active, worker, drainer, outcome, stopper>>

WorkerStep(w) == GuardDrop(w) \/ GuardSignal(w)

DrainerStep(d) ==
    DrainSignal(d) \/ DrainStopped(d) \/ DrainForce(d) \/ DrainForceSignal(d)

Next ==
    \/ \E w \in Workers : TryEnter(w) \/ WorkerStep(w)
    \/ \E d \in Drainers :
          BeginDrain(d) \/ DrainTimesOut(d) \/ DrainDropped(d) \/ DrainerStep(d)
    \/ \E s \in Stoppers : StopperForce(s) \/ StopperSignal(s)
    \/ OwnerDropped

Spec == Init /\ [][Next]_vars

\* Calls that have begun go on; nothing is assumed of the operations, which
\* may never end.
FairSpec ==
    /\ Spec
    /\ \A w \in Workers : WF_vars(GuardSignal(w))
    /\ \A d \in Drainers : WF_vars(DrainerStep(d))
    /\ \A s \in Stoppers : WF_vars(StopperSignal(s))

\* Every admitted operation ends by itself (its guard drops).
WorkEnds == \A w \in Workers : WF_vars(GuardDrop(w))

-----------------------------------------------------------------------------
(* Properties *)

\* The operations holding a guard.
Inside == {w \in Workers : worker[w] = "in"}

\* The counter counts the live guards: none is lost or counted twice.
ActiveCount == active = Cardinality(Inside)

\* Graceful means what it says: once a drain() has reported a graceful outcome,
\* no admitted operation is left and none is ever admitted again.
GracefulMeansDone ==
    \A d \in Drainers : outcome[d] = "graceful" => Inside = {} /\ phase = "graceful"

\* The stop token is never seen cancelled while admitted work may still go on
\* unforced: it implies a terminal phase, or that the gate is gone.
StopImpliesTerminal == stopped => phase \in Terminal \/ ~owner

\* The phase only moves forward, the first terminal outcome stays, and the
\* admitted set only shrinks once draining has begun.
OneWay ==
    [][/\ phase \in Terminal => phase' = phase
       /\ phase # "accepting" => phase' # "accepting" /\ Inside' \subseteq Inside]_vars

\* A terminal phase always reaches the waiters, although the token is
\* cancelled outside the mutex.
TerminalIsPublished == phase \in Terminal ~> stopped

\* If the admitted operations end, every drain() returns, without help from
\* its timeout and however many drain() and stop_now() calls overlap.
DrainReturns ==
    WorkEnds => \A d \in Drainers :
        drainer[d] = "wait" ~> drainer[d] \in {"done", "dropped"}
=============================================================================
