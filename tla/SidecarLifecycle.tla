--------------------------- MODULE SidecarLifecycle ---------------------------
(***************************************************************************)
(* The private inference child ("sidecar") of the generation engine, and   *)
(* everything that owns, launches, uses or kills it:                       *)
(* crates/impossible-inferences-engine/src/lib.rs.                         *)
(*                                                                         *)
(* Actors are the spawned generation tasks (Requests) and the ensure_running *)
(* call made by GenerationEngine::start (Startup).  They run on a          *)
(* multi-threaded runtime and share the lifecycle mutex, the execution     *)
(* semaphore (one permit: EngineConfig::validate accepts nothing else) and *)
(* the admission semaphore.  shutdown() and status() run beside them.      *)
(*                                                                         *)
(* Every wait is a `biased` select: the poll first looks at the stop       *)
(* branches (caller cancelled, deadline, stream dropped, engine shutdown)  *)
(* and only then polls the awaited branch.  The two looks are not atomic:  *)
(* armed[a] means "this poll of a's select found no stop branch ready and  *)
(* is about to poll the awaited branch".                                   *)
(***************************************************************************)
EXTENDS Naturals, FiniteSets

CONSTANTS Requests,         \* generation tasks
          Startup,          \* the ensure_running call of GenerationEngine::start
          Children,         \* process identities
          NoChild,          \* Option::None of a child
          Nobody,           \* a free mutex or semaphore permit
          Closer,           \* the shutdown() call, as holder of the mutex
          LaunchAttempts,   \* LAUNCH_ATTEMPTS
          AdmittedCapacity, \* max_concurrent + queue_capacity
          WaitErrors        \* whether Child::try_wait or start_kill may fail

Actors == Requests \cup {Startup}

ASSUME ConstantsOK ==
    /\ Startup \notin Requests
    /\ NoChild \notin Children
    /\ Nobody \notin Actors \cup {Closer}
    /\ Closer \notin Actors
    /\ LaunchAttempts \in Nat \ {0}
    /\ AdmittedCapacity \in Nat \ {0}
    /\ WaitErrors \in BOOLEAN

VARIABLES pc,        \* where each actor's future is suspended
          armed,     \* this poll has passed the stop branches of the select
          attempt,   \* loop counter of ensure_running
          child,     \* ensure_running's local child, not yet in Lifecycle.running
          conn,      \* the sidecar whose endpoint the request was given
          admitted,  \* holders of an admission permit
          execution, \* holder of the execution permit
          lifecycle, \* holder of the lifecycle mutex
          running,   \* Lifecycle.running
          proc,      \* operating-system state of every child
          stopped,   \* one of the actor's own stop branches is ready
          shutdown,  \* EngineInner.shutdown
          closing,   \* progress of the shutdown() call
          taken      \* the child shutdown() took out of Lifecycle.running

vars == <<pc, armed, attempt, child, conn, admitted, execution, lifecycle,
          running, proc, stopped, shutdown, closing, taken>>

\* Groups of variables that most steps leave alone.
locals == <<attempt, child, conn>>
permits == <<admitted, execution, lifecycle>>
closeVars == <<shutdown, closing, taken>>

\* The futures suspended in a biased select.
Selecting == {"lane", "lock", "backoff", "launch", "probe", "retry",
              "terminate", "abort", "connect", "stream"}

\* Code between two awaits that reads shared state.
Running == {"enter", "check"}

Ended == {"ok", "failed"}

TypeOK ==
    /\ pc \in [Actors -> {"new"} \cup Selecting \cup Running \cup Ended]
    /\ armed \in [Actors -> BOOLEAN]
    /\ attempt \in [Actors -> 0 .. (LaunchAttempts - 1)]
    /\ child \in [Actors -> Children \cup {NoChild}]
    /\ conn \in [Actors -> Children \cup {NoChild}]
    /\ admitted \in SUBSET Requests
    /\ execution \in Requests \cup {Nobody}
    /\ lifecycle \in Actors \cup {Closer, Nobody}
    /\ running \in Children \cup {NoChild}
    /\ proc \in [Children -> {"free", "alive", "killed", "exited"}]
    /\ stopped \in [Actors -> BOOLEAN]
    /\ shutdown \in BOOLEAN
    /\ closing \in {"open", "lock", "terminate", "ok", "err", "abandoned"}
    /\ taken \in Children \cup {NoChild}

Init ==
    /\ pc = [a \in Actors |-> IF a = Startup THEN "enter" ELSE "new"]
    /\ armed = [a \in Actors |-> FALSE]
    /\ attempt = [a \in Actors |-> 0]
    /\ child = [a \in Actors |-> NoChild]
    /\ conn = [a \in Actors |-> NoChild]
    /\ admitted = {}
    /\ execution = Nobody
    /\ lifecycle = Nobody
    /\ running = NoChild
    /\ proc = [c \in Children |-> "free"]
    /\ stopped = [a \in Actors |-> FALSE]
    /\ shutdown = FALSE
    /\ closing = "open"
    /\ taken = NoChild

-----------------------------------------------------------------------------
(* Helpers *)

\* What Child::try_wait may answer on an optional child.  A killed child still
\* counts as running until the operating system has delivered the signal.
TryExited(c) ==
    IF c = NoChild THEN {"none"}
    ELSE {IF proc[c] = "exited" THEN "exited" ELSE "running"}
            \cup (IF WaitErrors THEN {"error"} ELSE {})

\* Broken variant: a dropped handle leaves its process running.
DropWithoutKill(p, c) ==
    IF c = NoChild THEN p
    ELSE [p EXCEPT ![c] = IF @ = "exited" THEN "free" ELSE @]

\* Dropping a child handle: kill_on_drop(true) sends SIGKILL unless reaped.
Drop(p, c) ==
    IF c = NoChild THEN p
    ELSE [p EXCEPT ![c] = IF @ = "exited" THEN "free" ELSE "killed"]

\* A process identity nothing refers to any more.
Fresh(c) ==
    /\ proc[c] = "free"
    /\ \A a \in Actors : conn[a] # c

\* Broken variant: the select has no shutdown branch.
ReadyWithoutShutdown(a) == stopped[a]

\* Broken variant: the select looks at the engine's shutdown only.
ReadyOnShutdownOnly(a) == shutdown

\* A stop branch of the select is ready: the request's own stop or shutdown.
StopReady(a) == stopped[a] \/ shutdown

\* The actor's future returns: its locals (permits, mutex guard, child) drop.
Leave(a, outcome) ==
    /\ pc' = [pc EXCEPT ![a] = outcome]
    /\ armed' = [armed EXCEPT ![a] = FALSE]
    /\ attempt' = [attempt EXCEPT ![a] = 0]
    /\ conn' = [conn EXCEPT ![a] = NoChild]
    /\ admitted' = admitted \ {a}
    /\ execution' = IF execution = a THEN Nobody ELSE execution
    /\ lifecycle' = IF lifecycle = a THEN Nobody ELSE lifecycle

\* The future moves on to its next suspension point.
Goto(a, where) ==
    /\ pc' = [pc EXCEPT ![a] = where]
    /\ armed' = [armed EXCEPT ![a] = FALSE]

\* Where the caller of ensure_running continues.
AfterEnsure(a) == IF a = Startup THEN "ok" ELSE "connect"

-----------------------------------------------------------------------------
(* Polling a biased select *)

\* The poll found every stop branch pending.
Arm(a) ==
    /\ pc[a] \in Selecting
    /\ ~armed[a]
    /\ ~StopReady(a)
    /\ armed' = [armed EXCEPT ![a] = TRUE]
    /\ UNCHANGED <<pc, running, proc, stopped, locals, permits, closeVars>>

\* The awaited branch was pending too.
Pend(a) ==
    /\ armed[a]
    /\ armed' = [armed EXCEPT ![a] = FALSE]
    /\ UNCHANGED <<pc, running, proc, stopped, locals, permits, closeVars>>

\* A stop branch wins: run_generation (or start) returns its error.
StopBranch(a) ==
    /\ pc[a] \in Selecting \ {"probe", "retry"}
    /\ ~armed[a]
    /\ StopReady(a)
    /\ Leave(a, "failed")
    /\ proc' = Drop(proc, child[a])
    /\ child' = [child EXCEPT ![a] = NoChild]
    /\ UNCHANGED <<running, stopped, closeVars>>

\* Inside wait_until_ready the error goes back to ensure_running, which still
\* holds the mutex and the child and goes on to terminate it.
ReadinessStopped(a) ==
    /\ pc[a] \in {"probe", "retry"}
    /\ ~armed[a]
    /\ StopReady(a)
    /\ Goto(a, "abort")
    /\ UNCHANGED <<running, proc, stopped, locals, permits, closeVars>>

-----------------------------------------------------------------------------
(* generate and run_generation *)

\* generate() refuses: shutting down, invalid request or no admission permit.
GenerateRefused(r) ==
    /\ pc[r] = "new" /\ pc[Startup] = "ok"
    /\ pc' = [pc EXCEPT ![r] = "failed"]
    /\ UNCHANGED <<armed, running, proc, stopped, locals, permits, closeVars>>

\* generate() takes an admission permit and spawns the task.
Generate(r) ==
    /\ pc[r] = "new" /\ pc[Startup] = "ok"
    /\ ~shutdown
    /\ Cardinality(admitted) < AdmittedCapacity
    /\ admitted' = admitted \cup {r}
    /\ pc' = [pc EXCEPT ![r] = "lane"]
    /\ UNCHANGED <<armed, execution, lifecycle, running, proc, stopped, locals,
                   closeVars>>

\* Broken variant: the single execution permit is not waited for.
AcquireExecutionFreely(r) ==
    /\ pc[r] = "lane" /\ armed[r]
    /\ execution' = r
    /\ Goto(r, "enter")
    /\ UNCHANGED <<admitted, lifecycle, running, proc, stopped, locals,
                   closeVars>>

AcquireExecution(r) ==
    /\ pc[r] = "lane" /\ armed[r]
    /\ execution = Nobody
    /\ execution' = r
    /\ Goto(r, "enter")
    /\ UNCHANGED <<admitted, lifecycle, running, proc, stopped, locals,
                   closeVars>>

\* connection(): the mutex is taken, the slot inspected and the mutex freed
\* without an await in between.  A live sidecar: its endpoint is handed out.
ConnectionGranted(r) ==
    /\ pc[r] = "connect" /\ armed[r]
    /\ lifecycle = Nobody
    /\ "running" \in TryExited(running)
    /\ conn' = [conn EXCEPT ![r] = running]
    /\ Goto(r, "stream")
    /\ UNCHANGED <<attempt, child, running, proc, stopped, permits, closeVars>>

\* The slot was emptied since ensure_running, or try_wait failed.
ConnectionFails(r) ==
    /\ pc[r] = "connect" /\ armed[r]
    /\ lifecycle = Nobody
    /\ TryExited(running) \cap {"none", "error"} # {}
    /\ Leave(r, "failed")
    /\ UNCHANGED <<child, running, proc, stopped, closeVars>>

\* The sidecar exited since ensure_running: the slot is emptied.
ConnectionExited(r) ==
    /\ pc[r] = "connect" /\ armed[r]
    /\ lifecycle = Nobody
    /\ "exited" \in TryExited(running)
    /\ proc' = Drop(proc, running)
    /\ running' = NoChild
    /\ Leave(r, "failed")
    /\ UNCHANGED <<child, stopped, closeVars>>

\* The deadline re-check, the POST and consume_sse, seen from the sidecar:
\* the exchange ends well or not (module GenerationStream has its detail).
StreamEnds(r) ==
    /\ pc[r] = "stream" /\ armed[r]
    /\ \E outcome \in Ended : Leave(r, outcome)
    /\ UNCHANGED <<child, running, proc, stopped, closeVars>>

-----------------------------------------------------------------------------
(* ensure_running and wait_until_ready *)

\* ensure_running starts with a plain look at the shutdown flag.
EnterEnsure(a) ==
    /\ pc[a] = "enter"
    /\ IF shutdown
       THEN Leave(a, "failed")
       ELSE /\ Goto(a, "lock")
            /\ UNCHANGED <<attempt, conn, permits>>
    /\ UNCHANGED <<child, running, proc, stopped, closeVars>>

\* The mutex is acquired and Lifecycle.running inspected, without an await:
\* a live sidecar ends ensure_running ...
EnsureReuse(a) ==
    /\ pc[a] = "lock" /\ armed[a]
    /\ lifecycle = Nobody
    /\ "running" \in TryExited(running)
    /\ Goto(a, AfterEnsure(a))
    /\ UNCHANGED <<running, proc, stopped, locals, permits, closeVars>>

\* ... a failing try_wait is an error that leaves the slot as it is ...
EnsureInspectFails(a) ==
    /\ pc[a] = "lock" /\ armed[a]
    /\ lifecycle = Nobody
    /\ "error" \in TryExited(running)
    /\ Leave(a, "failed")
    /\ UNCHANGED <<child, running, proc, stopped, closeVars>>

\* Broken variant: the slot is overwritten without a look at the sidecar in it.
EnsureLaunchForgets(a) ==
    /\ pc[a] = "lock" /\ armed[a]
    /\ lifecycle = Nobody
    /\ running' = NoChild
    /\ lifecycle' = a
    /\ Goto(a, "launch")
    /\ UNCHANGED <<admitted, execution, proc, stopped, locals, closeVars>>

\* ... and an empty slot, or one whose sidecar exited, starts the launch loop
\* with the mutex held.
EnsureLaunch(a) ==
    /\ pc[a] = "lock" /\ armed[a]
    /\ lifecycle = Nobody
    /\ TryExited(running) \cap {"none", "exited"} # {}
    /\ proc' = Drop(proc, running)
    /\ running' = NoChild
    /\ lifecycle' = a
    /\ Goto(a, "launch")
    /\ UNCHANGED <<admitted, execution, stopped, locals, closeVars>>

\* The sleep before the second and later attempts ends.
Backoff(a) ==
    /\ pc[a] = "backoff" /\ armed[a]
    /\ Goto(a, "launch")
    /\ UNCHANGED <<running, proc, stopped, locals, permits, closeVars>>

\* Reserving a loopback port or drawing the bearer fails: `?` returns.
ReserveFails(a) ==
    /\ pc[a] = "launch" /\ ~armed[a]
    /\ Leave(a, "failed")
    /\ UNCHANGED <<child, running, proc, stopped, closeVars>>

\* The next iteration of the launch loop, or its end.
NextAttempt(a) ==
    IF attempt[a] + 1 < LaunchAttempts
    THEN /\ Goto(a, "backoff")
         /\ attempt' = [attempt EXCEPT ![a] = @ + 1]
         /\ UNCHANGED <<conn, permits>>
    ELSE Leave(a, "failed")

\* The launcher's future spawns the process in the poll that runs it.
Spawn(a) ==
    /\ pc[a] = "launch" /\ armed[a]
    /\ \E c \in Children :
          /\ Fresh(c)
          /\ proc' = [proc EXCEPT ![c] = "alive"]
          /\ child' = [child EXCEPT ![a] = c]
    /\ Goto(a, "check")
    /\ UNCHANGED <<attempt, conn, running, stopped, permits, closeVars>>

SpawnFails(a) ==
    /\ pc[a] = "launch" /\ armed[a]
    /\ NextAttempt(a)
    /\ UNCHANGED <<child, running, proc, stopped, closeVars>>

\* wait_until_ready: top of the loop.
ReadyCheck(a) ==
    /\ pc[a] = "check"
    /\ \E seen \in TryExited(child[a]) :
          Goto(a, IF seen = "running" THEN "probe" ELSE "terminate")
    /\ UNCHANGED <<running, proc, stopped, locals, permits, closeVars>>

\* GET /health answered 200 (the process may have exited since): the child
\* moves into Lifecycle.running and the mutex is released.
ProbeReady(a) ==
    /\ pc[a] = "probe" /\ armed[a]
    /\ running' = child[a]
    /\ child' = [child EXCEPT ![a] = NoChild]
    /\ lifecycle' = Nobody
    /\ attempt' = [attempt EXCEPT ![a] = 0]
    /\ Goto(a, AfterEnsure(a))
    /\ UNCHANGED <<conn, admitted, execution, proc, stopped, closeVars>>

\* No answer, another status or a transport error: give up at the startup
\* deadline, otherwise sleep 50 ms and look again.
ProbeNotReady(a) ==
    /\ pc[a] = "probe" /\ armed[a]
    /\ \E where \in {"retry", "terminate"} : Goto(a, where)
    /\ UNCHANGED <<running, proc, stopped, locals, permits, closeVars>>

Retry(a) ==
    /\ pc[a] = "retry" /\ armed[a]
    /\ Goto(a, "check")
    /\ UNCHANGED <<running, proc, stopped, locals, permits, closeVars>>

\* First poll of terminate(): SIGKILL, then wait.
TerminateKill(a) ==
    /\ pc[a] \in {"terminate", "abort"} /\ armed[a]
    /\ "running" \in TryExited(child[a])
    /\ proc[child[a]] = "alive"
    /\ proc' = [proc EXCEPT ![child[a]] = "killed"]
    /\ armed' = [armed EXCEPT ![a] = FALSE]
    /\ UNCHANGED <<pc, running, stopped, locals, permits, closeVars>>

\* terminate() is over (reaped, timed out or failed; the result is ignored):
\* the child drops, and the loop goes on unless readiness ended in a stop.
TerminateDone(a) ==
    /\ pc[a] \in {"terminate", "abort"} /\ armed[a]
    /\ proc' = Drop(proc, child[a])
    /\ child' = [child EXCEPT ![a] = NoChild]
    /\ IF pc[a] = "terminate" THEN NextAttempt(a) ELSE Leave(a, "failed")
    /\ UNCHANGED <<running, stopped, closeVars>>

-----------------------------------------------------------------------------
(* status and shutdown *)

\* Broken variant: status() clears the slot whatever it saw.
StatusClears ==
    /\ pc[Startup] = "ok"
    /\ lifecycle = Nobody
    /\ running # NoChild
    /\ proc' = Drop(proc, running)
    /\ running' = NoChild
    /\ UNCHANGED <<pc, armed, stopped, locals, permits, closeVars>>

\* status() under the mutex: anything but a running answer empties the slot.
Status ==
    /\ pc[Startup] = "ok"
    /\ lifecycle = Nobody
    /\ TryExited(running) \cap {"exited", "error"} # {}
    /\ proc' = Drop(proc, running)
    /\ running' = NoChild
    /\ UNCHANGED <<pc, armed, stopped, locals, permits, closeVars>>

\* shutdown() cancels the token before it asks for the mutex.
ShutdownBegin ==
    /\ closing = "open" /\ pc[Startup] = "ok"
    /\ shutdown' = TRUE
    /\ closing' = "lock"
    /\ UNCHANGED <<pc, armed, running, proc, stopped, taken, locals, permits>>

\* The mutex is acquired and the slot taken.
ShutdownTake ==
    /\ closing = "lock"
    /\ lifecycle = Nobody
    /\ IF running = NoChild
       THEN /\ closing' = "ok"
            /\ UNCHANGED <<lifecycle, running, taken>>
       ELSE /\ closing' = "terminate"
            /\ lifecycle' = Closer
            /\ taken' = running
            /\ running' = NoChild
    /\ UNCHANGED <<pc, armed, admitted, execution, proc, stopped, shutdown,
                   locals>>

ShutdownKill ==
    /\ closing = "terminate"
    /\ "running" \in TryExited(taken)
    /\ proc[taken] = "alive"
    /\ proc' = [proc EXCEPT ![taken] = "killed"]
    /\ UNCHANGED <<pc, armed, running, stopped, locals, permits, closeVars>>

\* terminate() of the taken child ends: reaped (Ok), or the bound passed or
\* a system call failed (Err).  Either way the taken child drops.
ShutdownReturn ==
    /\ closing = "terminate"
    /\ \/ proc[taken] = "exited" /\ closing' = "ok"
       \/ (proc[taken] = "alive" => WaitErrors) /\ closing' = "err"
    /\ proc' = Drop(proc, taken)
    /\ taken' = NoChild
    /\ lifecycle' = Nobody
    /\ UNCHANGED <<pc, armed, admitted, execution, running, stopped, shutdown,
                   locals>>

\* The caller (poll_workload_shutdown at its deadline) drops the future.
ShutdownAbandon ==
    /\ closing \in {"lock", "terminate"}
    /\ closing' = "abandoned"
    /\ proc' = Drop(proc, taken)
    /\ taken' = NoChild
    /\ lifecycle' = IF closing = "terminate" THEN Nobody ELSE lifecycle
    /\ UNCHANGED <<pc, armed, admitted, execution, running, stopped, shutdown,
                   locals>>

-----------------------------------------------------------------------------
(* Environment *)

\* Caller cancellation, deadline or dropped stream; for Startup its deadline.
Stop(a) ==
    /\ pc[a] \notin {"new"} \cup Ended
    /\ ~stopped[a]
    /\ stopped' = [stopped EXCEPT ![a] = TRUE]
    /\ UNCHANGED <<pc, armed, running, proc, locals, permits, closeVars>>

\* The sidecar crashes or exits on its own.
ChildExits(c) ==
    /\ proc[c] = "alive"
    /\ proc' = [proc EXCEPT ![c] = "exited"]
    /\ UNCHANGED <<pc, armed, running, stopped, locals, permits, closeVars>>

\* SIGKILL takes effect; nobody waits for a child whose handle was dropped.
ChildDies(c) ==
    /\ proc[c] = "killed"
    /\ proc' = [proc EXCEPT ![c] =
                  IF c = taken \/ \E a \in Actors : child[a] = c
                  THEN "exited" ELSE "free"]
    /\ UNCHANGED <<pc, armed, running, stopped, locals, permits, closeVars>>

-----------------------------------------------------------------------------
\* Steps of ensure_running, common to start() and run_generation().
EnsureRunning(a) ==
    \/ EnterEnsure(a) \/ EnsureReuse(a) \/ EnsureInspectFails(a)
    \/ EnsureLaunch(a) \/ Backoff(a) \/ ReserveFails(a) \/ Spawn(a)
    \/ SpawnFails(a) \/ ReadyCheck(a) \/ ProbeReady(a)
    \/ ProbeNotReady(a) \/ ReadinessStopped(a) \/ Retry(a) \/ TerminateKill(a) \/ TerminateDone(a)

\* What the runtime does when it polls the actor's future.
Poll(a) == Arm(a) \/ Pend(a) \/ StopBranch(a) \/ EnsureRunning(a)

RunGeneration(r) ==
    \/ AcquireExecution(r) \/ ConnectionGranted(r) \/ ConnectionFails(r)
    \/ ConnectionExited(r) \/ StreamEnds(r)

Shutdown == ShutdownTake \/ ShutdownKill \/ ShutdownReturn

Next ==
    \/ \E r \in Requests : GenerateRefused(r) \/ Generate(r) \/ RunGeneration(r)
    \/ \E a \in Actors : Poll(a) \/ Stop(a)
    \/ \E c \in Children : ChildExits(c) \/ ChildDies(c)
    \/ Status \/ ShutdownBegin \/ Shutdown \/ ShutdownAbandon

Spec == Init /\ [][Next]_vars

\* Woken tasks are polled; the operating system delivers SIGKILL; the mutex
\* serves its waiters in order, so shutdown() is not passed over for ever.
Fairness ==
    /\ \A r \in Requests : WF_vars(Poll(r) \/ RunGeneration(r))
    /\ WF_vars(Poll(Startup))
    /\ \A c \in Children : WF_vars(ChildDies(c))
    /\ SF_vars(ShutdownTake)
    /\ WF_vars(ShutdownKill \/ ShutdownReturn)

\* Every request context carries a deadline, and timers fire.
Deadlines == \A a \in Actors : WF_vars(Stop(a))

FairSpec == Spec /\ Fairness

-----------------------------------------------------------------------------
(* The inductive invariant behind the safety properties *)

\* The part of ensure_running that holds the mutex, and the part of it that
\* owns a child.
Launching == {"backoff", "launch", "check", "probe", "retry", "terminate", "abort"}
Owning == {"check", "probe", "retry", "terminate", "abort"}

\* Past the execution permit.
Executing == {"enter", "lock", "connect", "stream"} \cup Launching

\* The mutex is held exactly by the actor inside the launch loop, or by
\* shutdown() while it terminates; the slot is empty while it is held.
MutexInv ==
    /\ \A a \in Actors : pc[a] \in Launching <=> lifecycle = a
    /\ closing = "terminate" <=> lifecycle = Closer
    /\ lifecycle # Nobody => running = NoChild

\* Children outside the slot are owned by the holder of the mutex.
OwnerInv ==
    /\ \A a \in Actors : pc[a] \in Owning <=> child[a] # NoChild
    /\ closing = "terminate" <=> taken # NoChild

\* The execution permit, and start() before any request.
ExecutionInv ==
    /\ \A r \in Requests : pc[r] \in Executing => execution = r
    /\ pc[Startup] \notin {"new", "lane", "connect", "stream"}
    /\ pc[Startup] # "ok" => /\ \A r \in Requests : pc[r] = "new"
                             /\ closing = "open"

\* After shutdown() has emptied the slot, an actor that still wins the mutex
\* stands before the launch select, whose first look finds the flag.
FenceInv ==
    /\ shutdown <=> closing # "open"
    /\ closing \in {"terminate", "ok", "err"} =>
         /\ running = NoChild
         /\ \A a \in Actors : pc[a] \in Launching => pc[a] = "launch" /\ ~armed[a]

-----------------------------------------------------------------------------
(* Properties *)

\* No orphan: a sidecar nobody has killed is held by exactly the slot, by a
\* launch in progress or by shutdown(), so kill_on_drop reaches it whatever
\* future is dropped.
OwnedSidecar ==
    \A c \in Children : proc[c] = "alive" =>
        running = c \/ taken = c \/ \E a \in Actors : child[a] = c

\* Restarts never overlap: there are never two sidecars that nobody has
\* killed, across crashes, failed launches, retries and shutdown.
SingleSidecar ==
    \A c, d \in Children : proc[c] = "alive" /\ proc[d] = "alive" => c = d

\* shutdown() is final: once it has returned, no sidecar is left that was not
\* killed, and none is ever launched by a task that raced with it.
ShutdownFinal ==
    closing \in {"ok", "err"} => \A c \in Children : proc[c] # "alive"

\* The sidecar is not swapped under a generation: while a request streams, the
\* slot holds the sidecar it was connected to, or none, and nobody launches.
StableConnection ==
    \A r \in Requests : pc[r] = "stream" =>
        /\ running \in {conn[r], NoChild}
        /\ \A a \in Actors : child[a] = NoChild

\* The inductive invariant: what the proofs carry from state to state.
IndInv ==
    /\ TypeOK /\ MutexInv /\ OwnerInv /\ ExecutionInv /\ FenceInv
    /\ OwnedSidecar /\ StableConnection

\* As long as try_wait works, a live sidecar leaves the slot only when
\* shutdown() takes it: no request's failure, stop or retry, and no status()
\* probe, costs the others their sidecar.
SidecarOutlivesRequests ==
    [][~WaitErrors =>
         \A c \in Children :
            running = c /\ proc[c] = "alive" /\ running' # c
                => closing = "lock" /\ taken' = c]_vars

\* Under the code's scheduling, shutdown() ends even with no deadline firing:
\* whoever holds the mutex sees the flag at its next select and lets go.
ShutdownCompletes == closing = "lock" ~> closing \in {"ok", "err", "abandoned"}

\* Every admitted request ends once its deadline fires, wherever it waits.
RequestsEnd ==
    Deadlines => \A r \in Requests : pc[r] = "lane" ~> pc[r] \in Ended
=============================================================================
