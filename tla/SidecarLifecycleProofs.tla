----------------------- MODULE SidecarLifecycleProofs -----------------------
(***************************************************************************)
(* Safety of the sidecar lifecycle for any number of requests, children    *)
(* and launch attempts.                                                    *)
(*                                                                         *)
(* The argument: the mutex is held exactly by the actor inside the launch  *)
(* loop or by shutdown() (MutexInv), so every child outside the slot has   *)
(* one owner and the slot is empty meanwhile (OwnerInv); requests go there *)
(* one at a time (ExecutionInv); and once shutdown() has emptied the slot, *)
(* whoever still wins the mutex is stopped by the look at the flag that    *)
(* precedes the launch (FenceInv).                                         *)
(***************************************************************************)
EXTENDS SidecarLifecycle, TLAPS

ProcStates == {"free", "alive", "killed", "exited"}

(* Dropping a child handle leaves a process table. *)
LEMMA DropType ==
    ASSUME NEW p \in [Children -> ProcStates],
        NEW c \in Children \cup {NoChild}
    PROVE  Drop(p, c) \in [Children -> ProcStates]
BY DEF Drop, ProcStates

(* A future that returns leaves every variable it touches well typed. *)
LEMMA LeaveType ==
    ASSUME TypeOK, NEW a \in Actors, NEW outcome \in Ended, Leave(a, outcome)
    PROVE  /\ pc' \in [Actors -> {"new"} \cup Selecting \cup Running \cup Ended]
           /\ armed' \in [Actors -> BOOLEAN]
           /\ attempt' \in [Actors -> 0 .. (LaunchAttempts - 1)]
           /\ conn' \in [Actors -> Children \cup {NoChild}]
           /\ admitted' \in SUBSET Requests
           /\ execution' \in Requests \cup {Nobody}
           /\ lifecycle' \in Actors \cup {Closer, Nobody}
BY ConstantsOK DEF Leave, TypeOK, Ended

(* The launch loop never counts past its last attempt. *)
LEMMA NextAttemptType ==
    ASSUME TypeOK, NEW a \in Actors, NextAttempt(a)
    PROVE  /\ pc' \in [Actors -> {"new"} \cup Selecting \cup Running \cup Ended]
           /\ armed' \in [Actors -> BOOLEAN]
           /\ attempt' \in [Actors -> 0 .. (LaunchAttempts - 1)]
           /\ conn' \in [Actors -> Children \cup {NoChild}]
           /\ admitted' \in SUBSET Requests
           /\ execution' \in Requests \cup {Nobody}
           /\ lifecycle' \in Actors \cup {Closer, Nobody}
<1>1. CASE attempt[a] + 1 < LaunchAttempts
  <2>1. attempt' \in [Actors -> 0 .. (LaunchAttempts - 1)]
    BY <1>1, ConstantsOK DEF NextAttempt, TypeOK
  <2> QED BY <1>1, <2>1 DEF permits, NextAttempt, Goto, TypeOK, Selecting
<1>2. CASE ~(attempt[a] + 1 < LaunchAttempts)
  BY <1>2, LeaveType DEF NextAttempt, Ended
<1> QED BY <1>1, <1>2

(* Every step keeps the types. *)
LEMMA Typing == TypeOK /\ [Next]_vars => TypeOK'
<1> SUFFICES ASSUME TypeOK, [Next]_vars PROVE TypeOK'
  OBVIOUS
<1> USE ConstantsOK DEF TypeOK, Actors, Selecting, Running, Ended,
       locals, permits, closeVars, ProcStates
<1>1. ASSUME NEW a \in Actors, Arm(a) PROVE TypeOK'
  BY <1>1 DEF Arm, StopReady
<1>2. ASSUME NEW a \in Actors, Pend(a) PROVE TypeOK'
  BY <1>2 DEF Pend
<1>3. ASSUME NEW a \in Actors, StopBranch(a) PROVE TypeOK'
  BY <1>3, DropType, LeaveType DEF StopBranch, StopReady
<1>4. ASSUME NEW a \in Actors, ReadinessStopped(a) PROVE TypeOK'
  BY <1>4 DEF ReadinessStopped, StopReady, Goto
<1>5. ASSUME NEW a \in Actors, Stop(a) PROVE TypeOK'
  BY <1>5 DEF Stop
<1>6. ASSUME NEW a \in Actors, EnterEnsure(a) PROVE TypeOK'
  BY <1>6, LeaveType DEF EnterEnsure, Goto
<1>7. ASSUME NEW a \in Actors, EnsureReuse(a) PROVE TypeOK'
  BY <1>7 DEF EnsureReuse, Goto, TryExited, AfterEnsure
<1>8. ASSUME NEW a \in Actors, EnsureInspectFails(a) PROVE TypeOK'
  BY <1>8, LeaveType DEF EnsureInspectFails, TryExited
<1>9. ASSUME NEW a \in Actors, EnsureLaunch(a) PROVE TypeOK'
  BY <1>9, DropType DEF EnsureLaunch, Goto, TryExited
<1>10. ASSUME NEW a \in Actors, Backoff(a) PROVE TypeOK'
  BY <1>10 DEF Backoff, Goto
<1>11. ASSUME NEW a \in Actors, ReserveFails(a) PROVE TypeOK'
  BY <1>11, LeaveType DEF ReserveFails
<1>12. ASSUME NEW a \in Actors, Spawn(a) PROVE TypeOK'
  BY <1>12 DEF Spawn, Goto, Fresh
<1>13. ASSUME NEW a \in Actors, SpawnFails(a) PROVE TypeOK'
  BY <1>13, NextAttemptType DEF SpawnFails
<1>14. ASSUME NEW a \in Actors, ReadyCheck(a) PROVE TypeOK'
  BY <1>14 DEF ReadyCheck, Goto, TryExited
<1>15. ASSUME NEW a \in Actors, ProbeReady(a) PROVE TypeOK'
  BY <1>15 DEF ProbeReady, Goto, AfterEnsure
<1>16. ASSUME NEW a \in Actors, ProbeNotReady(a) PROVE TypeOK'
  BY <1>16 DEF ProbeNotReady, Goto
<1>17. ASSUME NEW a \in Actors, Retry(a) PROVE TypeOK'
  BY <1>17 DEF Retry, Goto
<1>18. ASSUME NEW a \in Actors, TerminateKill(a) PROVE TypeOK'
  BY <1>18 DEF TerminateKill, TryExited
<1>19. ASSUME NEW a \in Actors, TerminateDone(a) PROVE TypeOK'
  BY <1>19, DropType, LeaveType, NextAttemptType DEF TerminateDone, Goto
<1>20. ASSUME NEW r \in Requests, GenerateRefused(r) PROVE TypeOK'
  BY <1>20 DEF GenerateRefused
<1>21. ASSUME NEW r \in Requests, Generate(r) PROVE TypeOK'
  BY <1>21 DEF Generate
<1>22. ASSUME NEW r \in Requests, AcquireExecution(r) PROVE TypeOK'
  BY <1>22 DEF AcquireExecution, Goto
<1>23. ASSUME NEW r \in Requests, ConnectionGranted(r) PROVE TypeOK'
  BY <1>23 DEF ConnectionGranted, Goto, TryExited
<1>24. ASSUME NEW r \in Requests, ConnectionFails(r) PROVE TypeOK'
  BY <1>24, LeaveType DEF ConnectionFails
<1>25. ASSUME NEW r \in Requests, ConnectionExited(r) PROVE TypeOK'
  BY <1>25, DropType, LeaveType DEF ConnectionExited, TryExited
<1>26. ASSUME NEW r \in Requests, StreamEnds(r) PROVE TypeOK'
  BY <1>26, LeaveType DEF StreamEnds
<1>27. ASSUME NEW c \in Children, ChildExits(c) PROVE TypeOK'
  BY <1>27 DEF ChildExits
<1>28. ASSUME NEW c \in Children, ChildDies(c) PROVE TypeOK'
  BY <1>28 DEF ChildDies
<1>29. ASSUME Status PROVE TypeOK'
  BY <1>29, DropType DEF Status, TryExited
<1>30. ASSUME ShutdownBegin PROVE TypeOK'
  BY <1>30 DEF ShutdownBegin
<1>31. ASSUME ShutdownTake PROVE TypeOK'
  BY <1>31 DEF ShutdownTake
<1>32. ASSUME ShutdownKill PROVE TypeOK'
  BY <1>32 DEF ShutdownKill, TryExited
<1>33. ASSUME ShutdownReturn PROVE TypeOK'
  BY <1>33, DropType DEF ShutdownReturn
<1>34. ASSUME ShutdownAbandon PROVE TypeOK'
  BY <1>34, DropType DEF ShutdownAbandon
<1>35. ASSUME UNCHANGED vars PROVE TypeOK'
  BY <1>35 DEF vars
<1> QED BY <1>1, <1>2, <1>3, <1>4, <1>5, <1>6, <1>7, <1>8, <1>9, <1>10, <1>11,
    <1>12, <1>13, <1>14, <1>15, <1>16, <1>17, <1>18, <1>19, <1>20, <1>21,
        <1>22, <1>23, <1>24, <1>25, <1>26, <1>27, <1>28, <1>29, <1>30, <1>31,
            <1>32, <1>33, <1>34, <1>35 DEF Next, Poll, EnsureRunning,
                RunGeneration, Shutdown

(* Every step keeps the inductive invariant: one step per action. *)
LEMMA Inductive == IndInv /\ [Next]_vars => IndInv'
<1> SUFFICES ASSUME IndInv, [Next]_vars PROVE IndInv'
  OBVIOUS
<1>0. TypeOK' BY Typing DEF IndInv
<1> USE ConstantsOK DEF IndInv, TypeOK, Actors, Launching, Owning, Executing,
    Ended,
      locals, permits, closeVars,
      MutexInv, OwnerInv, ExecutionInv, FenceInv, OwnedSidecar,
          StableConnection
<1>1. ASSUME NEW a \in Actors, Arm(a) PROVE IndInv'
    BY <1>0, <1>1 DEF Arm, StopReady
<1>2. ASSUME NEW a \in Actors, Pend(a) PROVE IndInv'
    BY <1>0, <1>2 DEF Pend
<1>3. ASSUME NEW a \in Actors, StopBranch(a) PROVE IndInv'
    BY <1>0, <1>3 DEF StopBranch, Selecting, StopReady, Leave, Drop
<1>4. ASSUME NEW a \in Actors, ReadinessStopped(a) PROVE IndInv'
    BY <1>0, <1>4 DEF ReadinessStopped, StopReady, Goto
<1>5. ASSUME NEW a \in Actors, Stop(a) PROVE IndInv'
    BY <1>0, <1>5 DEF Stop
<1>6. ASSUME NEW a \in Actors, EnterEnsure(a) PROVE IndInv'
    BY <1>0, <1>6 DEF EnterEnsure, Leave, Goto
<1>7. ASSUME NEW a \in Actors, EnsureReuse(a) PROVE IndInv'
    BY <1>0, <1>7 DEF EnsureReuse, Goto, TryExited, AfterEnsure
<1>8. ASSUME NEW a \in Actors, EnsureInspectFails(a) PROVE IndInv'
    BY <1>0, <1>8 DEF EnsureInspectFails, Leave, TryExited
<1>9. ASSUME NEW a \in Actors, EnsureLaunch(a) PROVE IndInv'
    BY <1>0, <1>9 DEF EnsureLaunch, Goto, Drop, TryExited
<1>10. ASSUME NEW a \in Actors, Backoff(a) PROVE IndInv'
    BY <1>0, <1>10 DEF Backoff, Goto
<1>11. ASSUME NEW a \in Actors, ReserveFails(a) PROVE IndInv'
    BY <1>0, <1>11 DEF ReserveFails, Leave
<1>12. ASSUME NEW a \in Actors, Spawn(a) PROVE IndInv'
    BY <1>0, <1>12 DEF Spawn, Goto, Fresh
<1>13. ASSUME NEW a \in Actors, SpawnFails(a) PROVE IndInv'
    BY <1>0, <1>13 DEF SpawnFails, NextAttempt, Goto, Leave
<1>14. ASSUME NEW a \in Actors, ReadyCheck(a) PROVE IndInv'
    BY <1>0, <1>14 DEF ReadyCheck, Goto, TryExited
<1>15. ASSUME NEW a \in Actors, ProbeReady(a) PROVE IndInv'
    BY <1>0, <1>15 DEF ProbeReady, Goto, AfterEnsure
<1>16. ASSUME NEW a \in Actors, ProbeNotReady(a) PROVE IndInv'
    BY <1>0, <1>16 DEF ProbeNotReady, Goto
<1>17. ASSUME NEW a \in Actors, Retry(a) PROVE IndInv'
    BY <1>0, <1>17 DEF Retry, Goto
<1>18. ASSUME NEW a \in Actors, TerminateKill(a) PROVE IndInv'
    BY <1>0, <1>18 DEF TerminateKill, TryExited
<1>19. ASSUME NEW a \in Actors, TerminateDone(a) PROVE IndInv'
    BY <1>0, <1>19 DEF TerminateDone, NextAttempt, Goto, Leave, Drop
<1>20. ASSUME NEW r \in Requests, GenerateRefused(r) PROVE IndInv'
    BY <1>0, <1>20 DEF GenerateRefused
<1>21. ASSUME NEW r \in Requests, Generate(r) PROVE IndInv'
    BY <1>0, <1>21 DEF Generate
<1>22. ASSUME NEW r \in Requests, AcquireExecution(r) PROVE IndInv'
    BY <1>0, <1>22 DEF AcquireExecution, Goto
<1>23. ASSUME NEW r \in Requests, ConnectionGranted(r) PROVE IndInv'
    BY <1>0, <1>23 DEF ConnectionGranted, Goto, TryExited
<1>24. ASSUME NEW r \in Requests, ConnectionFails(r) PROVE IndInv'
    BY <1>0, <1>24 DEF ConnectionFails, Leave
<1>25. ASSUME NEW r \in Requests, ConnectionExited(r) PROVE IndInv'
    BY <1>0, <1>25 DEF ConnectionExited, Leave, TryExited, Drop
<1>26. ASSUME NEW r \in Requests, StreamEnds(r) PROVE IndInv'
    BY <1>0, <1>26 DEF StreamEnds, Leave
<1>27. ASSUME NEW c \in Children, ChildExits(c) PROVE IndInv'
    BY <1>0, <1>27 DEF ChildExits
<1>28. ASSUME NEW c \in Children, ChildDies(c) PROVE IndInv'
    BY <1>0, <1>28 DEF ChildDies
<1>29. ASSUME Status PROVE IndInv'
    BY <1>0, <1>29 DEF Status, Drop, TryExited
<1>30. ASSUME ShutdownBegin PROVE IndInv'
    BY <1>0, <1>30 DEF ShutdownBegin
<1>31. ASSUME ShutdownTake PROVE IndInv'
    BY <1>0, <1>31 DEF ShutdownTake
<1>32. ASSUME ShutdownKill PROVE IndInv'
    BY <1>0, <1>32 DEF ShutdownKill, TryExited
<1>33. ASSUME ShutdownReturn PROVE IndInv'
    BY <1>0, <1>33 DEF ShutdownReturn, Drop
<1>34. ASSUME ShutdownAbandon PROVE IndInv'
    BY <1>0, <1>34 DEF ShutdownAbandon, Drop
<1>35. ASSUME UNCHANGED vars PROVE IndInv'
  BY <1>0, <1>35 DEF vars, MutexInv, OwnerInv, ExecutionInv, FenceInv,
      OwnedSidecar, StableConnection
<1> QED BY <1>1, <1>2, <1>3, <1>4, <1>5, <1>6, <1>7, <1>8, <1>9, <1>10, <1>11,
    <1>12, <1>13, <1>14, <1>15, <1>16, <1>17, <1>18, <1>19, <1>20, <1>21,
        <1>22, <1>23, <1>24, <1>25, <1>26, <1>27, <1>28, <1>29, <1>30, <1>31,
            <1>32, <1>33, <1>34, <1>35 DEF Next, Poll, EnsureRunning,
                RunGeneration, Shutdown

-----------------------------------------------------------------------------
(* The initial state satisfies the inductive invariant. *)
LEMMA Initial == Init => IndInv
<1> SUFFICES ASSUME Init PROVE IndInv
  OBVIOUS
<1>1. TypeOK
  <2>1. 0 \in 0 .. (LaunchAttempts - 1)
    BY ConstantsOK
  <2>2. attempt \in [Actors -> 0 .. (LaunchAttempts - 1)]
    BY <2>1 DEF Init
  <2>3. pc \in [Actors -> {"new"} \cup Selecting \cup Running \cup Ended]
    BY DEF Init, Running
  <2> QED BY <2>2, <2>3 DEF Init, TypeOK
<1> QED
  BY <1>1, ConstantsOK DEF Init, IndInv, Actors, MutexInv, OwnerInv,
    ExecutionInv, FenceInv, OwnedSidecar, StableConnection, Launching, Owning,
    Executing

(* The variables of the engine keep their types, for every value of the     *)
(* constants.                                                               *)
THEOREM TypeCorrect == Spec => []TypeOK
<1>1. Init => TypeOK
  BY Initial DEF IndInv
<1> QED BY <1>1, Typing, PTL DEF Spec

(* The inductive invariant holds in every reachable state. *)
THEOREM Invariant == Spec => []IndInv
BY Initial, Inductive, PTL DEF Spec

(* kill_on_drop covers every sidecar nobody has killed, whichever future of  *)
(* the engine is dropped.                                                   *)
THEOREM NoOrphan == Spec => []OwnedSidecar
<1>1. IndInv => OwnedSidecar
  BY DEF IndInv
<1> QED BY <1>1, Invariant, PTL

(* Restarts never overlap. *)
THEOREM OneSidecar == Spec => []SingleSidecar
<1>1. IndInv => SingleSidecar
  BY ConstantsOK DEF IndInv, TypeOK, MutexInv, OwnerInv, OwnedSidecar,
    SingleSidecar, Launching, Owning, Actors
<1> QED BY <1>1, Invariant, PTL

(* No sidecar survives shutdown() or is launched after it has returned. *)
THEOREM ShutdownIsFinal == Spec => []ShutdownFinal
<1>1. IndInv => ShutdownFinal
  BY ConstantsOK DEF IndInv, OwnerInv, FenceInv, OwnedSidecar, ShutdownFinal,
    Launching, Owning, TypeOK
<1> QED BY <1>1, Invariant, PTL

(* The sidecar is never swapped under a streaming request. *)
THEOREM ConnectionIsStable == Spec => []StableConnection
<1>1. IndInv => StableConnection
  BY DEF IndInv
<1> QED BY <1>1, Invariant, PTL

(* A live sidecar leaves the slot only because shutdown() takes it. *)
THEOREM OutlivesRequests == Spec => SidecarOutlivesRequests
<1> DEFINE Kept == ~WaitErrors =>
      \A c \in Children :
         running = c /\ proc[c] = "alive" /\ running' # c
            => closing = "lock" /\ taken' = c
<1>1. IndInv /\ [Next]_vars => Kept
  <2> SUFFICES ASSUME IndInv, [Next]_vars, ~WaitErrors, NEW c \in Children,
                      running = c, proc[c] = "alive", running' # c
               PROVE  closing = "lock" /\ taken' = c
    OBVIOUS
  <2>1. TryExited(running) = {"running"}
    BY ConstantsOK DEF TryExited
  <2>2. lifecycle = Nobody
    BY ConstantsOK DEF IndInv, MutexInv
  <2>3. ASSUME NEW a \in Actors PROVE ~EnsureLaunch(a) /\ ~ProbeReady(a)
    BY <2>1, <2>2, ConstantsOK DEF EnsureLaunch, ProbeReady, IndInv, MutexInv,
      Launching, Actors
  <2>4. ASSUME NEW r \in Requests PROVE ~ConnectionExited(r)
    BY <2>1 DEF ConnectionExited
  <2>5. ~Status
    BY <2>1 DEF Status
  <2>6. ShutdownTake
    BY <2>3, <2>4, <2>5, ConstantsOK
       DEF Next, vars, Poll, EnsureRunning, RunGeneration, Shutdown, Arm, Pend,
           StopBranch, ReadinessStopped, Stop, EnterEnsure, EnsureReuse,
           EnsureInspectFails, Backoff, ReserveFails, Spawn, SpawnFails,
           ReadyCheck, ProbeNotReady, Retry, TerminateKill, TerminateDone,
           GenerateRefused, Generate, AcquireExecution, ConnectionGranted,
           ConnectionFails, StreamEnds, ChildExits, ChildDies, ShutdownBegin,
           ShutdownKill, ShutdownReturn, ShutdownAbandon
  <2> QED BY <2>6, ConstantsOK DEF ShutdownTake
<1> QED BY <1>1, Invariant, PTL DEF Spec, SidecarOutlivesRequests
=============================================================================
