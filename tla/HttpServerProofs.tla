--------------------------- MODULE HttpServerProofs ---------------------------
(***************************************************************************)
(* Safety of the HTTP server for any number of calls and any limits.       *)
(*                                                                         *)
(* The argument: every step of the server is a step of the shutdown gate   *)
(* or leaves it alone (UsesGate), so what is proved of the gate holds of   *)
(* the server's; a call stands between its admission and its release       *)
(* exactly while it holds its guard (CallInv); serve() goes from one step  *)
(* of its sequence to the next only with what the gate told it (ServeInv); *)
(* and a set of permits grows by one, and only below its limit (Limits).   *)
(***************************************************************************)
EXTENDS HttpServer, FiniteSetTheorems, TLAPS

GateProofs == INSTANCE ShutdownGateProofs WITH
    Workers <- Requests, Drainers <- {Serve}, Stoppers <- {Serve}

(* Where a call holds its admission permit, and its execution permit. *)
Holding == Guarded \cup {"sending"}
Working == {"handler", "collect", "sending"}

(* Permits, guard, generation and session go with the place of the call. *)
CallInv ==
    \A r \in Requests :
        /\ pc[r] \in Holding <=> r \in admitted
        /\ pc[r] \in Working <=> r \in execution
        /\ worker[r] = "in" <=> pc[r] \in Holding \cup {"admit", "unguard"}
        /\ r \in generating => pc[r] \in {"collect", "sending"}
        /\ session[r] # "none" => pc[r] \in {"sending", "unguard", "done"}
        /\ r \in chatting => session[r] = "open"

(* What serve() knows at each step of its sequence. *)
ServeInv ==
    /\ process = "running" <=> serve = "run"
    /\ serve \in {"run", "close"} => /\ phase = "accepting"
                                     /\ drainer[Serve] = "idle"
    /\ drainer[Serve] = "done" => outcome[Serve] \in {"graceful", "forced"}
    /\ serve = "wait" => drainer[Serve] = "done"
    /\ serve \in {"force", "signal"} => forced
    /\ serve \in {"cleanup", "polling", "returned"} /\ ~forced =>
         outcome[Serve] = "graceful"

(* The server's gate starts as a gate does. *)
LEMMA GateInitial == Init => Gate!Init
BY DEF Init, Gate!Init

(* Every step of the server is a step of its gate, or none. *)
LEMMA GateStep == [Next]_vars => [Gate!Next]_(Gate!vars)
<1> SUFFICES ASSUME [Next]_vars PROVE Gate!Next \/ UNCHANGED gate
  BY DEF gate, Gate!vars
<1>1. CASE UNCHANGED vars
  BY <1>1 DEF vars
<1>2. ASSUME NEW r \in Requests, EnterGate(r) PROVE Gate!Next
  BY <1>2 DEF EnterGate, Gate!Next
<1>3. ASSUME NEW r \in Requests, Unguard(r) \/ UnguardSignal(r) PROVE Gate!Next
  BY <1>3 DEF Unguard, UnguardSignal, Gate!Next, Gate!WorkerStep
<1>4. CASE BeginDrain \/ Draining
  BY <1>4 DEF BeginDrain, Draining, Gate!Next
<1>5. CASE ForceStop \/ ForceSignal
  BY <1>5 DEF ForceStop, ForceSignal, Gate!Next
<1>6. ASSUME NEW r \in Requests,
             \/ Arrive(r) \/ Preloaded(r) \/ PreloadFails(r) \/ Admit(r)
             \/ StopBranch(r) \/ DeadlineBranch(r) \/ Disconnect(r)
             \/ ReadBody(r) \/ BodyRejected(r) \/ AcquireExecution(r)
             \/ Answer(r) \/ Generate(r) \/ Upgrade(r) \/ Collected(r)
             \/ StreamEnds(r) \/ EndBody(r) \/ SessionStarts(r)
             \/ SessionGenerationEnds(r) \/ SessionCloses(r)
      PROVE  UNCHANGED gate
  BY <1>6 DEF Arrive, Preloaded, PreloadFails, Admit, StopBranch, DeadlineBranch,
       Disconnect, ReadBody, BodyRejected, AcquireExecution, Answer, Generate,
       Upgrade, Collected, StreamEnds, EndBody, SessionStarts,
       SessionGenerationEnds, SessionCloses
<1>7. CASE ShutdownSeen \/ ServerEndsEarly \/ DrainReturned \/ ServerEnded
           \/ Cleanup \/ Return
  BY <1>7 DEF ShutdownSeen, ServerEndsEarly, DrainReturned, ServerEnded,
       Cleanup, Return
<1> QED
  BY <1>1, <1>2, <1>3, <1>4, <1>5, <1>6, <1>7 DEF Next, CallStep, ServeStep

(* The server is a client of the gate: its behaviours are the gate's. *)
THEOREM UsesGate == Spec => Gate!Spec
BY GateInitial, GateStep, PTL DEF Spec, Gate!Spec

(* The two instances of the gate, with and without its proofs, are the same. *)
LEMMA SameGate ==
    /\ Gate!Init => GateProofs!Init
    /\ [Gate!Next]_(Gate!vars) => [GateProofs!Next]_(GateProofs!vars)
<1>1. Gate!Init => GateProofs!Init
  BY DEF Gate!Init, GateProofs!Init
<1>2. Gate!vars = GateProofs!vars /\ Gate!vars' = GateProofs!vars'
  BY DEF Gate!vars, GateProofs!vars
<1>3. ASSUME NEW w \in Requests
      PROVE  /\ Gate!TryEnter(w) => GateProofs!TryEnter(w)
             /\ Gate!WorkerStep(w) => GateProofs!WorkerStep(w)
  BY DEF Gate!TryEnter, GateProofs!TryEnter, Gate!WorkerStep, GateProofs!WorkerStep,
       Gate!GuardDrop, GateProofs!GuardDrop, Gate!GuardSignal, GateProofs!GuardSignal
<1>4. ASSUME NEW d \in {Serve}
      PROVE  /\ Gate!BeginDrain(d) => GateProofs!BeginDrain(d)
             /\ Gate!DrainTimesOut(d) => GateProofs!DrainTimesOut(d)
             /\ Gate!DrainDropped(d) => GateProofs!DrainDropped(d)
             /\ Gate!DrainerStep(d) => GateProofs!DrainerStep(d)
  BY DEF Gate!BeginDrain, GateProofs!BeginDrain, Gate!Terminal, GateProofs!Terminal,
       Gate!DrainTimesOut, GateProofs!DrainTimesOut,
       Gate!DrainDropped, GateProofs!DrainDropped,
       Gate!DrainerStep, GateProofs!DrainerStep,
       Gate!DrainSignal, GateProofs!DrainSignal,
       Gate!DrainStopped, GateProofs!DrainStopped,
       Gate!DrainForce, GateProofs!DrainForce, Gate!StopNow, GateProofs!StopNow,
       Gate!DrainForceSignal, GateProofs!DrainForceSignal
<1>5. ASSUME NEW s \in {Serve}
      PROVE  /\ Gate!StopperForce(s) => GateProofs!StopperForce(s)
             /\ Gate!StopperSignal(s) => GateProofs!StopperSignal(s)
  BY DEF Gate!StopperForce, GateProofs!StopperForce, Gate!StopNow, GateProofs!StopNow,
       Gate!Terminal, GateProofs!Terminal, Gate!StopperSignal, GateProofs!StopperSignal
<1>6. Gate!OwnerDropped => GateProofs!OwnerDropped
  BY DEF Gate!OwnerDropped, GateProofs!OwnerDropped
<1> QED
  BY <1>1, <1>2, <1>3, <1>4, <1>5, <1>6 DEF Gate!Next, GateProofs!Next

(* The gate's assumption holds of the server's calls. *)
LEMMA FinitelyMany == GateProofs!IsFiniteSet(Requests)
BY HttpConstantsOK DEF HttpConstantsOK, IsFiniteSet, GateProofs!IsFiniteSet

(* The inductive invariant of the gate holds of the server's gate. *)
LEMMA GateInitialInv == Init => GateProofs!GateInv
BY GateInitial, SameGate, GateProofs!Initial, FinitelyMany

LEMMA GateInductive ==
    GateProofs!GateInv /\ [Next]_vars => GateProofs!GateInv'
BY GateStep, SameGate, GateProofs!Inductive, FinitelyMany

-----------------------------------------------------------------------------
(* The server's own variables *)

(* The types of everything but the gate, without the limits. *)
Types ==
    /\ pc \in [Requests -> {"new", "preload", "enter", "admit",
                            "sending", "unguard", "done"} \cup Guarded]
    /\ admitted \subseteq Requests /\ execution \subseteq Requests
    /\ generating \subseteq Requests /\ chatting \subseteq Requests
    /\ session \in [Requests -> {"none", "pending", "open", "closed"}]
    /\ serve \in {"run", "close", "drain", "wait", "force", "signal",
                  "cleanup", "polling", "returned"}
    /\ process \in {"running", "draining", "stopped"}
    /\ forced \in BOOLEAN /\ engineStop \in BOOLEAN

(* The gate's steps, as far as the server looks at them. *)
LEMMA GateTypes ==
    ASSUME GateProofs!GateInv
    PROVE  /\ worker \in [Requests -> {"out", "in", "signal", "left", "rejected"}]
           /\ drainer \in [{Serve} -> {"idle", "signal", "wait", "force",
                              "forceSignal", "drop", "dropSignal", "done", "dropped"}]
           /\ outcome \in [{Serve} -> {"graceful", "forced", "none"}]
           /\ phase \in {"accepting", "draining", "graceful", "forced"}
BY DEF GateProofs!GateInv, GateProofs!TypeOK, GateProofs!Terminal

(* Every step keeps the types and the place of every call. *)
LEMMA CallInductive ==
    ASSUME Types, CallInv, GateProofs!GateInv, [Next]_vars
    PROVE  Types' /\ CallInv'
<1> USE GateTypes DEF Types, CallInv, Holding, Working, Guarded, Goto,
       gate, permits, sessions, server, outside
<1>1. CASE UNCHANGED vars
  BY <1>1 DEF vars
<1>2. ASSUME NEW r \in Requests, Arrive(r) \/ Preloaded(r) \/ PreloadFails(r)
      PROVE  Types' /\ CallInv'
  BY <1>2 DEF Arrive, Preloaded, PreloadFails
<1>3. ASSUME NEW r \in Requests, EnterGate(r) PROVE Types' /\ CallInv'
  BY <1>3 DEF EnterGate, Gate!TryEnter
<1>4. ASSUME NEW r \in Requests, Admit(r) PROVE Types' /\ CallInv'
  BY <1>4 DEF Admit
<1>5. ASSUME NEW r \in Requests, Unguard(r) \/ UnguardSignal(r)
      PROVE  Types' /\ CallInv'
  BY <1>5 DEF Unguard, UnguardSignal, Gate!GuardDrop, Gate!GuardSignal
<1>6. ASSUME NEW r \in Requests, StopBranch(r) \/ DeadlineBranch(r) \/ BodyRejected(r)
      PROVE  Types' /\ CallInv'
  BY <1>6 DEF StopBranch, DeadlineBranch, Refuse, BodyRejected, Release
<1>7. ASSUME NEW r \in Requests, Disconnect(r) PROVE Types' /\ CallInv'
  BY <1>7 DEF Disconnect, Release
<1>8. ASSUME NEW r \in Requests, ReadBody(r) \/ AcquireExecution(r) \/ Answer(r)
      PROVE  Types' /\ CallInv'
  BY <1>8 DEF ReadBody, AcquireExecution, Answer
<1>9. ASSUME NEW r \in Requests, Generate(r) \/ Collected(r) \/ StreamEnds(r)
      PROVE  Types' /\ CallInv'
  BY <1>9 DEF Generate, Collected, StreamEnds
<1>10. ASSUME NEW r \in Requests, Upgrade(r) PROVE Types' /\ CallInv'
  BY <1>10 DEF Upgrade
<1>11. ASSUME NEW r \in Requests, EndBody(r) PROVE Types' /\ CallInv'
  BY <1>11 DEF EndBody, Release
<1>12. ASSUME NEW r \in Requests,
              SessionStarts(r) \/ SessionGenerationEnds(r) \/ SessionCloses(r)
       PROVE  Types' /\ CallInv'
  BY <1>12 DEF SessionStarts, SessionGenerationEnds, SessionCloses
<1>13. CASE ShutdownSeen \/ ServerEndsEarly \/ DrainReturned \/ ServerEnded
            \/ Cleanup \/ Return
  BY <1>13 DEF ShutdownSeen, ServerEndsEarly, DrainReturned, ServerEnded,
       Cleanup, Return
<1>14. CASE BeginDrain \/ Draining \/ ForceStop \/ ForceSignal
  BY <1>14 DEF BeginDrain, Draining, ForceStop, ForceSignal, Gate!BeginDrain,
       Gate!DrainerStep, Gate!DrainTimesOut, Gate!DrainSignal, Gate!DrainStopped,
       Gate!DrainForce, Gate!DrainForceSignal, Gate!StopperForce, Gate!StopperSignal
<1> QED
  BY <1>1, <1>2, <1>3, <1>4, <1>5, <1>6, <1>7, <1>8, <1>9, <1>10, <1>11, <1>12,
     <1>13, <1>14 DEF Next, CallStep, ServeStep

(* Every step keeps what serve() knows. *)
LEMMA ServeInductive ==
    ASSUME Types, ServeInv, GateProofs!GateInv, [Next]_vars
    PROVE  ServeInv'
<1> USE GateTypes DEF Types, ServeInv, gate, server, outside
<1>1. CASE UNCHANGED <<gate, server>>
  BY <1>1
<1>2. ASSUME NEW r \in Requests, EnterGate(r) \/ Unguard(r) \/ UnguardSignal(r)
      PROVE  ServeInv'
  BY <1>2 DEF EnterGate, Unguard, UnguardSignal, Gate!TryEnter, Gate!GuardDrop,
       Gate!GuardSignal
<1>3. CASE ShutdownSeen \/ ServerEndsEarly
  BY <1>3 DEF ShutdownSeen, ServerEndsEarly
<1>4. CASE BeginDrain
  BY <1>4 DEF BeginDrain, Gate!BeginDrain, Gate!Terminal
<1>5. CASE Draining
  BY <1>5 DEF Draining, Gate!DrainerStep, Gate!DrainTimesOut, Gate!DrainSignal,
       Gate!DrainStopped, Gate!DrainForce, Gate!DrainForceSignal, Gate!Terminal
<1>6. CASE DrainReturned
  BY <1>6 DEF DrainReturned
<1>7. CASE ServerEnded
  BY <1>7 DEF ServerEnded
<1>8. CASE ForceStop \/ ForceSignal
  BY <1>8 DEF ForceStop, ForceSignal, Gate!StopperForce, Gate!StopperSignal
<1>9. CASE Cleanup \/ Return
  BY <1>9 DEF Cleanup, Return
<1>10. ASSUME NEW r \in Requests,
              \/ Arrive(r) \/ Preloaded(r) \/ PreloadFails(r) \/ Admit(r)
              \/ StopBranch(r) \/ DeadlineBranch(r) \/ Disconnect(r)
              \/ ReadBody(r) \/ BodyRejected(r) \/ AcquireExecution(r)
              \/ Answer(r) \/ Generate(r) \/ Upgrade(r) \/ Collected(r)
              \/ StreamEnds(r) \/ EndBody(r) \/ SessionStarts(r)
              \/ SessionGenerationEnds(r) \/ SessionCloses(r)
       PROVE  UNCHANGED <<gate, server>>
  BY <1>10 DEF Arrive, Preloaded, PreloadFails, Admit, StopBranch, DeadlineBranch,
       Disconnect, ReadBody, BodyRejected, AcquireExecution, Answer, Generate,
       Upgrade, Collected, StreamEnds, EndBody, SessionStarts,
       SessionGenerationEnds, SessionCloses
<1>11. CASE UNCHANGED vars
  BY <1>1, <1>11 DEF vars
<1> QED
  BY <1>1, <1>2, <1>3, <1>4, <1>5, <1>6, <1>7, <1>8, <1>9, <1>10, <1>11
     DEF Next, CallStep, ServeStep

-----------------------------------------------------------------------------
(* Capacity *)

(* No more permits are out than there are. *)
Limits ==
    /\ Cardinality(admitted) <= MaxConcurrent + QueueCapacity
    /\ Cardinality(execution) <= MaxConcurrent
    /\ Cardinality(InSession) <= SessionLimit

(* A set of calls that grows by at most one has at most one element more. *)
LEMMA OneMore ==
    ASSUME NEW S \in SUBSET Requests, NEW T \in SUBSET Requests,
           NEW limit \in Nat, Cardinality(S) <= limit,
           \/ T \subseteq S
           \/ Cardinality(S) < limit /\ \E r \in Requests : T \subseteq S \cup {r}
    PROVE  Cardinality(T) <= limit
<1>1. IsFiniteSet(Requests)
  BY HttpConstantsOK DEF HttpConstantsOK
<1>2. IsFiniteSet(S) /\ Cardinality(S) \in Nat
  BY <1>1, FS_Subset, FS_CardinalityType
<1>3. CASE T \subseteq S
  <2>1. Cardinality(T) <= Cardinality(S) /\ Cardinality(T) \in Nat
    BY <1>2, <1>3, FS_Subset, FS_CardinalityType
  <2> QED BY <1>2, <2>1
<1>4. ASSUME NEW r \in Requests, T \subseteq S \cup {r}, Cardinality(S) < limit
      PROVE  Cardinality(T) <= limit
  <2>1. /\ IsFiniteSet(S \cup {r})
        /\ Cardinality(S \cup {r}) = IF r \in S THEN Cardinality(S) ELSE Cardinality(S) + 1
    BY <1>2, FS_AddElement
  <2>2. /\ Cardinality(T) <= Cardinality(S \cup {r})
        /\ Cardinality(T) \in Nat /\ Cardinality(S \cup {r}) \in Nat
    BY <1>4, <2>1, FS_Subset, FS_CardinalityType
  <2> QED BY <1>2, <1>4, <2>1, <2>2
<1> QED BY <1>3, <1>4

(* Every step keeps the limits. *)
LEMMA LimitsInductive ==
    ASSUME Types, CallInv, Limits, GateProofs!GateInv, [Next]_vars
    PROVE  Limits'
<1> DEFINE Within(S, T, limit) ==
      \/ T \subseteq S
      \/ Cardinality(S) < limit /\ \E r \in Requests : T \subseteq S \cup {r}
<1>1. Types'
  BY CallInductive
<1>2. /\ InSession \in SUBSET Requests /\ admitted \in SUBSET Requests
      /\ execution \in SUBSET Requests
  BY DEF InSession, Types
<1>3. /\ InSession' \in SUBSET Requests /\ admitted' \in SUBSET Requests
      /\ execution' \in SUBSET Requests
  BY <1>1 DEF InSession, Types
<1> DEFINE Steady ==
      /\ Within(admitted, admitted', MaxConcurrent + QueueCapacity)
      /\ Within(execution, execution', MaxConcurrent)
      /\ Within(InSession, InSession', SessionLimit)
<1>4. Steady
  <2> USE DEF Types, InSession, permits, sessions, outside
  <2>1. ASSUME NEW r \in Requests, Admit(r) PROVE Steady
    BY <2>1 DEF Admit
  <2>2. ASSUME NEW r \in Requests, AcquireExecution(r) PROVE Steady
    BY <2>2 DEF AcquireExecution
  <2>3. ASSUME NEW r \in Requests, Upgrade(r) PROVE Steady
    BY <2>3 DEF Upgrade
  <2>4. ASSUME NEW r \in Requests,
               \/ StopBranch(r) \/ DeadlineBranch(r) \/ Disconnect(r)
               \/ BodyRejected(r) \/ EndBody(r) \/ SessionCloses(r)
        PROVE  Steady
    BY <2>4 DEF StopBranch, DeadlineBranch, Refuse, Disconnect, BodyRejected, EndBody,
         SessionCloses, Release
  <2>5. CASE UNCHANGED <<admitted, execution, session>>
    BY <2>5
  <2>6. ASSUME NEW r \in Requests,
               \/ Arrive(r) \/ Preloaded(r) \/ PreloadFails(r) \/ EnterGate(r)
               \/ Unguard(r) \/ UnguardSignal(r) \/ ReadBody(r) \/ Answer(r)
               \/ Generate(r) \/ Collected(r) \/ StreamEnds(r)
               \/ SessionStarts(r) \/ SessionGenerationEnds(r)
        PROVE  UNCHANGED <<admitted, execution, session>>
    BY <2>6 DEF Arrive, Preloaded, PreloadFails, EnterGate, Unguard, UnguardSignal,
         ReadBody, Answer, Generate, Collected, StreamEnds, SessionStarts,
         SessionGenerationEnds
  <2>7. CASE ShutdownSeen \/ ServerEndsEarly \/ ServeStep
    BY <2>5, <2>7 DEF ShutdownSeen, ServerEndsEarly, ServeStep, BeginDrain, Draining,
         DrainReturned, ServerEnded, ForceStop, ForceSignal, Cleanup, Return
  <2>8. CASE UNCHANGED vars
    BY <2>5, <2>8 DEF vars
  <2> QED BY <2>1, <2>2, <2>3, <2>4, <2>5, <2>6, <2>7, <2>8 DEF Next, CallStep
<1>5. {MaxConcurrent, MaxConcurrent + QueueCapacity, SessionLimit} \subseteq Nat
  BY HttpConstantsOK DEF HttpConstantsOK
<1> QED
  BY <1>2, <1>3, <1>4, <1>5, OneMore DEF Limits

-----------------------------------------------------------------------------
(* Theorems *)

HttpInv == Types /\ CallInv /\ ServeInv /\ Limits /\ GateProofs!GateInv

(* The initial state of the server satisfies the invariant. *)
LEMMA Initial == Init => HttpInv
<1> SUFFICES ASSUME Init PROVE HttpInv
  OBVIOUS
<1>1. Types /\ CallInv /\ ServeInv
  BY DEF Init, Types, CallInv, ServeInv, Holding, Working, Guarded
<1>2. admitted = {} /\ execution = {} /\ InSession = {}
  BY DEF Init, InSession
<1>3. Limits
  BY <1>2, FS_EmptySet, HttpConstantsOK DEF Limits, HttpConstantsOK
<1> QED BY <1>1, <1>3, GateInitialInv DEF HttpInv

(* The inductive invariant holds in every reachable state. *)
THEOREM Invariant == Spec => []HttpInv
<1>1. HttpInv /\ [Next]_vars => HttpInv'
  BY CallInductive, ServeInductive, LimitsInductive, GateInductive DEF HttpInv
<1> QED BY Initial, <1>1, PTL DEF Spec

(* Types, and every limit: no more calls than max_concurrent_requests plus
   queue_capacity hold admission, no more than max_concurrent_requests execute,
   no more than the session limit are upgraded. *)
THEOREM CapacityIsBounded == Spec => []TypeOK
<1>1. HttpInv => TypeOK
  <2> SUFFICES ASSUME HttpInv PROVE TypeOK
    OBVIOUS
  <2>1. Gate!TypeOK
    BY DEF HttpInv, GateProofs!GateInv, GateProofs!TypeOK, Gate!TypeOK,
       GateProofs!Terminal, Gate!Terminal
  <2>2. execution \subseteq admitted /\ chatting \subseteq InSession
    BY DEF HttpInv, Types, CallInv, InSession, Working, Holding, Guarded
  <2> QED BY <2>1, <2>2 DEF HttpInv, Types, Limits, TypeOK
<1> QED BY Invariant, <1>1, PTL

(* Whoever awaits a generation over HTTP still holds both permits and the work
   guard, in the handler and in the streamed body. *)
THEOREM GenerationsAreAccounted == Spec => []GenerationIsAccounted
<1>1. HttpInv => GenerationIsAccounted
  BY DEF HttpInv, Types, CallInv, GenerationIsAccounted, Working, Holding, Guarded
<1> QED BY Invariant, <1>1, PTL

(* A process that reports itself running has an accepting gate. *)
THEOREM ReadinessIsHonest == Spec => []ReadyMeansAccepting
<1>1. HttpInv => ReadyMeansAccepting
  BY DEF HttpInv, ServeInv, ReadyMeansAccepting
<1> QED BY Invariant, <1>1, PTL

(* serve() reaches the cleanup unforced only with the gate drained: no guard,
   no generation over HTTP, and no way in. *)
THEOREM DrainIsComplete == Spec => []DrainedMeansIdle
<1>1. HttpInv => DrainedMeansIdle
  <2> SUFFICES ASSUME HttpInv, ~forced, serve \in {"cleanup", "polling", "returned"}
               PROVE  Gate!Inside = {} /\ generating = {} /\ phase = "graceful"
    BY DEF DrainedMeansIdle
  <2>1. outcome[Serve] = "graceful"
    BY DEF HttpInv, ServeInv
  <2>2. GateProofs!Inside = {} /\ phase = "graceful"
    BY <2>1 DEF HttpInv, GateProofs!GateInv, GateProofs!GracefulMeansDone
  <2>3. Gate!Inside = {}
    BY <2>2 DEF GateProofs!Inside, Gate!Inside
  <2>4. generating = {}
    BY <2>3 DEF HttpInv, Types, CallInv, Gate!Inside, Holding, Guarded
  <2> QED BY <2>2, <2>3, <2>4
<1> QED BY Invariant, <1>1, PTL
=============================================================================
