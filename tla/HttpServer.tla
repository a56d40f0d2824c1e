------------------------------ MODULE HttpServer ------------------------------
(***************************************************************************)
(* The HTTP server of impossible-inferences-server (src/lib.rs): what      *)
(* enforce_workload_policy does to every call of a workload route, the     *)
(* permits and the work guard that travel with a response body, WebSocket  *)
(* sessions as far as they hold capacity, and the shutdown sequence of     *)
(* InferenceServer::serve.                                                 *)
(*                                                                         *)
(* The gate is module ShutdownGate itself: its steps are conjoined with    *)
(* the server's.  The engine is reduced to whether generate() still        *)
(* accepts, and to generations that may end at any time.  The route of a   *)
(* call matters only where the code looks at it: an MCP call is read       *)
(* before the gate, the rest is the handler's choice.                      *)
(***************************************************************************)
EXTENDS Naturals, FiniteSets

CONSTANTS Requests,      \* calls of workload routes
          Serve,         \* the serve() call, as user of the gate
          MaxConcurrent, \* ServerLimits.max_concurrent_requests
          QueueCapacity, \* ServerLimits.queue_capacity
          SessionLimit   \* LocalInference.websocket_sessions

ASSUME HttpConstantsOK ==
    /\ IsFiniteSet(Requests)
    /\ {MaxConcurrent, QueueCapacity, SessionLimit} \subseteq Nat \ {0}

VARIABLES phase, active, stopped, owner, worker, drainer, outcome, stopper, \* the gate
          pc,          \* where each call is
          admitted,    \* holders of an admission permit
          execution,   \* holders of an execution permit
          generating,  \* calls whose handler or body awaits a generation
          session,     \* the WebSocket session a call was upgraded to
          chatting,    \* sessions with an active generation
          serve,       \* where serve() is
          process,     \* HealthRegistry's ProcessState
          forced,      \* serve()'s http_forced, or its server ended by itself
          engineStop   \* GenerationEngine::shutdown has begun

gate == <<phase, active, stopped, owner, worker, drainer, outcome, stopper>>
permits == <<admitted, execution>>
sessions == <<session, chatting>>
server == <<serve, process, forced, engineStop>>
vars == <<gate, pc, permits, generating, sessions, server>>

Gate == INSTANCE ShutdownGate WITH
    Workers <- Requests, Drainers <- {Serve}, Stoppers <- {Serve}

\* Inside a select that looks at the stop token and at the deadline.
Guarded == {"body", "queue", "handler", "collect"}

\* The calls and upgrades that hold one of the session permits.
InSession == {r \in Requests : session[r] \in {"pending", "open"}}

TypeOK ==
    /\ Gate!TypeOK
    /\ pc \in [Requests -> {"new", "preload", "enter", "admit",
                            "sending", "unguard", "done"} \cup Guarded]
    /\ admitted \subseteq Requests
    /\ Cardinality(admitted) <= MaxConcurrent + QueueCapacity
    /\ execution \subseteq admitted /\ Cardinality(execution) <= MaxConcurrent
    /\ generating \subseteq Requests
    /\ session \in [Requests -> {"none", "pending", "open", "closed"}]
    /\ Cardinality(InSession) <= SessionLimit
    /\ chatting \subseteq InSession
    /\ serve \in {"run", "close", "drain", "wait", "force", "signal",
                  "cleanup", "polling", "returned"}
    /\ process \in {"running", "draining", "stopped"}
    /\ forced \in BOOLEAN /\ engineStop \in BOOLEAN

Init ==
    /\ phase = "accepting" /\ active = 0 /\ stopped = FALSE /\ owner = TRUE
    /\ worker = [r \in Requests |-> "out"]
    /\ drainer = [s \in {Serve} |-> "idle"]
    /\ outcome = [s \in {Serve} |-> "none"]
    /\ stopper = [s \in {Serve} |-> "idle"]
    /\ pc = [r \in Requests |-> "new"]
    /\ admitted = {} /\ execution = {} /\ generating = {}
    /\ session = [r \in Requests |-> "none"]
    /\ chatting = {}
    /\ serve = "run" /\ process = "running"
    /\ forced = FALSE /\ engineStop = FALSE

Goto(r, where) == pc' = [pc EXCEPT ![r] = where]

-----------------------------------------------------------------------------
(* enforce_workload_policy: admission *)

\* Every connection has been served and closed.
Idle == \A r \in Requests : pc[r] \in {"new", "done"} /\ worker[r] # "signal"

\* A call arrives on an open connection.  Connections are closed for good when
\* the axum server has ended, but their tasks go on if serve() gives up waiting
\* for that (a server that ended in time after a forced drain is not told apart).
Arrive(r) ==
    /\ pc[r] = "new"
    /\ serve \in {"run", "close", "drain", "wait"} \/ forced
    /\ Goto(r, "enter") \/ Goto(r, "preload")
    /\ UNCHANGED <<gate, permits, generating, sessions, server>>

\* preload_mcp_request: the body is read before the gate, under the deadline
\* but deaf to the stop token.
Preloaded(r) ==
    /\ pc[r] = "preload"
    /\ Goto(r, "enter")
    /\ UNCHANGED <<gate, permits, generating, sessions, server>>

\* The body is too large or late, or the client leaves.
PreloadFails(r) ==
    /\ pc[r] = "preload"
    /\ Goto(r, "done")
    /\ UNCHANGED <<gate, permits, generating, sessions, server>>

EnterGate(r) ==
    /\ pc[r] = "enter"
    /\ Gate!TryEnter(r)
    /\ Goto(r, IF phase = "accepting" THEN "admit" ELSE "done")
    /\ UNCHANGED <<permits, generating, sessions, server>>

\* Broken variant: the limit is off by one.
AdmitOneMore(r) ==
    /\ pc[r] = "admit"
    /\ IF Cardinality(admitted) <= MaxConcurrent + QueueCapacity
       THEN admitted' = admitted \cup {r} /\ Goto(r, "body")
       ELSE Goto(r, "unguard") /\ UNCHANGED admitted
    /\ UNCHANGED <<gate, execution, generating, sessions, server>>

\* The admission permit is taken or the call is overloaded.
Admit(r) ==
    /\ pc[r] = "admit"
    /\ IF Cardinality(admitted) < MaxConcurrent + QueueCapacity
       THEN admitted' = admitted \cup {r} /\ Goto(r, "body")
       ELSE Goto(r, "unguard") /\ UNCHANGED admitted
    /\ UNCHANGED <<gate, execution, generating, sessions, server>>

-----------------------------------------------------------------------------
(* Ends *)

\* Whatever ends the call drops its stream, its permits and last its guard.
Release(r) ==
    /\ generating' = generating \ {r}
    /\ admitted' = admitted \ {r}
    /\ execution' = execution \ {r}
    /\ Goto(r, "unguard")

Unguard(r) ==
    /\ pc[r] = "unguard"
    /\ Gate!GuardDrop(r)
    /\ Goto(r, "done")
    /\ UNCHANGED <<permits, generating, sessions, server>>

\* The last guard of a draining gate cancels the stop token.
UnguardSignal(r) ==
    /\ Gate!GuardSignal(r)
    /\ UNCHANGED <<pc, permits, generating, sessions, server>>

\* A branch of a select answers with an error.  Before the handler the call
\* returns and drops what it holds.  The answer of run_workload_handler instead
\* goes through guard_response_body: only the generation is dropped, and the
\* permits and the guard stay with the error's body.
Refuse(r) ==
    \/ pc[r] \in {"body", "queue"} /\ Release(r)
    \/ /\ pc[r] \in {"handler", "collect"}
       /\ generating' = generating \ {r}
       /\ Goto(r, "sending")
       /\ UNCHANGED permits

StopBranch(r) ==
    /\ stopped
    /\ Refuse(r)
    /\ UNCHANGED <<gate, sessions, server>>

\* Broken variant: the wait for an execution permit has no deadline.
DeadlineBranchNotQueued(r) ==
    /\ pc[r] # "queue"
    /\ Refuse(r)
    /\ UNCHANGED <<gate, sessions, server>>

DeadlineBranch(r) ==
    /\ Refuse(r)
    /\ UNCHANGED <<gate, sessions, server>>

\* Broken variant: the body gives back its admission permit only when it has
\* been read to its end.
DisconnectKeepsPermit(r) ==
    /\ pc[r] \in {"body", "queue", "collect", "sending"}
    /\ generating' = generating \ {r} /\ execution' = execution \ {r}
    /\ admitted' = IF pc[r] = "sending" THEN admitted ELSE admitted \ {r}
    /\ Goto(r, "unguard")
    /\ session' = IF session[r] = "pending"
                  THEN [session EXCEPT ![r] = "closed"] ELSE session
    /\ UNCHANGED <<gate, chatting, server>>

\* The connection is lost: hyper drops the call's future or its body.
Disconnect(r) ==
    /\ pc[r] \in {"body", "queue", "collect", "sending"}
    /\ Release(r)
    /\ session' = IF session[r] = "pending"
                  THEN [session EXCEPT ![r] = "closed"] ELSE session
    /\ UNCHANGED <<gate, chatting, server>>

-----------------------------------------------------------------------------
(* Body, execution permit, handler *)

ReadBody(r) ==
    /\ pc[r] = "body" /\ ~stopped
    /\ Goto(r, "queue")
    /\ UNCHANGED <<gate, permits, generating, sessions, server>>

\* The body exceeds the limit.
BodyRejected(r) ==
    /\ pc[r] = "body" /\ ~stopped
    /\ Release(r)
    /\ UNCHANGED <<gate, sessions, server>>

AcquireExecution(r) ==
    /\ pc[r] = "queue" /\ ~stopped
    /\ Cardinality(execution) < MaxConcurrent
    /\ execution' = execution \cup {r}
    /\ Goto(r, "handler")
    /\ UNCHANGED <<gate, admitted, generating, sessions, server>>

\* A handler that answers without a generation, or whose generate() is refused.
Answer(r) ==
    /\ pc[r] = "handler" /\ ~stopped
    /\ Goto(r, "sending")
    /\ UNCHANGED <<gate, permits, generating, sessions, server>>

\* Broken variant: the permits are given back when the handler returns.
GenerateUnguarded(r) ==
    /\ pc[r] = "handler" /\ ~stopped /\ ~engineStop
    /\ generating' = generating \cup {r}
    /\ \/ Goto(r, "collect") /\ UNCHANGED permits
       \/ /\ Goto(r, "sending")
          /\ admitted' = admitted \ {r} /\ execution' = execution \ {r}
    /\ UNCHANGED <<gate, sessions, server>>

\* generation_response and the MCP tools: a generation is awaited inside the
\* handler (collect) or by the response body (SSE).
Generate(r) ==
    /\ pc[r] = "handler" /\ ~stopped /\ ~engineStop
    /\ generating' = generating \cup {r}
    /\ Goto(r, "collect") \/ Goto(r, "sending")
    /\ UNCHANGED <<gate, permits, sessions, server>>

\* websocket_upgrade: a session permit, or an error; the session starts when
\* the response has been sent.
Upgrade(r) ==
    /\ pc[r] = "handler" /\ ~stopped
    /\ Cardinality(InSession) < SessionLimit
    /\ session' = [session EXCEPT ![r] = "pending"]
    /\ Goto(r, "sending")
    /\ UNCHANGED <<gate, permits, generating, chatting, server>>

Collected(r) ==
    /\ pc[r] = "collect" /\ ~stopped
    /\ generating' = generating \ {r}
    /\ Goto(r, "sending")
    /\ UNCHANGED <<gate, permits, sessions, server>>

\* The engine ends a generation whose events the body passes on.
StreamEnds(r) ==
    /\ pc[r] = "sending" /\ r \in generating
    /\ generating' = generating \ {r}
    /\ UNCHANGED <<gate, pc, permits, sessions, server>>

\* The client has taken the whole body; an upgraded connection becomes a session.
EndBody(r) ==
    /\ pc[r] = "sending" /\ r \notin generating
    /\ Release(r)
    /\ session' = IF session[r] = "pending"
                  THEN [session EXCEPT ![r] = "open"] ELSE session
    /\ UNCHANGED <<gate, chatting, server>>

-----------------------------------------------------------------------------
(* WebSocket sessions: no gate, no stop token *)

SessionStarts(r) ==
    /\ session[r] = "open" /\ r \notin chatting /\ ~engineStop
    /\ chatting' = chatting \cup {r}
    /\ UNCHANGED <<gate, pc, permits, generating, session, server>>

\* A terminal event, or a cancel message.
SessionGenerationEnds(r) ==
    /\ r \in chatting
    /\ chatting' = chatting \ {r}
    /\ UNCHANGED <<gate, pc, permits, generating, session, server>>

SessionCloses(r) ==
    /\ session[r] = "open"
    /\ session' = [session EXCEPT ![r] = "closed"]
    /\ chatting' = chatting \ {r}
    /\ UNCHANGED <<gate, pc, permits, generating, server>>

-----------------------------------------------------------------------------
(* serve *)

outside == <<pc, permits, generating, sessions>>

\* The shutdown token is seen.
ShutdownSeen ==
    /\ serve = "run"
    /\ serve' = "close" /\ process' = "draining"
    /\ UNCHANGED <<gate, outside, forced, engineStop>>

\* The axum server ends by itself: the gate is stopped, then the engine.
ServerEndsEarly ==
    /\ serve = "run"
    /\ serve' = "force" /\ process' = "draining" /\ forced' = TRUE
    /\ UNCHANGED <<gate, outside, engineStop>>

\* Broken variant: draining begins before readiness is taken back.
BeginDrainFirst ==
    /\ serve = "run"
    /\ Gate!BeginDrain(Serve)
    /\ serve' = "drain"
    /\ UNCHANGED <<outside, process, forced, engineStop>>

BeginDrain ==
    /\ serve = "close"
    /\ Gate!BeginDrain(Serve)
    /\ serve' = "drain"
    /\ UNCHANGED <<outside, process, forced, engineStop>>

Draining ==
    /\ serve = "drain"
    /\ Gate!DrainerStep(Serve) \/ Gate!DrainTimesOut(Serve)
    /\ UNCHANGED <<outside, server>>

DrainReturned ==
    /\ serve = "drain" /\ drainer[Serve] = "done"
    /\ serve' = "wait"
    /\ UNCHANGED <<gate, outside, process, forced, engineStop>>

\* Broken variant: the outcome of the drain is not looked at.
ServerEndedCarefree ==
    /\ serve = "wait"
    /\ serve' = "cleanup"
    /\ UNCHANGED <<gate, outside, process, forced, engineStop>>

\* All connections are closed, or the deadline passes first.
ServerEnded ==
    /\ serve = "wait"
    /\ \/ Idle /\ forced' = (outcome[Serve] = "forced")
       \/ forced' = TRUE
    /\ serve' = IF forced' THEN "force" ELSE "cleanup"
    /\ UNCHANGED <<gate, outside, process, engineStop>>

ForceStop ==
    /\ serve = "force"
    /\ Gate!StopperForce(Serve)
    /\ serve' = "signal"
    /\ UNCHANGED <<outside, process, forced, engineStop>>

ForceSignal ==
    /\ serve = "signal"
    /\ Gate!StopperSignal(Serve)
    /\ serve' = "cleanup"
    /\ UNCHANGED <<outside, process, forced, engineStop>>

\* poll_workload_shutdown: the first poll reaches the engine even when the
\* deadline has passed; after it only the deadline bounds the wait.
Cleanup ==
    /\ serve = "cleanup"
    /\ engineStop' = TRUE
    /\ serve' = "polling"
    /\ UNCHANGED <<gate, outside, process, forced>>

\* Broken variant: the cleanup is awaited without its deadline.
ReturnUnbounded ==
    /\ serve = "polling" /\ chatting = {} /\ generating = {}
    /\ serve' = "returned" /\ process' = "stopped"
    /\ UNCHANGED <<gate, outside, forced, engineStop>>

\* The engine's shutdown has completed or is abandoned at the deadline.
Return ==
    /\ serve = "polling"
    /\ serve' = "returned" /\ process' = "stopped"
    /\ UNCHANGED <<gate, outside, forced, engineStop>>

-----------------------------------------------------------------------------
\* What a call does without its client, its engine or its timer.
CallStep(r) ==
    \/ EnterGate(r) \/ Admit(r) \/ Unguard(r) \/ UnguardSignal(r)
    \/ StopBranch(r) \/ AcquireExecution(r)
    \/ Answer(r) \/ Generate(r) \/ Upgrade(r)

ServeStep ==
    \/ BeginDrain \/ Draining \/ DrainReturned \/ ServerEnded
    \/ ForceStop \/ ForceSignal \/ Cleanup \/ Return

Next ==
    \/ \E r \in Requests :
          \/ Arrive(r) \/ Preloaded(r) \/ PreloadFails(r) \/ CallStep(r)
          \/ DeadlineBranch(r) \/ Disconnect(r) \/ ReadBody(r) \/ BodyRejected(r)
          \/ Collected(r) \/ StreamEnds(r) \/ EndBody(r)
          \/ SessionStarts(r) \/ SessionGenerationEnds(r) \/ SessionCloses(r)
    \/ ShutdownSeen \/ ServerEndsEarly \/ ServeStep

Spec == Init /\ [][Next]_vars

\* Woken tasks are polled and serve()'s timers fire.  Nothing is assumed of
\* clients, handlers or the engine.
FairSpec ==
    /\ Spec
    /\ \A r \in Requests : WF_vars(CallStep(r))
    /\ WF_vars(ServeStep)

\* Timers of calls fire.
Deadlines ==
    \A r \in Requests : WF_vars(DeadlineBranch(r)) /\ WF_vars(PreloadFails(r))

-----------------------------------------------------------------------------
(* Properties *)

\* A generation that somebody awaits over HTTP always belongs to a call that
\* still holds both permits and its work guard, also after the handler has
\* returned and only the streamed body is left, and whoever ends it.
GenerationIsAccounted ==
    \A r \in generating : r \in execution /\ r \in admitted /\ worker[r] = "in"

\* The engine is not shut down under an HTTP call: when serve() comes to the
\* cleanup unforced, no admitted call is left and none can enter any more.
DrainedMeansIdle ==
    serve \in {"cleanup", "polling", "returned"} /\ ~forced =>
        Gate!Inside = {} /\ generating = {} /\ phase = "graceful"

\* While the process reports itself running, and can report itself ready, the
\* gate admits work: readiness is taken back before the first refusal.
ReadyMeansAccepting == process = "running" => phase = "accepting"

\* serve() returns once shutdown has been seen, with no help from clients,
\* handlers or the engine.
ServeReturns == serve # "run" ~> serve = "returned"

\* No permit, no guard, no generation.
HoldsNothing(r) == r \notin admitted \cup execution \cup generating /\ worker[r] # "in"

\* A stalled upload, a full queue or a hanging engine cannot hold a call beyond
\* its deadline or the stop of the gate: it ends with nothing left of the capacity
\* it was given, or has an answer to send.
CallsEnd ==
    Deadlines => \A r \in Requests :
        pc[r] \in Guarded \cup {"preload"} ~>
            pc[r] = "sending" \/ (pc[r] = "done" /\ HoldsNothing(r))

\* Bodies come to an end and are taken by their clients.
BodiesTaken == \A r \in Requests : WF_vars(StreamEnds(r)) /\ WF_vars(EndBody(r))

\* Only a body that its client does not take holds capacity for ever: whatever
\* ends a call at whatever await, both permits and the work guard come back.
CapacityReturns ==
    Deadlines /\ BodiesTaken => \A r \in Requests :
        r \in admitted \/ worker[r] = "in" ~> HoldsNothing(r)

\* README.md: shutdown signals "drain in-flight requests".  A generation of a
\* WebSocket session, which docs/http-websocket-api.md calls a request, is
\* finished before the engine is stopped, unless the bound forces it.
InFlightDrained == [][engineStop' /\ ~engineStop /\ ~forced => chatting = {}]_vars
=============================================================================
