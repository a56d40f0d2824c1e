----------------------------- MODULE ServeProcess -----------------------------
(***************************************************************************)
(* serve() of main.rs: the process starts the engine, then runs the HTTP   *)
(* and the gRPC server under one cancellation token until a signal comes   *)
(* or one of them ends, waits for the other and exits.                     *)
(*                                                                         *)
(* The gRPC server is module GrpcServer.  Of the HTTP server only its      *)
(* shutdown sequence is here (drain, then the engine's shutdown, then      *)
(* return, each within its bound: property ServeReturns of HttpServer) and *)
(* the task behind its readiness, which polls the same engine.  The engine *)
(* is what the others see of SidecarLifecycle: a sidecar that crashes and  *)
(* is launched again, and a launch that gives up once shutdown() begins.   *)
(***************************************************************************)
EXTENDS GrpcServer

VARIABLES main,        \* where serve() of main.rs is
          exit,        \* the process's exit status
          http,        \* where the HTTP server is, and its result at last
          forced,      \* whether that will be an error
          httpMonitor, \* where its health task is
          component    \* the readiness it has set

process == <<main, exit>>
web == <<http, forced, httpMonitor, component>>
processVars == <<vars, process, web>>

ProcessTypeOK ==
    /\ TypeOK
    /\ main \in {"starting", "bind", "serving", "pending",
                 "await_http", "await_grpc", "exited"}
    /\ exit \in {"none", "ok", "err"}
    /\ http \in {"off", "run", "drain", "cleanup", "polling", "ok", "err"}
    /\ httpMonitor \in {"off", "status", "sleep", "done"}
    /\ {forced, component} \subseteq BOOLEAN

\* The listener is bound, the signal task spawned and start_from_store begun.
ProcessInit ==
    /\ Init
    /\ main = "starting" /\ exit = "none"
    /\ http = "off" /\ forced = FALSE
    /\ httpMonitor = "off" /\ component = FALSE

-----------------------------------------------------------------------------
(* The engine, as status() and generate() show it *)

engineOnly == <<server, health, calls, shutdown, process, web>>

SidecarCrashes ==
    /\ engine = "ready"
    /\ engine' = "down"
    /\ UNCHANGED <<engineStop, engineOnly>>

\* Some request finds no sidecar.
LaunchBegins ==
    /\ main # "starting" /\ engine = "down" /\ ~engineStop
    /\ engine' = "launching"
    /\ UNCHANGED <<engineStop, engineOnly>>

LaunchEnds ==
    /\ main # "starting" /\ engine = "launching"
    /\ engine' \in IF engineStop THEN {"down"} ELSE {"ready", "down"}
    /\ UNCHANGED <<engineStop, engineOnly>>

\* shutdown() terminates the sidecar it finds in the slot.
SidecarTerminated ==
    /\ engineStop /\ engine = "ready"
    /\ engine' = "down"
    /\ UNCHANGED <<engineStop, engineOnly>>

-----------------------------------------------------------------------------
(* The HTTP server *)

grpcSide == <<server, health, calls>>

HttpShutdownSeen ==
    /\ http = "run" /\ shutdown
    /\ http' = "drain"
    /\ UNCHANGED <<grpcSide, outside, process, forced, httpMonitor, component>>

\* The server fails by itself and is not drained.
HttpFails ==
    /\ http = "run"
    /\ http' = "cleanup" /\ forced' = TRUE
    /\ UNCHANGED <<grpcSide, outside, process, httpMonitor, component>>

\* In time, or forced at the bound.
HttpDrained ==
    /\ http = "drain"
    /\ http' = "cleanup" /\ forced' \in BOOLEAN
    /\ UNCHANGED <<grpcSide, outside, process, httpMonitor, component>>

\* Broken variant: the workload keeps the default, empty shutdown.
HttpCleanupEmpty ==
    /\ http = "cleanup"
    /\ http' = "polling"
    /\ UNCHANGED <<grpcSide, outside, process, forced, httpMonitor, component>>

\* The first poll of GenerationEngine::shutdown (none for PendingInference).
HttpCleanup ==
    /\ http = "cleanup"
    /\ http' = "polling" /\ engineStop' = TRUE
    /\ UNCHANGED <<grpcSide, shutdown, engine, process, forced,
                   httpMonitor, component>>

\* The sidecar is gone, or the bound has passed, which is an error as well.
HttpReturns ==
    /\ http = "polling"
    /\ \/ engine = "down" /\ http' = IF forced THEN "err" ELSE "ok"
       \/ http' = "err"
    /\ UNCHANGED <<grpcSide, outside, process, forced, httpMonitor, component>>

httpOnly == <<grpcSide, outside, process, http, forced>>

HttpMonitorSets ==
    /\ httpMonitor = "status" /\ StatusAnswers
    /\ component' = (engine = "ready") /\ httpMonitor' = "sleep"
    /\ UNCHANGED httpOnly

HttpMonitorWakes ==
    /\ httpMonitor = "sleep"
    /\ httpMonitor' = "status"
    /\ UNCHANGED <<component, httpOnly>>

\* The gate's stop token, which is cancelled before the engine is shut down.
HttpMonitorStops ==
    /\ httpMonitor = "sleep" /\ http \in {"cleanup", "polling", "ok", "err"}
    /\ component' = FALSE /\ httpMonitor' = "done"
    /\ UNCHANGED <<httpOnly>>

-----------------------------------------------------------------------------
(* serve() of main.rs *)

processOnly == <<health, calls, forced, component>>

\* Ctrl+C or SIGTERM.
Signal ==
    /\ ~shutdown
    /\ shutdown' = TRUE
    /\ UNCHANGED <<server, engine, engineStop, process, http, httpMonitor, processOnly>>

\* start_from_store, during which the token is not looked at.
EngineStarted ==
    /\ main = "starting"
    /\ engine' = "ready" /\ main' = "bind"
    /\ UNCHANGED <<server, shutdown, engineStop, exit, http, httpMonitor, processOnly>>

\* The process serves its status over HTTP, without an engine.
EngineUnavailable ==
    /\ main = "starting"
    /\ engine' = "down" /\ engineStop' = TRUE
    /\ main' = "pending" /\ http' = "run"
    /\ UNCHANGED <<server, shutdown, exit, httpMonitor, processOnly>>

\* main returns: every task that is left is dropped with the runtime.
Exit(how) == main' = "exited" /\ exit' = how

BindFails ==
    /\ main = "bind"
    /\ Exit("err")
    /\ UNCHANGED <<server, outside, http, httpMonitor, processOnly>>

Serve ==
    /\ main = "bind"
    /\ main' = "serving"
    /\ http' = "run" /\ httpMonitor' = "status" /\ grpc' = "starting"
    /\ UNCHANGED <<result, requestShutdown, outside, exit, processOnly>>

\* One server has ended: the other is told, and awaited unless this one failed.
FirstEnds(how, other) ==
    /\ main = "serving" /\ how \in {"ok", "err"}
    /\ shutdown' = TRUE
    /\ IF how = "err" THEN Exit("err") ELSE main' = other /\ UNCHANGED exit
    /\ UNCHANGED <<server, engine, engineStop, http, httpMonitor, processOnly>>

HttpFirst == FirstEnds(http, "await_grpc")

GrpcFirst == FirstEnds(grpc, "await_http")

SecondEnds(here, how) ==
    /\ main = here /\ how \in {"ok", "err"}
    /\ Exit(how)
    /\ UNCHANGED <<server, outside, http, httpMonitor, processOnly>>

-----------------------------------------------------------------------------
EngineStep == LaunchEnds \/ SidecarTerminated

HttpStep == HttpShutdownSeen \/ HttpDrained \/ HttpCleanup \/ HttpReturns

HttpMonitorStep ==
    HttpMonitorSets \/ HttpMonitorWakes \/ HttpMonitorStops

MainStep ==
    \/ EngineStarted \/ EngineUnavailable \/ Serve \/ HttpFirst \/ GrpcFirst
    \/ SecondEnds("await_http", http) \/ SecondEnds("await_grpc", grpc)
    \/ SecondEnds("pending", http)

GrpcStep(A) == A /\ UNCHANGED <<process, web>>

Next ==
    /\ main # "exited"
    /\ \/ GrpcStep(GrpcNext)
       \/ SidecarCrashes \/ LaunchBegins \/ EngineStep
       \/ HttpFails \/ HttpStep \/ HttpMonitorStep
       \/ Signal \/ BindFails \/ MainStep

Spec == ProcessInit /\ [][Next]_processVars

Run(A) == main # "exited" /\ A

\* Woken tasks are polled, timers fire, and start_from_store returns.  A launch
\* is assumed to end only once shutdown() has told it to; engine and clients
\* may otherwise do nothing, for ever.
FairSpec ==
    /\ Spec
    /\ WF_processVars(Run(MainStep))
    /\ WF_processVars(Run(HttpStep)) /\ WF_processVars(Run(HttpMonitorStep))
    /\ WF_processVars(Run(GrpcStep(ServeStep)))
    /\ WF_processVars(Run(GrpcStep(MonitorStep)))
    /\ WF_processVars(Run(engineStop /\ EngineStep))

-----------------------------------------------------------------------------
(* Properties *)

\* What the health endpoint of the HTTP server answers.
HttpReady == http = "run" /\ component

\* An exit status of success is earned: both servers have ended in time, the
\* engine is down, gRPC health is withdrawn and every call has been answered.
\* (LocalInference::shutdown ignores the engine's error: "down" is that its slot
\* is empty and its process told to die, whether or not it was reaped in time.)
CleanExit ==
    exit = "ok" =>
        /\ http = "ok" /\ engineStop /\ engine = "down"
        /\ grpc \in {"off", "ok"} /\ ~serving
        /\ \A c \in Calls : Served(c)

\* A signal, whenever it comes, ends the process: although a start or a launch
\* delays it, clients do not read, and the gRPC server waits for a health task
\* that may wait for the lifecycle mutex, which only the HTTP server's cleanup
\* can be relied on to free.
ProcessExits == shutdown ~> main = "exited"

\* Both health tasks converge on the engine's state: a sidecar that stays down
\* is eventually reported by both servers, and so is one that stays up.
HealthConverges ==
    /\ <>[](engine = "down" /\ main = "serving") => <>[](~serving /\ ~HttpReady)
    /\ <>[](engine = "ready" /\ grpc = "run" /\ http = "run") => <>[](serving /\ HttpReady)
=============================================================================
