------------------------------ MODULE GrpcServer ------------------------------
(***************************************************************************)
(* The gRPC server of impossible-inferences-server (src/grpc.rs): unary    *)
(* and streaming calls, serve() with its two shutdown tokens, and the task *)
(* that publishes the engine's readiness as gRPC health.                   *)
(*                                                                         *)
(* A call's events come from EventStream, the promise of the engine that   *)
(* GenerationStream implements; its steps are conjoined with the call's.   *)
(* The engine's lifecycle is reduced to what status() sees: while a        *)
(* sidecar is being launched the lifecycle mutex is held and status()      *)
(* waits.  Deadlines of calls are errors of the stream.                    *)
(***************************************************************************)
EXTENDS Naturals, Sequences

CONSTANTS Calls,        \* calls of the inference service
          MaxTokens,    \* deltas of one generation
          StreamBuffer  \* STREAM_BUFFER

ASSUME GrpcConstantsOK == {MaxTokens, StreamBuffer} \subseteq Nat \ {0}

VARIABLES grpc,      \* where serve() is, and its result at last
          result,    \* the result it will have once the health task has ended
          requestShutdown, \* its own token, which the calls and the health task see
          monitor,   \* where the health task is
          reading,   \* what status() told it, until that is published
          serving,   \* the published health
          call,      \* where each call's handler, or the task it spawned, is
          item,      \* the event that task is sending
          channel,   \* the events it has sent
          answer,    \* how the call has ended for its client
          finish,    \* calls whose client has read the finish event
          phase, tokens, \* EventStream
          shutdown,  \* the process's token
          engine,    \* ready, down or launching
          engineStop \* GenerationEngine::shutdown has begun

server == <<grpc, result, requestShutdown>>
health == <<monitor, reading, serving>>
stream == <<phase, tokens>>
calls == <<call, item, channel, answer, finish, stream>>
outside == <<shutdown, engine, engineStop>>
vars == <<server, health, calls, outside>>

Engine == INSTANCE EventStream WITH Requests <- Calls

Events == {"delta", "usage", "finished", "error"}

TypeOK ==
    /\ grpc \in {"off", "starting", "run", "drain", "join", "ok", "err"}
    /\ result \in {"none", "ok", "err"}
    /\ monitor \in {"off", "sleep", "status", "publish", "done"}
    /\ {requestShutdown, reading, serving, shutdown, engineStop} \subseteq BOOLEAN
    /\ call \in [Calls -> {"new", "handler", "collect", "relay", "send", "done"}]
    /\ item \in [Calls -> Events \cup {"none"}]
    /\ channel \in [Calls -> Seq(Events)]
    /\ \A c \in Calls : Len(channel[c]) <= StreamBuffer
    /\ answer \in [Calls -> {"none", "ok", "error", "unavailable", "gone"}]
    /\ finish \subseteq Calls
    /\ engine \in {"ready", "down", "launching"}

Init ==
    /\ grpc = "off" /\ result = "none" /\ requestShutdown = FALSE
    /\ monitor = "off" /\ reading = FALSE /\ serving = FALSE
    /\ call = [c \in Calls |-> "new"]
    /\ item = [c \in Calls |-> "none"]
    /\ channel = [c \in Calls |-> <<>>]
    /\ answer = [c \in Calls |-> "none"]
    /\ finish = {}
    /\ Engine!Init
    /\ shutdown = FALSE /\ engine = "launching" /\ engineStop = FALSE

Goto(c, where) == call' = [call EXCEPT ![c] = where]
Answer(c, how) == answer' = [answer EXCEPT ![c] = how]

\* The event stream is dropped, or its token cancelled.
DropEvents(c) ==
    IF phase[c] \in {"open", "usage"} THEN Engine!WalkAway(c) ELSE UNCHANGED stream

-----------------------------------------------------------------------------
(* Handlers: context, conversion, generate *)

Arrive(c) ==
    /\ call[c] = "new" /\ grpc = "run"
    /\ Goto(c, "handler")
    /\ UNCHANGED <<server, health, item, channel, answer, finish, stream, outside>>

\* A zero timeout, a bad message or an error of generate().
Reject(c) ==
    /\ call[c] = "handler"
    /\ Goto(c, "done") /\ Answer(c, "error")
    /\ UNCHANGED <<server, health, item, channel, finish, stream, outside>>

\* generate() accepts: a unary call collects the events itself, a streaming
\* call spawns a task that relays them.
Accept(c) ==
    /\ call[c] = "handler" /\ ~engineStop
    /\ Engine!Open(c)
    /\ Goto(c, "collect") \/ Goto(c, "relay")
    /\ UNCHANGED <<server, health, item, channel, answer, finish, outside>>

-----------------------------------------------------------------------------
(* Unary calls *)

\* collect: up to the end of the stream.  That usage or finish is missing
\* there is an error in the code, which EventStream rules out.
Collect(c) ==
    /\ call[c] = "collect" /\ ~requestShutdown
    /\ \/ (Engine!Delta(c) \/ Engine!Usage(c) \/ Engine!Finished(c)) /\ UNCHANGED <<call, answer>>
       \/ Engine!Error(c) /\ Goto(c, "done") /\ Answer(c, "error")
       \/ phase[c] = "finished" /\ Goto(c, "done") /\ Answer(c, "ok") /\ UNCHANGED stream
    /\ UNCHANGED <<server, health, item, channel, finish, outside>>

CollectShutdown(c) ==
    /\ call[c] = "collect" /\ requestShutdown
    /\ DropEvents(c)
    /\ Goto(c, "done") /\ Answer(c, "unavailable")
    /\ UNCHANGED <<server, health, item, channel, finish, outside>>

-----------------------------------------------------------------------------
(* Streaming calls *)

Receive(c, event) ==
    CASE event = "delta" -> Engine!Delta(c)
      [] event = "usage" -> Engine!Usage(c)
      [] event = "finished" -> Engine!Finished(c)
      [] event = "error" -> Engine!Error(c)

Relay(c) ==
    /\ call[c] = "relay" /\ ~requestShutdown /\ answer[c] # "gone"
    /\ \E event \in Events : Receive(c, event) /\ item' = [item EXCEPT ![c] = event]
    /\ Goto(c, "send")
    /\ UNCHANGED <<server, health, channel, answer, finish, outside>>

\* shutdown.cancelled() or sender.closed(): the task returns without a word.
RelayStops(c) ==
    /\ call[c] = "relay" /\ (requestShutdown \/ answer[c] = "gone")
    /\ DropEvents(c)
    /\ Goto(c, "done")
    /\ UNCHANGED <<server, health, item, channel, answer, finish, outside>>

\* Broken variant: an event that finds the channel full is dropped.
SendItemOrDrop(c) ==
    /\ call[c] = "send" /\ answer[c] # "gone"
    /\ channel' = [channel EXCEPT ![c] =
                     IF Len(@) < StreamBuffer THEN Append(@, item[c]) ELSE @]
    /\ Goto(c, IF item[c] \in {"finished", "error"} THEN "done" ELSE "relay")
    /\ UNCHANGED <<server, health, item, answer, finish, stream, outside>>

\* Broken variant: the channel is unbounded.
SendItemUnbounded(c) ==
    /\ call[c] = "send" /\ answer[c] # "gone"
    /\ channel' = [channel EXCEPT ![c] = Append(@, item[c])]
    /\ Goto(c, IF item[c] \in {"finished", "error"} THEN "done" ELSE "relay")
    /\ UNCHANGED <<server, health, item, answer, finish, stream, outside>>

\* sender.send(output).await, outside the select.
SendItem(c) ==
    /\ call[c] = "send" /\ answer[c] # "gone" /\ Len(channel[c]) < StreamBuffer
    /\ channel' = [channel EXCEPT ![c] = Append(@, item[c])]
    /\ Goto(c, IF item[c] \in {"finished", "error"} THEN "done" ELSE "relay")
    /\ UNCHANGED <<server, health, item, answer, finish, stream, outside>>

SendFails(c) ==
    /\ call[c] = "send" /\ answer[c] = "gone"
    /\ DropEvents(c)
    /\ Goto(c, "done")
    /\ UNCHANGED <<server, health, item, channel, answer, finish, outside>>

-----------------------------------------------------------------------------
(* Clients *)

\* An error in the stream becomes its status and ends it.
ClientReads(c) ==
    /\ answer[c] = "none" /\ channel[c] # <<>>
    /\ channel' = [channel EXCEPT ![c] = Tail(@)]
    /\ IF Head(channel[c]) = "error" THEN Answer(c, "error") ELSE UNCHANGED answer
    /\ finish' = IF Head(channel[c]) = "finished" THEN finish \cup {c} ELSE finish
    /\ UNCHANGED <<server, health, call, item, stream, outside>>

\* The sender is gone and the channel empty: the stream ends with status OK.
ClientEnds(c) ==
    /\ answer[c] = "none" /\ call[c] = "done" /\ channel[c] = <<>>
    /\ Answer(c, "ok")
    /\ UNCHANGED <<server, health, call, item, channel, finish, stream, outside>>

\* The client cancels or disconnects.  A handler is dropped, and with it the
\* guard that cancels a unary call; the task of a stream notices by itself.
ClientLeaves(c) ==
    /\ answer[c] = "none" /\ call[c] # "new"
    /\ Answer(c, "gone") /\ channel' = [channel EXCEPT ![c] = <<>>]
    /\ IF call[c] \in {"handler", "collect"}
       THEN Goto(c, "done") /\ DropEvents(c)
       ELSE UNCHANGED <<call, stream>>
    /\ UNCHANGED <<server, health, item, finish, outside>>

-----------------------------------------------------------------------------
(* The health task *)

StatusAnswers == engine # "launching"

MonitorWakes ==
    /\ monitor = "sleep" /\ ~requestShutdown
    /\ monitor' = "status"
    /\ UNCHANGED <<reading, serving, server, calls, outside>>

MonitorReads ==
    /\ monitor = "status" /\ StatusAnswers
    /\ reading' = (engine = "ready") /\ monitor' = "publish"
    /\ UNCHANGED <<serving, server, calls, outside>>

\* Broken variant: only good news is published.
MonitorPublishesReady ==
    /\ monitor = "publish"
    /\ serving' = (serving \/ reading) /\ reading' = FALSE /\ monitor' = "sleep"
    /\ UNCHANGED <<server, calls, outside>>

MonitorPublishes ==
    /\ monitor = "publish"
    /\ serving' = reading /\ reading' = FALSE /\ monitor' = "sleep"
    /\ UNCHANGED <<server, calls, outside>>

MonitorStops ==
    /\ monitor = "sleep" /\ requestShutdown
    /\ serving' = FALSE /\ monitor' = "done"
    /\ UNCHANGED <<reading, server, calls, outside>>

-----------------------------------------------------------------------------
(* serve *)

\* The first status() is awaited before anything else.
Start ==
    /\ grpc = "starting" /\ StatusAnswers
    /\ serving' = (engine = "ready") /\ monitor' = "sleep"
    /\ grpc' = "run"
    /\ UNCHANGED <<reading, result, requestShutdown, calls, outside>>

\* The graceful shutdown of tonic begins and, by either branch, the calls and
\* the health task are told.
ShutdownSeen ==
    /\ grpc = "run" /\ shutdown
    /\ grpc' = "drain" /\ requestShutdown' = TRUE
    /\ UNCHANGED <<result, health, calls, outside>>

End(how) ==
    /\ grpc' = "join" /\ result' = how /\ requestShutdown' = TRUE
    /\ UNCHANGED <<health, calls, outside>>

\* The client of c has all it will get, or has not called.
Served(c) == call[c] = "new" \/ answer[c] # "none"

Drained == grpc = "drain" /\ (\A c \in Calls : Served(c)) /\ End("ok")

DrainTimesOut == grpc = "drain" /\ End("err")

ServerFails == grpc = "run" /\ End("err")

\* Broken variant: the health task is left alone.
ReturnWithoutJoin ==
    /\ grpc = "join"
    /\ grpc' = result
    /\ UNCHANGED <<result, requestShutdown, health, calls, outside>>

\* health_monitor.await, whatever time that takes.
Return ==
    /\ grpc = "join" /\ monitor = "done"
    /\ grpc' = result
    /\ UNCHANGED <<result, requestShutdown, health, calls, outside>>

-----------------------------------------------------------------------------
\* What a call's handler or task does without its client or the engine.
CallStep(c) ==
    Reject(c) \/ Accept(c) \/ CollectShutdown(c) \/ RelayStops(c) \/ SendItem(c) \/ SendFails(c)

ClientStep(c) == ClientReads(c) \/ ClientEnds(c) \/ ClientLeaves(c)

MonitorStep == MonitorWakes \/ MonitorReads \/ MonitorPublishes \/ MonitorStops

ServeStep == Start \/ ShutdownSeen \/ Drained \/ DrainTimesOut \/ Return

GrpcNext ==
    \/ \E c \in Calls : Arrive(c) \/ CallStep(c) \/ Collect(c) \/ Relay(c) \/ ClientStep(c)
    \/ MonitorStep \/ ServeStep \/ ServerFails

-----------------------------------------------------------------------------
(* Properties *)

\* Success is never reported for half an answer: a unary call that returns OK
\* has seen the whole generation, and a stream that ends with OK has delivered
\* the finish event, unless the server was told to shut down.
HonestEnd ==
    \A c \in Calls : answer[c] = "ok" =>
        requestShutdown \/ (phase[c] = "finished" /\ (item[c] # "none" => c \in finish))
=============================================================================
