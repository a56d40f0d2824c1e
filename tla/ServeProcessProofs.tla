-------------------------- MODULE ServeProcessProofs --------------------------
(***************************************************************************)
(* What a success means, for any number of calls, deltas and any channel   *)
(* capacity: a call that ends with OK and a process that exits with 0.     *)
(*                                                                         *)
(* The argument for a call: once its task has sent the finish event or an  *)
(* error and is gone, that event is in the channel or has been read.  For  *)
(* the process: a server's result is only good once what it stands for is  *)
(* done for good, the engine's shutdown included.  The types follow from   *)
(* the same invariant, the bound of a call's channel among them.           *)
(*                                                                         *)
(* The last part is about CancellationToken, which module ServeProcess     *)
(* takes for a variable that is raised once.                               *)
(***************************************************************************)
EXTENDS ServeProcess, SequenceTheorems, TLAPS

Handlers == {"new", "handler", "collect", "relay", "send", "done"}
Answers == {"none", "ok", "error", "unavailable", "gone"}

CallTypes ==
    /\ call \in [Calls -> Handlers]
    /\ item \in [Calls -> Events \cup {"none"}]
    /\ channel \in [Calls -> Seq(Events)]
    /\ answer \in [Calls -> Answers]
    /\ phase \in [Calls -> {"idle", "open", "usage", "finished", "failed", "left"}]

InChannel(c, event) == \E i \in 1..Len(channel[c]) : channel[c][i] = event

\* The finish event is on its way to the client of c, or there.
FinishSent(c) == item[c] = "finished" /\ (c \in finish \/ InChannel(c, "finished"))

\* How a call can have ended so far.
CallInv(c) ==
    /\ call[c] \in {"new", "handler", "collect"} => item[c] = "none"
    /\ call[c] = "send" => item[c] \in Events
    /\ call[c] # "new" /\ item[c] = "finished" => phase[c] = "finished"
    /\ call[c] = "done" /\ answer[c] = "none" =>
          requestShutdown \/ InChannel(c, "error") \/ FinishSent(c)
    /\ answer[c] = "ok" =>
          /\ call[c] = "done"
          /\ \/ requestShutdown
             \/ phase[c] = "finished" /\ (item[c] # "none" => c \in finish)

AllServed == \A c \in Calls : Served(c)

\* The gRPC server's part of a clean exit.
GrpcControl ==
    /\ grpc \in {"off", "starting", "run", "drain", "join", "ok", "err"}
    /\ grpc = "off" => ~serving
    /\ grpc \in {"off", "starting"} => monitor = "off" /\ \A c \in Calls : call[c] = "new"
    /\ grpc = "join" => result \in {"ok", "err"} /\ (result = "ok" => AllServed)
    /\ grpc = "ok" => monitor = "done" /\ AllServed
    /\ monitor = "done" => ~serving

\* The HTTP server's, and the order in which main proceeds.
MainControl ==
    /\ main \in {"starting", "bind"} => http = "off"
    /\ main \in {"starting", "bind", "pending"} => grpc = "off"
    /\ http \in {"polling", "ok", "err"} => engineStop
    /\ http = "ok" => engine = "down"
    /\ main = "await_http" => grpc = "ok"
    /\ main = "await_grpc" => http = "ok"
    /\ main # "exited" => exit = "none"

IInv ==
    /\ CallTypes /\ \A c \in Calls : CallInv(c)
    /\ GrpcControl /\ MainControl /\ CleanExit

-----------------------------------------------------------------------------
LEMMA InitIInv == ProcessInit => IInv
<1> SUFFICES ASSUME ProcessInit PROVE IInv
  OBVIOUS
<1>1. CallTypes
  BY DEF ProcessInit, Init, Engine!Init, CallTypes, Handlers, Answers
<1>2. \A c \in Calls : CallInv(c)
  BY DEF ProcessInit, Init, CallInv
<1>3. GrpcControl /\ MainControl /\ CleanExit
  BY DEF ProcessInit, Init, GrpcControl, MainControl, CleanExit
<1> QED BY <1>1, <1>2, <1>3 DEF IInv

-----------------------------------------------------------------------------
(* Calls *)

\* What is said of one call depends on its own variables only, and a shutdown
\* that begins asks less of it.
LEMMA CallFrame ==
    ASSUME NEW c \in Calls, CallInv(c),
           call'[c] = call[c], item'[c] = item[c], channel'[c] = channel[c],
           answer'[c] = answer[c], phase'[c] = phase[c], c \in finish' <=> c \in finish,
           requestShutdown => requestShutdown'
    PROVE  CallInv(c)'
  BY DEF CallInv, InChannel, FinishSent

\* A step of c changes nobody else's variables.
Own(c) ==
    \A d \in Calls \ {c} :
        /\ call'[d] = call[d] /\ item'[d] = item[d] /\ channel'[d] = channel[d]
        /\ answer'[d] = answer[d] /\ phase'[d] = phase[d]
        /\ d \in finish' <=> d \in finish

\* An answer stays, and only Arrive makes a call of what was none.
Lasting(c) ==
    /\ answer[c] # "none" => answer'[c] # "none"
    /\ call[c] = "new" => call'[c] = "new" \/ grpc = "run"

StepOf(c) == CallTypes' /\ Own(c) /\ CallInv(c)' /\ Lasting(c)

LEMMA HandlerStep ==
    ASSUME IInv, NEW c \in Calls, Arrive(c) \/ Reject(c) \/ Accept(c)
    PROVE  StepOf(c)
<1>1. CallTypes'
  BY DEF Arrive, Reject, Accept, Goto, Answer, Engine!Open, stream, calls,
         IInv, CallTypes, Handlers, Answers
<1>2. Own(c) /\ Lasting(c)
  BY DEF Arrive, Reject, Accept, Goto, Answer, Engine!Open, stream,
         IInv, CallTypes, Own, Lasting
<1>3. CallInv(c)'
  BY DEF Arrive, Reject, Accept, Goto, Answer, Engine!Open, stream, server,
         IInv, CallTypes, CallInv
<1> QED BY <1>1, <1>2, <1>3 DEF StepOf

LEMMA DropEventsTypes ==
    ASSUME IInv, NEW c \in Calls, DropEvents(c)
    PROVE  /\ phase' \in [Calls -> {"idle", "open", "usage", "finished", "failed", "left"}]
           /\ phase'[c] = IF phase[c] \in {"open", "usage"} THEN "left" ELSE phase[c]
           /\ \A d \in Calls \ {c} : phase'[d] = phase[d]
  BY DEF DropEvents, Engine!WalkAway, stream, IInv, CallTypes

LEMMA CollectStep ==
    ASSUME IInv, NEW c \in Calls, Collect(c) \/ CollectShutdown(c)
    PROVE  StepOf(c)
<1>1. CASE Collect(c)
  <2>1. CallTypes' /\ Own(c) /\ Lasting(c)
    BY <1>1 DEF Collect, Goto, Answer, Engine!Delta, Engine!Usage, Engine!Finished,
                Engine!Error, stream, IInv, CallTypes, Handlers, Answers, Own, Lasting
  <2>2. CallInv(c)'
    BY <1>1 DEF Collect, Goto, Answer, Engine!Delta, Engine!Usage, Engine!Finished,
                Engine!Error, stream, server, IInv, CallTypes, CallInv
  <2> QED BY <2>1, <2>2 DEF StepOf
<1>2. CASE CollectShutdown(c)
  <2>1. CallTypes' /\ Own(c) /\ Lasting(c)
    BY <1>2, DropEventsTypes
       DEF CollectShutdown, Goto, Answer, IInv, CallTypes, Handlers, Answers, Own, Lasting
  <2>2. CallInv(c)'
    BY <1>2, DropEventsTypes
       DEF CollectShutdown, Goto, Answer, server, IInv, CallTypes, CallInv
  <2> QED BY <2>1, <2>2 DEF StepOf
<1> QED BY <1>1, <1>2

LEMMA RelayStep ==
    ASSUME IInv, NEW c \in Calls, Relay(c) \/ RelayStops(c) \/ SendFails(c)
    PROVE  StepOf(c)
<1>1. CASE Relay(c)
  <2>1. PICK event \in Events : Receive(c, event) /\ item' = [item EXCEPT ![c] = event]
    BY <1>1 DEF Relay
  <2>2. /\ phase' \in [Calls -> {"idle", "open", "usage", "finished", "failed", "left"}]
        /\ event = "finished" => phase'[c] = "finished"
        /\ \A d \in Calls \ {c} : phase'[d] = phase[d]
    BY <2>1 DEF Receive, Engine!Delta, Engine!Usage, Engine!Finished, Engine!Error,
                Events, IInv, CallTypes
  <2>3. CallTypes' /\ Own(c) /\ Lasting(c)
    BY <1>1, <2>1, <2>2 DEF Relay, Goto, IInv, CallTypes, Handlers, Own, Lasting
  <2>4. CallInv(c)'
    BY <1>1, <2>1, <2>2 DEF Relay, Goto, IInv, CallTypes, CallInv
  <2> QED BY <2>3, <2>4 DEF StepOf
<1>2. CASE RelayStops(c) \/ SendFails(c)
  <2>1. CallTypes' /\ Own(c) /\ Lasting(c)
    BY <1>2, DropEventsTypes
       DEF RelayStops, SendFails, Goto, IInv, CallTypes, Handlers, Own, Lasting
  <2>2. /\ call[c] \in {"relay", "send"} /\ call'[c] = "done" /\ item' = item
        /\ requestShutdown' \/ answer'[c] # "none"
        /\ answer' = answer
    BY <1>2 DEF RelayStops, SendFails, Goto, server, IInv, CallTypes
  <2>3. phase[c] = "finished" => phase'[c] = "finished"
    BY <1>2, DropEventsTypes DEF RelayStops, SendFails
  <2>4. CallInv(c)'
    BY <2>2, <2>3 DEF IInv, CallInv
  <2> QED BY <2>1, <2>4 DEF StepOf
<1> QED BY <1>1, <1>2

LEMMA SendItemStep ==
    ASSUME IInv, NEW c \in Calls, SendItem(c)
    PROVE  StepOf(c)
<1>1. item[c] \in Events /\ channel[c] \in Seq(Events)
  BY DEF SendItem, IInv, CallTypes, CallInv
<1>2. channel' = [channel EXCEPT ![c] = Append(channel[c], item[c])]
  BY DEF SendItem
<1>3. Append(channel[c], item[c]) \in Seq(Events)
  BY <1>1, AppendProperties
<1>4. CallTypes' /\ Own(c) /\ Lasting(c)
  BY <1>2, <1>3 DEF SendItem, Goto, stream, IInv, CallTypes, Handlers, Own, Lasting
<1>5. /\ call[c] = "send" /\ call'[c] \in {"relay", "done"}
      /\ call'[c] = "done" => item[c] \in {"finished", "error"}
      /\ UNCHANGED <<item, answer, finish, phase, requestShutdown>>
  BY DEF SendItem, Goto, stream, server, IInv, CallTypes
<1>6. InChannel(c, item[c])'
  <2>1. channel'[c] = Append(channel[c], item[c])
    BY <1>2 DEF IInv, CallTypes
  <2>2. /\ Len(channel[c]) + 1 \in 1..Len(channel'[c])
        /\ channel'[c][Len(channel[c]) + 1] = item[c]
    BY <1>1, <2>1, AppendProperties, LenProperties
  <2> QED BY <1>5, <2>2 DEF InChannel
<1>7. CallInv(c)'
  BY <1>5, <1>6 DEF IInv, CallInv, FinishSent
<1> QED BY <1>4, <1>7 DEF StepOf

\* What the client has not read yet is still in the channel.
LEMMA ReadStep ==
    ASSUME IInv, NEW c \in Calls, ClientReads(c)
    PROVE  StepOf(c)
<1>1. /\ channel[c] \in Seq(Events) /\ channel[c] # <<>> /\ answer[c] = "none"
      /\ channel' = [channel EXCEPT ![c] = Tail(channel[c])]
      /\ UNCHANGED <<call, item, phase, requestShutdown>>
      /\ answer' = IF Head(channel[c]) = "error"
                   THEN [answer EXCEPT ![c] = "error"] ELSE answer
      /\ finish' = IF Head(channel[c]) = "finished" THEN finish \cup {c} ELSE finish
  BY DEF ClientReads, Answer, stream, server, IInv, CallTypes
<1>2. Tail(channel[c]) \in Seq(Events)
  BY <1>1, HeadTailProperties
<1>3. CallTypes' /\ Own(c) /\ Lasting(c)
  BY <1>1, <1>2 DEF IInv, CallTypes, Answers, Own, Lasting
<1>4. ASSUME NEW event \in Events, InChannel(c, event), Head(channel[c]) # event
      PROVE  InChannel(c, event)'
  <2>1. PICK i \in 1..Len(channel[c]) : channel[c][i] = event
    BY <1>4 DEF InChannel
  <2>2. i # 1
    BY <1>1, <1>4, <2>1, HeadTailProperties
  <2>3. channel'[c] = Tail(channel[c])
    BY <1>1 DEF IInv, CallTypes
  <2>4. /\ Len(channel[c]) \in Nat /\ Len(Tail(channel[c])) = Len(channel[c]) - 1
        /\ \A j \in 1..Len(Tail(channel[c])) : Tail(channel[c])[j] = channel[c][j + 1]
    BY <1>1, HeadTailProperties, LenProperties
  <2>5. i - 1 \in 1..Len(Tail(channel[c])) /\ (i - 1) + 1 = i
    BY <2>1, <2>2, <2>4
  <2>6. channel'[c][i - 1] = event
    BY <2>1, <2>3, <2>4, <2>5
  <2> QED BY <2>3, <2>5, <2>6 DEF InChannel
<1>5. CallInv(c)'
  <2>1. answer'[c] \in {"none", "error"}
    BY <1>1 DEF IInv, CallTypes
  <2>2. answer'[c] = "none" => Head(channel[c]) # "error"
    BY <1>1 DEF IInv, CallTypes
  <2>3. answer'[c] = "none" /\ InChannel(c, "error") => InChannel(c, "error")'
    BY <1>4, <2>2 DEF Events
  <2>4. FinishSent(c) => FinishSent(c)'
    BY <1>1, <1>4 DEF FinishSent, Events
  <2> QED BY <1>1, <2>1, <2>3, <2>4 DEF IInv, CallInv
<1> QED BY <1>3, <1>5 DEF StepOf

LEMMA ClientEndStep ==
    ASSUME IInv, NEW c \in Calls, ClientEnds(c) \/ ClientLeaves(c)
    PROVE  StepOf(c)
<1>1. CASE ClientEnds(c)
  <2>1. CallTypes' /\ Own(c) /\ Lasting(c)
    BY <1>1 DEF ClientEnds, Answer, stream, IInv, CallTypes, Answers, Own, Lasting
  <2>2. \A event \in Events : ~InChannel(c, event)
    BY <1>1 DEF ClientEnds, InChannel
  <2>3. requestShutdown \/ (item[c] = "finished" /\ c \in finish /\ phase[c] = "finished")
    BY <1>1, <2>2 DEF ClientEnds, IInv, CallInv, FinishSent, Events
  <2>4. CallInv(c)'
    BY <1>1, <2>3 DEF ClientEnds, Answer, stream, server, IInv, CallTypes, CallInv
  <2> QED BY <2>1, <2>4 DEF StepOf
<1>2. CASE ClientLeaves(c)
  <2>1. /\ call[c] # "new" /\ answer[c] = "none" /\ item' = item /\ finish' = finish
        /\ answer' = [answer EXCEPT ![c] = "gone"] /\ channel' = [channel EXCEPT ![c] = <<>>]
        /\ requestShutdown' = requestShutdown
    BY <1>2 DEF ClientLeaves, Answer, server
  <2>2. /\ phase' \in [Calls -> {"idle", "open", "usage", "finished", "failed", "left"}]
        /\ phase[c] = "finished" => phase'[c] = "finished"
        /\ \A d \in Calls \ {c} : phase'[d] = phase[d]
    BY <1>2, DropEventsTypes DEF ClientLeaves, stream, IInv, CallTypes
  <2>3. \/ call' = [call EXCEPT ![c] = "done"]
        \/ call' = call /\ call[c] \notin {"handler", "collect"}
    BY <1>2 DEF ClientLeaves, Goto
  <2>4. CallTypes' /\ Own(c) /\ Lasting(c)
    <3>1. <<>> \in Seq(Events)
      OBVIOUS
    <3>2. CallTypes'
      BY <2>1, <2>2, <2>3, <3>1 DEF IInv, CallTypes, Handlers, Answers
    <3>3. Own(c) /\ Lasting(c)
      BY <2>1, <2>2, <2>3 DEF IInv, CallTypes, Own, Lasting
    <3> QED BY <3>2, <3>3
  <2>5. CallInv(c)'
    BY <2>1, <2>2, <2>3 DEF IInv, CallTypes, CallInv
  <2> QED BY <2>4, <2>5 DEF StepOf
<1> QED BY <1>1, <1>2

CallAction(c) ==
    Arrive(c) \/ CallStep(c) \/ Collect(c) \/ Relay(c) \/ ClientStep(c)

LEMMA CallActionIInv ==
    ASSUME IInv, NEW c \in Calls, CallAction(c), UNCHANGED <<process, web>>
    PROVE  IInv'
<1>1. StepOf(c)
  BY HandlerStep, CollectStep, RelayStep, SendItemStep, ReadStep, ClientEndStep
     DEF CallAction, CallStep, ClientStep
<1>2. UNCHANGED <<server, health, outside, process, web>>
  BY DEF CallAction, CallStep, ClientStep, Arrive, Reject, Accept, Collect,
         CollectShutdown, Relay, RelayStops, SendItem, SendFails, ClientReads,
         ClientEnds, ClientLeaves
<1>3. ASSUME NEW d \in Calls PROVE CallInv(d)'
  BY <1>1, <1>2, CallFrame DEF StepOf, Own, server, IInv
<1>4. AllServed /\ grpc # "run" => AllServed'
  <2> SUFFICES ASSUME AllServed, grpc # "run", NEW d \in Calls PROVE Served(d)'
    BY DEF AllServed
  <2> QED BY <1>1 DEF AllServed, Served, StepOf, Own, Lasting
<1>5. grpc # "run" /\ (\A d \in Calls : call[d] = "new") => \A d \in Calls : call'[d] = "new"
  BY <1>1 DEF StepOf, Own, Lasting
<1>6. GrpcControl'
  BY <1>2, <1>4, <1>5 DEF server, health, IInv, GrpcControl
<1>7. MainControl' /\ CleanExit'
  <2>1. MainControl'
    BY <1>2 DEF server, outside, process, web, IInv, MainControl
  <2>2. CleanExit'
    <3>1. exit = "ok" => grpc # "run" /\ AllServed
      BY DEF IInv, CleanExit, AllServed
    <3> QED BY <1>2, <1>4, <3>1
            DEF server, health, outside, process, web, IInv, CleanExit, AllServed
  <2> QED BY <2>1, <2>2
<1> QED BY <1>1, <1>3, <1>6, <1>7 DEF StepOf, IInv

-----------------------------------------------------------------------------
(* Everything else leaves the calls alone *)

LEMMA CallsStay ==
    ASSUME IInv, UNCHANGED calls, requestShutdown => requestShutdown'
    PROVE  CallTypes' /\ \A c \in Calls : CallInv(c)'
<1>1. CallTypes'
  BY DEF calls, stream, IInv, CallTypes
<1>2. ASSUME NEW c \in Calls PROVE CallInv(c)'
  BY CallFrame DEF calls, stream, IInv
<1> QED BY <1>1, <1>2

LEMMA ServedStays ==
    ASSUME UNCHANGED calls
    PROVE  AllServed' <=> AllServed
  BY DEF calls, AllServed, Served

LEMMA GrpcControlIInv ==
    ASSUME IInv, main # "exited", MonitorStep \/ ServeStep \/ ServerFails,
           UNCHANGED <<process, web>>
    PROVE  IInv'
<1>1. /\ UNCHANGED calls /\ UNCHANGED outside
      /\ requestShutdown => requestShutdown'
  BY DEF MonitorStep, MonitorWakes, MonitorReads, MonitorPublishes, MonitorStops,
         ServeStep, Start, ShutdownSeen, Drained, DrainTimesOut, Return, ServerFails,
         End, server
<1>2. CASE MonitorStep
  <2>1. /\ UNCHANGED server /\ monitor \in {"sleep", "status", "publish"}
        /\ monitor' = "done" => ~serving'
    BY <1>2 DEF MonitorStep, MonitorWakes, MonitorReads, MonitorPublishes, MonitorStops
  <2>2. GrpcControl'
    BY <1>1, <2>1, ServedStays DEF server, calls, IInv, GrpcControl
  <2>3. MainControl' /\ CleanExit'
    BY <1>1, <2>1 DEF server, outside, process, web, IInv, MainControl, CleanExit
  <2> QED BY <1>1, <2>2, <2>3, CallsStay DEF IInv
<1>3. CASE ServeStep \/ ServerFails
  <2>1. GrpcControl'
    <3>1. CASE Start
      BY <1>1, <3>1 DEF Start, calls, IInv, GrpcControl
    <3>2. CASE ShutdownSeen
      BY <1>1, <3>2 DEF ShutdownSeen, health, calls, IInv, GrpcControl
    <3>3. CASE Drained
      BY <1>1, <3>3, ServedStays DEF Drained, End, AllServed, health, calls, IInv, GrpcControl
    <3>4. CASE DrainTimesOut \/ ServerFails
      BY <1>1, <3>4 DEF DrainTimesOut, ServerFails, End, health, calls, IInv, GrpcControl
    <3>5. CASE Return
      BY <1>1, <3>5, ServedStays DEF Return, health, calls, IInv, GrpcControl
    <3> QED BY <1>3, <3>1, <3>2, <3>3, <3>4, <3>5 DEF ServeStep
  <2>2. grpc \in {"starting", "run", "drain", "join"}
    BY <1>3 DEF ServeStep, Start, ShutdownSeen, Drained, DrainTimesOut, Return, ServerFails
  <2>3. MainControl' /\ CleanExit'
    BY <1>1, <2>2 DEF outside, process, web, IInv, MainControl, CleanExit
  <2> QED BY <1>1, <2>1, <2>3, CallsStay DEF IInv
<1> QED BY <1>2, <1>3

\* Engine, HTTP server, signals and main.
OtherStep ==
    \/ SidecarCrashes \/ LaunchBegins \/ EngineStep
    \/ HttpFails \/ HttpStep \/ HttpMonitorStep
    \/ Signal \/ BindFails \/ MainStep

LEMMA EngineIInv ==
    ASSUME IInv, main # "exited", SidecarCrashes \/ LaunchBegins \/ EngineStep
    PROVE  IInv'
<1>1. UNCHANGED engineOnly /\ UNCHANGED engineStop
  BY DEF SidecarCrashes, LaunchBegins, EngineStep, LaunchEnds, SidecarTerminated
<1>2. GrpcControl'
  BY <1>1, ServedStays DEF engineOnly, server, health, calls, IInv, GrpcControl
<1>3. engineStop /\ engine = "down" => engine' = "down"
  BY DEF SidecarCrashes, LaunchBegins, EngineStep, LaunchEnds, SidecarTerminated
<1>4. MainControl' /\ CleanExit'
  BY <1>1, <1>3 DEF engineOnly, server, process, web, IInv, MainControl, CleanExit
<1> QED BY <1>1, <1>2, <1>4, CallsStay DEF engineOnly, server, IInv

LEMMA HttpIInv ==
    ASSUME IInv, main # "exited", HttpFails \/ HttpStep \/ HttpMonitorStep
    PROVE  IInv'
<1>1. /\ UNCHANGED grpcSide /\ UNCHANGED <<process, engine>>
      /\ engineStop => engineStop'
      /\ http' = http \/ http # "off"
      /\ http' \in {"polling", "ok", "err"} /\ http' # http =>
            (engineStop' /\ (http' = "ok" => engine = "down"))
      /\ http = "ok" => http' = http
  <2>1. CASE HttpFails \/ HttpShutdownSeen \/ HttpDrained
    BY <2>1 DEF HttpFails, HttpShutdownSeen, HttpDrained, outside
  <2>2. CASE HttpCleanup
    BY <2>2 DEF HttpCleanup
  <2>3. CASE HttpReturns
    BY <2>3 DEF HttpReturns, outside, IInv, MainControl
  <2>4. CASE HttpMonitorStep
    BY <2>4 DEF HttpMonitorStep, HttpMonitorSets, HttpMonitorWakes, HttpMonitorStops,
                httpOnly, outside
  <2> QED BY <2>1, <2>2, <2>3, <2>4 DEF HttpStep
<1>2. GrpcControl'
  BY <1>1, ServedStays DEF grpcSide, server, health, calls, IInv, GrpcControl
<1>3. MainControl' /\ CleanExit'
  BY <1>1 DEF grpcSide, server, process, IInv, MainControl, CleanExit
<1> QED BY <1>1, <1>2, <1>3, CallsStay DEF grpcSide, server, IInv

LEMMA MainIInv ==
    ASSUME IInv, main # "exited", Signal \/ BindFails \/ MainStep
    PROVE  IInv'
<1>1. CASE Signal \/ BindFails
  <2>1. /\ UNCHANGED <<server, health, calls, engine, engineStop, http>>
        /\ \/ main' = main /\ exit' = exit
           \/ main' = "exited" /\ exit' = "err"
    BY <1>1 DEF Signal, BindFails, Exit, outside, process, processOnly
  <2>2. GrpcControl'
    BY <2>1, ServedStays DEF server, health, calls, IInv, GrpcControl
  <2>3. MainControl' /\ CleanExit'
    BY <2>1 DEF server, IInv, MainControl, CleanExit
  <2> QED BY <2>1, <2>2, <2>3, CallsStay DEF server, IInv
<1>2. CASE EngineStarted \/ EngineUnavailable
  <2>1. /\ UNCHANGED <<server, health, calls, exit>>
        /\ main = "starting" /\ main' \in {"bind", "pending"}
        /\ main' = "bind" => http' = http
        /\ http' \in {http, "run"}
    BY <1>2 DEF EngineStarted, EngineUnavailable, processOnly
  <2>2. GrpcControl'
    BY <2>1, ServedStays DEF server, health, calls, IInv, GrpcControl
  <2>3. MainControl' /\ CleanExit'
    BY <2>1 DEF server, IInv, MainControl, CleanExit
  <2> QED BY <2>1, <2>2, <2>3, CallsStay DEF server, IInv
<1>3. CASE Serve
  <2>1. /\ UNCHANGED <<result, requestShutdown, health, calls, exit>>
        /\ main = "bind" /\ main' = "serving" /\ http' = "run" /\ grpc' = "starting"
    BY <1>3 DEF Serve, processOnly
  <2>2. GrpcControl'
    BY <2>1 DEF health, calls, IInv, GrpcControl, MainControl
  <2>3. MainControl' /\ CleanExit'
    BY <2>1 DEF IInv, MainControl, CleanExit
  <2> QED BY <2>1, <2>2, <2>3, CallsStay DEF IInv
<1>4. CASE HttpFirst \/ GrpcFirst
  <2>1. /\ UNCHANGED <<server, health, calls, engine, engineStop, http>>
        /\ \/ main' = "exited" /\ exit' = "err"
           \/ main' = "await_grpc" /\ http = "ok" /\ exit' = exit
           \/ main' = "await_http" /\ grpc = "ok" /\ exit' = exit
    BY <1>4 DEF HttpFirst, GrpcFirst, FirstEnds, Exit, processOnly
  <2>2. GrpcControl'
    BY <2>1, ServedStays DEF server, health, calls, IInv, GrpcControl
  <2>3. MainControl' /\ CleanExit'
    BY <2>1 DEF server, IInv, MainControl, CleanExit
  <2> QED BY <2>1, <2>2, <2>3, CallsStay DEF server, IInv
<1>5. CASE \/ SecondEnds("await_http", http) \/ SecondEnds("await_grpc", grpc)
           \/ SecondEnds("pending", http)
  <2>1. /\ UNCHANGED <<server, health, calls, engine, engineStop, http>>
        /\ main' = "exited" /\ exit' \in {"ok", "err"}
    BY <1>5 DEF SecondEnds, Exit, outside, processOnly
  <2>2. GrpcControl'
    BY <2>1, ServedStays DEF server, health, calls, IInv, GrpcControl
  <2>3. exit' = "ok" => http = "ok" /\ grpc \in {"off", "ok"}
    BY <1>5 DEF SecondEnds, Exit, IInv, MainControl
  <2>4. exit' = "ok" => AllServed /\ ~serving
    BY <2>3 DEF IInv, GrpcControl, AllServed, Served
  <2>5. CleanExit'
    BY <2>1, <2>3, <2>4, ServedStays
       DEF server, health, IInv, MainControl, CleanExit, AllServed
  <2>6. MainControl'
    BY <2>1 DEF server, IInv, MainControl
  <2> QED BY <2>1, <2>2, <2>5, <2>6, CallsStay DEF server, IInv
<1> QED BY <1>1, <1>2, <1>3, <1>4, <1>5 DEF MainStep

LEMMA StepIInv == IInv /\ [Next]_processVars => IInv'
<1> SUFFICES ASSUME IInv, [Next]_processVars PROVE IInv'
  OBVIOUS
<1>1. CASE UNCHANGED processVars
  <2>1. CallTypes' /\ \A c \in Calls : CallInv(c)'
    BY <1>1, CallsStay DEF processVars, vars, server
  <2>2. GrpcControl' /\ MainControl' /\ CleanExit'
    BY <1>1, ServedStays DEF processVars, vars, server, health, calls, outside, process,
       web, IInv, GrpcControl, MainControl, CleanExit, AllServed
  <2> QED BY <2>1, <2>2 DEF IInv
<1>2. CASE GrpcStep(GrpcNext) /\ main # "exited"
  <2>1. CASE \E c \in Calls : CallAction(c)
    BY <1>2, <2>1, CallActionIInv DEF GrpcStep
  <2>2. CASE MonitorStep \/ ServeStep \/ ServerFails
    BY <1>2, <2>2, GrpcControlIInv DEF GrpcStep
  <2> QED BY <1>2, <2>1, <2>2 DEF GrpcStep, GrpcNext, CallAction
<1>3. CASE OtherStep /\ main # "exited"
  BY <1>3, EngineIInv, HttpIInv, MainIInv DEF OtherStep
<1> QED BY <1>1, <1>2, <1>3 DEF Next, OtherStep

LEMMA Invariance == Spec => []IInv
  BY InitIInv, StepIInv, PTL DEF Spec

-----------------------------------------------------------------------------
\* No gRPC call ends with OK on half an answer, unless the server was told to
\* shut down: a unary call has seen the whole generation, and the client of a
\* stream has read the finish event.
THEOREM CallsEndHonestly == Spec => []HonestEnd
<1>1. IInv => HonestEnd
  BY DEF IInv, CallInv, HonestEnd
<1> QED BY <1>1, Invariance, PTL

\* The process exits with success only when both servers ended in time, the
\* engine is down, health is withdrawn and every call has been answered.
THEOREM SuccessIsEarned == Spec => []CleanExit
<1>1. IInv => CleanExit
  BY DEF IInv
<1> QED BY <1>1, Invariance, PTL

-----------------------------------------------------------------------------
(* Types *)

\* What IInv already says of a variable's type is not repeated here.
Places ==
    /\ result \in {"none", "ok", "err"}
    /\ monitor \in {"off", "sleep", "status", "publish", "done"}
    /\ engine \in {"ready", "down", "launching"}
    /\ main \in {"starting", "bind", "serving", "pending",
                 "await_http", "await_grpc", "exited"}
    /\ exit \in {"none", "ok", "err"}
    /\ http \in {"off", "run", "drain", "cleanup", "polling", "ok", "err"}
    /\ httpMonitor \in {"off", "status", "sleep", "done"}

Switches ==
    /\ requestShutdown \in BOOLEAN /\ reading \in BOOLEAN /\ serving \in BOOLEAN
    /\ shutdown \in BOOLEAN /\ engineStop \in BOOLEAN
    /\ forced \in BOOLEAN /\ component \in BOOLEAN

ControlTypes == Places /\ Switches

\* A channel never holds more than it was made for.
Bounded ==
    /\ finish \subseteq Calls
    /\ \A c \in Calls : Len(channel[c]) <= StreamBuffer

LEMMA TypesSuffice == IInv /\ ControlTypes /\ Bounded => ProcessTypeOK
  BY DEF IInv, CallTypes, Handlers, Answers, GrpcControl, ControlTypes, Places, Switches,
         Bounded, ProcessTypeOK, TypeOK

LEMMA InitTypes == ProcessInit => ControlTypes /\ Bounded
<1> SUFFICES ASSUME ProcessInit PROVE ControlTypes /\ Bounded
  OBVIOUS
<1>1. Len(<<>>) = 0 /\ StreamBuffer \in Nat
  BY GrpcConstantsOK
<1>2. ControlTypes
  BY DEF ProcessInit, Init, ControlTypes, Places, Switches
<1>3. finish = {} /\ \A c \in Calls : channel[c] = <<>>
  BY DEF ProcessInit, Init
<1>4. ASSUME NEW c \in Calls PROVE Len(channel[c]) <= StreamBuffer
  <2>1. Len(channel[c]) = 0
    BY <1>1, <1>3, Zenon
  <2> QED BY <1>1, <2>1
<1> QED BY <1>2, <1>3, <1>4 DEF Bounded

LEMMA CallActionTypes ==
    ASSUME IInv, ControlTypes, Bounded, NEW c \in Calls, CallAction(c),
           UNCHANGED <<process, web>>
    PROVE  ControlTypes' /\ Bounded'
<1>1. UNCHANGED <<server, health, outside, process, web>>
  BY DEF CallAction, CallStep, ClientStep, Arrive, Reject, Accept, Collect,
         CollectShutdown, Relay, RelayStops, SendItem, SendFails, ClientReads,
         ClientEnds, ClientLeaves
<1>2. ControlTypes'
  BY <1>1 DEF server, health, outside, process, web, ControlTypes, Places, Switches
<1>3. finish' \subseteq Calls
  BY DEF CallAction, CallStep, ClientStep, Arrive, Reject, Accept, Collect,
         CollectShutdown, Relay, RelayStops, SendItem, SendFails, ClientReads,
         ClientEnds, ClientLeaves, Bounded
<1>4. channel[c] \in Seq(Events) /\ Len(channel[c]) \in Nat /\ StreamBuffer \in Nat
  BY GrpcConstantsOK, LenProperties DEF IInv, CallTypes
<1>5. \/ channel' = channel
      \/ /\ SendItem(c) /\ channel' = [channel EXCEPT ![c] = Append(channel[c], item[c])]
      \/ /\ channel[c] # <<>> /\ channel' = [channel EXCEPT ![c] = Tail(channel[c])]
      \/ channel' = [channel EXCEPT ![c] = <<>>]
  BY DEF CallAction, CallStep, ClientStep, Arrive, Reject, Accept, Collect,
         CollectShutdown, Relay, RelayStops, SendItem, SendFails, ClientReads,
         ClientEnds, ClientLeaves
<1>6. SendItem(c) => Len(channel[c]) < StreamBuffer /\ item[c] \in Events
  BY DEF SendItem, IInv, CallInv
<1>7. /\ item[c] \in Events => Len(Append(channel[c], item[c])) = Len(channel[c]) + 1
      /\ channel[c] # <<>> => Len(Tail(channel[c])) = Len(channel[c]) - 1
      /\ Len(<<>>) = 0
  BY <1>4, AppendProperties, HeadTailProperties
<1>8. ASSUME NEW d \in Calls PROVE Len(channel'[d]) <= StreamBuffer
  <2>1. Len(channel[d]) <= StreamBuffer
    BY DEF Bounded
  <2>2. CASE d # c
    BY <1>5, <2>1, <2>2 DEF IInv, CallTypes
  <2>3. CASE d = c
    BY <1>4, <1>5, <1>6, <1>7, <2>1, <2>3 DEF IInv, CallTypes
  <2> QED BY <2>2, <2>3
<1> QED BY <1>2, <1>3, <1>8 DEF Bounded

LEMMA BoundedStays ==
    ASSUME Bounded, UNCHANGED calls
    PROVE  Bounded'
  BY DEF calls, Bounded

LEMMA ServeTypes ==
    ASSUME ControlTypes, Bounded, MonitorStep \/ ServeStep \/ ServerFails,
           UNCHANGED <<process, web>>
    PROVE  ControlTypes' /\ Bounded'
<1>1. UNCHANGED calls /\ UNCHANGED outside
  BY DEF MonitorStep, MonitorWakes, MonitorReads, MonitorPublishes, MonitorStops,
         ServeStep, Start, ShutdownSeen, Drained, DrainTimesOut, Return, ServerFails, End
<1>2. /\ result' \in {"none", "ok", "err"} /\ requestShutdown' \in BOOLEAN
      /\ monitor' \in {"off", "sleep", "status", "publish", "done"}
      /\ reading' \in BOOLEAN /\ serving' \in BOOLEAN
  BY DEF MonitorStep, MonitorWakes, MonitorReads, MonitorPublishes, MonitorStops,
         ServeStep, Start, ShutdownSeen, Drained, DrainTimesOut, Return, ServerFails, End,
         server, health, ControlTypes, Places, Switches
<1> QED BY <1>1, <1>2, BoundedStays
        DEF outside, process, web, ControlTypes, Places, Switches

LEMMA OtherTypes ==
    ASSUME ControlTypes, Bounded, OtherStep
    PROVE  ControlTypes' /\ Bounded'
<1>1. UNCHANGED calls /\ UNCHANGED <<result, requestShutdown, health>>
  BY DEF OtherStep, SidecarCrashes, LaunchBegins, EngineStep, LaunchEnds,
         SidecarTerminated, HttpFails, HttpStep, HttpShutdownSeen, HttpDrained,
         HttpCleanup, HttpReturns, HttpMonitorStep, HttpMonitorSets, HttpMonitorWakes,
         HttpMonitorStops, Signal, BindFails, MainStep, EngineStarted,
         EngineUnavailable, Serve, HttpFirst, GrpcFirst, FirstEnds, SecondEnds,
         engineOnly, grpcSide, httpOnly, processOnly, server
<1>2. ASSUME SidecarCrashes \/ LaunchBegins \/ EngineStep PROVE ControlTypes'
  BY <1>1, <1>2 DEF SidecarCrashes, LaunchBegins, EngineStep, LaunchEnds,
     SidecarTerminated, engineOnly, process, web, health, ControlTypes, Places, Switches
<1>3. ASSUME HttpFails \/ HttpStep \/ HttpMonitorStep PROVE ControlTypes'
  <2>1. UNCHANGED <<shutdown, engine, main, exit>>
    BY <1>3 DEF HttpFails, HttpStep, HttpShutdownSeen, HttpDrained, HttpCleanup,
       HttpReturns, HttpMonitorStep, HttpMonitorSets, HttpMonitorWakes,
       HttpMonitorStops, httpOnly, outside, process
  <2>2. /\ http' = http \/ http' \in {"drain", "cleanup", "polling", "ok", "err"}
        /\ httpMonitor' = httpMonitor \/ httpMonitor' \in {"status", "sleep", "done"}
    BY <1>3 DEF HttpFails, HttpStep, HttpShutdownSeen, HttpDrained, HttpCleanup,
       HttpReturns, HttpMonitorStep, HttpMonitorSets, HttpMonitorWakes,
       HttpMonitorStops, httpOnly, outside, process
  <2>3. /\ forced' = forced \/ forced' \in BOOLEAN
        /\ component' = component \/ component' \in BOOLEAN
        /\ engineStop' = engineStop \/ engineStop' = TRUE
    BY <1>3 DEF HttpFails, HttpStep, HttpShutdownSeen, HttpDrained, HttpCleanup,
       HttpReturns, HttpMonitorStep, HttpMonitorSets, HttpMonitorWakes,
       HttpMonitorStops, httpOnly, outside, process
  <2>4. Places'
    BY <1>1, <2>1, <2>2 DEF health, ControlTypes, Places
  <2>5. Switches'
    BY <1>1, <2>1, <2>3, Zenon DEF health, ControlTypes, Switches
  <2> QED BY <2>4, <2>5 DEF ControlTypes
<1>4. ASSUME Signal \/ BindFails \/ MainStep PROVE ControlTypes'
  <2>1. UNCHANGED <<forced, component>>
    BY <1>4 DEF Signal, BindFails, MainStep, EngineStarted, EngineUnavailable, Serve,
       HttpFirst, GrpcFirst, FirstEnds, SecondEnds, processOnly
  <2>2. /\ shutdown' = shutdown \/ shutdown' = TRUE
        /\ engineStop' = engineStop \/ engineStop' = TRUE
    BY <1>4 DEF Signal, BindFails, MainStep, EngineStarted, EngineUnavailable, Serve,
       HttpFirst, GrpcFirst, FirstEnds, SecondEnds, outside
  <2>3. /\ engine' = engine \/ engine' \in {"ready", "down"}
        /\ http' = http \/ http' = "run"
        /\ httpMonitor' = httpMonitor \/ httpMonitor' = "status"
    BY <1>4 DEF Signal, BindFails, MainStep, EngineStarted, EngineUnavailable, Serve,
       HttpFirst, GrpcFirst, FirstEnds, SecondEnds, outside
  <2>4. /\ main' = main \/ main' \in {"bind", "serving", "pending", "await_http",
                                    "await_grpc", "exited"}
        /\ exit' = exit \/ exit' \in {"ok", "err"}
    BY <1>4 DEF Signal, BindFails, MainStep, EngineStarted, EngineUnavailable, Serve,
       HttpFirst, GrpcFirst, FirstEnds, SecondEnds, Exit, process
  <2>5. Places'
    BY <1>1, <2>3, <2>4 DEF health, ControlTypes, Places
  <2>6. Switches'
    BY <1>1, <2>1, <2>2, Zenon DEF health, ControlTypes, Switches
  <2> QED BY <2>5, <2>6 DEF ControlTypes
<1> QED BY <1>1, <1>2, <1>3, <1>4, BoundedStays DEF OtherStep

\* Every variable of the process keeps its type, and no call's channel ever
\* holds more than STREAM_BUFFER events, however slowly its client reads.
THEOREM TypeCorrect == Spec => []ProcessTypeOK
<1>1. ProcessInit => ControlTypes /\ Bounded
  BY InitTypes
<1>2. IInv /\ ControlTypes /\ Bounded /\ [Next]_processVars => ControlTypes' /\ Bounded'
  <2> SUFFICES ASSUME IInv, ControlTypes, Bounded, [Next]_processVars
               PROVE  ControlTypes' /\ Bounded'
    OBVIOUS
  <2>1. CASE UNCHANGED processVars
    BY <2>1, BoundedStays
       DEF processVars, vars, server, health, outside, process, web,
           ControlTypes, Places, Switches
  <2>2. CASE GrpcStep(GrpcNext)
    <3>1. CASE \E c \in Calls : CallAction(c)
      BY <2>2, <3>1, CallActionTypes DEF GrpcStep
    <3>2. CASE MonitorStep \/ ServeStep \/ ServerFails
      BY <2>2, <3>2, ServeTypes DEF GrpcStep
    <3> QED BY <2>2, <3>1, <3>2 DEF GrpcStep, GrpcNext, CallAction
  <2>3. CASE OtherStep
    BY <2>3, OtherTypes
  <2> QED BY <2>1, <2>2, <2>3 DEF Next, OtherStep
<1> QED BY <1>1, <1>2, Invariance, TypesSuffice, PTL DEF Spec

-----------------------------------------------------------------------------
(***************************************************************************)
(* The token.  shutdown and requestShutdown are single variables here,     *)
(* raised in one step and seen by whoever looks.  In the code each is a    *)
(* CancellationToken, a flag and a notification in two steps; that they    *)
(* can be taken for one is what follows, for any number of waiters and     *)
(* cancellers.  What makes the token work is that the flag is raised by    *)
(* one swap that finds it down: the notification that follows is the only  *)
(* one, and it is either still to come or has been counted.                *)
(***************************************************************************)
CONSTANTS Waiters, Cancellers
VARIABLES cancelled, notified, ticket, waiter, canceller, won

Token == INSTANCE CancellationToken WITH calls <- notified

\* Who is past a successful swap: about to notify, or done and the winner.
Chosen(c) == canceller[c] = "notify" \/ won[c]

\* Before the swap nothing has happened, and one call at most succeeds in it.
OneSwap ==
    /\ \A c \in Cancellers : Chosen(c) => cancelled
    /\ \A c, d \in Cancellers : Chosen(c) /\ Chosen(d) => c = d
    /\ \A c \in Cancellers : ~(canceller[c] = "notify" /\ won[c])

\* The flag is up and the notification not counted only while it is to come.
NotifyIsDue ==
    /\ ~cancelled => notified = 0
    /\ cancelled /\ notified = 0 => \E c \in Cancellers : canceller[c] = "notify"
    /\ notified = 1 => \A c \in Cancellers : canceller[c] # "notify"

\* Nobody goes to sleep with a ticket from after the notification: the flag was
\* up by then, and the second look has seen it.
Watchful ==
    \A w \in Waiters : ticket[w] = 1 => notified = 1 /\ waiter[w] # "await"

TokenInv == Token!TypeOK /\ OneSwap /\ NotifyIsDue /\ Watchful

-----------------------------------------------------------------------------
LEMMA TokenInitInv == Token!Init => TokenInv
  BY DEF Token!Init, TokenInv, Token!TypeOK, OneSwap, Chosen, NotifyIsDue, Watchful

\* The swap: the first call goes on to notify, all others return.
LEMMA SwapInv ==
    ASSUME TokenInv, NEW c \in Cancellers, Token!Swap(c)
    PROVE  TokenInv'
<1>1. Token!TypeOK'
  BY DEF TokenInv, Token!TypeOK, Token!Swap
<1>2. OneSwap'
  BY DEF TokenInv, Token!TypeOK, OneSwap, Chosen, Token!Swap
<1>3. NotifyIsDue'
  <2>1. CASE cancelled
    BY <2>1 DEF TokenInv, Token!TypeOK, NotifyIsDue, Token!Swap
  <2>2. CASE ~cancelled
    BY <2>2 DEF TokenInv, Token!TypeOK, NotifyIsDue, Token!Swap
  <2> QED BY <2>1, <2>2
<1>4. Watchful'
  BY DEF TokenInv, Watchful, Token!Swap
<1> QED BY <1>1, <1>2, <1>3, <1>4 DEF TokenInv

\* The notification is counted once, since only one call gets here.
LEMMA NotifyInv ==
    ASSUME TokenInv, NEW c \in Cancellers, Token!NotifyWaiters(c)
    PROVE  TokenInv'
<1>1. notified = 0
  BY DEF TokenInv, Token!TypeOK, NotifyIsDue, Token!NotifyWaiters
<1>2. Token!TypeOK'
  BY <1>1 DEF TokenInv, Token!TypeOK, Token!NotifyWaiters
<1>3. OneSwap'
  BY DEF TokenInv, Token!TypeOK, OneSwap, Chosen, Token!NotifyWaiters
<1>4. cancelled /\ notified' = 1 /\ cancelled' = cancelled
  BY <1>1 DEF TokenInv, OneSwap, Chosen, Token!NotifyWaiters
<1>5. \A d \in Cancellers : canceller'[d] # "notify"
  BY DEF TokenInv, Token!TypeOK, OneSwap, Chosen, Token!NotifyWaiters
<1>6. NotifyIsDue'
  BY <1>4, <1>5 DEF NotifyIsDue
<1>7. Watchful'
  BY <1>1 DEF TokenInv, Token!TypeOK, Watchful, Token!NotifyWaiters
<1> QED BY <1>2, <1>3, <1>6, <1>7 DEF TokenInv

\* A waiter's step touches its own ticket and place only.
LEMMA WaiterInv ==
    ASSUME TokenInv, NEW w \in Waiters, Token!Call(w) \/ Token!Cancelled(w)
    PROVE  TokenInv'
<1>1. UNCHANGED <<cancelled, notified, canceller, won>>
  BY DEF Token!Call, Token!Cancelled, Token!CreateNotified, Token!Check, Token!Notified
<1>2. Token!TypeOK'
  BY DEF TokenInv, Token!TypeOK, Token!Call, Token!Cancelled, Token!CreateNotified,
         Token!Check, Token!Notified
<1>3. OneSwap' /\ NotifyIsDue'
  BY <1>1 DEF TokenInv, OneSwap, Chosen, NotifyIsDue
<1>4. Watchful'
  <2>1. CASE Token!Check(w, "second", "await")
    \* It goes to sleep only with the flag down, before any notification.
    BY <2>1 DEF TokenInv, Token!TypeOK, NotifyIsDue, Watchful, Token!Check
  <2>2. CASE Token!Call(w) \/ Token!CreateNotified(w, "top", "second") \/ Token!Notified(w)
    BY <2>2 DEF TokenInv, Token!TypeOK, Watchful, Token!Call, Token!CreateNotified,
                Token!Notified
  <2> QED BY <2>1, <2>2 DEF Token!Cancelled
<1> QED BY <1>2, <1>3, <1>4 DEF TokenInv

LEMMA TokenStepInv == TokenInv /\ [Token!Next]_(Token!vars) => TokenInv'
<1> SUFFICES ASSUME TokenInv, [Token!Next]_(Token!vars) PROVE TokenInv'
  OBVIOUS
<1>1. ASSUME NEW c \in Cancellers, Token!Cancel(c) PROVE TokenInv'
  BY <1>1, SwapInv, NotifyInv DEF Token!Cancel
<1>2. ASSUME NEW w \in Waiters, Token!Call(w) \/ Token!Cancelled(w) PROVE TokenInv'
  BY <1>2, WaiterInv
<1>3. CASE UNCHANGED Token!vars
  BY <1>3 DEF Token!vars, TokenInv, Token!TypeOK, OneSwap, Chosen, NotifyIsDue, Watchful
<1> QED BY <1>1, <1>2, <1>3 DEF Token!Next

\* The strengthened invariant holds throughout.
LEMMA TokenInvariance == Token!Spec => []TokenInv
  BY TokenInitInv, TokenStepInv, PTL DEF Token!Spec

-----------------------------------------------------------------------------
\* The token's variables keep their types: in particular the notification is
\* sent at most once, so that a waiter is woken at most once.
THEOREM TokenTypeCorrect == Token!Spec => []Token!TypeOK
<1>1. TokenInv => Token!TypeOK
  BY DEF TokenInv
<1> QED BY <1>1, TokenInvariance, PTL

\* At most one cancel() returns true, and only with the flag up.
THEOREM OneWinner == Token!Spec => []Token!SingleWinner
<1>1. TokenInv => Token!SingleWinner
  BY DEF TokenInv, OneSwap, Chosen, Token!SingleWinner
<1> QED BY <1>1, TokenInvariance, PTL

\* A waiter that sleeps un-notified on a raised flag is about to be woken: the
\* look at the flag between the creation and the await of Notified suffices.
THEOREM NoWakeupMissed == Token!Spec => []Token!NoMissedWakeup
<1>1. TokenInv => Token!NoMissedWakeup
  BY DEF TokenInv, Token!TypeOK, NotifyIsDue, Watchful, Token!NoMissedWakeup
<1> QED BY <1>1, TokenInvariance, PTL

-----------------------------------------------------------------------------
(* The refinement: every step is one of OneShotSignal, or a stutter *)

LEMMA InitRefines == Token!Init => Token!Signal!Init
  BY DEF Token!Init, Token!Signal!Init

LEMMA CancelRefines ==
    ASSUME NEW c \in Cancellers, Token!Cancel(c)
    PROVE  [Token!Signal!Next]_(Token!Signal!vars)
<1>1. CASE Token!Swap(c) /\ ~cancelled
  BY <1>1 DEF Token!Swap, Token!Signal!Next, Token!Signal!Raise, Token!Signal!vars
<1>2. CASE Token!Swap(c) /\ cancelled
  BY <1>2 DEF Token!Swap, Token!Signal!vars
<1>3. CASE Token!NotifyWaiters(c)
  BY <1>3 DEF Token!NotifyWaiters, Token!Signal!vars
<1> QED BY <1>1, <1>2, <1>3 DEF Token!Cancel

LEMMA WaiterRefines ==
    ASSUME Token!TypeOK, NEW w \in Waiters, Token!Call(w) \/ Token!Cancelled(w)
    PROVE  [Token!Signal!Next]_(Token!Signal!vars)
<1>1. CASE Token!Call(w)
  <2>1. Token!Signal!Wait(w)
    BY <1>1 DEF Token!TypeOK, Token!Call, Token!Signal!Wait
  <2> QED BY <2>1 DEF Token!Signal!Next
<1>2. CASE Token!Check(w, "second", "await") /\ cancelled
  <2>1. Token!Signal!Return(w)
    BY <1>2 DEF Token!TypeOK, Token!Check, Token!Signal!Return
  <2> QED BY <2>1 DEF Token!Signal!Next
<1>3. CASE Token!CreateNotified(w, "top", "second") \/ Token!Notified(w)
           \/ (Token!Check(w, "second", "await") /\ ~cancelled)
  BY <1>3 DEF Token!TypeOK, Token!CreateNotified, Token!Notified, Token!Check,
              Token!Signal!vars
<1> QED BY <1>1, <1>2, <1>3 DEF Token!Cancelled

LEMMA StepRefines ==
    Token!TypeOK /\ [Token!Next]_(Token!vars) => [Token!Signal!Next]_(Token!Signal!vars)
<1> SUFFICES ASSUME Token!TypeOK, [Token!Next]_(Token!vars)
             PROVE  [Token!Signal!Next]_(Token!Signal!vars)
  OBVIOUS
<1>1. CASE UNCHANGED Token!vars
  BY <1>1 DEF Token!vars, Token!Signal!vars
<1> QED BY <1>1, CancelRefines, WaiterRefines DEF Token!Next

\* Every behaviour of the token is one of a signal that is raised once and seen
\* by nobody before that.
THEOREM TokenImplementsSignal == Token!Spec => Token!Signal!Safety
<1>1. Token!Spec => []Token!TypeOK
  BY TokenTypeCorrect
<1> QED BY <1>1, InitRefines, StepRefines, PTL DEF Token!Spec, Token!Signal!Safety
=============================================================================
