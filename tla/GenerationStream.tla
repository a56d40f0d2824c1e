--------------------------- MODULE GenerationStream ---------------------------
(***************************************************************************)
(* One generation from admission to the last event its reader sees:        *)
(* generate, run_generation, consume_sse and send_event of                 *)
(* crates/impossible-inferences-engine/src/lib.rs.                         *)
(*                                                                         *)
(* Each request has a task (the producer), a bounded channel and a reader  *)
(* (a transport handler that polls GenerationStream::recv).  The sidecar   *)
(* is an environment that may answer anything, or nothing: its lifecycle   *)
(* is module SidecarLifecycle.                                             *)
(*                                                                         *)
(* A biased select is one step here: a stop branch wins when one is ready  *)
(* as the poll starts.  A flag raised while the poll is under way commutes *)
(* with the branch it takes, because no step of this module both raises a  *)
(* flag and reads what the branch writes, but for a reader that leaves     *)
(* (SendFails).                                                            *)
(***************************************************************************)
EXTENDS Naturals, Sequences, SequencesExt, FiniteSets

CONSTANTS Requests,
          Nobody,           \* a free execution permit
          MaxTokens,        \* NormalizedRequest.max_tokens
          EventCapacity,    \* EngineConfig.event_capacity
          AdmittedCapacity  \* max_concurrent + queue_capacity

ASSUME StreamConstantsOK ==
    /\ Nobody \notin Requests
    /\ MaxTokens \in Nat \ {0}
    /\ EventCapacity \in Nat \ {0}
    /\ AdmittedCapacity \in Nat \ {0}

VARIABLES pc,         \* where the task is
          admitted,   \* holders of an admission permit
          execution,  \* holder of the execution permit
          sse,        \* consume_sse's locals: done, finish, usage, partial, deltas
          channel,    \* the bounded mpsc channel
          reader,     \* the GenerationStream: none, open, ended (saw None), dropped
          received,   \* what the reader has been handed (history)
          stopped,    \* the request's own stop: cancelled, deadline, disconnected
          shutdown    \* EngineInner.shutdown

vars == <<pc, admitted, execution, sse, channel, reader, received, stopped,
          shutdown>>

Events == {"delta", "usage", "finished", "error"}

\* Awaits inside a biased select.
Selecting == {"queued", "prepare", "chunk", "delta", "usage", "finished"}

SseState == [done : BOOLEAN, finish : BOOLEAN, usage : BOOLEAN,
             partial : BOOLEAN, deltas : 0 .. MaxTokens]

FreshSse == [done |-> FALSE, finish |-> FALSE, usage |-> FALSE,
             partial |-> FALSE, deltas |-> 0]

TypeOK ==
    /\ pc \in [Requests -> Selecting \cup
                 {"new", "refused", "lines", "return", "report", "closed"}]
    /\ admitted \in SUBSET Requests
    /\ Cardinality(admitted) <= AdmittedCapacity
    /\ execution \in Requests \cup {Nobody}
    /\ sse \in [Requests -> SseState]
    /\ \A r \in Requests : /\ channel[r] \in Seq(Events)
                           /\ Len(channel[r]) <= EventCapacity
                           /\ received[r] \in Seq(Events)
    /\ reader \in [Requests -> {"none", "open", "ended", "dropped"}]
    /\ stopped \in [Requests -> BOOLEAN]
    /\ shutdown \in BOOLEAN

Init ==
    /\ pc = [r \in Requests |-> "new"]
    /\ admitted = {}
    /\ execution = Nobody
    /\ sse = [r \in Requests |-> FreshSse]
    /\ channel = [r \in Requests |-> <<>>]
    /\ reader = [r \in Requests |-> "none"]
    /\ received = [r \in Requests |-> <<>>]
    /\ stopped = [r \in Requests |-> FALSE]
    /\ shutdown = FALSE

-----------------------------------------------------------------------------
(* Helpers *)

flags == <<stopped, shutdown>>
permits == <<admitted, execution>>
stream == <<channel, reader, received>>

\* Broken variant: the selects have no stop branch of the request's own.
StopReadyShutdownOnly(r) == shutdown

StopReady(r) == stopped[r] \/ shutdown

Goto(r, where) == pc' = [pc EXCEPT ![r] = where]

\* Broken variant: the error is reported while the permits are still held.
FailHoldingPermits(r) ==
    /\ Goto(r, "report")
    /\ sse' = [sse EXCEPT ![r] = FreshSse]
    /\ UNCHANGED permits

\* run_generation returns Err: its locals drop, the permits among them; the
\* error is reported afterwards.
Fail(r) ==
    /\ Goto(r, "report")
    /\ admitted' = admitted \ {r}
    /\ execution' = IF execution = r THEN Nobody ELSE execution
    /\ sse' = [sse EXCEPT ![r] = FreshSse]

\* Broken variant: a cut-off stream with usage and finish counts as complete.
CompleteWithoutDone(s) == s.finish /\ s.usage

\* What consume_sse requires of the finished exchange.
Complete(s) == s.done /\ ~s.partial /\ s.finish /\ s.usage

\* The exchange is over: the closing events follow, or a protocol error.
Conclude(r, s) ==
    IF Complete(s)
    THEN /\ Goto(r, "usage")
         /\ sse' = [sse EXCEPT ![r] = s]
         /\ UNCHANGED permits
    ELSE Fail(r)

-----------------------------------------------------------------------------
(* generate and run_generation *)

\* Shutting down, invalid or over capacity: no stream is created.
GenerateRefused(r) ==
    /\ pc[r] = "new"
    /\ Goto(r, "refused")
    /\ UNCHANGED <<permits, sse, stream, flags>>

\* An admission permit is taken, the channel created and the task spawned.
Generate(r) ==
    /\ pc[r] = "new"
    /\ ~shutdown
    /\ Cardinality(admitted) < AdmittedCapacity
    /\ admitted' = admitted \cup {r}
    /\ reader' = [reader EXCEPT ![r] = "open"]
    /\ Goto(r, "queued")
    /\ UNCHANGED <<execution, sse, channel, received, flags>>

\* A stop branch of whichever select the task is in wins.
StopBranch(r) ==
    /\ pc[r] \in Selecting
    /\ StopReady(r)
    /\ Fail(r)
    /\ UNCHANGED <<stream, flags>>

AcquireExecution(r) ==
    /\ pc[r] = "queued" /\ ~StopReady(r)
    /\ execution = Nobody
    /\ execution' = r
    /\ Goto(r, "prepare")
    /\ UNCHANGED <<admitted, sse, stream, flags>>

\* ensure_running, connection and the POST succeed with status 200 ...
PostAccepted(r) ==
    /\ pc[r] = "prepare" /\ ~StopReady(r)
    /\ Goto(r, "chunk")
    /\ UNCHANGED <<permits, sse, stream, flags>>

\* ... or one of them fails; or a chunk is oversized or ends in a transport
\* error.
RuntimeFails(r) ==
    /\ pc[r] \in {"prepare", "chunk"} /\ ~StopReady(r)
    /\ Fail(r)
    /\ UNCHANGED <<stream, flags>>

-----------------------------------------------------------------------------
(* consume_sse *)

\* A chunk arrives; its lines are processed without looking at the stops.
\* (What stays in the buffer is known again at EndOfChunk.)
NextChunk(r) ==
    /\ pc[r] = "chunk" /\ ~StopReady(r)
    /\ Goto(r, "lines")
    /\ sse' = [sse EXCEPT ![r].partial = FALSE]
    /\ UNCHANGED <<permits, stream, flags>>

\* The body ends: the loop breaks.
EndOfBody(r) ==
    /\ pc[r] = "chunk" /\ ~StopReady(r)
    /\ Conclude(r, sse[r])
    /\ UNCHANGED <<stream, flags>>

\* "data: [DONE]".  Later lines of the same chunk are still processed.
LineDone(r) ==
    /\ pc[r] = "lines"
    /\ sse' = [sse EXCEPT ![r].done = TRUE]
    /\ UNCHANGED <<pc, permits, stream, flags>>

\* A JSON line carries any of usage, a finish reason and a non-empty delta,
\* read in this order; a delta beyond max_tokens is a protocol error.
LineData(r) ==
    /\ pc[r] = "lines"
    /\ \E usage, finish, delta \in BOOLEAN :
         IF delta /\ sse[r].deltas = MaxTokens
         THEN Fail(r)
         ELSE /\ sse' = [sse EXCEPT ![r].usage = @ \/ usage,
                                    ![r].finish = @ \/ finish,
                                    ![r].deltas = IF delta THEN @ + 1 ELSE @]
              /\ Goto(r, IF delta THEN "delta" ELSE "lines")
              /\ UNCHANGED permits
    /\ UNCHANGED <<stream, flags>>

\* Not JSON, inconsistent or oversized usage, or an unknown finish reason.
LineBad(r) ==
    /\ pc[r] = "lines"
    /\ Fail(r)
    /\ UNCHANGED <<stream, flags>>

\* No complete line is left; the rest of the chunk stays in the buffer.
EndOfChunk(r) ==
    /\ pc[r] = "lines"
    /\ \E partial \in BOOLEAN :
         LET s == [sse[r] EXCEPT !.partial = partial] IN
         IF s.done
         THEN Conclude(r, s)
         ELSE /\ Goto(r, "chunk")
              /\ sse' = [sse EXCEPT ![r] = s]
              /\ UNCHANGED permits
    /\ UNCHANGED <<stream, flags>>

\* Where the task continues once the event it is sending is in the channel.
AfterSend(where) ==
    CASE where = "delta" -> "lines"
      [] where = "usage" -> "finished"
      [] where = "finished" -> "return"

\* Broken variant: the channel is unbounded.
SendUnbounded(r) ==
    /\ pc[r] \in {"delta", "usage", "finished"} /\ ~StopReady(r)
    /\ reader[r] = "open"
    /\ channel' = [channel EXCEPT ![r] = Append(@, pc[r])]
    /\ Goto(r, AfterSend(pc[r]))
    /\ UNCHANGED <<permits, sse, reader, received, flags>>

\* send_event: the event (named like the await) enters the bounded channel.
SendEvent(r) ==
    /\ pc[r] \in {"delta", "usage", "finished"} /\ ~StopReady(r)
    /\ reader[r] = "open"
    /\ Len(channel[r]) < EventCapacity
    /\ channel' = [channel EXCEPT ![r] = Append(@, pc[r])]
    /\ Goto(r, AfterSend(pc[r]))
    /\ UNCHANGED <<permits, sse, reader, received, flags>>

\* The reader left during this very poll: send() fails.
SendFails(r) ==
    /\ pc[r] \in {"delta", "usage", "finished"}
    /\ reader[r] = "dropped"
    /\ Fail(r)
    /\ UNCHANGED <<stream, flags>>

\* consume_sse returned Ok: the permits drop and the task ends.
Return(r) ==
    /\ pc[r] = "return"
    /\ Goto(r, "closed")
    /\ admitted' = admitted \ {r}
    /\ execution' = IF execution = r THEN Nobody ELSE execution
    /\ UNCHANGED <<sse, stream, flags>>

\* Broken variant: the error is lost when the channel is full.
ReportTrySend(r) ==
    /\ pc[r] = "report"
    /\ channel' = IF reader[r] = "open" /\ Len(channel[r]) < EventCapacity
                  THEN [channel EXCEPT ![r] = Append(@, "error")]
                  ELSE channel
    /\ Goto(r, "closed")
    /\ UNCHANGED <<permits, sse, reader, received, flags>>

\* sender.send(Err(error)).await, outside any select: it waits for room or
\* for the reader to leave; then the last sender drops.
Report(r) ==
    /\ pc[r] = "report"
    /\ \/ /\ reader[r] = "open"
          /\ Len(channel[r]) < EventCapacity
          /\ channel' = [channel EXCEPT ![r] = Append(@, "error")]
       \/ /\ reader[r] = "dropped"
          /\ UNCHANGED channel
    /\ Goto(r, "closed")
    /\ UNCHANGED <<permits, sse, reader, received, flags>>

-----------------------------------------------------------------------------
(* The reader, and the stops *)

Recv(r) ==
    /\ reader[r] = "open"
    /\ channel[r] # <<>>
    /\ received' = [received EXCEPT ![r] = Append(@, Head(channel[r]))]
    /\ channel' = [channel EXCEPT ![r] = Tail(@)]
    /\ UNCHANGED <<pc, permits, sse, reader, flags>>

\* recv returns None: the channel is empty and every sender is gone.
RecvNone(r) ==
    /\ reader[r] = "open"
    /\ channel[r] = <<>>
    /\ pc[r] = "closed"
    /\ reader' = [reader EXCEPT ![r] = "ended"]
    /\ UNCHANGED <<pc, permits, sse, channel, received, flags>>

\* Dropping the GenerationStream raises `disconnected` and closes the channel.
DropStream(r) ==
    /\ reader[r] = "open"
    /\ reader' = [reader EXCEPT ![r] = "dropped"]
    /\ stopped' = [stopped EXCEPT ![r] = TRUE]
    /\ channel' = [channel EXCEPT ![r] = <<>>]
    /\ UNCHANGED <<pc, permits, sse, received, shutdown>>

\* The request context is cancelled or its deadline passes.
Stop(r) ==
    /\ pc[r] \in Selecting \cup {"lines", "return"}
    /\ ~stopped[r]
    /\ stopped' = [stopped EXCEPT ![r] = TRUE]
    /\ UNCHANGED <<pc, permits, sse, stream, shutdown>>

Shutdown ==
    /\ ~shutdown
    /\ shutdown' = TRUE
    /\ UNCHANGED <<pc, permits, sse, stream, stopped>>

-----------------------------------------------------------------------------
\* Steps the task takes by itself once polled.
Produce(r) ==
    \/ StopBranch(r) \/ AcquireExecution(r) \/ EndOfChunk(r) \/ SendEvent(r)
    \/ SendFails(r) \/ Return(r) \/ Report(r)

\* Steps that need the sidecar to answer.
Answer(r) ==
    \/ PostAccepted(r) \/ RuntimeFails(r) \/ NextChunk(r) \/ EndOfBody(r)
    \/ LineDone(r) \/ LineData(r) \/ LineBad(r)

Read(r) == Recv(r) \/ RecvNone(r)

Next ==
    \/ \E r \in Requests :
          \/ GenerateRefused(r) \/ Generate(r) \/ Produce(r) \/ Answer(r)
          \/ Read(r) \/ DropStream(r) \/ Stop(r)
    \/ Shutdown

Spec == Init /\ [][Next]_vars

\* The runtime polls woken tasks.  Nothing is assumed of the sidecar, which
\* may hang, and a reader may stop reading without leaving.
FairSpec == Spec /\ \A r \in Requests : WF_vars(Produce(r))

\* Every context carries a deadline and timers fire.
Deadlines == \A r \in Requests : WF_vars(Stop(r))

\* A reader that keeps reading.
Reading == \A r \in Requests : WF_vars(Read(r))

-----------------------------------------------------------------------------
(* Properties *)

\* The abstract state of a request's stream, as its reader can tell.
Phase(r) ==
    IF pc[r] \in {"new", "refused"} THEN "idle"
    ELSE IF Contains(received[r], "error") THEN "failed"
    ELSE IF Contains(received[r], "finished") THEN "finished"
    ELSE IF reader[r] = "dropped" THEN "left"
    ELSE IF reader[r] = "ended" THEN "silent"
    ELSE IF Contains(received[r], "usage") THEN "usage" ELSE "open"

Deltas(events) == Cardinality({i \in 1 .. Len(events) : events[i] = "delta"})

Promise == INSTANCE EventStream WITH
    phase <- [r \in Requests |-> Phase(r)],
    tokens <- [r \in Requests |-> Deltas(received[r])]

\* generate() keeps EventStream's promise whatever the sidecar answers, the
\* reader does and the stops interrupt: deltas within max_tokens, usage,
\* finished; or one error; never silence, never anything after the end.
EventOrder == Promise!Spec

\* `finished` is only ever sent for an exchange whose [DONE], finish reason and
\* usage were all seen, with no line cut off: a truncated answer of the
\* sidecar is never presented as a complete one.
NoTruncatedSuccess ==
    \A r \in Requests : Contains(received[r] \o channel[r], "finished") =>
        sse[r].done /\ sse[r].finish /\ sse[r].usage /\ ~sse[r].partial

\* A reader that neither reads nor leaves, or a sidecar that hangs, cannot keep
\* the only execution permit beyond its request's deadline.
LaneIsFreed ==
    Deadlines => \A r \in Requests : execution = r ~> execution # r

\* With deadlines and readers that keep reading, every stream that was opened
\* is read to its end.
StreamsEnd ==
    Deadlines /\ Reading =>
        \A r \in Requests : reader[r] = "open" ~> reader[r] # "open"
=============================================================================
