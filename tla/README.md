# TLA+ models of impossible-inferences

This directory specifies the concurrent and crash-prone core of the
impossible-inferences server: the engine that owns one private `llama.cpp`
process and streams generations from it, the cancellation and shutdown
primitives that everything else awaits, the HTTP server's admission policy and
shutdown sequence, its WebSocket sessions, the gRPC server and the process that
runs both, and the artifact store with the archives it unpacks. TLC checks each
component on a small instance; TLAPS proves safety properties of every one of them,
two refinements among them, for every value of their constants.

Paths below abbreviate `crates/impossible-inferences-X/src/lib.rs` to *X* and
`vendor/impossible-server/crates/impossible-server-core/src/` to *core*.

## The system

```
 HTTP  SSE  MCP      WebSocket        gRPC               setup (CLI)
   |    |    |           |              |                    |
 admission policy    session permits  deadline margin        |
 (ShutdownGate)          |              |                    |
   +----+----+-----------+--------------+                    v
                         |                             artifact store
                 GenerationEngine::generate            (install.lock,
                 admission (semaphore)                  current, .staging,
                         |                              .previous)
                 run_generation (task per request)           |
                 execution permit -> lifecycle mutex         |
                         |                                   |
                 sidecar process  <--------------------------+
                 (loopback HTTP)      resolve_installed
```

| Component | State it keeps | Operations | Talks to |
|---|---|---|---|
| Sidecar lifecycle (*engine*) | `Lifecycle.running` behind an async mutex, admission and execution semaphores, the engine's shutdown token, child processes | `start`, `generate`, `run_generation`, `ensure_running`, `wait_until_ready`, `connection`, `status`, `shutdown` | processes, loopback HTTP, every transport, two health monitors |
| Generation stream (*engine*) | per request: a bounded channel, a disconnect token, the SSE parser's progress | `generate`, `consume_sse`, `send_event`, `GenerationStream::recv` and `drop` | sidecar, transports |
| CancellationToken (*core*/cancellation.rs) | an atomic flag, a `Notify` | `cancel`, `cancelled` | every select of the program |
| ShutdownGate (*core*/shutdown.rs) | phase, counter of live guards, stop token | `try_enter`, guard drop, `drain`, `stop_now` | HTTP server |
| Archive extraction and link resolution (*artifacts*) | the entries read so far, the links noted, the files written | `extract_zip`, `extract_tar_gz`, `zip_tree_digests`, `tar_tree_digests`, the path functions | artifact store |
| Artifact store (*artifacts*) | `current`, `.staging`, `.previous`, `.runtime-recovery`, `install.lock` | `setup` online and offline, `recover_runtime`, `promote`, `resolve_installed`, `inspect` | file system, HTTPS, server start |
| HTTP admission and shutdown (*server*) | admission, execution and session semaphores, the gate, the process state | `enforce_workload_policy`, `read_request_body`, `guard_response_body`, `serve` | gate, engine |
| WebSocket session (*server*) | one active generation, a session permit | message loop, `cancel` | engine, stop token |
| gRPC service (*server* grpc.rs) | health reporter, per-call contexts and channels, a token of its own | unary and streaming calls, `serve`, the health task | engine, shutdown token |
| Health monitors (*server*, *core*/health.rs) | last published status | poll of `engine.status()` every 250 ms | lifecycle mutex |
| MCP endpoint (*server* mcp.rs) | none | JSON-RPC methods | engine, through the HTTP policy |
| Process (*server* main.rs) | the two servers, one token | `serve`, signals | all of the above |
| Request ids, contexts, limits (*core*) | an id counter; cancelled flag and deadline per request | `next`, `cancel`, `status` | everyone |
| Pure functions | none | `normalize_request`, token estimate, `grpc_timeout`, limits | - |
| Types, errors, metrics, testkit, packaging | none that matters | - | - |

What is hard about it:

- a child process has an owner only through a chain of futures, any of which
  may be dropped at any await; the lifecycle mutex is held across a whole launch;
- `shutdown()` races with requests that are queued for that mutex, and is
  itself dropped when the HTTP server's bound passes;
- every await is a `biased` select that looks first at four stop conditions and
  then polls something else, and the two looks are not one step;
- the reader, the sidecar and the deadline may each end a stream at any event;
- the gate publishes its terminal phase in two steps, one under its mutex and
  one without;
- setup builds, renames and deletes directories that survive a crash between
  any two system calls, and the server reads them without the lock;
- archive links are resolved after all entries have been read, and verification
  recomputes their result from the archive in code of its own;
- a WebSocket session awaits its socket inside the handler of every message and
  event and is deaf meanwhile, and a cancel races with the end it asks for;
- a gRPC stream ends in many ways, only one of which may look like success;
- the gRPC server's end waits for a task that waits for a mutex that only the
  HTTP server's end can free.

What makes each component correct is the list of properties below.
`PROJECT.json` lists each hazard at its line with the properties that cover it;
every hazard has one.

## Modules

| Module | Models | State and actions |
|---|---|---|
| `SidecarLifecycle` | *engine* 433-582, 689-844, and the child handles 209-326 | `pc[a]` names the await at which actor `a` (a request's task, or `start`) is suspended; `lifecycle`, `execution`, `admitted` are the mutex and the two semaphores; `running` is the slot; `child[a]` is the child a launch owns before it is stored; `proc` is the state of the processes. One action per outcome of each await, plus `status`, the four steps of `shutdown`, its abandonment, and child exits |
| `SidecarLifecycleProofs` | | theorems |
| `GenerationStream` | *engine* 151-167, 480-517, 535-687, 1038-1098 | `pc[r]` is the task's await, `sse[r]` the locals of `consume_sse`, `channel[r]` the bounded channel, `received[r]` what the reader got. The sidecar may send any line, cut any line, end or hang |
| `GenerationStreamProofs` | | theorems |
| `EventStream` | what `generate` promises a reader | abstract; `GenerationStream` implements it through `Promise` |
| `CancellationToken` | *core*/cancellation.rs 20-50 | the flag, the number of notifications, each waiter's `Notified`; each atomic step is an action |
| `OneShotSignal` | what a token promises its waiters | abstract; `CancellationToken` implements it through `Signal` |
| `ShutdownGate` | *core*/shutdown.rs 10-222 | one action per block under the mutex and one per `cancel` after it |
| `ShutdownGateProofs` | | theorems |
| `HttpServer` | *server* 366-418, 430-503, 505-768, 984-1129, 1257-1562 as far as capacity and shutdown go | `pc[r]` is the await at which call `r` is suspended, the body's life included (`sending`); `admitted`, `execution` are the semaphores, `session` and `chatting` the WebSocket sessions with their generations, `serve` the step of `serve()`, `process` the health registry's state. The gate's variables are those of `ShutdownGate`, whose actions are conjuncts of the actions here |
| `HttpServerProofs` | | theorems |
| `ArtifactStore` | *artifacts* 293-379, 425-459, 563-757, 898-985 | `present` and `files` are the disk; `pc[p]` is the next statement of a setup. The statements of one kind (write, delete, create) share an action whose table gives directory, entry and next statement |
| `ArtifactStoreProofs` | | theorems |
| `RuntimeArchive` | *artifacts* 759-1142, apart from the file system calls | `next` is the entry being read, `links` the map of `extract_tar_gz`, `disk` the tree beneath the destination, `verdict` the result. One action per kind of entry and per link of the second pass; verification is a set of operators over the same archive |
| `RuntimeArchiveProofs` | | theorems |
| `WebSocketSession` | *server* 1275-1584 | `session`, `reply`, `after` are the task and the send it awaits; `active`, `id`, `usage` the active request; `inbox`, `outbox`, `link` the socket. One action per message type and per event |
| `WebSocketSessionProofs` | | theorems |
| `Conversation` | what a session promises its client | abstract; `WebSocketSession` implements it through `Promise` (`InTurn`) |
| `GrpcServer` | grpc.rs: the handlers, the relay task, `serve`, the health task | `call[c]` is where the handler of a call or the task it spawned is, `channel[c]` its bounded channel, `answer[c]` what the client got; `grpc` is the step of `serve`, `monitor` and `serving` the health task |
| `ServeProcess` | main.rs 249-294 and the two health monitors | extends `GrpcServer` by `main`, the HTTP server's shutdown sequence, its health task and the engine as `status()` sees it |
| `ServeProcessProofs` | | theorems, those about `CancellationToken` among them: it is what lets the process take a token for one variable |
| `MC*` | | the instances for TLC: symmetry, archives |

How they compose. `HttpServer` instantiates `ShutdownGate` on its own variables,
with the calls as operations and `serve()` as the one caller of `drain` and
`stop_now`; that every step of the server is a step of the gate or leaves it
alone is theorem `UsesGate`. Its engine is reduced to a flag (`generate` refuses
once the shutdown has begun, as `GenerateRefused` of `SidecarLifecycle`) and to
generations that may end at any time or never. `ShutdownGate` uses the token as an atomic flag, which is what
`CancellationToken` is shown to implement. `GenerationStream` leaves
out what `SidecarLifecycle` models (a request in `prepare` may succeed, fail or
hang), and `SidecarLifecycle` leaves out what goes over the connection (a
request in `stream` may end at any time). `ArtifactStore` ends where the engine
is handed the resolved paths; its step `extract` is all of `RuntimeArchive`.

`GrpcServer` takes its events from `EventStream`, the promise that
`GenerationStream` is shown to keep: a step of a call is conjoined with a step
of its stream, so that a call is checked against every engine that keeps the
promise. `ServeProcess` puts the gRPC server beside the HTTP server's shutdown
sequence (what `ServeReturns` of `HttpServer` says of it) and an engine reduced
to what the others see of `SidecarLifecycle`: `status()` waits while a launch
holds the mutex, and a launch gives up once `shutdown()` has begun.
`WebSocketSession` accepts any event in any order from the engine, which is more
than `EventStream` allows: the code checks for itself that usage came before
the end. What a shutdown sees of a session is in `HttpServer`.

Two looks of a select. In `SidecarLifecycle` a select is modelled in two
steps: `Arm` is the look at the stop branches, after which `armed[a]` holds, and
the awaited branch may only be taken by an armed poll (or the poll ends pending).
A flag raised between the two is therefore missed by this poll, as in the code.
In `GenerationStream` a select is one step; the header of the module says why
that loses nothing there.

Abstractions worth knowing.

- Time does not exist; a timeout is a step that may happen. A launch attempt may
  fail as often as it can in the code.
- Tokens, prompts and bytes are not represented. A delta is just a delta; a file
  is absent, good or bad; the runtime tree is one entry.
- `Stop(r)` stands for the caller's cancellation, its deadline and a dropped
  stream alike where the code treats them alike.
- A crash of setup also stands for a local I/O error that `?` returns: both end
  the call with the disk as it is and the lock released. An entry being written
  may be left torn; downloads may not, because they are written to a `.part`
  file that no step reads. Setup does not notice every such error. The first
  verification (*artifacts* 307, `is_ok()`) takes one for damage, and
  `Path::exists` (578) for an absent directory; `VerifyMisread` and
  `RemoveOverlooked` are these steps, bounded by `MaxMisreads`. `condemned` holds the
  parts of the installation that setup has given up for such a reason.
- Outside damage touches installed files other than the marker.
- In `RuntimeArchive` a path is the sequence of its components. Entry names are
  taken as the code gets them: interior `.` components are gone, and a ZIP name
  has passed `enclosed_name` of the zip crate. Sizes, modes and the file system's
  own errors are left out. Extraction accepts an archive that names a path
  twice and verification rejects it, which is why `InstalledVerifies` asks for
  `DigestsAccepted`; setup then fails in `VerifyStaging`.
- In `WebSocketSession` a client may send anything its message types allow, as
  often as the inbox has room; ids are chosen freely and reused.
- `Conversation` is about what a client is told of its accepted requests. The
  error replies to a message that was refused (*server* 1383, 1439) bear that
  message's id too, but belong to no accepted request and are outside it.
- In `GrpcServer` a deadline is an error of the stream, as the engine reports it.
- `LocalInference::shutdown` (*server* 270-274) ignores the engine's error. In
  `ServeProcess` an engine that is "down" after its shutdown has an empty slot and
  a process that was told to die, whether or not it was reaped in time.
- Where a call of the HTTP server is refused decides what it still holds.
  `enforce_workload_policy` returns at once (568, 584) while the body is read or the
  permit awaited; the error of `run_workload_handler` goes through
  `guard_response_body` (600) like any answer, and its body keeps permits and guard
  until it is taken or dropped (`Refuse`).
- A definition named in `PROJECT.json` `mutants` as the replacement is a broken
  variant of its neighbour, there to show that the property it is paired with
  can fail.

## Runs

| Run | Instance | Distinct states | Checks |
|---|---|---|---|
| `sidecar_safety` | 3 requests, 3 process identities, 3 launch attempts, 2 admitted, failing `try_wait` and `start_kill` allowed, symmetry | 147,452 | no orphan (`OwnedSidecar`), never two (`SingleSidecar`), none after `shutdown()` (`ShutdownFinal`), none swapped under a stream (`StableConnection`) |
| `sidecar_liveness` | 2 requests, 2 identities, 2 attempts, 1 admitted, system calls work | 43,208 | only `shutdown()` costs a live sidecar its slot, `shutdown()` ends, requests end at their deadline |
| `generation_stream` | 2 requests, 2 tokens, channel of 2, 2 admitted | 218,680 | refinement of `EventStream` (`EventOrder`), no truncated answer reported as finished, the execution permit comes back, read streams end |
| `cancellation_token` | 3 waiters, 2 cancellers | 1,936 | refinement of `OneShotSignal` with its liveness |
| `shutdown_gate` | 3 operations, 2 `drain`, 1 `stop_now` | 23,709 | honest and final outcomes, publication, termination |
| `artifact_store` | 2 setups, and any three of: a crash, a failed download or rename, an unnoticed read error, a damage (twice), an offline setup, a resolving server | 628,750 | what stands at `current` is complete; what a server resolved is intact; running setup again ends with an installation that stays intact, or a directory stays without its marker |
| `artifact_recoverable` | 2 setups, 1 crash | - | expected violation, see *Findings* |
| `runtime_archive` | both formats, every archive of up to 3 entries over 7 paths, 5 link targets and all kinds of entries | 181,208 | nothing is written outside the destination and no link is followed out of it, an installed archive passes its verification, extraction succeeds for exactly the good archives |
| `http_server` | 3 calls, 1 executing, queue of 1, 1 session | 126,885 | permits and guard stay with the generation, readiness and drain are honest, `serve()` returns, no call is held beyond its deadline (`CallsEnd`), all capacity comes back once bodies are taken (`CapacityReturns`) |
| `http_drain` | 2 calls, otherwise the same | - | expected violation, see *Findings* |
| `websocket_session` | 2 ids, 2 generations, inbox of 2, outbox of 1 | 234,485 | refinement of `Conversation` (`InTurn`), no generation left running, a cancel is answered, a session whose client is gone ends |
| `serve_process` | 1 gRPC call, 1 delta, channel of 1 | 484,133 | no OK for half an answer, an exit status of 0 is earned, a signal ends the process, health converges on the engine |

The type invariants of the sidecar, the gate, the token and the session, and that
the gate's counter is the number of live guards (`GuardsAreCounted`), are theorems
and not checked again by a run.

Why the bounds are enough. *Sidecar:* one request inside the launch loop, one
queued for its permits and one being refused or stopped is every role a request
has, and identities are handed out again once a process is gone, so three
suffice for one in the slot, one being launched and one dying; three attempts
are the code's `LAUNCH_ATTEMPTS`. *Streams:* tasks share only permits and the
shutdown flag, so two show all contention; two tokens and a channel of two reach
the token limit, a full channel and a channel holding a delta and its
successor; the liveness run shrinks both to one, where the full channel
is met at every event. *Token:* a second canceller is the loser of the swap, and a third waiter
adds only one more of a kind. *Gate:* two drains make every overlap of calls,
three guards a counter that passes through every value between two drains. *Artifacts:* two setups give the
contention for the lock and the successor of a dead one. Any three events
can fall together in one behaviour, a damage twice: the second one is what
spoils the archive while a repair of the runtime, which the first one has made
necessary, is under way. One unnoticed read error is enough to lose an intact
installation together with one crash. A reader with three events, two crashes, or all kinds
of events at once were run separately during development (up to 7.9 million
states) and showed nothing else.

*HTTP:* with one execution permit and a queue of one, three calls are one
executing, one queued and one overloaded; a call that was upgraded leaves a
session, so that a second one meets the session limit and a third can still be
under way.
*Archive:* two links and a file are a chain, two links a cycle; three entries
also put a file where a directory is needed in every order; the targets are a
sibling, a link's own name, a way up, one out of the destination and an
absolute one. *WebSocket:* the second generation may bear the id of the first
while messages for either are still in the inbox; an outbox of one makes every
send wait once. *Process:* calls share nothing but the two tokens, so one shows
all that a call can meet, and with a channel of one each event is met by a full
channel; the proofs remove both bounds for the safety properties.

Deadlock checking is off where a run may come to its natural end: requests are
served once, the gate stops, tokens are cancelled once, `serve()` returns, an
archive is read, a session closes, the process exits. It is on for the
artifact runs, where setup can always be called again.

## Fairness

Weak fairness of a task's own steps is the scheduling of tokio: a task whose
awaited condition holds has been woken, and a woken task is polled. Nothing
is assumed of the sidecar (it may hang), of callers (they may never cancel), of
readers (they may stop reading without leaving) or of admitted operations. Where
a property needs one of them it says so in its antecedent: `Deadlines` (every
request context, and every call of the HTTP server, carries a deadline and timers
fire), `Reading` (a reader that
goes on reading), `BodiesTaken` (the body of an answer ends, and its client takes it;
without it a body holds permits and guard as long as the client keeps its
connection), `WorkEnds` (admitted operations end). Two assumptions of
`SidecarLifecycle` go further. `shutdown()` gets strong fairness for taking the
lifecycle mutex, because a tokio mutex is a FIFO queue and other tasks cannot
overtake a waiter for ever. A killed process dies and is reaped, because SIGKILL
cannot be refused. In `ArtifactStore` the operator runs `setup` again after it
ended; that is the meaning of "recoverable".

In `WebSocketSession` the select between socket and events is tokio's, which
is not biased: it polls its branches in random order, so that messages which are
there again and again are taken in the end, although events are there all the
time. That is strong fairness for `HandleMessage` and `SocketEnds`; a send that
has room returns (weak). In `ServeProcess` the tasks of the two servers, the
health tasks and `main` are fair, and timers fire, so that `drain` and the
engine's shutdown end within their bounds. A launch is assumed to end only after
`shutdown()` began, which is `ShutdownCompletes` of the sidecar. That a server
fails by itself, that clients call, read or leave, and that a sidecar crashes or
is launched are never assumed.

## What is proved

TLAPS checks the eight proof modules in full, for any finite or infinite sets of
actors and any bounds that satisfy the named assumptions.

`SidecarLifecycleProofs`, from `ConstantsOK` (the null values are none of the
identities; the bounds are positive). `IndInv` is the conjunction of `TypeOK`,
`OwnedSidecar` and `StableConnection` with what they rest on:

- `MutexInv`: the mutex is held exactly by the actor inside the launch loop, or by
  `shutdown()` while it terminates, and the slot is empty meanwhile. Without it a
  second launch could not be excluded.
- `OwnerInv`: a child outside the slot belongs to that holder.
- `ExecutionInv`: only the holder of the execution permit gets that far, and
  `start` is alone before it has returned. This is what makes the connection
  stable, since nobody can launch while somebody streams.
- `FenceInv`: after `shutdown()` emptied the slot, an actor that still wins
  the mutex stands before the launch with its look at the flag yet to come. This
  is the reason why the order of the two looks matters.

Theorems: `TypeCorrect`, `Invariant`, `NoOrphan`, `OneSidecar`,
`ShutdownIsFinal`, `ConnectionIsStable`, and `OutlivesRequests`, an action property.

`ShutdownGateProofs`, from `GateConstantsOK` (finitely many operations, so that
they can be counted). `GateInv` adds to the checked invariants `PhaseInv` (a
graceful phase has a zero counter), `PendingInv` (what a call may still rely on
after it released the mutex) and `OwnerInv` (the last owner leaves nobody
behind). Theorems: `Invariant`, `TypeCorrect`, `GuardsAreCounted`,
`GracefulIsTrue`, `StopFollowsPhase`, `GateIsOneWay`. The step lemmas about the
counter cite the cardinality theorems of the library. `PublisherInv` is what the
liveness of the gate rests on: whoever makes the phase terminal is, from the same
step until it has cancelled the token, a call that will cancel it, and a gate that
drains has a live guard. Theorems: `TerminalHasPublisher` and `NobodyIsStranded`, the
safety halves of `TerminalIsPublished` and `DrainReturns`; TLC adds that these calls
go on.

`HttpServerProofs`, from `HttpConstantsOK` (finitely many calls, positive
limits). The gate's invariant is not proved again: `UsesGate` shows that the
server only ever makes steps of the gate, so `GateInv` carries over from
`ShutdownGateProofs` (`GateInductive`). `HttpInv` adds `CallInv` (where a call
stands tells which permits, guard, generation and session it has), `ServeInv`
(what `serve()` knows at each step; in particular, an unforced cleanup has
a graceful outcome behind it) and `Limits` (every set of permits stays
within its semaphore). Theorems: `UsesGate`, `Invariant`, `CapacityIsBounded`,
`GenerationsAreAccounted`, `ReadinessIsHonest` and `DrainIsComplete`, which joins
the gate's `GracefulMeansDone` with `CallInv`: no guard, hence no generation.

`GenerationStreamProofs`, from `StreamConstantsOK`, in two parts. `Truthful` ties
the place of the task to what the parser has seen: the closing events are reached
through `Conclude` only, `finished` is the last of them, and a failure between
them cannot follow it. Theorem: `NoTruncation`. The second part is the refinement
of `EventStream`, which is about what the *reader* has got, while the engine's
steps are about what the *task* has sent; the channel lies between. `SInv` speaks
of `Sent`, what the reader has got followed by what the channel holds: `Ordered`
(usage after the deltas, then at most one last event), `Closing` (the last event
agrees with where the task is), `Budget` (its deltas have been counted against the
limit) and `Limits` (types and capacities). So each read is the step of
`EventStream` that its event names, and every other step a stutter, or the reader's
leaving. Theorems: `TypeCorrect`,
`EventOrderHolds`. An attempt at this proof found the mapping `Phase` to be
ambiguous, a CASE with overlapping guards of which TLC takes the first and the
prover any; it is a chain of IFs now.

`WebSocketSessionProofs`, from `SessionConstantsOK`. `GaveUp` says that every
accepted request but the active one has been told to stop, and that a session
which closes after its last message has no active one any more: the case of a
failed send is why this must be known before the message is sent. Theorems:
`NothingLeftRunning`, `SocketIsBounded`. For the refinement of `Conversation`,
`TurnInv` speaks of `Pipe`, the messages in the outbox and the one being sent:
`Proper` (what a message may be), `InOrder` (messages are in the order of their
requests, and none follows the one that ends its request) and `Account` (a request
that has been told its end has nothing more on the way; the active one has no end
on the way; every other accepted one has been told, has its end on the way, or is
the last one of a session that closes). Theorems: `TypeCorrect`, `ToldInTurn`.

`ArtifactStoreProofs`, from `NobodyOK` and `BoundsOK`. `LockInv`: whoever is beyond the lock holds
it. `PromoteInv`: from the verification of `.staging` to its rename it stays
intact, and what stands at `.previous` between the two renames of `promote` may be
moved back. `RepairInv`: a repair that deletes the runtime has seen that it was
damaged, or has condemned it because it could not be read. Theorem:
`SetupNeverSpoils`, which excepts what was damaged or condemned. A server that resolves an installation holds
no lock, and renames and deletions may come between its reads. `RInv` says why
that is harmless unless there was damage from outside meanwhile: what it has found
good is good at `current` if that exists, and in the old directory that a promotion
has moved away and may move back (`Held`, `ReaderInv`), because a setup replaces or
repairs only what it has seen to be spoilt, or has condemned (`PlaceInv`). Theorems: `TypeCorrect`,
`ReadersSeeIntact`.

`RuntimeArchiveProofs`, from `ArchiveConstantsOK` (the special components are not
names; archives are sequences of entries with paths, and a link target has its
root in front or none). `Shape`: what is on disk or
noted as a link has come through `StripPrefix`, hence has ordinary components
only, and the content of a file is that of a file entry that has been read. From
it follows what `ExtractionIsContained` says of the disk; that the source of a link
stays inside as well is shown component by component for `normalize_join`
(`JoinIsSafe`) and then hop by hop (`SourceIsSafe`). `Noted` and `Faithful` hold of archives in
which no path occurs twice, and say that the links noted are those read, and the
files on disk are the file entries read and the links copied, each with the
content of its entry; the source of a link is never a link, so that the order of
the second pass does not matter. Theorem: `FreshInstallVerifies`. It needs of
verification's conditions only that paths are distinct: the others cannot fail for
an archive that could be extracted. That a file is its own source is a fact about
the recursion over hops; `NoLinkNoHop` proves it by induction over a set of numbers,
since the library's induction rules take an operator.

`VerdictIsCorrect` says that an extraction succeeds exactly for a good archive. It
compares the bounded search of `resolve_link_source` with a definition of what a
chain of links leads to (`LeadsTo`, membership in every set of paths that holds the
start and is closed under following links), for any number of links. In one
direction every path that the search visits is in such a set (`SourceIsReached`). In
the other, the paths visited by a search that never stops are closed under following
links; were all of them links, one would come twice, as there are no more links
than hops, and from there on the search only repeats itself (`WalkRepeats`, a
pigeonhole argument; `ReachedIsSource`). `Judged` makes this inductive: while nothing
has been rejected, `Laid` says that the disk holds the files and links that have had
their turn and the directories they need, and nothing else, so that whatever
stands in the way of an entry was put there by another entry of the archive,
which makes it a bad one (`ClashIsBad`, `BlockedIsBad`, `LinkRejectedIsBad`); and once
the last link is copied, the paths on disk show that no two entries clash
(`ExtractedIsGood`).

`ServeProcessProofs`, from `GrpcConstantsOK`. `CallInv`: once the task of a stream
is gone, its finish event or error is in the channel or has been read, unless
the shutdown was why. `GrpcControl` and `MainControl`: what the result of a server
stands for is already final when it is given; the engine, once down after its
shutdown began, stays down. Theorems: `CallsEndHonestly`, `SuccessIsEarned`, and
`TypeCorrect`, which bounds every call's channel. The same module proves, from no
assumption, that a `CancellationToken` can be taken for a variable that is raised
once. `OneSwap` says that one call at most finds the flag down, `NotifyIsDue` that
the flag is up without the notification only while that call has yet to notify,
and `Watchful` that nobody sleeps with a ticket from after it. Theorems:
`TokenTypeCorrect`, `OneWinner`, `NoWakeupMissed`, and `TokenImplementsSignal`:
initial states and steps map to those of `OneShotSignal`.

Every invariant and every action property that a passing run checks is stated by one
of these theorems. Model-checked only: the liveness properties, the liveness of the
refinements included, since the prover has no ENABLED and hence no fairness.

## Findings

`artifact_recoverable`. `docs/product-contract.md:16` requires "Checksum-verified,
staged, recoverable model and runtime installation." `setup` creates `.staging`
(*artifacts* 326) and marks it in the next statement (327). If it dies
between the two, or an I/O error ends it there, `.staging` exists without its
marker, and `remove_managed_directory_if_present` (577-584) refuses to remove
it in every later call: setup never succeeds again until the directory is
deleted by hand. The same follows from a death inside `remove_dir_all` (582),
which may take the marker first. `SetupConverges` shows that this is the only
way to get stuck: if setup is run again and again, either the installation
becomes intact and stays so, or one directory stays without its marker for ever.

`http_drain`. `README.md:93` says that "`docker stop` (SIGTERM) and Ctrl+C both
drain in-flight requests and stop the private runtime within the configured
shutdown timeout", and `docs/http-websocket-api.md:64` limits a WebSocket session
"to one active request". A session runs in its own task once the
upgrade response has been sent (*server* 1271); the work guard of the call went
with that response, and `start_websocket_generation` (1420) enters no gate. So
`serve()` finds the gate idle and the connections closed, and shuts the engine
down, unforced and with its timeout hardly used, under a generation that a
session is still streaming. HTTP generations are drained as documented
(`DrainedMeansIdle`).

## What the code does on purpose

Five behaviours look odd in the models and are as written.

- When the server shuts down, a streaming gRPC call ends with status OK and no
  finish event (grpc.rs 125-128: the task returns without a word), where a unary
  call gets UNAVAILABLE (94). Clients can tell by the missing finish event;
  `HonestEnd` makes this one exception, and no document promises otherwise.
- A setup that cannot read an intact installation once (307) does not end with the
  error but replaces the installation, or offline deletes its runtime (941) to
  restore it from the archive. If it dies there, `current` is incomplete although
  nothing was damaged, and a server that has resolved it loses its files. The
  properties of `ArtifactStore` except exactly this, and `SetupConverges` shows that
  the next setup makes up for it.
- `promote` is two renames (964, 966). After a crash between them nothing stands at
  `current`, a server finds no installation, and offline setup, which looks at
  `current` only, cannot restore what `.previous` still holds. What an interrupted
  promotion never leaves is a partial installation (`OnlyDamageSpoils`), and the next
  online setup installs anew (`SetupConverges`).
- When one server ends with an error, `result?` (main.rs 275) returns before the
  other one has drained: `FirstEnds` exits with an error at once. `CleanExit` says
  what an exit without an error means instead.
- `health_monitor.await` (grpc.rs 408) has no bound of its own. The health task may
  wait for the lifecycle mutex; it is the HTTP server's cleanup that shuts the
  engine down and frees it (`ProcessExits`).

## Plan

Done, in this order: `SidecarLifecycle`, `EventStream` and `GenerationStream`,
`OneShotSignal` and `CancellationToken`, `ShutdownGate`, `ArtifactStore`,
`HttpServer`, `Conversation` and `WebSocketSession`, `GrpcServer` and `ServeProcess`,
`RuntimeArchive`, and proofs about all of them: the invariants first, then the
refinements of `EventStream` and `Conversation`, the readers of the artifact store
and the archives, at last the verdict on an archive.

What could be added: for the other components the safety half of their liveness, as
`NobodyIsStranded` gives it for the gate.

## Not modelled, and why

Pure functions of one request without state, order or retry, whose boundaries
unit tests reach: `normalize_request`, the token estimate, `parse_usage`,
`grpc_timeout`, the limits' validation, the conversion of gRPC messages, MCP
parsing, the formatting of SSE events. Their errors are actions (`GenerateRefused`,
`LineBad`, `Reject`, the refusals of `HttpServer`). The request id counter is one
checked atomic addition. The subcommands of the program other than `serve` call
one library function each.

Wire formats, error wording, metrics, configuration parsing, TLS and headers: no
state depends on them. `inspect` and Fast verification read the same files with
fewer checks and change nothing; the broken variant `CheckedFast` shows what
they would miss. Packaging, scripts, CI and the testkit are not part of the
program. The interior of `llama.cpp`, tokio, axum and tonic is external; their
effects are modelled from how the code uses them.

## Running

```
tlc -workers 2 -config SidecarSafety.cfg MCSidecarLifecycle
tlapm SidecarLifecycleProofs.tla
```

and likewise for the other pairs in `PROJECT.json`.
