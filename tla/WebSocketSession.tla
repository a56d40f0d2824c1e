--------------------------- MODULE WebSocketSession ---------------------------
(***************************************************************************)
(* One session of the WebSocket endpoint (websocket_session and its        *)
(* handlers in impossible-inferences-server/src/lib.rs): a loop that waits *)
(* for the socket, or for the socket and the events of its one active      *)
(* generation, and that awaits the socket again for every message it       *)
(* sends, deaf to everything else meanwhile.                               *)
(*                                                                         *)
(* The event stream is any EngineEventStream: it may deliver any event in  *)
(* any order, usage twice or never, or just end.  Messages that get the    *)
(* same treatment are one: "invalid" is bad JSON, a binary frame or an id  *)
(* out of bounds, "ping" is either kind of ping.                           *)
(*                                                                         *)
(* The promise to the client (Conversation) is about what it is told of    *)
(* its accepted requests.  An error reply to a message that was refused    *)
(* bears the id of that message too, but is not an event of a request.     *)
(***************************************************************************)
EXTENDS Naturals, Sequences, FiniteSets

CONSTANTS Ids,             \* request ids, chosen by the client, reused at will
          NoId,
          MaxGenerations,  \* bound on the accepted requests of a session
          InboxCapacity,   \* messages the socket holds for the session
          OutboxCapacity   \* and for the client

ASSUME SessionConstantsOK ==
    /\ NoId \notin Ids
    /\ {MaxGenerations, InboxCapacity, OutboxCapacity} \subseteq Nat \ {0}

Generations == 1..MaxGenerations

VARIABLES session,  \* where the session's task is
          reply,    \* the message it is sending
          after,    \* and where it goes then
          active,   \* the active generation, 0 if none
          id,       \* the id it was started with
          usage,    \* the generation whose usage it has stored, or 0
                    \* (left over and meaningless while none is active)
          started,  \* how many were accepted
          dropped,  \* those cancelled, or whose event stream was dropped
          inbox, outbox, link,  \* the socket
          told      \* what the client has read about each generation

task == <<session, reply, after>>
request == <<active, id, usage, started, dropped>>
socket == <<inbox, outbox, link>>
vars == <<task, request, socket, told>>

ClientMessages ==
    [type : {"start", "cancel"}, id : Ids]
        \cup [type : {"ping", "pong", "invalid", "close", "leave"}, id : {NoId}]

\* gen is 0 in a message that ends or continues no generation.
Message(type, gen, counts) == [type |-> type, gen |-> gen, usage |-> counts]

ServerMessages ==
    [type : {"ready", "pong", "error", "close", "delta", "final", "cancelled", "failed"},
     gen : 0..MaxGenerations, usage : 0..MaxGenerations]

TypeOK ==
    /\ session \in {"await", "send", "closed"} /\ after \in {"await", "closed"}
    /\ reply \in ServerMessages
    /\ {active, usage, started} \subseteq 0..MaxGenerations
    /\ id \in Ids \cup {NoId}
    /\ dropped \subseteq Generations
    /\ inbox \in Seq(ClientMessages) /\ Len(inbox) <= InboxCapacity
    /\ outbox \in Seq(ServerMessages) /\ Len(outbox) <= OutboxCapacity
    /\ link \in {"up", "gone"}
    /\ told \in [Generations -> {"nothing", "deltas", "final", "cancelled",
                                 "failed", "misreported"}]

\* The session begins by sending ready.
Init ==
    /\ session = "send" /\ after = "await"
    /\ reply = Message("ready", 0, 0)
    /\ active = 0 /\ id = NoId /\ usage = 0
    /\ started = 0 /\ dropped = {}
    /\ inbox = <<>> /\ outbox = <<>> /\ link = "up"
    /\ told = [g \in Generations |-> "nothing"]

-----------------------------------------------------------------------------
(* Sending *)

Send(message, next) ==
    /\ session' = "send" /\ reply' = message /\ after' = next

\* socket.send() returns once the socket has taken the message.  The first
\* writes to a connection that the peer has left may still succeed.
SendDone ==
    /\ session = "send"
    /\ \/ link = "up" /\ Len(outbox) < OutboxCapacity /\ outbox' = Append(outbox, reply)
       \/ link = "gone" /\ UNCHANGED outbox
    /\ session' = after
    /\ UNCHANGED <<reply, after, request, inbox, link, told>>

\* active.take(), and the generation taken is cancelled or dropped.
TakeActive ==
    /\ active' = 0 /\ id' = NoId
    /\ dropped' = dropped \cup ({active} \ {0})
    /\ UNCHANGED <<usage, started>>

\* Broken variant: a generation outlives the session that started it.
EndSessionForgets ==
    /\ session' = "closed"
    /\ UNCHANGED <<reply, after, request>>

\* The task returns: whatever generation is active goes with it.
EndSession ==
    /\ session' = "closed"
    /\ TakeActive
    /\ UNCHANGED <<reply, after>>

SendFails ==
    /\ session = "send" /\ link = "gone"
    /\ EndSession
    /\ UNCHANGED <<socket, told>>

-----------------------------------------------------------------------------
(* handle_websocket_message *)

\* The session takes a message of this type from the socket.
Take(type) ==
    /\ session = "await" /\ inbox # <<>> /\ Head(inbox).type = type
    /\ inbox' = Tail(inbox)
    /\ UNCHANGED <<outbox, link, told>>

\* Broken variant: the stored usage survives the request it belongs to.
StartKeepsUsage ==
    /\ Take("start") /\ active = 0 /\ started < MaxGenerations
    /\ started' = started + 1 /\ active' = started' /\ id' = Head(inbox).id
    /\ UNCHANGED <<task, usage, dropped>>

\* start_websocket_generation: engine.generate() accepts.
Start ==
    /\ Take("start") /\ active = 0 /\ started < MaxGenerations
    /\ started' = started + 1 /\ active' = started' /\ id' = Head(inbox).id /\ usage' = 0
    /\ UNCHANGED <<task, dropped>>

\* The session is busy, or the engine refuses.
StartRefused ==
    /\ Take("start")
    /\ Send(Message("error", 0, 0), "await")
    /\ UNCHANGED request

\* Broken variant: a cancel is left to the generation's own terminal event.
CancelSilently ==
    /\ Take("cancel")
    /\ UNCHANGED <<task, request>>

Cancel ==
    /\ Take("cancel")
    /\ IF active # 0 /\ id = Head(inbox).id
       THEN TakeActive /\ Send(Message("cancelled", active, 0), "await")
       ELSE UNCHANGED request /\ Send(Message("error", 0, 0), "await")

Ping ==
    /\ Take("ping")
    /\ Send(Message("pong", 0, 0), "await")
    /\ UNCHANGED request

Pong == Take("pong") /\ UNCHANGED <<task, request>>

Invalid ==
    /\ Take("invalid")
    /\ Send(Message("error", 0, 0), "await")
    /\ UNCHANGED request

\* The typed close message is answered with a close frame ...
Close ==
    /\ Take("close")
    /\ TakeActive
    /\ Send(Message("close", 0, 0), "closed")

\* ... and a close frame with nothing.
Leave == Take("leave") /\ EndSession

\* Broken variant: errors of the socket are skipped.
SocketErrorsSkipped ==
    /\ session = "await" /\ link = "gone"
    /\ UNCHANGED vars

\* socket.next() yields an error or None.
SocketEnds ==
    /\ session = "await" /\ link = "gone"
    /\ EndSession
    /\ UNCHANGED <<socket, told>>

-----------------------------------------------------------------------------
(* handle_websocket_event *)

Receive == session = "await" /\ active # 0 /\ UNCHANGED <<socket, told>>

Delta ==
    /\ Receive
    /\ Send(Message("delta", active, 0), "await")
    /\ UNCHANGED request

Usage ==
    /\ Receive
    /\ usage' = active
    /\ UNCHANGED <<task, active, id, started, dropped>>

\* Without usage the end counts as a protocol error of the runtime.
Finished ==
    /\ Receive
    /\ TakeActive
    /\ Send(Message(IF usage = 0 THEN "failed" ELSE "final", active, usage), "await")

\* An error event, or no event any more.
Failed ==
    /\ Receive
    /\ TakeActive
    /\ Send(Message("failed", active, 0), "await")

-----------------------------------------------------------------------------
(* The client *)

ClientSends ==
    /\ link = "up" /\ Len(inbox) < InboxCapacity
    /\ \E message \in ClientMessages : inbox' = Append(inbox, message)
    /\ UNCHANGED <<task, request, outbox, link, told>>

ClientReads ==
    /\ outbox # <<>>
    /\ LET message == Head(outbox)
           what == CASE message.type = "delta" -> "deltas"
                     [] message.type = "final" /\ message.usage # message.gen -> "misreported"
                     [] OTHER -> message.type
       IN  told' = [g \in Generations |-> IF g = message.gen THEN what ELSE told[g]]
    /\ outbox' = Tail(outbox)
    /\ UNCHANGED <<task, request, inbox, link>>

\* With everything the session has not sent or the client not read.
ClientLeaves ==
    /\ link = "up"
    /\ link' = "gone" /\ outbox' = <<>>
    /\ UNCHANGED <<task, request, inbox, told>>

-----------------------------------------------------------------------------
HandleMessage ==
    Start \/ StartRefused \/ Cancel \/ Ping \/ Pong \/ Invalid \/ Close \/ Leave

HandleEvent == Delta \/ Usage \/ Finished \/ Failed

Next ==
    \/ SendDone \/ SendFails \/ HandleMessage \/ SocketEnds \/ HandleEvent
    \/ ClientSends \/ ClientReads \/ ClientLeaves

Spec == Init /\ [][Next]_vars

\* The session's task is polled, and its select, which is not biased, does not
\* prefer the events for ever.  Nothing is assumed of engine and client.
FairSpec ==
    /\ Spec
    /\ WF_vars(SendDone)
    /\ SF_vars(HandleMessage) /\ SF_vars(SocketEnds)

-----------------------------------------------------------------------------
(* Properties *)

\* A session has at most one generation that nobody has told to stop, the
\* active one, and none once it has ended, whichever way it ended: by a failed
\* send or a lost connection as well as by the messages that close it.
OneLiveGeneration ==
    /\ 1..started \ dropped \subseteq {active}
    /\ session = "closed" => active = 0

Promise == INSTANCE Conversation

\* The client is told what Conversation allows: requests are answered in turn,
\* with one terminal message each and nothing after it, although a cancel races
\* with the end of the generation and the next one may bear the same id.
InTurn == Promise!Spec

\* The client reads whatever has been sent.
Reading == WF_vars(ClientReads)

\* A cancel that reaches the socket while its request is active is answered by
\* a terminal message, from the engine or for the cancel, even if the engine
\* never stops producing or falls silent; unless the session ends before.
CancelIsAnswered ==
    Reading => \A g \in Generations :
        (active = g /\ \E i \in DOMAIN inbox :
                          inbox[i].type = "cancel" /\ inbox[i].id = id)
            ~> (told[g] \in Promise!Terminal \/ session = "closed" \/ link = "gone")

\* A client that is gone costs the server no session permit: the task returns,
\* whatever it was doing and whatever the engine does.
SessionEnds == link = "gone" ~> session = "closed"
=============================================================================
