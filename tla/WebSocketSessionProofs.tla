------------------------ MODULE WebSocketSessionProofs ------------------------
(***************************************************************************)
(* Safety of a WebSocket session for any ids, any number of requests and   *)
(* any capacity of the socket.                                             *)
(*                                                                         *)
(* No generation is left running: a request is accepted only while none is *)
(* active, so that all earlier ones have been told to stop; and a session  *)
(* that is about to close after its last message has already given its     *)
(* generation up.                                                          *)
(*                                                                         *)
(* The client is told of its requests in turn, as Conversation has it.     *)
(* What is on its way to the client, in the socket and in the session's    *)
(* hand, is in the order of the requests, and every request that is over   *)
(* is answered, or will be by what is on its way.                          *)
(***************************************************************************)
EXTENDS WebSocketSession, SequenceTheorems, TLAPS

\* The part of TypeOK that tells the tasks and the requests apart.
RequestTypeOK ==
    /\ session \in {"await", "send", "closed"} /\ after \in {"await", "closed"}
    /\ reply \in ServerMessages
    /\ started \in 0..MaxGenerations /\ active \in 0..started
    /\ usage \in 0..MaxGenerations
    /\ id \in Ids \cup {NoId}
    /\ dropped \subseteq Generations

\* What the socket holds.
SocketTypeOK ==
    /\ inbox \in Seq(ClientMessages) /\ Len(inbox) <= InboxCapacity
    /\ outbox \in Seq(ServerMessages) /\ Len(outbox) <= OutboxCapacity
    /\ link \in {"up", "gone"}

\* The session is closed, or will be as soon as its last message is sent.
Closing == session = "closed" \/ (session = "send" /\ after = "closed")

GaveUp ==
    /\ 1..started \ dropped \subseteq {active}
    /\ Closing => active = 0

IInv == RequestTypeOK /\ SocketTypeOK /\ GaveUp

-----------------------------------------------------------------------------
LEMMA MessageType ==
    ASSUME NEW type \in {"ready", "pong", "error", "close", "delta", "final", "cancelled", "failed"},
           NEW g \in 0..MaxGenerations, NEW u \in 0..MaxGenerations
    PROVE  Message(type, g, u) \in ServerMessages
  BY DEF Message, ServerMessages

\* Nothing but 0 and the active generation is ever named in a message.
LEMMA Answers ==
    ASSUME IInv
    PROVE  /\ {active, usage} \subseteq 0..MaxGenerations
           /\ \A type \in {"pong", "error", "close"} : Message(type, 0, 0) \in ServerMessages
           /\ \A type \in {"delta", "cancelled", "failed"} :
                  Message(type, active, 0) \in ServerMessages
<1>1. 0 \in 0..MaxGenerations
  BY SessionConstantsOK
<1>2. active \in 0..MaxGenerations /\ usage \in 0..MaxGenerations
  BY SessionConstantsOK DEF IInv, RequestTypeOK
<1>3. ASSUME NEW type \in {"pong", "error", "close"} PROVE Message(type, 0, 0) \in ServerMessages
  BY <1>1, MessageType
<1>4. ASSUME NEW type \in {"delta", "cancelled", "failed"}
      PROVE  Message(type, active, 0) \in ServerMessages
  BY <1>1, <1>2, MessageType
<1> QED BY <1>2, <1>3, <1>4

LEMMA InitIInv == Init => IInv
<1> SUFFICES ASSUME Init PROVE IInv
  OBVIOUS
<1>1. RequestTypeOK
  BY MessageType, SessionConstantsOK DEF Init, RequestTypeOK, Generations
<1>2. SocketTypeOK
  BY SessionConstantsOK DEF Init, SocketTypeOK
<1>3. GaveUp
  BY DEF Init, GaveUp, Closing
<1> QED BY <1>1, <1>2, <1>3 DEF IInv

\* Giving the active generation up leaves none that nobody has told to stop.
LEMMA TakeActiveGivesUp ==
    ASSUME IInv, TakeActive
    PROVE  /\ active' = 0 /\ id' \in Ids \cup {NoId} /\ usage' = usage
           /\ started' = started /\ dropped' \subseteq Generations
           /\ 1..started' \ dropped' \subseteq {active'}
<1>1. /\ active' = 0 /\ id' = NoId /\ usage' = usage /\ started' = started
      /\ dropped' = dropped \cup ({active} \ {0})
  BY DEF TakeActive
<1>2. dropped' \subseteq Generations
  BY <1>1, SessionConstantsOK DEF IInv, RequestTypeOK, Generations
<1>3. 1..started \ dropped' = {}
  BY <1>1 DEF IInv, RequestTypeOK, GaveUp
<1> QED BY <1>1, <1>2, <1>3

\* A handler that takes a message only shortens the inbox.
LEMMA TakeKeepsSocket ==
    ASSUME IInv, NEW type, Take(type)
    PROVE  SocketTypeOK'
<1>1. inbox' = Tail(inbox) /\ inbox # <<>> /\ UNCHANGED <<outbox, link>>
  BY DEF Take
<1>2. inbox' \in Seq(ClientMessages) /\ Len(inbox') = Len(inbox) - 1
  BY <1>1, HeadTailProperties DEF IInv, SocketTypeOK
<1> QED BY <1>1, <1>2, LenProperties, SessionConstantsOK DEF IInv, SocketTypeOK

LEMMA SocketUnchanged ==
    ASSUME IInv, UNCHANGED socket
    PROVE  SocketTypeOK'
  BY DEF socket, IInv, SocketTypeOK

-----------------------------------------------------------------------------
(* One lemma per handler *)

LEMMA SendDoneIInv ==
    ASSUME IInv, SendDone
    PROVE  IInv'
<1>1. RequestTypeOK'
  BY DEF SendDone, request, IInv, RequestTypeOK
<1>2. GaveUp'
  BY DEF SendDone, request, IInv, RequestTypeOK, GaveUp, Closing
<1>3. SocketTypeOK'
  <2>1. CASE outbox' = Append(outbox, reply) /\ Len(outbox) < OutboxCapacity
    <3>1. outbox' \in Seq(ServerMessages) /\ Len(outbox') = Len(outbox) + 1
      BY <2>1, AppendProperties DEF IInv, RequestTypeOK, SocketTypeOK
    <3> QED BY <2>1, <3>1, LenProperties, SessionConstantsOK
            DEF SendDone, IInv, SocketTypeOK
  <2>2. CASE UNCHANGED outbox
    BY <2>2 DEF SendDone, IInv, SocketTypeOK
  <2> QED BY <2>1, <2>2 DEF SendDone
<1> QED BY <1>1, <1>2, <1>3 DEF IInv

\* The task ends, and its generation with it.
LEMMA EndSessionIInv ==
    ASSUME IInv, EndSession, SocketTypeOK'
    PROVE  IInv'
<1>1. RequestTypeOK' /\ GaveUp'
  BY TakeActiveGivesUp DEF EndSession, IInv, RequestTypeOK, GaveUp, Closing
<1> QED BY <1>1 DEF IInv

\* Whatever is answered, as long as the session goes on afterwards.
LEMMA AnswerIInv ==
    ASSUME IInv, NEW message \in ServerMessages, Send(message, "await"),
           UNCHANGED request, SocketTypeOK'
    PROVE  IInv'
<1>1. RequestTypeOK' /\ GaveUp'
  BY DEF Send, request, IInv, RequestTypeOK, GaveUp, Closing
<1> QED BY <1>1 DEF IInv

\* The generation is given up, and the client told.
LEMMA GiveUpIInv ==
    ASSUME IInv, NEW message \in ServerMessages, NEW next \in {"await", "closed"},
           TakeActive, Send(message, next), SocketTypeOK'
    PROVE  IInv'
<1>1. RequestTypeOK' /\ GaveUp'
  BY TakeActiveGivesUp DEF Send, IInv, RequestTypeOK, GaveUp, Closing
<1> QED BY <1>1 DEF IInv

\* A request is accepted only while none is active.
LEMMA StartIInv ==
    ASSUME IInv, Start
    PROVE  IInv'
<1>1. SocketTypeOK'
  BY TakeKeepsSocket DEF Start
<1>2. /\ session = "await" /\ session' = session /\ after' = after /\ reply' = reply
      /\ active = 0 /\ started < MaxGenerations
      /\ started' = started + 1 /\ active' = started + 1 /\ usage' = 0
      /\ id' = Head(inbox).id /\ dropped' = dropped
  BY DEF Start, Take, task
<1>3. id' \in Ids \cup {NoId}
  <2>1. Head(inbox) \in ClientMessages
    BY HeadTailProperties DEF Start, Take, IInv, SocketTypeOK
  <2> QED BY <1>2, <2>1 DEF ClientMessages
<1>4. RequestTypeOK'
  BY <1>2, <1>3, SessionConstantsOK DEF IInv, RequestTypeOK
<1>5. 1..started \ dropped = {}
  BY <1>2 DEF IInv, RequestTypeOK, GaveUp
<1>6. GaveUp'
  BY <1>2, <1>5 DEF IInv, RequestTypeOK, GaveUp, Closing
<1> QED BY <1>1, <1>4, <1>6 DEF IInv

LEMMA HandleMessageIInv ==
    ASSUME IInv, HandleMessage
    PROVE  IInv'
<1>1. SocketTypeOK'
  BY TakeKeepsSocket
     DEF HandleMessage, Start, StartRefused, Cancel, Ping, Pong, Invalid, Close, Leave
<1>2. CASE StartRefused \/ Ping \/ Invalid
  <2>1. PICK type \in {"pong", "error", "close"} :
            Send(Message(type, 0, 0), "await") /\ UNCHANGED request
    BY <1>2 DEF StartRefused, Ping, Invalid
  <2>2. Message(type, 0, 0) \in ServerMessages
    BY Answers
  <2> QED BY <1>1, <2>1, <2>2, AnswerIInv
<1>3. CASE Cancel
  <2>1. CASE TakeActive /\ Send(Message("cancelled", active, 0), "await")
    <3>1. Message("cancelled", active, 0) \in ServerMessages
      BY Answers
    <3> QED BY <1>1, <2>1, <3>1, GiveUpIInv
  <2>2. CASE UNCHANGED request /\ Send(Message("error", 0, 0), "await")
    <3>1. Message("error", 0, 0) \in ServerMessages
      BY Answers
    <3> QED BY <1>1, <2>2, <3>1, AnswerIInv
  <2> QED BY <1>3, <2>1, <2>2 DEF Cancel
<1>4. CASE Pong
  BY <1>1, <1>4 DEF Pong, task, request, IInv, RequestTypeOK, GaveUp, Closing
<1>5. CASE Close
  <2>1. Message("close", 0, 0) \in ServerMessages
    BY Answers
  <2> QED BY <1>1, <1>5, <2>1, GiveUpIInv DEF Close
<1>6. CASE Leave
  BY <1>1, <1>6, EndSessionIInv DEF Leave
<1> QED BY <1>2, <1>3, <1>4, <1>5, <1>6, StartIInv DEF HandleMessage

LEMMA HandleEventIInv ==
    ASSUME IInv, HandleEvent
    PROVE  IInv'
<1>1. SocketTypeOK'
  BY SocketUnchanged DEF HandleEvent, Delta, Usage, Finished, Failed, Receive
<1>2. active \in 0..MaxGenerations /\ usage \in 0..MaxGenerations
  BY Answers
<1>3. CASE Delta
  <2>1. Message("delta", active, 0) \in ServerMessages
    BY Answers
  <2> QED BY <1>1, <1>3, <2>1, AnswerIInv DEF Delta
<1>4. CASE Usage
  BY <1>1, <1>2, <1>4 DEF Usage, Receive, task, IInv, RequestTypeOK, GaveUp, Closing
<1>5. CASE Finished
  <2>1. Message(IF usage = 0 THEN "failed" ELSE "final", active, usage) \in ServerMessages
    BY <1>2, MessageType
  <2> QED BY <1>1, <1>5, <2>1, GiveUpIInv DEF Finished
<1>6. CASE Failed
  <2>1. Message("failed", active, 0) \in ServerMessages
    BY Answers
  <2> QED BY <1>1, <1>6, <2>1, GiveUpIInv DEF Failed
<1> QED BY <1>3, <1>4, <1>5, <1>6 DEF HandleEvent

LEMMA ClientIInv ==
    ASSUME IInv, ClientSends \/ ClientReads \/ ClientLeaves
    PROVE  IInv'
<1>1. UNCHANGED <<task, request>>
  BY DEF ClientSends, ClientReads, ClientLeaves
<1>2. RequestTypeOK' /\ GaveUp'
  BY <1>1 DEF task, request, IInv, RequestTypeOK, GaveUp, Closing
<1>3. CASE ClientSends
  <2>1. PICK message \in ClientMessages : inbox' = Append(inbox, message)
    BY <1>3 DEF ClientSends
  <2>2. inbox' \in Seq(ClientMessages) /\ Len(inbox') = Len(inbox) + 1
    BY <2>1, AppendProperties DEF IInv, SocketTypeOK
  <2>3. SocketTypeOK'
    BY <1>3, <2>2, LenProperties, SessionConstantsOK DEF ClientSends, IInv, SocketTypeOK
  <2> QED BY <1>2, <2>3 DEF IInv
<1>4. CASE ClientReads
  <2>1. outbox' \in Seq(ServerMessages) /\ Len(outbox') = Len(outbox) - 1
    BY <1>4, HeadTailProperties DEF ClientReads, IInv, SocketTypeOK
  <2>2. SocketTypeOK'
    BY <1>4, <2>1, LenProperties, SessionConstantsOK DEF ClientReads, IInv, SocketTypeOK
  <2> QED BY <1>2, <2>2 DEF IInv
<1>5. CASE ClientLeaves
  <2>1. SocketTypeOK'
    BY <1>5, SessionConstantsOK DEF ClientLeaves, IInv, SocketTypeOK
  <2> QED BY <1>2, <2>1 DEF IInv
<1> QED BY <1>3, <1>4, <1>5

LEMMA StepIInv == IInv /\ [Next]_vars => IInv'
<1> SUFFICES ASSUME IInv, [Next]_vars PROVE IInv'
  OBVIOUS
<1>1. CASE SendFails \/ SocketEnds
  <2>1. SocketTypeOK'
    BY <1>1, SocketUnchanged DEF SendFails, SocketEnds
  <2> QED BY <1>1, <2>1, EndSessionIInv DEF SendFails, SocketEnds
<1>2. CASE UNCHANGED vars
  BY <1>2 DEF vars, task, request, socket, IInv, RequestTypeOK, SocketTypeOK, GaveUp, Closing
<1> QED BY <1>1, <1>2, SendDoneIInv, HandleMessageIInv, HandleEventIInv, ClientIInv DEF Next

LEMMA Invariance == Spec => []IInv
  BY InitIInv, StepIInv, PTL DEF Spec

-----------------------------------------------------------------------------
\* A session leaves no generation running that nobody has told to stop, except
\* its active one, and none at all once it has ended, however it ended.
THEOREM NothingLeftRunning == Spec => []OneLiveGeneration
<1>1. IInv => OneLiveGeneration
  BY DEF IInv, GaveUp, Closing, OneLiveGeneration
<1> QED BY <1>1, Invariance, PTL

\* The socket's buffers stay within their capacity, so that every send waits
\* for room; and only accepted requests are ever active.
THEOREM SocketIsBounded == Spec => [](RequestTypeOK /\ SocketTypeOK)
<1>1. IInv => RequestTypeOK /\ SocketTypeOK
  BY DEF IInv
<1> QED BY <1>1, Invariance, PTL

-----------------------------------------------------------------------------
(* What is on its way to the client: what the socket holds and the message  *)
(* the session is sending.  The session appends to it and the client takes  *)
(* from its front, so that its order is the order in which the client reads.*)

Terminal == Promise!Terminal

Pipe == IF session = "send" THEN Append(outbox, reply) ELSE outbox

\* A message about a request is a delta or ends it, and a final one carries
\* the usage of its own request.
Proper(m) ==
    /\ m.gen \in 0 .. started
    /\ m.gen # 0 => m.type \in {"delta"} \cup Terminal
    /\ m.type = "final" => m.usage = m.gen

\* Messages about requests are in the order of the requests, and nothing
\* about a request follows the message that ends it.
InOrder(p) ==
    \A i, j \in 1 .. Len(p) : i < j /\ p[j].gen # 0 =>
        /\ p[i].gen <= p[j].gen
        /\ p[i].gen = p[j].gen => p[i].type = "delta"

EndIsDue(g) == \E i \in 1 .. Len(Pipe) : Pipe[i].gen = g /\ Pipe[i].type \in Terminal

\* A request that has been answered is over; the active one is not answered yet;
\* and one that is over is answered, will be by what is on its way, or is the
\* last one of a session that ends.
Account(g) ==
    /\ told[g] \in Terminal =>
          g <= started /\ g # active /\ \A i \in 1 .. Len(Pipe) : Pipe[i].gen # g
    /\ g = active => ~EndIsDue(g)
    /\ g <= started => \/ told[g] \in Terminal \/ EndIsDue(g)
                       \/ g = started /\ (g = active \/ Closing)

TurnInv ==
    /\ told \in [Generations -> {"nothing", "deltas"} \cup Terminal]
    /\ active \in {0, started} /\ (active # 0 => usage \in {0, active})
    /\ link = "gone" => outbox = <<>>
    /\ link = "up" =>
          /\ \A i \in 1 .. Len(Pipe) : Proper(Pipe[i])
          /\ InOrder(Pipe)
          /\ \A g \in Generations : Account(g)

LEMMA Names ==
    /\ Terminal = {"final", "cancelled", "failed"} /\ "delta" \notin Terminal
    /\ \A g \in Generations : g \in Nat /\ g # 0
    /\ 0 \in 0 .. MaxGenerations
  BY SessionConstantsOK DEF Terminal, Promise!Terminal, Generations

\* The two ends of what is on its way.
LEMMA PipeIsSeq == IInv => Pipe \in Seq(ServerMessages)
  BY AppendProperties DEF IInv, RequestTypeOK, SocketTypeOK, Pipe

LEMMA PushOrder ==
    ASSUME NEW p \in Seq(ServerMessages), NEW m \in ServerMessages, InOrder(p),
           m.gen # 0 => \A i \in 1 .. Len(p) :
               p[i].gen <= m.gen /\ (p[i].gen = m.gen => p[i].type = "delta")
    PROVE  InOrder(Append(p, m))
<1>1. /\ Len(p) \in Nat /\ Len(Append(p, m)) = Len(p) + 1
      /\ \A i \in 1 .. Len(p) : Append(p, m)[i] = p[i]
      /\ Append(p, m)[Len(p) + 1] = m
  BY LenProperties, AppendProperties
<1> DEFINE q == Append(p, m)
<1>2. ASSUME NEW i \in 1 .. Len(q), NEW j \in 1 .. Len(q), i < j, q[j].gen # 0
      PROVE  q[i].gen <= q[j].gen /\ (q[i].gen = q[j].gen => q[i].type = "delta")
  <2>1. i \in 1 .. Len(p) /\ q[i] = p[i]
    BY <1>1, <1>2
  <2>2. CASE j <= Len(p)
    <3>1. j \in 1 .. Len(p) /\ q[j] = p[j]
      BY <1>1, <2>2
    <3> QED BY <1>2, <2>1, <3>1 DEF InOrder
  <2>3. CASE j = Len(p) + 1
    BY <1>1, <1>2, <2>1, <2>3
  <2> QED BY <1>1, <2>2, <2>3
<1> HIDE DEF q
<1>3. InOrder(q)
  BY <1>2 DEF InOrder
<1> QED BY <1>3 DEF q

LEMMA PopOrder ==
    ASSUME NEW p \in Seq(ServerMessages), p # <<>>, InOrder(p)
    PROVE  InOrder(Tail(p))
<1>1. /\ Len(p) \in Nat \ {0} /\ Len(Tail(p)) = Len(p) - 1
      /\ \A i \in 1 .. Len(Tail(p)) : Tail(p)[i] = p[i + 1]
  BY EmptySeq, HeadTailProperties
<1>2. ASSUME NEW i \in 1 .. Len(Tail(p)), NEW j \in 1 .. Len(Tail(p)), i < j
      PROVE  /\ i + 1 \in 1 .. Len(p) /\ j + 1 \in 1 .. Len(p) /\ i + 1 < j + 1
             /\ Tail(p)[i] = p[i + 1] /\ Tail(p)[j] = p[j + 1]
  BY <1>1, <1>2
<1> QED BY <1>2 DEF InOrder

LEMMA InitTurn == Init => TurnInv
<1> SUFFICES ASSUME Init PROVE TurnInv
  OBVIOUS
<1>1. Pipe = Append(<<>>, reply) /\ reply = Message("ready", 0, 0) /\ reply \in ServerMessages
  BY MessageType, SessionConstantsOK DEF Init, Pipe
<1>2. Len(Pipe) = 1 /\ Pipe[1] = reply
  BY <1>1, AppendProperties, EmptySeq
<1>3. reply.gen = 0 /\ reply.type = "ready"
  BY <1>1 DEF Message
<1>4. \A i \in 1 .. Len(Pipe) : Pipe[i] = reply
  BY <1>2
<1>5. InOrder(Pipe) /\ \A i \in 1 .. Len(Pipe) : Proper(Pipe[i])
  BY <1>3, <1>4 DEF Init, InOrder, Proper
<1>6. ASSUME NEW g \in Generations PROVE Account(g)
  BY <1>3, <1>4, Names DEF Init, Account, EndIsDue
<1> QED BY <1>5, <1>6, Names DEF Init, TurnInv

\* The active request is the last one accepted, and what is on its way about
\* it are deltas.
LEMMA ActiveIsLast ==
    ASSUME IInv, TurnInv, link = "up", active # 0
    PROVE  /\ active \in Generations /\ active = started
           /\ \A i \in 1 .. Len(Pipe) :
                 Pipe[i].gen <= active /\ (Pipe[i].gen = active => Pipe[i].type = "delta")
<1>1. active \in Generations /\ active = started
  BY SessionConstantsOK DEF IInv, RequestTypeOK, TurnInv, Generations
<1>2. ASSUME NEW i \in 1 .. Len(Pipe)
      PROVE  Pipe[i].gen <= active /\ (Pipe[i].gen = active => Pipe[i].type = "delta")
  <2>1. Proper(Pipe[i]) /\ ~EndIsDue(active)
    BY <1>1 DEF TurnInv, Account
  <2> QED BY <1>1, <2>1 DEF Proper, EndIsDue, Generations
<1> QED BY <1>1, <1>2

\* The client is gone: it reads nothing any more.
LEMMA GoneTurn ==
    ASSUME TurnInv, link' = "gone", outbox' = <<>>, told' = told,
           active' \in {0, started'}, active' # 0 => usage' \in {0, active'}
    PROVE  TurnInv'
  BY DEF TurnInv

\* Nothing is said; if the active request is given up the session ends.
LEMMA QuietTurn ==
    ASSUME TurnInv, link = "up", UNCHANGED <<link, told, started, Pipe>>,
           active' \in {0, active}, active' # active => Closing', Closing => Closing',
           usage' \in {usage, active}
    PROVE  TurnInv'
<1>1. ASSUME NEW g \in Generations PROVE Account(g)'
  BY Names DEF TurnInv, Account, EndIsDue
<1>2. (\A i \in 1 .. Len(Pipe) : Proper(Pipe[i]))' /\ InOrder(Pipe)'
  BY DEF TurnInv, Proper, InOrder
<1> QED BY <1>1, <1>2 DEF TurnInv

\* A message is said, about nothing or about the active request, which is over
\* if it ends it.
LEMMA SayTurn ==
    ASSUME IInv, TurnInv, link = "up", NEW m \in ServerMessages, Pipe' = Append(Pipe, m),
           UNCHANGED <<link, told, started>>, ~Closing,
           m.gen \in {0, active}, m.gen # 0 => m.type \in {"delta"} \cup Terminal,
           m.type = "final" => m.usage = m.gen,
           active' \in {0, active}, usage' = usage,
           active' # 0 => m.gen = 0 \/ m.type = "delta",
           active' # active => Closing' \/ (m.gen = active /\ m.type \in Terminal)
    PROVE  TurnInv'
<1>1. Pipe \in Seq(ServerMessages)
  BY PipeIsSeq
<1>2. /\ Len(Pipe) \in Nat /\ Len(Pipe') = Len(Pipe) + 1
      /\ \A i \in 1 .. Len(Pipe) : Pipe'[i] = Pipe[i]
      /\ Pipe'[Len(Pipe) + 1] = m
  BY <1>1, LenProperties, AppendProperties
<1>3. \A i \in 1 .. Len(Pipe') : i \in 1 .. Len(Pipe) \/ i = Len(Pipe) + 1
  BY <1>2
<1>4. (\A i \in 1 .. Len(Pipe) : Proper(Pipe[i]))'
  <2>1. Proper(m)'
    BY DEF Proper, IInv, RequestTypeOK
  <2>2. \A i \in 1 .. Len(Pipe) : Proper(Pipe[i])'
    BY DEF TurnInv, Proper
  <2> QED BY <1>2, <1>3, <2>1, <2>2 DEF Proper
<1>5. InOrder(Pipe)'
  <2>1. m.gen # 0 => \A i \in 1 .. Len(Pipe) :
            Pipe[i].gen <= m.gen /\ (Pipe[i].gen = m.gen => Pipe[i].type = "delta")
    BY ActiveIsLast
  <2>2. InOrder(Append(Pipe, m))
    BY <1>1, <2>1, PushOrder DEF TurnInv
  <2> QED BY <2>2 DEF InOrder
<1>6. ASSUME NEW g \in Generations PROVE Account(g)'
  <2>1. Account(g) /\ g \in Nat /\ g # 0
    BY Names DEF TurnInv
  <2>2. EndIsDue(g)' <=> EndIsDue(g) \/ (m.gen = g /\ m.type \in Terminal)
    <3>1. ASSUME EndIsDue(g) \/ (m.gen = g /\ m.type \in Terminal) PROVE EndIsDue(g)'
      <4>1. Len(Pipe) + 1 \in 1 .. Len(Pipe') /\ \A i \in 1 .. Len(Pipe) : i \in 1 .. Len(Pipe')
        BY <1>2
      <4> QED BY <1>2, <3>1, <4>1 DEF EndIsDue
    <3>2. ASSUME EndIsDue(g)' PROVE EndIsDue(g) \/ (m.gen = g /\ m.type \in Terminal)
      BY <1>2, <1>3, <3>2 DEF EndIsDue
    <3> QED BY <3>1, <3>2
  <2>3. told[g] \in Terminal => (\A i \in 1 .. Len(Pipe) : Pipe[i].gen # g)'
    BY <1>2, <1>3, <2>1 DEF Account
  <2>4. g = active' => ~EndIsDue(g)'
    BY <2>1, <2>2, Names DEF Account
  <2>5. g <= started => \/ told[g] \in Terminal \/ EndIsDue(g)'
                        \/ g = started /\ (g = active' \/ Closing')
    BY <2>1, <2>2 DEF Account
  <2> QED BY <2>1, <2>3, <2>4, <2>5 DEF Account
<1> QED BY <1>4, <1>5, <1>6 DEF TurnInv

-----------------------------------------------------------------------------
(* One lemma per handler *)

\* Whatever the session's task does, a client that has left is not told.
LEMMA TaskAfterLeaving ==
    ASSUME IInv, TurnInv, link = "gone",
           SendDone \/ SendFails \/ HandleMessage \/ SocketEnds \/ HandleEvent
    PROVE  TurnInv'
<1>1. UNCHANGED <<link, told>> /\ outbox' = outbox
  BY DEF SendDone, SendFails, HandleMessage, SocketEnds, HandleEvent, Start, StartRefused, Cancel,
         Ping, Pong, Invalid, Close, Leave, Delta, Usage, Finished, Failed, Receive, Take, socket
<1>2. active' \in {0, started'} /\ (active' # 0 => usage' \in {0, active'})
  <2>1. CASE Start
    BY <2>1, SessionConstantsOK DEF Start, IInv, RequestTypeOK
  <2>2. CASE Usage
    BY <2>2 DEF Usage, TurnInv
  <2>3. CASE ~Start /\ ~Usage
    <3>1. UNCHANGED request \/ TakeActive
      BY <2>3 DEF SendDone, SendFails, HandleMessage, SocketEnds, HandleEvent, StartRefused,
                  Cancel, Ping, Pong, Invalid, Close, Leave, Delta, Finished, Failed, EndSession
    <3> QED BY <3>1 DEF request, TakeActive, TurnInv
  <2> QED BY <2>1, <2>2, <2>3
<1> QED BY <1>1, <1>2, GoneTurn DEF TurnInv

\* A request is accepted while none is active: the earlier ones are answered,
\* or will be by what is on its way.
LEMMA StartTurn ==
    ASSUME IInv, TurnInv, link = "up", Start
    PROVE  TurnInv'
<1>1. /\ session = "await" /\ UNCHANGED <<task, outbox, link, told>> /\ active = 0
      /\ started' = started + 1 /\ active' = started' /\ usage' = 0
      /\ started \in Nat /\ started' \in 0 .. MaxGenerations
  BY SessionConstantsOK DEF Start, Take, IInv, RequestTypeOK
<1>2. Pipe' = Pipe /\ ~Closing /\ ~Closing'
  BY <1>1 DEF task, Pipe, Closing
<1>3. \A i \in 1 .. Len(Pipe) : Pipe[i].gen \in 0 .. started
  BY DEF TurnInv, Proper
<1>4. (\A i \in 1 .. Len(Pipe) : Proper(Pipe[i]))' /\ InOrder(Pipe)'
  BY <1>1, <1>2 DEF TurnInv, Proper, InOrder
<1>5. ASSUME NEW g \in Generations PROVE Account(g)'
  <2>1. Account(g) /\ g \in Nat /\ g # 0
    BY Names DEF TurnInv
  <2>2. EndIsDue(g)' <=> EndIsDue(g)
    BY <1>2 DEF EndIsDue
  <2>3. EndIsDue(g) => g <= started
    BY <1>3, <2>1 DEF EndIsDue
  <2>4. told[g] \in Terminal => g <= started
    BY <2>1 DEF Account
  <2> QED BY <1>1, <1>2, <2>1, <2>2, <2>3, <2>4 DEF Account
<1> QED BY <1>1, <1>4, <1>5 DEF TurnInv

LEMMA SaidFromAwait ==
    ASSUME session = "await", NEW m, NEW next, Send(m, next), UNCHANGED outbox
    PROVE  Pipe' = Append(Pipe, m) /\ ~Closing /\ (next = "closed" => Closing')
  BY DEF Send, Pipe, Closing

LEMMA HandleMessageTurn ==
    ASSUME IInv, TurnInv, link = "up", HandleMessage
    PROVE  TurnInv'
<1>1. session = "await" /\ UNCHANGED <<outbox, link, told>>
  BY DEF HandleMessage, Start, StartRefused, Cancel, Ping, Pong, Invalid, Close, Leave, Take
<1>2. ASSUME NEW type \in {"pong", "error"}, Send(Message(type, 0, 0), "await"), UNCHANGED request
      PROVE  TurnInv'
  <2> DEFINE m == Message(type, 0, 0)
  <2>1. m \in ServerMessages
    BY Answers
  <2>2. m.gen = 0 /\ m.type = type /\ type # "final"
    BY DEF Message
  <2>3. Pipe' = Append(Pipe, m) /\ ~Closing
    BY <1>1, <1>2, SaidFromAwait
  <2>4. UNCHANGED <<active, started, usage>>
    BY <1>2 DEF request
  <2> HIDE DEF m
  <2> QED BY <1>1, <2>1, <2>2, <2>3, <2>4, SayTurn
<1>3. CASE StartRefused \/ Ping \/ Invalid
  BY <1>2, <1>3 DEF StartRefused, Ping, Invalid
<1>4. CASE Cancel
  <2>1. CASE active # 0 /\ TakeActive /\ Send(Message("cancelled", active, 0), "await")
    <3> DEFINE m == Message("cancelled", active, 0)
    <3>1. m \in ServerMessages
      BY Answers
    <3>2. m.gen = active /\ m.type = "cancelled" /\ m.type \in Terminal
      BY Names DEF Message
    <3>3. Pipe' = Append(Pipe, m) /\ ~Closing
      BY <1>1, <2>1, SaidFromAwait
    <3>4. active' = 0 /\ UNCHANGED <<started, usage>>
      BY <2>1 DEF TakeActive
    <3> HIDE DEF m
    <3> QED BY <1>1, <3>1, <3>2, <3>3, <3>4, SayTurn
  <2>2. CASE UNCHANGED request /\ Send(Message("error", 0, 0), "await")
    BY <1>2, <2>2
  <2> QED BY <1>4, <2>1, <2>2 DEF Cancel
<1>5. CASE Pong
  BY <1>1, <1>5, QuietTurn DEF Pong, task, request, Pipe, Closing
<1>6. CASE Close
  <2> DEFINE m == Message("close", 0, 0)
  <2>1. m \in ServerMessages
    BY Answers
  <2>2. m.gen = 0 /\ m.type = "close"
    BY DEF Message
  <2>3. Pipe' = Append(Pipe, m) /\ ~Closing /\ Closing'
    BY <1>1, <1>6, SaidFromAwait DEF Close
  <2>4. active' = 0 /\ UNCHANGED <<started, usage>>
    BY <1>6 DEF Close, TakeActive
  <2> HIDE DEF m
  <2> QED BY <1>1, <2>1, <2>2, <2>3, <2>4, SayTurn
<1>7. CASE Leave
  <2>1. /\ Pipe' = Pipe /\ Closing'
        /\ active' = 0 /\ UNCHANGED <<started, usage>>
    BY <1>1, <1>7 DEF Leave, EndSession, TakeActive, Pipe, Closing
  <2> QED BY <1>1, <2>1, QuietTurn
<1> QED BY <1>3, <1>4, <1>5, <1>6, <1>7, StartTurn DEF HandleMessage

LEMMA HandleEventTurn ==
    ASSUME IInv, TurnInv, link = "up", HandleEvent
    PROVE  TurnInv'
<1>1. /\ session = "await" /\ active # 0 /\ UNCHANGED <<outbox, link, told>>
      /\ active \in Generations /\ active \in 0 .. MaxGenerations
      /\ usage \in {0, active} /\ usage \in 0 .. MaxGenerations
  BY Answers, ActiveIsLast DEF HandleEvent, Delta, Usage, Finished, Failed, Receive, socket, TurnInv
<1>2. CASE Delta
  <2> DEFINE m == Message("delta", active, 0)
  <2>1. m \in ServerMessages
    BY Answers
  <2>2. m.gen = active /\ m.type = "delta"
    BY DEF Message
  <2>3. Pipe' = Append(Pipe, m) /\ ~Closing
    BY <1>1, <1>2, SaidFromAwait DEF Delta
  <2>4. UNCHANGED <<active, started, usage>>
    BY <1>2 DEF Delta, request
  <2> HIDE DEF m
  <2> QED BY <1>1, <2>1, <2>2, <2>3, <2>4, SayTurn
<1>3. CASE Usage
  BY <1>1, <1>3, QuietTurn DEF Usage, task, Pipe, Closing
<1>4. CASE Finished \/ Failed
  <2>1. PICK m \in ServerMessages :
            /\ m.gen = active /\ m.type \in {"failed", "final"}
            /\ m.type = "final" => m.usage = active
            /\ Send(m, "await")
    <3>1. CASE Finished
      <4> DEFINE m == Message(IF usage = 0 THEN "failed" ELSE "final", active, usage)
      <4>1. m \in ServerMessages
        BY <1>1, MessageType
      <4>2. /\ m.gen = active /\ m.type \in {"failed", "final"}
            /\ m.type = "final" => m.usage = active
        BY <1>1 DEF Message
      <4> QED BY <3>1, <4>1, <4>2 DEF Finished
    <3>2. CASE Failed
      <4> DEFINE m == Message("failed", active, 0)
      <4>1. m \in ServerMessages /\ m.gen = active /\ m.type = "failed"
        BY Answers DEF Message
      <4> QED BY <3>2, <4>1 DEF Failed
    <3> QED BY <1>4, <3>1, <3>2
  <2>2. Pipe' = Append(Pipe, m) /\ ~Closing
    BY <1>1, <2>1, SaidFromAwait
  <2>3. active' = 0 /\ UNCHANGED <<started, usage>>
    BY <1>4 DEF Finished, Failed, TakeActive
  <2>4. m.type \in Terminal
    BY <2>1, Names
  <2> QED BY <1>1, <2>1, <2>2, <2>3, <2>4, SayTurn
<1> QED BY <1>2, <1>3, <1>4 DEF HandleEvent

\* A message that has been sent is still on its way.
LEMMA SendDoneTurn ==
    ASSUME IInv, TurnInv, link = "up", SendDone
    PROVE  TurnInv'
<1>1. Pipe' = Pipe /\ (Closing => Closing') /\ UNCHANGED <<request, link, told>>
  BY DEF SendDone, IInv, RequestTypeOK, Pipe, Closing
<1> QED BY <1>1, QuietTurn DEF request

\* The client reads what has been on its way longest.
LEMMA ReadsFirst ==
    ASSUME IInv, TurnInv, ClientReads
    PROVE  /\ link = "up" /\ Pipe # <<>> /\ Head(outbox) = Pipe[1] /\ Pipe' = Tail(Pipe)
           /\ UNCHANGED <<active, started, usage, link, session, after>>
<1>1. /\ link = "up" /\ outbox # <<>> /\ outbox' = Tail(outbox) /\ UNCHANGED <<task, request, link>>
      /\ outbox \in Seq(ServerMessages) /\ reply \in ServerMessages
  BY DEF ClientReads, TurnInv, IInv, RequestTypeOK, SocketTypeOK
<1>2. Head(outbox) = outbox[1] /\ Len(outbox) \in Nat \ {0}
  BY <1>1, EmptySeq
<1>3. CASE session = "send"
  <2>1. Pipe = Append(outbox, reply) /\ Pipe' = Append(Tail(outbox), reply)
    BY <1>1, <1>3 DEF Pipe, task
  <2>2. Pipe # <<>> /\ Pipe[1] = outbox[1]
    BY <1>1, <1>2, <2>1, AppendProperties
  <2>3. Tail(Append(outbox, reply)) = Append(Tail(outbox), reply)
    BY <1>1, HeadTailAppend
  <2> QED BY <1>1, <1>2, <2>1, <2>2, <2>3 DEF task, request
<1>4. CASE session # "send"
  BY <1>1, <1>2, <1>4 DEF Pipe, task, request
<1> QED BY <1>3, <1>4

\* The first message on its way about a request finds it to be its turn.
LEMMA FirstIsInTurn ==
    ASSUME IInv, TurnInv, link = "up", Pipe # <<>>, Pipe[1].gen # 0
    PROVE  Pipe[1].gen \in Generations /\ Promise!Turn(Pipe[1].gen)
<1> DEFINE g == Pipe[1].gen
<1>1. 1 \in 1 .. Len(Pipe) /\ Pipe \in Seq(ServerMessages)
  BY PipeIsSeq, EmptySeq
<1>2. g \in Generations /\ g <= started /\ started \in Nat
  BY <1>1, SessionConstantsOK DEF TurnInv, Proper, IInv, RequestTypeOK, Generations
<1>3. told[g] \in {"nothing", "deltas"}
  BY <1>1, <1>2 DEF TurnInv, Account
<1>4. ASSUME NEW h \in Generations, h < g PROVE told[h] \in Terminal
  <2>1. h <= started /\ h # started /\ Account(h)
    BY <1>2, <1>4 DEF TurnInv, Generations
  <2>2. ~EndIsDue(h)
    <3> SUFFICES ASSUME NEW i \in 1 .. Len(Pipe), Pipe[i].gen = h PROVE FALSE
      BY DEF EndIsDue
    <3>1. i # 1 /\ h # 0
      BY <1>2, <1>4 DEF Generations
    <3>2. g <= Pipe[i].gen
      BY <1>1, <3>1 DEF TurnInv, InOrder
    <3> QED BY <1>2, <1>4, <3>2 DEF Generations
  <2> QED BY <2>1, <2>2 DEF Account
<1> QED BY <1>2, <1>3, <1>4 DEF Promise!Turn, Terminal

LEMMA ClientReadsTurn ==
    ASSUME IInv, TurnInv, ClientReads
    PROVE  TurnInv' /\ [Promise!Next]_told
<1> DEFINE m == Pipe[1]
<1>1. /\ link = "up" /\ Pipe # <<>> /\ Pipe' = Tail(Pipe) /\ Pipe \in Seq(ServerMessages)
      /\ UNCHANGED <<active, started, usage, link, session, after>>
  BY ReadsFirst, PipeIsSeq
<1>2. /\ Len(Pipe) \in Nat \ {0} /\ 1 \in 1 .. Len(Pipe) /\ Len(Pipe') = Len(Pipe) - 1
      /\ \A i \in 1 .. Len(Pipe') : Pipe'[i] = Pipe[i + 1] /\ i + 1 \in 1 .. Len(Pipe)
      /\ \A i \in 1 .. Len(Pipe) : i = 1 \/ (i - 1 \in 1 .. Len(Pipe') /\ Pipe'[i - 1] = Pipe[i])
  <2>1. Len(Pipe) \in Nat \ {0}
    BY <1>1, EmptySeq
  <2>2. Len(Pipe') = Len(Pipe) - 1 /\ \A i \in 1 .. Len(Pipe') : Pipe'[i] = Pipe[i + 1]
    BY <1>1, HeadTailProperties
  <2> QED BY <2>1, <2>2
<1>3. Proper(m)
  BY <1>1, <1>2 DEF TurnInv
<1>4. PICK what \in {"deltas"} \cup Terminal \cup {"nothing"} :
          /\ told' = [g \in Generations |-> IF g = m.gen THEN what ELSE told[g]]
          /\ m.gen # 0 => what = IF m.type = "delta" THEN "deltas" ELSE m.type
  <2> DEFINE said == CASE m.type = "delta" -> "deltas"
                       [] m.type = "final" /\ m.usage # m.gen -> "misreported"
                       [] OTHER -> m.type
  <2>1. told' = [g \in Generations |-> IF g = m.gen THEN said ELSE told[g]]
    BY ReadsFirst DEF ClientReads
  <2>2. CASE m.gen # 0
    <3>1. said = IF m.type = "delta" THEN "deltas" ELSE m.type
      BY <1>3, <2>2, Names DEF Proper
    <3>2. said \in {"deltas"} \cup Terminal
      BY <1>3, <2>2, <3>1 DEF Proper
    <3> HIDE DEF said, m
    <3> QED BY <2>1, <3>1, <3>2
  <2>3. CASE m.gen = 0
    <3>1. told' = [g \in Generations |-> IF g = m.gen THEN "nothing" ELSE told[g]]
      BY <2>1, <2>3, Names
    <3> HIDE DEF said, m
    <3> QED BY <2>3, <3>1
  <2> QED BY <2>2, <2>3
<1>5. /\ m.gen # 0 => m.gen \in Generations /\ Promise!Turn(m.gen)
      /\ told \in [Generations -> {"nothing", "deltas"} \cup Terminal]
  BY <1>1, FirstIsInTurn DEF TurnInv
<1>6. m.gen = 0 => told' = told
  BY <1>4, <1>5, Names
<1>7. [Promise!Next]_told
  <2>1. CASE m.gen = 0
    BY <1>6, <2>1
  <2>2. CASE m.gen # 0
    <3>1. told' = [told EXCEPT ![m.gen] = what]
      BY <1>4, <1>5
    <3>2. what = "deltas" \/ what \in Terminal
      BY <1>3, <1>4, <2>2 DEF Proper
    <3>3. Promise!Delta(m.gen) \/ Promise!End(m.gen)
      BY <1>5, <2>2, <3>1, <3>2 DEF Promise!Delta, Promise!End, Terminal
    <3> QED BY <1>5, <2>2, <3>3 DEF Promise!Next
  <2> QED BY <2>1, <2>2
<1>8. (\A i \in 1 .. Len(Pipe) : Proper(Pipe[i]))' /\ InOrder(Pipe)'
  <2>1. InOrder(Tail(Pipe))
    BY <1>1, PopOrder DEF TurnInv
  <2>2. InOrder(Pipe)'
    BY <1>1, <2>1 DEF InOrder
  <2>3. (\A i \in 1 .. Len(Pipe) : Proper(Pipe[i]))'
    BY <1>1, <1>2 DEF TurnInv, Proper
  <2> QED BY <2>2, <2>3
<1>9. ASSUME NEW g \in Generations PROVE Account(g)'
  <2>1. Account(g) /\ (Closing <=> Closing')
    BY <1>1 DEF TurnInv, Closing
  <2>2. EndIsDue(g)' => EndIsDue(g)
    BY <1>2 DEF EndIsDue
  <2>3. CASE g # m.gen
    <3>1. told'[g] = told[g]
      BY <1>4, <1>5, <2>3
    <3>2. EndIsDue(g) => EndIsDue(g)'
      BY <1>2, <2>3 DEF EndIsDue
    <3>3. told[g] \in Terminal => (\A i \in 1 .. Len(Pipe) : Pipe[i].gen # g)'
      BY <1>2, <2>1 DEF Account
    <3> QED BY <1>1, <2>1, <2>2, <3>1, <3>2, <3>3 DEF Account
  <2>4. CASE g = m.gen
    <3>1. m.gen # 0 /\ told'[g] = what /\ g <= started
      BY <1>3, <1>4, <2>4, Names DEF Proper
    <3>2. CASE m.type = "delta"
      <4>1. told'[g] \notin Terminal /\ told[g] \notin Terminal
        BY <1>4, <1>5, <2>4, <3>1, <3>2 DEF Promise!Turn, Terminal, Promise!Terminal
      <4>2. EndIsDue(g) => EndIsDue(g)'
        BY <1>2, <3>2, Names DEF EndIsDue
      <4> QED BY <1>1, <2>1, <2>2, <4>1, <4>2 DEF Account
    <3>3. CASE m.type # "delta"
      <4>1. told'[g] \in Terminal /\ EndIsDue(g)
        BY <1>2, <1>3, <1>4, <2>4, <3>1, <3>3 DEF Proper, EndIsDue
      <4>2. ASSUME NEW i \in 1 .. Len(Pipe'), Pipe'[i].gen = g PROVE FALSE
        <5>1. i + 1 \in 1 .. Len(Pipe) /\ Pipe[i + 1].gen = g /\ 1 < i + 1
          BY <1>2, <4>2
        <5> QED BY <1>1, <1>2, <2>4, <3>1, <3>3, <5>1 DEF TurnInv, InOrder
      <4>3. ~EndIsDue(g)'
        BY <4>2 DEF EndIsDue
      <4> QED BY <1>1, <2>1, <3>1, <4>1, <4>2, <4>3 DEF Account
    <3> QED BY <3>2, <3>3
  <2> QED BY <2>3, <2>4
<1>10. told' \in [Generations -> {"nothing", "deltas"} \cup Terminal]
  BY <1>4, <1>5
<1> QED BY <1>1, <1>7, <1>8, <1>9, <1>10 DEF TurnInv

LEMMA StepTurn ==
    ASSUME IInv, TurnInv, [Next]_vars
    PROVE  TurnInv' /\ [Promise!Next]_told
<1>1. CASE ClientReads
  BY <1>1, ClientReadsTurn
<1>2. CASE SendDone \/ SendFails \/ HandleMessage \/ SocketEnds \/ HandleEvent
  <2>1. told' = told
    BY <1>2 DEF SendDone, SendFails, HandleMessage, SocketEnds, HandleEvent, Start, StartRefused,
           Cancel, Ping, Pong, Invalid, Close, Leave, Delta, Usage, Finished, Failed, Receive, Take
  <2>2. CASE link = "gone"
    BY <1>2, <2>1, <2>2, TaskAfterLeaving
  <2>3. CASE link = "up"
    <3>1. SendDone \/ HandleMessage \/ HandleEvent
      BY <1>2, <2>3 DEF SendFails, SocketEnds
    <3> QED BY <2>1, <2>3, <3>1, SendDoneTurn, HandleMessageTurn, HandleEventTurn
  <2> QED BY <2>2, <2>3 DEF IInv, SocketTypeOK
<1>3. CASE ClientSends \/ ClientLeaves \/ UNCHANGED vars
  <2>1. /\ UNCHANGED <<task, request, told>>
        /\ UNCHANGED <<outbox, link>> \/ (link' = "gone" /\ outbox' = <<>>)
    BY <1>3 DEF ClientSends, ClientLeaves, vars, socket
  <2>2. CASE link' = "gone" /\ outbox' = <<>>
    BY <2>1, <2>2, GoneTurn DEF request, TurnInv
  <2>3. CASE UNCHANGED <<outbox, link>>
    <3>1. link = "up" => TurnInv'
      BY <2>1, <2>3, QuietTurn DEF task, request, Pipe, Closing
    <3>2. link = "gone" => TurnInv'
      BY <2>1, <2>3, GoneTurn DEF request, TurnInv
    <3> QED BY <2>1, <3>1, <3>2 DEF IInv, SocketTypeOK
  <2> QED BY <2>1, <2>2, <2>3
<1> QED BY <1>1, <1>2, <1>3 DEF Next

LEMMA TurnInvariance == Spec => [](IInv /\ TurnInv)
<1>1. Init => IInv /\ TurnInv
  BY InitIInv, InitTurn
<1>2. (IInv /\ TurnInv) /\ [Next]_vars => (IInv /\ TurnInv)'
  BY StepIInv, StepTurn
<1> QED BY <1>1, <1>2, PTL DEF Spec

\* Every variable keeps its type.
THEOREM TypeCorrect == Spec => []TypeOK
<1>1. IInv /\ TurnInv => TypeOK
  BY SessionConstantsOK, Names DEF IInv, RequestTypeOK, SocketTypeOK, TurnInv, TypeOK
<1> QED BY <1>1, TurnInvariance, PTL

\* The client is told of its requests one after the other: deltas, then one
\* terminal message, a final one with the usage of that very request; however
\* a cancel races with the end of the generation, and although ids are reused.
THEOREM ToldInTurn == Spec => InTurn
<1>1. Init => Promise!Init
  BY DEF Init, Promise!Init
<1>2. (IInv /\ TurnInv) /\ [Next]_vars => [Promise!Next]_told
  BY StepTurn
<1> QED BY <1>1, <1>2, TurnInvariance, PTL DEF Spec, InTurn, Promise!Spec
=============================================================================
