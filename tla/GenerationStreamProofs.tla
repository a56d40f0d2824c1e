------------------------ MODULE GenerationStreamProofs ------------------------
(***************************************************************************)
(* For any number of requests, any capacities and any max_tokens:          *)
(*                                                                         *)
(* A truncated answer of the sidecar is never presented as a complete one. *)
(* The closing events are reached through Conclude alone, which requires a *)
(* complete exchange; from there the producer only sends, returns or       *)
(* fails, and a failure after the first closing event cannot follow        *)
(* `finished`, which is the last one.                                      *)
(*                                                                         *)
(* Every reader is handed what EventStream promises.  What it has got and  *)
(* what the channel still holds form one sequence: the task appends to it, *)
(* where it stands tells what the last event was, a reader that reads      *)
(* leaves it as it is, and one that leaves cuts it short.                  *)
(***************************************************************************)
EXTENDS GenerationStream, FiniteSetTheorems, SequenceTheorems, TLAPS

Places == Selecting \cup {"new", "refused", "lines", "return", "report", "closed"}

LocalsOK == pc \in [Requests -> Places] /\ sse \in [Requests -> SseState]

StreamOK == channel \in [Requests -> Seq(Events)] /\ received \in [Requests -> Seq(Events)]

Unfinished(s) == \A i \in 1..Len(s) : s[i] # "finished"

\* The reader of r neither has been nor will be told that r is finished.
Untold(r) == Unfinished(channel[r]) /\ Unfinished(received[r])

\* Where the producer is tells whether the exchange was complete, and where
\* `finished` may have been sent, it was.
Truthful(r) ==
    /\ pc[r] \in {"usage", "finished", "return"} => Complete(sse[r])
    /\ \/ Untold(r)
       \/ pc[r] \in {"return", "closed"} /\ Complete(sse[r])

IInv == LocalsOK /\ StreamOK /\ \A r \in Requests : Truthful(r)

-----------------------------------------------------------------------------
LEMMA FreshIsSse == FreshSse \in SseState
  BY StreamConstantsOK DEF FreshSse, SseState

LEMMA InitIInv == Init => IInv
<1> SUFFICES ASSUME Init PROVE IInv
  OBVIOUS
<1>1. LocalsOK
  BY FreshIsSse DEF Init, LocalsOK, Places
<1>2. StreamOK
  BY DEF Init, StreamOK
<1>3. \A r \in Requests : Truthful(r)
  BY DEF Init, Truthful, Untold, Unfinished
<1> QED BY <1>1, <1>2, <1>3 DEF IInv

LEMMA AppendUnfinished ==
    ASSUME NEW s \in Seq(Events), NEW event \in Events, Unfinished(s), event # "finished"
    PROVE  Unfinished(Append(s, event))
  BY AppendProperties DEF Unfinished

LEMMA TailUnfinished ==
    ASSUME NEW s \in Seq(Events), s # <<>>, Unfinished(s)
    PROVE  Unfinished(Tail(s)) /\ Head(s) # "finished"
  BY HeadTailProperties DEF Unfinished

\* A step of r alone, which leaves the stream to its reader.
LEMMA TaskStep ==
    ASSUME IInv, NEW r \in Requests, NEW where \in Places, NEW s \in SseState,
           Goto(r, where), sse' = [sse EXCEPT ![r] = s], UNCHANGED stream,
           Untold(r), where \in {"usage", "finished", "return"} => Complete(s)
    PROVE  IInv'
<1>1. LocalsOK' /\ StreamOK'
  BY DEF Goto, stream, IInv, LocalsOK, StreamOK
<1>2. ASSUME NEW q \in Requests PROVE Truthful(q)'
  BY DEF Goto, stream, IInv, LocalsOK, Truthful, Untold
<1> QED BY <1>1, <1>2 DEF IInv

LEMMA FailIInv ==
    ASSUME IInv, NEW r \in Requests, Fail(r), UNCHANGED stream, Untold(r)
    PROVE  IInv'
<1>1. "report" \in Places
  BY DEF Places
<1>2. Goto(r, "report") /\ sse' = [sse EXCEPT ![r] = FreshSse]
  BY DEF Fail
<1> QED BY <1>1, <1>2, TaskStep, FreshIsSse

LEMMA ConcludeIInv ==
    ASSUME IInv, NEW r \in Requests, NEW s \in SseState, Conclude(r, s),
           UNCHANGED stream, Untold(r)
    PROVE  IInv'
<1>1. CASE Complete(s)
  <2>1. "usage" \in Places /\ Goto(r, "usage") /\ sse' = [sse EXCEPT ![r] = s]
    BY <1>1 DEF Conclude, Places, Selecting
  <2> QED BY <1>1, <2>1, TaskStep
<1>2. CASE ~Complete(s)
  BY <1>2, FailIInv DEF Conclude
<1> QED BY <1>1, <1>2

\* The producer keeps its locals.
LEMMA MoveIInv ==
    ASSUME IInv, NEW r \in Requests, NEW where \in Places, Goto(r, where),
           UNCHANGED <<sse, stream>>, Untold(r),
           where \notin {"usage", "finished", "return"}
    PROVE  IInv'
<1>1. sse[r] \in SseState /\ sse' = [sse EXCEPT ![r] = sse[r]]
  BY DEF IInv, LocalsOK
<1> QED BY <1>1, TaskStep

LEMMA UntoldBefore ==
    ASSUME IInv, NEW r \in Requests, pc[r] \notin {"return", "closed"}
    PROVE  Untold(r)
  BY DEF IInv, Truthful

-----------------------------------------------------------------------------
(* One lemma per group of actions *)

LEMMA AdmissionIInv ==
    ASSUME IInv, NEW r \in Requests,
           GenerateRefused(r) \/ Generate(r) \/ AcquireExecution(r) \/ PostAccepted(r)
    PROVE  IInv'
<1>1. Untold(r)
  BY UntoldBefore DEF GenerateRefused, Generate, AcquireExecution, PostAccepted
<1>2. CASE Generate(r)
  <2>1. LocalsOK' /\ StreamOK'
    BY <1>2 DEF Generate, Goto, IInv, LocalsOK, StreamOK, Places, Selecting
  <2>2. ASSUME NEW q \in Requests PROVE Truthful(q)'
    BY <1>1, <1>2 DEF Generate, Goto, IInv, LocalsOK, Truthful, Untold
  <2> QED BY <2>1, <2>2 DEF IInv
<1>3. CASE GenerateRefused(r) \/ AcquireExecution(r) \/ PostAccepted(r)
  <2>1. PICK where \in {"refused", "prepare", "chunk"} : Goto(r, where)
    BY <1>3 DEF GenerateRefused, AcquireExecution, PostAccepted
  <2>2. where \in Places
    BY DEF Places, Selecting
  <2>3. UNCHANGED <<sse, stream>>
    BY <1>3 DEF GenerateRefused, AcquireExecution, PostAccepted
  <2> QED BY <1>1, <2>1, <2>2, <2>3, MoveIInv
<1> QED BY <1>2, <1>3

LEMMA FailuresIInv ==
    ASSUME IInv, NEW r \in Requests,
           StopBranch(r) \/ RuntimeFails(r) \/ LineBad(r) \/ SendFails(r)
    PROVE  IInv'
<1>1. Untold(r)
  BY UntoldBefore DEF StopBranch, RuntimeFails, LineBad, SendFails, Selecting
<1> QED BY <1>1, FailIInv DEF StopBranch, RuntimeFails, LineBad, SendFails

LEMMA LinesIInv ==
    ASSUME IInv, NEW r \in Requests,
           NextChunk(r) \/ EndOfBody(r) \/ LineDone(r) \/ LineData(r) \/ EndOfChunk(r)
    PROVE  IInv'
<1>1. Untold(r) /\ sse[r] \in SseState /\ UNCHANGED stream
  BY UntoldBefore DEF NextChunk, EndOfBody, LineDone, LineData, EndOfChunk, IInv, LocalsOK
<1>2. CASE NextChunk(r)
  <2> DEFINE s == [sse[r] EXCEPT !.partial = FALSE]
  <2>1. s \in SseState /\ sse' = [sse EXCEPT ![r] = s]
    BY <1>1, <1>2 DEF NextChunk, SseState
  <2>2. "lines" \in Places /\ Goto(r, "lines")
    BY <1>2 DEF NextChunk, Places
  <2> QED BY <1>1, <2>1, <2>2, TaskStep
<1>3. CASE EndOfBody(r)
  BY <1>1, <1>3, ConcludeIInv DEF EndOfBody
<1>4. CASE LineDone(r)
  <2> DEFINE s == [sse[r] EXCEPT !.done = TRUE]
  <2>1. s \in SseState /\ sse' = [sse EXCEPT ![r] = s]
    BY <1>1, <1>4 DEF LineDone, SseState
  <2>2. "lines" \in Places /\ Goto(r, "lines")
    BY <1>4 DEF LineDone, Goto, IInv, LocalsOK, Places
  <2> QED BY <1>1, <2>1, <2>2, TaskStep
<1>5. CASE LineData(r)
  <2>1. PICK usage, finish, delta \in BOOLEAN :
            IF delta /\ sse[r].deltas = MaxTokens
            THEN Fail(r)
            ELSE /\ sse' = [sse EXCEPT ![r].usage = @ \/ usage,
                                       ![r].finish = @ \/ finish,
                                       ![r].deltas = IF delta THEN @ + 1 ELSE @]
                 /\ Goto(r, IF delta THEN "delta" ELSE "lines")
    BY <1>5 DEF LineData
  <2>2. CASE delta /\ sse[r].deltas = MaxTokens
    BY <1>1, <2>1, <2>2, FailIInv
  <2>3. CASE ~(delta /\ sse[r].deltas = MaxTokens)
    <3> DEFINE s == [sse[r] EXCEPT !.usage = @ \/ usage, !.finish = @ \/ finish,
                                   !.deltas = IF delta THEN @ + 1 ELSE @]
    <3>1. sse' = [sse EXCEPT ![r] = s]
      BY <1>1, <2>1, <2>3 DEF SseState
    <3>2. s \in SseState
      <4>1. sse[r].deltas \in 0..MaxTokens /\ MaxTokens \in Nat
        BY <1>1, StreamConstantsOK DEF SseState
      <4>2. (IF delta THEN sse[r].deltas + 1 ELSE sse[r].deltas) \in 0..MaxTokens
        BY <2>3, <4>1
      <4> QED BY <1>1, <4>2 DEF SseState
    <3>3. PICK where \in {"delta", "lines"} : Goto(r, where)
      BY <2>1, <2>3
    <3>4. where \in Places
      BY DEF Places, Selecting
    <3> HIDE DEF s
    <3> QED BY <1>1, <3>1, <3>2, <3>3, <3>4, TaskStep
  <2> QED BY <2>2, <2>3
<1>6. CASE EndOfChunk(r)
  <2>1. PICK partial \in BOOLEAN :
            LET s == [sse[r] EXCEPT !.partial = partial]
            IN  IF s.done THEN Conclude(r, s)
                ELSE Goto(r, "chunk") /\ sse' = [sse EXCEPT ![r] = s]
    BY <1>6 DEF EndOfChunk
  <2> DEFINE s == [sse[r] EXCEPT !.partial = partial]
  <2>2. s \in SseState
    BY <1>1 DEF SseState
  <2>3. Conclude(r, s) \/ (Goto(r, "chunk") /\ sse' = [sse EXCEPT ![r] = s])
    BY <2>1
  <2>4. "chunk" \in Places
    BY DEF Places, Selecting
  <2> HIDE DEF s
  <2>5. CASE Conclude(r, s)
    BY <1>1, <2>2, <2>5, ConcludeIInv
  <2>6. CASE Goto(r, "chunk") /\ sse' = [sse EXCEPT ![r] = s]
    BY <1>1, <2>2, <2>4, <2>6, TaskStep
  <2> QED BY <2>3, <2>5, <2>6
<1> QED BY <1>2, <1>3, <1>4, <1>5, <1>6

\* `finished` is sent from the one place where the exchange is known complete.
LEMMA SendEventIInv ==
    ASSUME IInv, NEW r \in Requests, SendEvent(r)
    PROVE  IInv'
<1>1. /\ pc[r] \in {"delta", "usage", "finished"} /\ pc[r] \in Events
      /\ channel' = [channel EXCEPT ![r] = Append(@, pc[r])]
      /\ pc' = [pc EXCEPT ![r] = AfterSend(pc[r])] /\ UNCHANGED <<sse, received>>
  BY DEF SendEvent, Goto, Events
<1>2. /\ pc[r] = "delta" => pc'[r] = "lines"
      /\ pc[r] = "usage" => pc'[r] = "finished"
      /\ pc[r] = "finished" => pc'[r] = "return"
  BY <1>1 DEF AfterSend, IInv, LocalsOK
<1>3. AfterSend(pc[r]) \in Places
  BY <1>1 DEF AfterSend, Places, Selecting
<1>4. LocalsOK' /\ StreamOK'
  BY <1>1, <1>3, AppendProperties DEF IInv, LocalsOK, StreamOK
<1>5. ASSUME NEW q \in Requests PROVE Truthful(q)'
  <2>1. CASE q # r
    BY <1>1, <2>1 DEF IInv, LocalsOK, StreamOK, Truthful, Untold
  <2>2. CASE q = r /\ pc[r] = "finished"
    BY <1>1, <1>2, <2>2 DEF IInv, LocalsOK, Truthful
  <2>3. CASE q = r /\ pc[r] # "finished"
    <3>1. Untold(r)
      BY <1>1, UntoldBefore
    <3>2. channel'[r] = Append(channel[r], pc[r]) /\ received'[r] = received[r]
      BY <1>1 DEF IInv, StreamOK
    <3>3. Untold(r)'
      BY <1>1, <2>3, <3>1, <3>2, AppendUnfinished DEF IInv, StreamOK, Untold
    <3> QED BY <1>1, <1>2, <2>3, <3>3 DEF IInv, LocalsOK, Truthful
  <2> QED BY <2>1, <2>2, <2>3
<1> QED BY <1>4, <1>5 DEF IInv

\* The task ends: it has sent all, or its error.
LEMMA EndIInv ==
    ASSUME IInv, NEW r \in Requests, Return(r) \/ Report(r)
    PROVE  IInv'
<1>1. CASE Return(r)
  <2>1. LocalsOK' /\ StreamOK'
    BY <1>1 DEF Return, Goto, stream, IInv, LocalsOK, StreamOK, Places
  <2>2. ASSUME NEW q \in Requests PROVE Truthful(q)'
    BY <1>1 DEF Return, Goto, stream, IInv, LocalsOK, Truthful, Untold
  <2> QED BY <2>1, <2>2 DEF IInv
<1>2. CASE Report(r)
  <2>1. Untold(r)
    BY <1>2, UntoldBefore DEF Report
  <2>2. /\ channel' = [channel EXCEPT ![r] = Append(@, "error")] \/ UNCHANGED channel
        /\ pc' = [pc EXCEPT ![r] = "closed"] /\ UNCHANGED <<sse, received>>
    BY <1>2 DEF Report, Goto
  <2>3. LocalsOK' /\ StreamOK'
    <3>1. Append(channel[r], "error") \in Seq(Events)
      BY AppendProperties DEF IInv, StreamOK, Events
    <3>2. StreamOK'
      BY <2>2, <3>1 DEF IInv, StreamOK
    <3>3. LocalsOK'
      BY <2>2 DEF IInv, LocalsOK, Places
    <3> QED BY <3>2, <3>3
  <2>4. Untold(r)'
    <3>1. channel'[r] = Append(channel[r], "error") \/ channel'[r] = channel[r]
      BY <2>2 DEF IInv, StreamOK
    <3> QED BY <2>1, <2>2, <3>1, AppendUnfinished DEF IInv, StreamOK, Untold, Events
  <2>5. ASSUME NEW q \in Requests PROVE Truthful(q)'
    BY <2>2, <2>4 DEF IInv, LocalsOK, StreamOK, Truthful, Untold
  <2> QED BY <2>3, <2>5 DEF IInv
<1> QED BY <1>1, <1>2

LEMMA ReaderIInv ==
    ASSUME IInv, NEW r \in Requests, Read(r) \/ DropStream(r)
    PROVE  IInv'
<1>1. UNCHANGED <<pc, sse>>
  BY DEF Read, Recv, RecvNone, DropStream
<1>2. /\ StreamOK'
      /\ Untold(r) => Untold(r)'
      /\ \A q \in Requests \ {r} : channel'[q] = channel[q] /\ received'[q] = received[q]
  <2>1. CASE Recv(r)
    <3>1. channel[r] \in Seq(Events) /\ received[r] \in Seq(Events) /\ channel[r] # <<>>
      BY <2>1 DEF Recv, IInv, StreamOK
    <3>2. Head(channel[r]) \in Events /\ Tail(channel[r]) \in Seq(Events)
      BY <3>1, HeadTailProperties
    <3>3. /\ channel' = [channel EXCEPT ![r] = Tail(channel[r])]
          /\ received' = [received EXCEPT ![r] = Append(received[r], Head(channel[r]))]
      BY <2>1 DEF Recv
    <3>4. StreamOK'
      BY <3>1, <3>2, <3>3, AppendProperties DEF IInv, StreamOK
    <3>5. /\ channel'[r] = Tail(channel[r])
          /\ received'[r] = Append(received[r], Head(channel[r]))
      BY <3>3 DEF IInv, StreamOK
    <3>6. Untold(r) => Untold(r)'
      BY <3>1, <3>2, <3>5, TailUnfinished, AppendUnfinished DEF Untold
    <3> QED BY <3>3, <3>4, <3>6 DEF IInv, StreamOK
  <2>2. CASE RecvNone(r)
    BY <2>2 DEF RecvNone, IInv, StreamOK, Untold
  <2>3. CASE DropStream(r)
    BY <2>3 DEF DropStream, IInv, StreamOK, Untold, Unfinished
  <2> QED BY <2>1, <2>2, <2>3 DEF Read
<1>3. ASSUME NEW q \in Requests PROVE Truthful(q)'
  BY <1>1, <1>2 DEF IInv, Truthful, Untold
<1> QED BY <1>1, <1>2, <1>3 DEF IInv, LocalsOK

LEMMA StepIInv == IInv /\ [Next]_vars => IInv'
<1> SUFFICES ASSUME IInv, [Next]_vars PROVE IInv'
  OBVIOUS
<1>1. CASE UNCHANGED <<pc, sse, stream>>
  BY <1>1 DEF stream, IInv, LocalsOK, StreamOK, Truthful, Untold
<1>2. CASE Shutdown \/ UNCHANGED vars
  BY <1>1, <1>2 DEF Shutdown, vars, stream
<1>3. ASSUME NEW r \in Requests, Produce(r) PROVE IInv'
  BY <1>3, FailuresIInv, AdmissionIInv, LinesIInv, SendEventIInv, EndIInv DEF Produce
<1>4. ASSUME NEW r \in Requests, Answer(r) PROVE IInv'
  BY <1>4, FailuresIInv, AdmissionIInv, LinesIInv DEF Answer
<1>5. ASSUME NEW r \in Requests, GenerateRefused(r) \/ Generate(r) PROVE IInv'
  BY <1>5, AdmissionIInv
<1>6. ASSUME NEW r \in Requests, Stop(r) PROVE IInv'
  BY <1>1, <1>6 DEF Stop
<1>7. ASSUME NEW r \in Requests, Read(r) \/ DropStream(r) PROVE IInv'
  BY <1>7, ReaderIInv
<1> QED BY <1>2, <1>3, <1>4, <1>5, <1>6, <1>7 DEF Next

-----------------------------------------------------------------------------
LEMMA ConcatHas ==
    ASSUME NEW s \in Seq(Events), NEW t \in Seq(Events), Contains(s \o t, "finished")
    PROVE  ~Unfinished(s) \/ ~Unfinished(t)
<1>1. PICK i \in 1..Len(s \o t) : (s \o t)[i] = "finished"
  BY DEF Contains
<1>2. Len(s \o t) = Len(s) + Len(t) /\ Len(s) \in Nat /\ Len(t) \in Nat
  BY ConcatProperties, LenProperties
<1>3. CASE i <= Len(s)
  BY <1>1, <1>2, <1>3, ConcatProperties DEF Unfinished
<1>4. CASE i > Len(s)
  <2>1. i - Len(s) \in 1..Len(t) /\ (s \o t)[i] = t[i - Len(s)]
    BY <1>1, <1>2, <1>4, ConcatProperties
  <2> QED BY <1>1, <2>1 DEF Unfinished
<1> QED BY <1>1, <1>2, <1>3, <1>4

\* Whenever a reader has been told that its generation finished, or will be by
\* what the channel holds, the sidecar's answer was complete: [DONE], finish
\* reason and usage were seen and no line was cut off.
THEOREM NoTruncation == Spec => []NoTruncatedSuccess
<1>1. IInv => NoTruncatedSuccess
  <2> SUFFICES ASSUME IInv, NEW r \in Requests,
                      Contains(received[r] \o channel[r], "finished")
               PROVE  Complete(sse[r])
    BY DEF NoTruncatedSuccess, Complete
  <2>1. ~Untold(r)
    BY ConcatHas DEF IInv, StreamOK, Untold
  <2> QED BY <2>1 DEF IInv, Truthful
<1> QED BY <1>1, InitIInv, StepIInv, PTL DEF Spec

-----------------------------------------------------------------------------
(* What the reader has been handed and will be.  The producer appends to it *)
(* and a reader that leaves cuts it short; a reader that reads leaves it as *)
(* it is.                                                                   *)

Sent(r) == received[r] \o channel[r]

EndsWith(s, event) == s # <<>> /\ s[Len(s)] = event

\* Deltas, usage, finished, or an error at any place, which ends it.
Ordered(s) ==
    \A i \in 1 .. Len(s) :
        /\ s[i] \in {"finished", "error"} => i = Len(s)
        /\ s[i] = "finished" => i > 1 /\ s[i - 1] = "usage"
        /\ s[i] = "usage" /\ i < Len(s) => s[i + 1] \in {"finished", "error"}

Idle == {"new", "refused"}

Limits ==
    /\ admitted \subseteq Requests /\ IsFiniteSet(admitted)
    /\ Cardinality(admitted) <= AdmittedCapacity
    /\ execution \in Requests \cup {Nobody}
    /\ reader \in [Requests -> {"none", "open", "ended", "dropped"}]
    /\ stopped \in [Requests -> BOOLEAN] /\ shutdown \in BOOLEAN
    /\ \A r \in Requests : Len(channel[r]) <= EventCapacity

\* While there is a reader, the last event tells where the task is.
Closing(r) ==
    reader[r] = "open" =>
        /\ EndsWith(Sent(r), "usage") => pc[r] \in {"finished", "report"}
        /\ EndsWith(Sent(r), "finished") => pc[r] \in {"return", "closed"}
        /\ EndsWith(Sent(r), "error") => pc[r] = "closed"
        /\ pc[r] = "finished" => EndsWith(Sent(r), "usage")
        /\ pc[r] \in {"return", "closed"} =>
              EndsWith(Sent(r), "finished") \/ EndsWith(Sent(r), "error")

\* The deltas sent and the one being sent have been counted by consume_sse,
\* whose locals drop when it fails.
Budget(r) ==
    LET counted == IF pc[r] \in {"report", "closed"} THEN MaxTokens ELSE sse[r].deltas
    IN  Deltas(Sent(r)) + (IF pc[r] = "delta" THEN 1 ELSE 0) <= counted

Delivery(r) ==
    /\ Ordered(Sent(r)) /\ Closing(r) /\ Budget(r)
    /\ pc[r] \in Idle <=> reader[r] = "none"
    /\ reader[r] # "open" => channel[r] = <<>>
    /\ reader[r] = "none" => received[r] = <<>>

SInv == Limits /\ \A r \in Requests : Delivery(r)

-----------------------------------------------------------------------------
(* Facts about sequences of events *)

LEMMA AppendLast ==
    ASSUME NEW s \in Seq(Events), NEW t \in Seq(Events), NEW event \in Events
    PROVE  s \o Append(t, event) = Append(s \o t, event)
<1>1. Append(t, event) = t \o <<event>> /\ <<event>> \in Seq(Events)
  BY AppendIsConcat
<1>2. s \o t \in Seq(Events)
  BY ConcatProperties
<1>3. Append(s \o t, event) = (s \o t) \o <<event>>
  BY <1>2, AppendIsConcat
<1> QED BY <1>1, <1>3, ConcatAssociative

\* Moving the first event of the channel to the reader.
LEMMA MoveFirst ==
    ASSUME NEW s \in Seq(Events), NEW t \in Seq(Events), t # <<>>
    PROVE  Append(s, Head(t)) \o Tail(t) = s \o t
<1>1. /\ Head(t) \in Events /\ Tail(t) \in Seq(Events)
      /\ Len(t) \in Nat \ {0} /\ Len(Tail(t)) = Len(t) - 1
      /\ \A i \in 1 .. Len(Tail(t)) : Tail(t)[i] = t[i + 1]
  BY HeadTailProperties, EmptySeq
<1>2. /\ Append(s, Head(t)) \in Seq(Events) /\ Len(Append(s, Head(t))) = Len(s) + 1
      /\ \A i \in 1 .. Len(s) : Append(s, Head(t))[i] = s[i]
      /\ Append(s, Head(t))[Len(s) + 1] = t[1]
  <2>1. Head(t) = t[1]
    OBVIOUS
  <2> QED BY <1>1, <2>1, AppendProperties
<1> DEFINE u == Append(s, Head(t)) \o Tail(t)
           v == s \o t
<1>3. Len(s) \in Nat
  BY LenProperties
<1>4. u \in Seq(Events) /\ v \in Seq(Events) /\ Len(u) = Len(v) /\ Len(v) = Len(s) + Len(t)
  BY <1>1, <1>2, <1>3, ConcatProperties
<1>5. ASSUME NEW i \in 1 .. Len(v) PROVE u[i] = v[i]
  <2>1. CASE i <= Len(s)
    BY <1>1, <1>2, <1>3, <1>4, <2>1, ConcatProperties
  <2>2. CASE i = Len(s) + 1
    BY <1>1, <1>2, <1>3, <1>4, <2>2, ConcatProperties
  <2>3. CASE i > Len(s) + 1
    <3>1. /\ i - Len(s) - 1 \in 1 .. Len(Tail(t))
          /\ u[i] = Tail(t)[i - (Len(s) + 1)] /\ v[i] = t[i - Len(s)]
      BY <1>1, <1>2, <1>3, <1>4, <2>3, ConcatProperties
    <3> QED BY <1>1, <1>3, <3>1
  <2> QED BY <1>3, <2>1, <2>2, <2>3
<1> HIDE DEF u, v
<1>6. u = v
  BY <1>4, <1>5, SeqEqual
<1> QED BY <1>6 DEF u, v

LEMMA DeltasNat == \A s \in Seq(Events) : Deltas(s) \in Nat
<1> SUFFICES ASSUME NEW s \in Seq(Events) PROVE Deltas(s) \in Nat
  OBVIOUS
<1>1. IsFiniteSet(1 .. Len(s))
  BY LenProperties, FS_Interval
<1> QED BY <1>1, FS_Subset, FS_CardinalityType DEF Deltas

LEMMA DeltasAppend ==
    ASSUME NEW s \in Seq(Events), NEW event \in Events
    PROVE  Deltas(Append(s, event)) = Deltas(s) + IF event = "delta" THEN 1 ELSE 0
<1> DEFINE At(t) == {i \in 1 .. Len(t) : t[i] = "delta"}
<1>1. /\ Len(s) \in Nat /\ Len(Append(s, event)) = Len(s) + 1
      /\ \A i \in 1 .. Len(s) : Append(s, event)[i] = s[i]
      /\ Append(s, event)[Len(s) + 1] = event
  BY LenProperties, AppendProperties
<1>2. IsFiniteSet(At(s)) /\ Len(s) + 1 \notin At(s)
  <2>1. IsFiniteSet(1 .. Len(s))
    BY <1>1, FS_Interval
  <2> QED BY <1>1, <2>1, FS_Subset
<1>3. Cardinality(At(s)) \in Nat
  BY <1>2, FS_CardinalityType
<1>4. CASE event = "delta"
  <2>1. At(Append(s, event)) = At(s) \cup {Len(s) + 1}
    BY <1>1, <1>4
  <2>2. Cardinality(At(Append(s, event))) = Cardinality(At(s)) + 1
    BY <1>2, <2>1, FS_AddElement
  <2>3. /\ Deltas(Append(s, event)) = Cardinality(At(Append(s, event)))
        /\ Deltas(s) = Cardinality(At(s))
    BY DEF Deltas
  <2> HIDE DEF At
  <2> QED BY <1>3, <1>4, <2>2, <2>3
<1>5. CASE event # "delta"
  <2>1. At(Append(s, event)) = At(s)
    BY <1>1, <1>5
  <2>2. /\ Deltas(Append(s, event)) = Cardinality(At(Append(s, event)))
        /\ Deltas(s) = Cardinality(At(s))
    BY DEF Deltas
  <2> HIDE DEF At
  <2> QED BY <1>3, <1>5, <2>1, <2>2
<1> QED BY <1>4, <1>5

LEMMA DeltasPrefix ==
    ASSUME NEW s \in Seq(Events), NEW t \in Seq(Events)
    PROVE  Deltas(s) <= Deltas(s \o t)
<1> DEFINE At(u) == {i \in 1 .. Len(u) : u[i] = "delta"}
<1>1. /\ Len(s) \in Nat /\ Len(t) \in Nat /\ Len(s \o t) = Len(s) + Len(t)
      /\ \A i \in 1 .. Len(s) : (s \o t)[i] = s[i]
  BY LenProperties, ConcatProperties
<1>2. IsFiniteSet(1 .. Len(s \o t))
  BY <1>1, FS_Interval
<1>3. IsFiniteSet(At(s \o t)) /\ At(s) \subseteq At(s \o t)
  BY <1>1, <1>2, FS_Subset
<1> QED BY <1>3, FS_Subset DEF Deltas

LEMMA OrderedAppend ==
    ASSUME NEW s \in Seq(Events), NEW event \in Events, Ordered(s),
           ~EndsWith(s, "finished"), ~EndsWith(s, "error"),
           event = "finished" => EndsWith(s, "usage"),
           event \in {"delta", "usage"} => ~EndsWith(s, "usage")
    PROVE  Ordered(Append(s, event)) /\ EndsWith(Append(s, event), event)
<1>1. /\ Len(s) \in Nat /\ Len(Append(s, event)) = Len(s) + 1
      /\ \A i \in 1 .. Len(s) : Append(s, event)[i] = s[i]
      /\ Append(s, event)[Len(s) + 1] = event /\ Append(s, event) # <<>>
      /\ s # <<>> => Len(s) > 0
  BY LenProperties, AppendProperties, EmptySeq
<1>2. ASSUME NEW i \in 1 .. Len(s)
      PROVE  /\ s[i] \notin {"finished", "error"}
             /\ i = Len(s) => EndsWith(s, s[i])
  BY <1>1, EmptySeq DEF Ordered, EndsWith
<1> DEFINE u == Append(s, event)
<1>3. ASSUME NEW i \in 1 .. Len(u)
      PROVE  /\ u[i] \in {"finished", "error"} => i = Len(u)
             /\ u[i] = "finished" => i > 1 /\ u[i - 1] = "usage"
             /\ u[i] = "usage" /\ i < Len(u) => u[i + 1] \in {"finished", "error"}
  <2>1. CASE i <= Len(s)
    <3>1. i \in 1 .. Len(s) /\ u[i] = s[i] /\ s[i] \notin {"finished", "error"}
      BY <1>1, <1>2, <2>1
    <3>2. CASE i < Len(s)
      <4>1. i + 1 \in 1 .. Len(s) /\ u[i + 1] = s[i + 1]
        BY <1>1, <3>2
      <4> QED BY <1>2, <3>1, <3>2, <4>1 DEF Ordered
    <3>3. CASE i = Len(s)
      BY <1>1, <1>2, <3>1, <3>3 DEF Events
    <3> QED BY <1>1, <2>1, <3>2, <3>3
  <2>2. CASE i = Len(s) + 1
    BY <1>1, <2>2 DEF EndsWith
  <2> QED BY <1>1, <2>1, <2>2
<1>4. EndsWith(u, event)
  BY <1>1 DEF EndsWith
<1> HIDE DEF u
<1>5. Ordered(u)
  BY <1>3 DEF Ordered
<1> QED BY <1>4, <1>5 DEF u

LEMMA OrderedPrefix ==
    ASSUME NEW s \in Seq(Events), NEW t \in Seq(Events), Ordered(s \o t)
    PROVE  Ordered(s)
<1>1. /\ Len(s) \in Nat /\ Len(t) \in Nat /\ Len(s \o t) = Len(s) + Len(t)
      /\ \A i \in 1 .. Len(s) : (s \o t)[i] = s[i]
  BY LenProperties, ConcatProperties
<1>2. ASSUME NEW i \in 1 .. Len(s)
      PROVE  /\ s[i] \in {"finished", "error"} => i = Len(s)
             /\ s[i] = "finished" => i > 1 /\ s[i - 1] = "usage"
             /\ s[i] = "usage" /\ i < Len(s) => s[i + 1] \in {"finished", "error"}
  <2>1. /\ i \in 1 .. Len(s \o t) /\ (s \o t)[i] = s[i]
        /\ i > 1 => i - 1 \in 1 .. Len(s)
        /\ i < Len(s) => i + 1 \in 1 .. Len(s)
    BY <1>1
  <2> QED BY <1>1, <2>1 DEF Ordered
<1> QED BY <1>2 DEF Ordered

-----------------------------------------------------------------------------
(* Steps *)

LEMMA SentIsSeq ==
    ASSUME IInv, NEW r \in Requests
    PROVE  Sent(r) \in Seq(Events) /\ channel[r] \in Seq(Events) /\ received[r] \in Seq(Events)
<1>1. channel[r] \in Seq(Events) /\ received[r] \in Seq(Events)
  BY DEF IInv, StreamOK
<1> QED BY <1>1, ConcatProperties DEF Sent

LEMMA NothingSent ==
    /\ <<>> \o <<>> = <<>> /\ Ordered(<<>>) /\ Deltas(<<>>) = 0
    /\ \A event : ~EndsWith(<<>>, event)
<1>1. <<>> \in Seq(Events) /\ Len(<<>>) = 0
  BY EmptySeq
<1>2. <<>> \o <<>> = <<>>
  BY <1>1, ConcatEmptySeq
<1>3. Ordered(<<>>) /\ \A event : ~EndsWith(<<>>, event)
  BY <1>1 DEF Ordered, EndsWith
<1>4. {i \in 1 .. Len(<<>>) : <<>>[i] = "delta"} = {}
  BY <1>1
<1>5. Deltas(<<>>) = 0
  BY <1>4, FS_EmptySet DEF Deltas
<1> QED BY <1>2, <1>3, <1>5

LEMMA InitSInv == Init => SInv
<1> SUFFICES ASSUME Init PROVE SInv
  OBVIOUS
<1>1. Limits
  <2>1. Len(<<>>) <= EventCapacity /\ 0 <= AdmittedCapacity
    BY EmptySeq, StreamConstantsOK
  <2>2. IsFiniteSet(admitted) /\ Cardinality(admitted) = 0
    BY FS_EmptySet DEF Init
  <2> QED BY <2>1, <2>2 DEF Init, Limits
<1>2. ASSUME NEW r \in Requests PROVE Delivery(r)
  <2>1. received[r] = <<>> /\ channel[r] = <<>> /\ reader[r] = "none" /\ pc[r] = "new"
        /\ sse[r] = FreshSse
    BY DEF Init
  <2> QED BY <2>1, NothingSent DEF Delivery, Closing, Budget, Idle, FreshSse, Sent
<1> QED BY <1>1, <1>2 DEF SInv

\* Another request's stream is not touched.
LEMMA OthersDeliver ==
    ASSUME SInv, NEW r \in Requests, NEW q \in Requests \ {r},
           pc'[q] = pc[q], sse'[q] = sse[q], channel'[q] = channel[q],
           received'[q] = received[q], reader'[q] = reader[q]
    PROVE  Delivery(q)'
  BY DEF SInv, Delivery, Closing, Budget, Sent

\* A permit is given back.
LEMMA PermitBack ==
    ASSUME Limits, NEW r \in Requests, admitted' = admitted \ {r},
           execution' = IF execution = r THEN Nobody ELSE execution,
           UNCHANGED <<stream, flags>>
    PROVE  Limits'
<1>1. IsFiniteSet(admitted') /\ Cardinality(admitted') <= Cardinality(admitted)
  BY FS_Subset DEF Limits
<1>2. Cardinality(admitted) \in Nat /\ Cardinality(admitted') \in Nat
  BY <1>1, FS_CardinalityType DEF Limits
<1> QED BY <1>1, <1>2, StreamConstantsOK DEF Limits, stream, flags

\* A step of r alone, which leaves the stream to its reader, before it sends the
\* closing events or when it fails.
LEMMA QuietStep ==
    ASSUME IInv, SInv, IInv', NEW r \in Requests, UNCHANGED stream, Limits',
           \A q \in Requests \ {r} : pc'[q] = pc[q] /\ sse'[q] = sse[q],
           pc[r] \notin Idle, pc'[r] \notin Idle,
           \/ /\ pc[r] \in {"queued", "prepare", "chunk", "lines"}
              /\ pc'[r] \in {"prepare", "chunk", "lines", "usage"}
              /\ sse[r].deltas <= sse'[r].deltas
           \/ /\ pc[r] = "lines" /\ pc'[r] = "delta" /\ sse'[r].deltas = sse[r].deltas + 1
           \/ pc[r] \notin {"return", "closed"} /\ pc'[r] = "report"
           \/ pc[r] = "return" /\ pc'[r] = "closed"
    PROVE  SInv'
<1>1. ASSUME NEW q \in Requests \ {r} PROVE Delivery(q)'
  BY <1>1, OthersDeliver DEF stream
<1>2. Delivery(r)'
  <2>1. UNCHANGED <<Sent(r), reader, channel, received>>
    BY DEF Sent, stream
  <2>2. Delivery(r)
    BY DEF SInv
  <2>3. Closing(r)'
    BY <2>1, <2>2 DEF Delivery, Closing
  <2>4. /\ Deltas(Sent(r)) \in Nat /\ sse[r].deltas \in Nat /\ sse'[r].deltas \in Nat
        /\ sse[r].deltas <= MaxTokens /\ MaxTokens \in Nat
    BY SentIsSeq, DeltasNat, StreamConstantsOK DEF IInv, LocalsOK, SseState
  <2>5. Budget(r)'
    <3>1. Deltas(Sent(r))' = Deltas(Sent(r))
      BY <2>1
    <3> QED BY <2>2, <2>4, <3>1 DEF Delivery, Budget
  <2> QED BY <2>1, <2>2, <2>3, <2>5 DEF Delivery
<1> QED BY <1>1, <1>2 DEF SInv

LEMMA FailSInv ==
    ASSUME IInv, SInv, IInv', NEW r \in Requests, Fail(r), UNCHANGED <<stream, flags>>,
           pc[r] \notin Idle \cup {"return", "closed"}
    PROVE  SInv'
<1>1. /\ pc'[r] = "report" /\ "report" \notin Idle
      /\ \A q \in Requests \ {r} : pc'[q] = pc[q] /\ sse'[q] = sse[q]
  BY DEF Fail, Goto, IInv, LocalsOK, Idle
<1>2. Limits'
  BY PermitBack DEF Fail, SInv
<1> QED BY <1>1, <1>2, QuietStep

LEMMA ConcludeSInv ==
    ASSUME IInv, SInv, IInv', NEW r \in Requests, NEW s \in SseState, Conclude(r, s),
           UNCHANGED <<stream, flags>>, pc[r] \in {"chunk", "lines"}, s.deltas = sse[r].deltas
    PROVE  SInv'
<1>1. CASE Complete(s)
  <2>1. /\ pc'[r] = "usage" /\ sse'[r] = s /\ UNCHANGED permits
        /\ \A q \in Requests \ {r} : pc'[q] = pc[q] /\ sse'[q] = sse[q]
    BY <1>1 DEF Conclude, Goto, IInv, LocalsOK
  <2>2. Limits'
    BY <2>1 DEF permits, stream, flags, SInv, Limits
  <2>3. s.deltas <= sse'[r].deltas
    BY <2>1 DEF SseState
  <2> QED BY <2>1, <2>2, <2>3, QuietStep DEF Idle
<1>2. CASE ~Complete(s)
  BY <1>2, FailSInv DEF Conclude, Idle
<1> QED BY <1>1, <1>2

-----------------------------------------------------------------------------
(* One lemma per group of actions *)

LEMMA AdmitSInv ==
    ASSUME IInv, SInv, IInv', NEW r \in Requests, GenerateRefused(r) \/ Generate(r)
    PROVE  SInv'
<1>1. /\ pc[r] = "new" /\ pc'[r] \in Places /\ UNCHANGED <<execution, sse, channel, received, flags>>
      /\ \A q \in Requests \ {r} : pc'[q] = pc[q] /\ reader'[q] = reader[q]
  BY DEF GenerateRefused, Generate, Goto, stream, permits, IInv, LocalsOK, SInv, Limits
<1>2. /\ received'[r] = <<>> /\ channel'[r] = <<>> /\ sse'[r].deltas \in Nat
      /\ reader[r] = "none"
  BY <1>1 DEF SInv, Delivery, Idle, IInv, LocalsOK, SseState
<1>3. \/ pc'[r] = "refused" /\ reader'[r] = "none"
      \/ pc'[r] = "queued" /\ reader'[r] = "open"
  <2>1. CASE GenerateRefused(r)
    BY <1>2, <2>1 DEF GenerateRefused, Goto, stream, IInv, LocalsOK
  <2>2. CASE Generate(r)
    BY <2>2 DEF Generate, Goto, IInv, LocalsOK, SInv, Limits
  <2> QED BY <2>1, <2>2
<1>4. Delivery(r)'
  <2>1. Sent(r)' = <<>>
    BY <1>2, NothingSent DEF Sent
  <2> QED BY <1>2, <1>3, <2>1, NothingSent DEF Delivery, Closing, Budget, Idle
<1>5. ASSUME NEW q \in Requests \ {r} PROVE Delivery(q)'
  BY <1>1, OthersDeliver
<1>6. Limits'
  <2>1. CASE GenerateRefused(r)
    BY <1>1, <2>1 DEF GenerateRefused, permits, stream, flags, SInv, Limits
  <2>2. CASE Generate(r)
    <3>1. IsFiniteSet(admitted') /\ Cardinality(admitted') <= AdmittedCapacity
      <4>1. /\ IsFiniteSet(admitted) /\ Cardinality(admitted) \in Nat
            /\ Cardinality(admitted) < AdmittedCapacity /\ admitted' = admitted \cup {r}
        BY <2>2, FS_CardinalityType DEF Generate, SInv, Limits
      <4> QED BY <4>1, FS_AddElement, StreamConstantsOK
    <3> QED BY <1>1, <2>2, <3>1 DEF Generate, flags, SInv, Limits
  <2> QED BY <2>1, <2>2
<1> QED BY <1>4, <1>5, <1>6 DEF SInv

LEMMA FailuresSInv ==
    ASSUME IInv, SInv, IInv', NEW r \in Requests,
           StopBranch(r) \/ RuntimeFails(r) \/ LineBad(r) \/ SendFails(r)
    PROVE  SInv'
<1>1. pc[r] \notin Idle \cup {"return", "closed"}
  BY DEF StopBranch, RuntimeFails, LineBad, SendFails, Selecting, Idle
<1> QED BY <1>1, FailSInv DEF StopBranch, RuntimeFails, LineBad, SendFails

LEMMA ProgressSInv ==
    ASSUME IInv, SInv, IInv', NEW r \in Requests,
           AcquireExecution(r) \/ PostAccepted(r) \/ NextChunk(r) \/ LineDone(r) \/ Return(r)
    PROVE  SInv'
<1>1. UNCHANGED <<stream, flags>>
  BY DEF AcquireExecution, PostAccepted, NextChunk, LineDone, Return
<1>2. Limits'
  <2>1. CASE Return(r)
    BY <1>1, <2>1, PermitBack DEF Return, SInv
  <2>2. CASE ~Return(r)
    BY <1>1, <2>2 DEF AcquireExecution, PostAccepted, NextChunk, LineDone, permits, stream, flags,
                      SInv, Limits
  <2> QED BY <2>1, <2>2
<1>3. sse[r].deltas \in Nat
  BY DEF IInv, LocalsOK, SseState
<1>4. \A q \in Requests \ {r} : pc'[q] = pc[q] /\ sse'[q] = sse[q]
  BY DEF AcquireExecution, PostAccepted, NextChunk, LineDone, Return, Goto, IInv, LocalsOK
<1>5. CASE AcquireExecution(r) \/ PostAccepted(r)
  <2>1. /\ pc[r] \in {"queued", "prepare"} /\ pc'[r] \in {"prepare", "chunk"}
        /\ sse'[r].deltas = sse[r].deltas
    BY <1>5 DEF AcquireExecution, PostAccepted, Goto, IInv, LocalsOK
  <2> QED BY <1>1, <1>2, <1>3, <1>4, <2>1, QuietStep DEF Idle
<1>6. CASE NextChunk(r) \/ LineDone(r)
  <2>1. /\ pc[r] \in {"chunk", "lines"} /\ pc'[r] = "lines"
        /\ sse'[r].deltas = sse[r].deltas
    BY <1>6 DEF NextChunk, LineDone, Goto, IInv, LocalsOK, SseState
  <2> QED BY <1>1, <1>2, <1>3, <1>4, <2>1, QuietStep DEF Idle
<1>7. CASE Return(r)
  <2>1. pc[r] = "return" /\ pc'[r] = "closed"
    BY <1>7 DEF Return, Goto, IInv, LocalsOK
  <2> QED BY <1>1, <1>2, <1>4, <2>1, QuietStep DEF Idle
<1> QED BY <1>5, <1>6, <1>7

LEMMA LinesSInv ==
    ASSUME IInv, SInv, IInv', NEW r \in Requests,
           EndOfBody(r) \/ LineData(r) \/ EndOfChunk(r)
    PROVE  SInv'
<1>1. /\ sse[r] \in SseState /\ sse[r].deltas \in Nat /\ UNCHANGED <<stream, flags>>
      /\ pc[r] \in {"chunk", "lines"}
  <2>1. sse[r] \in SseState
    BY DEF IInv, LocalsOK
  <2>2. UNCHANGED <<stream, flags>> /\ pc[r] \in {"chunk", "lines"}
    BY DEF EndOfBody, LineData, EndOfChunk
  <2> QED BY <2>1, <2>2 DEF SseState
<1>2. CASE EndOfBody(r)
  BY <1>1, <1>2, ConcludeSInv DEF EndOfBody
<1>3. CASE LineData(r)
  <2>1. PICK usage, finish, delta \in BOOLEAN :
            IF delta /\ sse[r].deltas = MaxTokens
            THEN Fail(r)
            ELSE /\ sse' = [sse EXCEPT ![r].usage = @ \/ usage,
                                       ![r].finish = @ \/ finish,
                                       ![r].deltas = IF delta THEN @ + 1 ELSE @]
                 /\ Goto(r, IF delta THEN "delta" ELSE "lines")
                 /\ UNCHANGED permits
    BY <1>3 DEF LineData
  <2>2. CASE delta /\ sse[r].deltas = MaxTokens
    BY <1>1, <2>1, <2>2, FailSInv DEF Idle
  <2>3. CASE ~(delta /\ sse[r].deltas = MaxTokens)
    <3>1. /\ pc'[r] = IF delta THEN "delta" ELSE "lines"
          /\ sse'[r].deltas = IF delta THEN sse[r].deltas + 1 ELSE sse[r].deltas
          /\ \A q \in Requests \ {r} : pc'[q] = pc[q] /\ sse'[q] = sse[q]
      BY <2>1, <2>3 DEF Goto, IInv, LocalsOK, SseState
    <3>2. Limits'
      BY <1>1, <2>1, <2>3 DEF permits, stream, flags, SInv, Limits
    <3>3. pc[r] = "lines"
      BY <1>3 DEF LineData
    <3> QED BY <1>1, <3>1, <3>2, <3>3, QuietStep DEF Idle
  <2> QED BY <2>2, <2>3
<1>4. CASE EndOfChunk(r)
  <2>1. PICK partial \in BOOLEAN :
            LET s == [sse[r] EXCEPT !.partial = partial]
            IN  IF s.done THEN Conclude(r, s)
                ELSE Goto(r, "chunk") /\ sse' = [sse EXCEPT ![r] = s] /\ UNCHANGED permits
    BY <1>4 DEF EndOfChunk
  <2> DEFINE s == [sse[r] EXCEPT !.partial = partial]
  <2>2. s \in SseState /\ s.deltas = sse[r].deltas
    BY <1>1 DEF SseState
  <2>3. \/ Conclude(r, s)
        \/ Goto(r, "chunk") /\ sse' = [sse EXCEPT ![r] = s] /\ UNCHANGED permits
    BY <2>1
  <2> HIDE DEF s
  <2>4. CASE Conclude(r, s)
    BY <1>1, <2>2, <2>4, ConcludeSInv
  <2>5. CASE Goto(r, "chunk") /\ sse' = [sse EXCEPT ![r] = s] /\ UNCHANGED permits
    <3>1. /\ pc'[r] = "chunk" /\ sse'[r] = s
          /\ \A q \in Requests \ {r} : pc'[q] = pc[q] /\ sse'[q] = sse[q]
      BY <2>5 DEF Goto, IInv, LocalsOK
    <3>2. Limits'
      BY <1>1, <2>5 DEF permits, stream, flags, SInv, Limits
    <3> QED BY <1>1, <1>4, <2>2, <3>1, <3>2, QuietStep DEF EndOfChunk, Idle
  <2> QED BY <2>3, <2>4, <2>5
<1> QED BY <1>2, <1>3, <1>4

\* An event enters the channel.
LEMMA SendSInv ==
    ASSUME IInv, SInv, IInv', NEW r \in Requests, NEW event \in Events,
           UNCHANGED <<permits, sse, reader, received, flags>>,
           channel' = [channel EXCEPT ![r] = Append(@, event)],
           reader[r] = "open", Len(channel[r]) < EventCapacity,
           \A q \in Requests \ {r} : pc'[q] = pc[q],
           \/ event = pc[r] /\ event # "error" /\ pc'[r] = AfterSend(event)
           \/ event = "error" /\ pc[r] = "report" /\ pc'[r] = "closed"
    PROVE  SInv'
<1> DEFINE s == Sent(r)
<1>1. /\ s \in Seq(Events) /\ channel[r] \in Seq(Events) /\ received[r] \in Seq(Events)
      /\ channel'[r] = Append(channel[r], event)
  BY SentIsSeq DEF IInv, StreamOK
<1>2. Sent(r)' = Append(s, event)
  <2>1. Sent(r)' = received[r] \o Append(channel[r], event)
    BY <1>1 DEF Sent
  <2>2. received[r] \o Append(channel[r], event) = Append(received[r] \o channel[r], event)
    BY <1>1, AppendLast
  <2> QED BY <2>1, <2>2 DEF Sent
<1>3. Delivery(r) /\ Ordered(s) /\ Closing(r) /\ Budget(r)
  BY DEF SInv, Delivery
<1>4. /\ ~EndsWith(s, "finished") /\ ~EndsWith(s, "error")
      /\ event = "finished" => EndsWith(s, "usage")
      /\ event \in {"delta", "usage"} => ~EndsWith(s, "usage")
  <2>1. /\ EndsWith(s, "usage") => pc[r] \in {"finished", "report"}
        /\ EndsWith(s, "finished") => pc[r] \in {"return", "closed"}
        /\ EndsWith(s, "error") => pc[r] = "closed"
        /\ pc[r] = "finished" => EndsWith(s, "usage")
    BY <1>3 DEF Closing
  <2>2. pc[r] \notin {"return", "closed"} /\ (pc[r] = event \/ (pc[r] = "report" /\ event = "error"))
    BY DEF Events
  <2> HIDE DEF s
  <2> QED BY <2>1, <2>2
<1>5. Ordered(Append(s, event)) /\ EndsWith(Append(s, event), event)
  <2> HIDE DEF s
  <2> QED BY <1>1, <1>3, <1>4, OrderedAppend
<1>6. \A other : EndsWith(Append(s, event), other) => other = event
  BY <1>5 DEF EndsWith
<1>7. /\ event = "delta" => pc'[r] = "lines"
      /\ event = "usage" => pc'[r] = "finished"
      /\ event = "finished" => pc'[r] = "return"
      /\ event = "error" => pc'[r] = "closed"
      /\ pc[r] \in {"delta", "usage", "finished", "report"} /\ (pc[r] = "delta" <=> event = "delta")
  BY DEF AfterSend, Events
<1>8. Closing(r)'
  BY <1>2, <1>5, <1>6, <1>7 DEF Closing, Events
<1>9. Budget(r)'
  <2>1. /\ Deltas(s) \in Nat
        /\ Deltas(Sent(r))' = Deltas(s) + IF event = "delta" THEN 1 ELSE 0
    <3> HIDE DEF s
    <3> QED BY <1>1, <1>2, DeltasNat, DeltasAppend
  <2>2. sse[r].deltas \in Nat /\ MaxTokens \in Nat /\ sse[r].deltas <= MaxTokens /\ sse'[r] = sse[r]
    BY StreamConstantsOK DEF IInv, LocalsOK, SseState
  <2> QED BY <1>3, <1>7, <2>1, <2>2 DEF Budget, Events
<1>10. Delivery(r)'
  BY <1>2, <1>3, <1>5, <1>7, <1>8, <1>9 DEF Delivery, Idle, Events
<1>11. ASSUME NEW q \in Requests \ {r} PROVE Delivery(q)'
  BY <1>11, OthersDeliver DEF IInv, StreamOK
<1>12. Limits'
  <2>1. Len(channel'[r]) <= EventCapacity
    BY <1>1, StreamConstantsOK, AppendProperties, LenProperties
  <2>2. \A q \in Requests \ {r} : channel'[q] = channel[q]
    BY DEF IInv, StreamOK
  <2> QED BY <2>1, <2>2 DEF permits, flags, SInv, Limits
<1> QED BY <1>10, <1>11, <1>12 DEF SInv

LEMMA SendEventSInv ==
    ASSUME IInv, SInv, IInv', NEW r \in Requests, SendEvent(r)
    PROVE  SInv'
<1>1. /\ pc[r] \in Events /\ pc[r] # "error" /\ pc'[r] = AfterSend(pc[r])
      /\ \A q \in Requests \ {r} : pc'[q] = pc[q]
  BY DEF SendEvent, Goto, IInv, LocalsOK, Events
<1> QED BY <1>1, SendSInv DEF SendEvent

LEMMA ReportSInv ==
    ASSUME IInv, SInv, IInv', NEW r \in Requests, Report(r)
    PROVE  SInv'
<1>1. pc[r] = "report" /\ pc'[r] = "closed" /\ \A q \in Requests \ {r} : pc'[q] = pc[q]
  BY DEF Report, Goto, IInv, LocalsOK
<1>2. CASE reader[r] = "open"
  BY <1>1, <1>2, SendSInv DEF Report, Events
<1>3. CASE reader[r] # "open"
  <2>1. UNCHANGED <<permits, sse, stream, flags>>
    BY <1>3 DEF Report, stream
  <2>2. Limits'
    BY <2>1 DEF permits, stream, flags, SInv, Limits
  <2>3. ASSUME NEW q \in Requests \ {r} PROVE Delivery(q)'
    BY <1>1, <2>1, OthersDeliver DEF stream
  <2>4. Delivery(r)'
    BY <1>1, <1>3, <2>1 DEF stream, Sent, SInv, Delivery, Closing, Budget, Idle
  <2> QED BY <2>2, <2>3, <2>4 DEF SInv
<1> QED BY <1>2, <1>3

LEMMA ReaderSInv ==
    ASSUME IInv, SInv, IInv', NEW r \in Requests, Read(r) \/ DropStream(r)
    PROVE  SInv'
<1>1. /\ UNCHANGED <<pc, permits, sse, shutdown>> /\ reader[r] = "open"
      /\ \A q \in Requests \ {r} : /\ channel'[q] = channel[q] /\ received'[q] = received[q]
                                   /\ reader'[q] = reader[q]
  <2>1. UNCHANGED <<pc, permits, sse, shutdown>> /\ reader[r] = "open"
    BY DEF Read, Recv, RecvNone, DropStream, flags
  <2>2. ASSUME NEW q \in Requests \ {r}
        PROVE  channel'[q] = channel[q] /\ received'[q] = received[q] /\ reader'[q] = reader[q]
    BY DEF Read, Recv, RecvNone, DropStream, IInv, StreamOK, SInv, Limits
  <2> QED BY <2>1, <2>2
<1>2. ASSUME NEW q \in Requests \ {r} PROVE Delivery(q)'
  BY <1>1, OthersDeliver
<1>3. /\ Sent(r) \in Seq(Events) /\ channel[r] \in Seq(Events) /\ received[r] \in Seq(Events)
      /\ channel'[r] \in Seq(Events) /\ Delivery(r)
  BY SentIsSeq DEF IInv, StreamOK, SInv
<1>4. CASE Recv(r)
  <2>1. /\ channel[r] # <<>> /\ reader' = reader /\ stopped' = stopped
        /\ channel'[r] = Tail(channel[r])
        /\ received'[r] = Append(received[r], Head(channel[r]))
    BY <1>4 DEF Recv, flags, IInv, StreamOK
  <2>2. Sent(r)' = Sent(r)
    BY <1>3, <2>1, MoveFirst DEF Sent
  <2>3. Delivery(r)'
    BY <1>1, <1>3, <2>1, <2>2 DEF Delivery, Closing, Budget
  <2>4. Limits'
    <3>1. Len(channel'[r]) <= Len(channel[r]) /\ Len(channel[r]) \in Nat
          /\ Len(channel'[r]) \in Nat
      BY <1>3, <2>1, HeadTailProperties, LenProperties
    <3>2. Len(channel'[r]) <= EventCapacity
      BY <3>1, StreamConstantsOK DEF SInv, Limits
    <3> QED BY <1>1, <2>1, <3>2 DEF permits, SInv, Limits
  <2> QED BY <1>2, <2>3, <2>4 DEF SInv
<1>5. CASE RecvNone(r) \/ DropStream(r)
  <2>1. /\ received'[r] = received[r] /\ channel'[r] = <<>>
        /\ reader'[r] \in {"ended", "dropped"} /\ reader[r] # "none"
        /\ stopped' \in [Requests -> BOOLEAN]
        /\ reader' \in [Requests -> {"none", "open", "ended", "dropped"}]
    BY <1>5 DEF RecvNone, DropStream, IInv, StreamOK, SInv, Limits, flags
  <2>2. Sent(r)' = received[r]
    BY <1>3, <2>1, ConcatEmptySeq DEF Sent
  <2>3. Ordered(received[r]) /\ Deltas(received[r]) <= Deltas(Sent(r))
    BY <1>3, OrderedPrefix, DeltasPrefix DEF Sent, Delivery
  <2>4. Budget(r)'
    <3>1. Deltas(Sent(r))' = Deltas(received[r])
      BY <2>2
    <3>2. /\ Deltas(received[r]) \in Nat /\ Deltas(Sent(r)) \in Nat
          /\ sse[r].deltas \in Nat /\ MaxTokens \in Nat
      BY <1>3, DeltasNat, StreamConstantsOK DEF IInv, LocalsOK, SseState
    <3> QED BY <1>1, <1>3, <2>3, <3>1, <3>2 DEF Delivery, Budget
  <2>5. Delivery(r)'
    BY <1>1, <1>3, <2>1, <2>2, <2>3, <2>4 DEF Delivery, Closing
  <2>6. Limits'
    <3>1. Len(channel'[r]) <= EventCapacity
      BY <2>1, EmptySeq, StreamConstantsOK
    <3> QED BY <1>1, <2>1, <3>1 DEF permits, SInv, Limits
  <2> QED BY <1>2, <2>5, <2>6 DEF SInv
<1> QED BY <1>4, <1>5 DEF Read

LEMMA StepSInv ==
    ASSUME IInv, SInv, IInv', [Next]_vars
    PROVE  SInv'
<1>1. CASE UNCHANGED <<pc, permits, sse, stream>> /\ Limits'
  BY <1>1 DEF permits, stream, SInv, Delivery, Closing, Budget, Sent
<1>2. CASE Shutdown \/ UNCHANGED vars
  <2>1. UNCHANGED <<pc, permits, sse, stream>> /\ Limits'
    BY <1>2 DEF Shutdown, vars, permits, stream, SInv, Limits
  <2> QED BY <1>1, <2>1
<1>3. ASSUME NEW r \in Requests, Produce(r) PROVE SInv'
  BY <1>3, FailuresSInv, ProgressSInv, LinesSInv, SendEventSInv, ReportSInv DEF Produce
<1>4. ASSUME NEW r \in Requests, Answer(r) PROVE SInv'
  BY <1>4, FailuresSInv, ProgressSInv, LinesSInv DEF Answer
<1>5. ASSUME NEW r \in Requests, GenerateRefused(r) \/ Generate(r) PROVE SInv'
  BY <1>5, AdmitSInv
<1>6. ASSUME NEW r \in Requests, Stop(r) PROVE SInv'
  <2>1. UNCHANGED <<pc, permits, sse, stream>> /\ Limits'
    BY <1>6 DEF Stop, permits, stream, SInv, Limits
  <2> QED BY <1>1, <2>1
<1>7. ASSUME NEW r \in Requests, Read(r) \/ DropStream(r) PROVE SInv'
  BY <1>7, ReaderSInv
<1> QED BY <1>2, <1>3, <1>4, <1>5, <1>6, <1>7 DEF Next

LEMMA Invariance == Spec => [](IInv /\ SInv)
<1>1. Init => IInv /\ SInv
  BY InitIInv, InitSInv
<1>2. (IInv /\ SInv) /\ [Next]_vars => (IInv /\ SInv)'
  BY StepIInv, StepSInv
<1> QED BY <1>1, <1>2, PTL DEF Spec

\* Types, and the limits: no more admitted than the capacity, no channel beyond
\* its own.
THEOREM TypeCorrect == Spec => []TypeOK
<1>1. IInv /\ SInv => TypeOK
  BY DEF IInv, LocalsOK, StreamOK, Places, SInv, Limits, TypeOK
<1> QED BY <1>1, Invariance, PTL

-----------------------------------------------------------------------------
(* generate() keeps EventStream's promise *)

\* What the phase says, where nothing has ended the stream yet.
LEMMA OpenPhase ==
    ASSUME IInv, SInv, NEW r \in Requests, reader[r] = "open", channel[r] # <<>>
    PROVE  /\ pc[r] \notin Idle
           /\ ~Contains(received[r], "error") /\ ~Contains(received[r], "finished")
           /\ Phase(r) = IF EndsWith(received[r], "usage") THEN "usage" ELSE "open"
           /\ Head(channel[r]) = "finished" => EndsWith(received[r], "usage")
           /\ Head(channel[r]) \in {"delta", "usage"} => ~EndsWith(received[r], "usage")
<1> DEFINE s == Sent(r)
           n == Len(received[r])
<1>1. /\ received[r] \in Seq(Events) /\ channel[r] \in Seq(Events) /\ s \in Seq(Events)
      /\ pc[r] \notin Idle /\ Ordered(s)
  BY SentIsSeq DEF SInv, Delivery
<1>2. Len(channel[r]) \in Nat \ {0} /\ n \in Nat /\ Head(channel[r]) = channel[r][1]
  BY <1>1, EmptySeq, LenProperties
<1>3. /\ Len(s) = n + Len(channel[r])
      /\ \A i \in 1 .. n : s[i] = received[r][i]
      /\ s[n + 1] = Head(channel[r])
  <2>1. /\ Len(s) = n + Len(channel[r])
        /\ \A i \in 1 .. n + Len(channel[r]) :
              s[i] = IF i <= n THEN received[r][i] ELSE channel[r][i - n]
    BY <1>1, ConcatProperties DEF Sent
  <2> HIDE DEF s, n
  <2>2. n + 1 \in 1 .. n + Len(channel[r]) /\ (n + 1) - n = 1 /\ ~(n + 1 <= n)
    BY <1>2
  <2> QED BY <1>2, <2>1, <2>2
<1>4. n # 0 <=> received[r] # <<>>
  BY <1>1, EmptySeq
<1> HIDE DEF s, n
<1>5. ASSUME NEW i \in 1 .. n
      PROVE  /\ s[i] \notin {"finished", "error"}
             /\ s[i] = "usage" => i = n /\ s[i + 1] \in {"finished", "error"}
  <2>1. i \in 1 .. Len(s) /\ i < Len(s) /\ i + 1 \in 1 .. Len(s)
    BY <1>2, <1>3
  <2>2. s[i] \notin {"finished", "error"}
    BY <1>1, <2>1 DEF Ordered
  <2>3. s[i] = "usage" => s[i + 1] \in {"finished", "error"} /\ i + 1 = Len(s)
    BY <1>1, <2>1 DEF Ordered
  <2> QED BY <1>2, <1>3, <2>2, <2>3
<1>6. ASSUME NEW i \in 1 .. n
      PROVE  /\ received[r][i] \notin {"finished", "error"}
             /\ received[r][i] = "usage" => i = n
  BY <1>3, <1>5
<1>7. EndsWith(received[r], "usage") <=> n # 0 /\ s[n] = "usage"
  <2>1. EndsWith(received[r], "usage") <=> n # 0 /\ received[r][n] = "usage"
    BY <1>4 DEF EndsWith, n
  <2>2. n # 0 => s[n] = received[r][n]
    BY <1>2, <1>3
  <2> QED BY <2>1, <2>2
<1>8. /\ ~Contains(received[r], "error") /\ ~Contains(received[r], "finished")
      /\ Contains(received[r], "usage") <=> EndsWith(received[r], "usage")
  <2>1. \A event : Contains(received[r], event) <=> \E i \in 1 .. n : received[r][i] = event
    BY DEF Contains, n
  <2>2. n # 0 => n \in 1 .. n /\ s[n] = received[r][n]
    BY <1>2, <1>3
  <2>3. \A i \in 1 .. n : n # 0
    BY <1>2
  <2>4. ~Contains(received[r], "error") /\ ~Contains(received[r], "finished")
    BY <1>6, <2>1
  <2>5. Contains(received[r], "usage") <=> EndsWith(received[r], "usage")
    BY <1>6, <1>7, <2>1, <2>2, <2>3
  <2> QED BY <2>4, <2>5
<1>9. Phase(r) = IF EndsWith(received[r], "usage") THEN "usage" ELSE "open"
  BY <1>1, <1>8 DEF Phase, Idle
<1>10. Head(channel[r]) = "finished" => EndsWith(received[r], "usage")
  <2> SUFFICES ASSUME s[n + 1] = "finished" PROVE n # 0 /\ s[n] = "usage"
    BY <1>3, <1>7
  <2>1. n + 1 \in 1 .. Len(s) /\ (n + 1) - 1 = n
    BY <1>2, <1>3
  <2> QED BY <1>1, <1>2, <2>1 DEF Ordered
<1>11. Head(channel[r]) \in {"delta", "usage"} => ~EndsWith(received[r], "usage")
  BY <1>2, <1>3, <1>5, <1>7
<1> QED BY <1>1, <1>8, <1>9, <1>10, <1>11

\* What a reader has been handed tells it how a stream ended.
LEMMA EndedPhase ==
    ASSUME IInv, SInv, NEW r \in Requests, reader[r] = "open", channel[r] = <<>>, pc[r] = "closed"
    PROVE  Contains(received[r], "finished") \/ Contains(received[r], "error")
<1>1. Sent(r) = received[r] /\ received[r] \in Seq(Events)
  BY SentIsSeq, ConcatEmptySeq DEF Sent
<1>2. EndsWith(received[r], "finished") \/ EndsWith(received[r], "error")
  BY <1>1 DEF SInv, Delivery, Closing
<1>3. received[r] # <<>> => Len(received[r]) \in 1 .. Len(received[r])
  BY <1>1, EmptySeq
<1> QED BY <1>2, <1>3 DEF EndsWith, Contains

LEMMA ContainsAppend ==
    ASSUME NEW s \in Seq(Events), NEW event \in Events, NEW other
    PROVE  Contains(Append(s, event), other) <=> Contains(s, other) \/ other = event
<1>1. /\ Len(s) \in Nat /\ Len(Append(s, event)) = Len(s) + 1
      /\ \A i \in 1 .. Len(s) : Append(s, event)[i] = s[i]
      /\ Append(s, event)[Len(s) + 1] = event
  BY LenProperties, AppendProperties
<1>2. CASE Contains(s, other)
  BY <1>1, <1>2 DEF Contains
<1>3. CASE other = event
  <2>1. Len(s) + 1 \in 1 .. Len(Append(s, event))
    BY <1>1
  <2> QED BY <1>1, <1>3, <2>1 DEF Contains
<1>4. CASE Contains(Append(s, event), other)
  BY <1>1, <1>4 DEF Contains
<1> QED BY <1>2, <1>3, <1>4

\* The cases of Phase, before and after a step.
PhaseCases(r) ==
    /\ pc[r] \in Idle => Phase(r) = "idle"
    /\ pc[r] \notin Idle /\ Contains(received[r], "error") => Phase(r) = "failed"
    /\ pc[r] \notin Idle /\ ~Contains(received[r], "error") =>
          /\ Contains(received[r], "finished") => Phase(r) = "finished"
          /\ ~Contains(received[r], "finished") =>
                /\ reader[r] = "dropped" => Phase(r) = "left"
                /\ reader[r] = "open" =>
                      Phase(r) = IF Contains(received[r], "usage") THEN "usage" ELSE "open"

LEMMA PhaseTable == \A r \in Requests : PhaseCases(r) /\ PhaseCases(r)'
<1>1. \A r \in Requests : PhaseCases(r)
  BY DEF PhaseCases, Phase, Idle
<1>2. \A r \in Requests : PhaseCases(r)'
  BY DEF PhaseCases, Phase, Idle
<1> QED BY <1>1, <1>2

\* The state of EventStream that a state of this module stands for.
phases == [r \in Requests |-> Phase(r)]
counts == [r \in Requests |-> Deltas(received[r])]

\* The phase and the count of a stream change only with what its reader sees.
LEMMA PhaseStays ==
    ASSUME NEW r \in Requests, received'[r] = received[r], reader'[r] = reader[r],
           pc'[r] \in Idle <=> pc[r] \in Idle
    PROVE  Phase(r)' = Phase(r) /\ Deltas(received[r])' = Deltas(received[r])
  BY DEF Phase, Idle

LEMMA QuietRefines ==
    ASSUME IInv, SInv, UNCHANGED <<reader, received>>,
           \A r \in Requests : pc'[r] \in Idle <=> pc[r] \in Idle
    PROVE  UNCHANGED Promise!vars
  BY PhaseStays DEF Promise!vars

\* A step of r alone.
LEMMA OneStream ==
    ASSUME NEW r \in Requests,
           \A q \in Requests \ {r} : received'[q] = received[q] /\ reader'[q] = reader[q]
                                     /\ pc'[q] = pc[q]
    PROVE  /\ phases' = [phases EXCEPT ![r] = Phase(r)']
           /\ counts' = [counts EXCEPT ![r] = Deltas(received[r])']
<1>1. ASSUME NEW q \in Requests \ {r}
      PROVE  Phase(q)' = Phase(q) /\ Deltas(received[q])' = Deltas(received[q])
  BY <1>1, PhaseStays
<1> QED BY <1>1 DEF phases, counts

LEMMA GenerateRefines ==
    ASSUME IInv, SInv, NEW r \in Requests, Generate(r)
    PROVE  Promise!Next
<1>1. /\ pc[r] = "new" /\ pc'[r] = "queued" /\ reader'[r] = "open" /\ received' = received
      /\ \A q \in Requests \ {r} : reader'[q] = reader[q] /\ pc'[q] = pc[q]
  BY DEF Generate, Goto, IInv, LocalsOK, SInv, Limits
<1>2. received[r] = <<>>
  BY <1>1 DEF SInv, Delivery, Idle
<1>3. \A event : ~Contains(received[r], event)
  BY <1>2, EmptySeq DEF Contains
<1>4. Phase(r) = "idle" /\ Phase(r)' = "open" /\ Deltas(received[r])' = Deltas(received[r])
  BY <1>1, <1>3, PhaseTable DEF PhaseCases, Idle
<1>5. phases' = [phases EXCEPT ![r] = "open"] /\ counts' = counts
  BY <1>1, <1>4, OneStream DEF counts
<1>6. Promise!Open(r)
  BY <1>4, <1>5 DEF Promise!Open, phases, counts
<1> QED BY <1>6 DEF Promise!Next

LEMMA RecvRefines ==
    ASSUME IInv, SInv, IInv', SInv', NEW r \in Requests, Recv(r)
    PROVE  Promise!Next
<1> DEFINE event == Head(channel[r])
<1>1. /\ reader[r] = "open" /\ channel[r] # <<>> /\ UNCHANGED <<pc, reader>>
      /\ received'[r] = Append(received[r], event)
      /\ \A q \in Requests \ {r} : received'[q] = received[q]
  BY DEF Recv, IInv, StreamOK
<1>2. /\ received[r] \in Seq(Events) /\ event \in Events
      /\ received'[r] \in Seq(Events) /\ channel'[r] \in Seq(Events)
  BY <1>1, SentIsSeq, HeadTailProperties DEF IInv, StreamOK
<1>3. /\ phases' = [phases EXCEPT ![r] = Phase(r)']
      /\ counts' = [counts EXCEPT ![r] = Deltas(received[r])']
  BY <1>1, OneStream
<1>4. /\ pc[r] \notin Idle
      /\ ~Contains(received[r], "error") /\ ~Contains(received[r], "finished")
      /\ Phase(r) = IF EndsWith(received[r], "usage") THEN "usage" ELSE "open"
      /\ event = "finished" => Phase(r) = "usage"
      /\ event \in {"delta", "usage"} => Phase(r) = "open"
  BY <1>1, OpenPhase
<1>5. \A other : Contains(received[r], other)' <=> Contains(received[r], other) \/ other = event
  BY <1>1, <1>2, ContainsAppend
<1>6. /\ Deltas(received[r])' = Deltas(received[r]) + IF event = "delta" THEN 1 ELSE 0
      /\ Deltas(received[r]) \in Nat
  BY <1>1, <1>2, DeltasAppend, DeltasNat
<1>7. Deltas(received[r])' <= MaxTokens
  <2>1. Deltas(received'[r]) <= Deltas(received'[r] \o channel'[r])
    BY <1>2, DeltasPrefix
  <2>2. Deltas(received'[r] \o channel'[r]) <= MaxTokens
    <3>1. /\ sse'[r].deltas \in 0 .. MaxTokens /\ MaxTokens \in Nat /\ Budget(r)'
          /\ Deltas(received'[r] \o channel'[r]) \in Nat
      BY <1>2, ConcatProperties, DeltasNat, StreamConstantsOK
      DEF IInv, LocalsOK, SseState, SInv, Delivery
    <3> QED BY <3>1 DEF Budget, Sent
  <2>3. Deltas(received'[r]) \in Nat /\ Deltas(received'[r] \o channel'[r]) \in Nat
        /\ MaxTokens \in Nat
    BY <1>2, ConcatProperties, DeltasNat, StreamConstantsOK
  <2> QED BY <2>1, <2>2, <2>3
<1> HIDE DEF event
<1>8. CASE event = "delta"
  <2>1. Phase(r)' = "open" /\ Phase(r) = "open"
    BY <1>1, <1>4, <1>5, <1>8, PhaseTable DEF PhaseCases
  <2>2. Deltas(received[r])' = Deltas(received[r]) + 1 /\ Deltas(received[r]) < MaxTokens
    BY <1>6, <1>7, <1>8, StreamConstantsOK
  <2>3. Promise!Delta(r)
    BY <1>3, <2>1, <2>2 DEF Promise!Delta, phases, counts
  <2> QED BY <2>3 DEF Promise!Next
<1>9. CASE event # "delta"
  <2>1. counts' = counts
    <3>1. Deltas(received[r])' = Deltas(received[r])
      BY <1>6, <1>9
    <3> QED BY <1>3, <3>1 DEF counts
  <2>2. CASE event = "usage"
    <3>1. Phase(r) = "open" /\ Phase(r)' = "usage"
      BY <1>1, <1>4, <1>5, <2>2, PhaseTable DEF PhaseCases
    <3>2. Promise!Usage(r)
      BY <1>3, <2>1, <3>1 DEF Promise!Usage, phases, counts
    <3> QED BY <3>2 DEF Promise!Next
  <2>3. CASE event = "finished"
    <3>1. Phase(r) = "usage" /\ Phase(r)' = "finished"
      BY <1>1, <1>4, <1>5, <2>3, PhaseTable DEF PhaseCases
    <3>2. Promise!Finished(r)
      BY <1>3, <2>1, <3>1 DEF Promise!Finished, phases, counts
    <3> QED BY <3>2 DEF Promise!Next
  <2>4. CASE event = "error"
    <3>1. Phase(r) \in {"open", "usage"} /\ Phase(r)' = "failed"
      BY <1>1, <1>4, <1>5, <2>4, PhaseTable DEF PhaseCases
    <3>2. Promise!Error(r)
      BY <1>3, <2>1, <3>1 DEF Promise!Error, phases, counts
    <3> QED BY <3>2 DEF Promise!Next
  <2> QED BY <1>2, <1>9, <2>2, <2>3, <2>4 DEF Events, event
<1> QED BY <1>8, <1>9

LEMMA EndRefines ==
    ASSUME IInv, SInv, NEW r \in Requests, RecvNone(r) \/ DropStream(r)
    PROVE  [Promise!Next]_(Promise!vars)
<1>1. /\ reader[r] = "open" /\ UNCHANGED <<pc, received>> /\ reader'[r] \in {"ended", "dropped"}
      /\ RecvNone(r) => reader'[r] = "ended" /\ channel[r] = <<>> /\ pc[r] = "closed"
      /\ DropStream(r) => reader'[r] = "dropped"
      /\ \A q \in Requests \ {r} : reader'[q] = reader[q]
  BY DEF RecvNone, DropStream, SInv, Limits
<1>2. pc[r] \notin Idle
  BY <1>1 DEF SInv, Delivery
<1>3. /\ phases' = [phases EXCEPT ![r] = Phase(r)']
      /\ counts' = [counts EXCEPT ![r] = Deltas(received[r])']
  BY <1>1, OneStream
<1>4. counts' = counts
  BY <1>1, <1>3 DEF counts
<1>5. CASE Contains(received[r], "error") \/ Contains(received[r], "finished")
  <2>1. Phase(r)' = Phase(r)
    BY <1>1, <1>2, <1>5, PhaseTable DEF PhaseCases
  <2>2. phases' = phases
    BY <1>3, <2>1 DEF phases
  <2> QED BY <1>4, <2>2 DEF Promise!vars, phases, counts
<1>6. CASE ~Contains(received[r], "error") /\ ~Contains(received[r], "finished")
  <2>1. reader'[r] = "dropped"
    BY <1>1, <1>6, EndedPhase
  <2>2. Phase(r) \in {"open", "usage"} /\ Phase(r)' = "left"
    BY <1>1, <1>2, <1>6, <2>1, PhaseTable DEF PhaseCases
  <2>3. Promise!WalkAway(r)
    BY <1>3, <1>4, <2>2 DEF Promise!WalkAway, phases, counts
  <2> QED BY <2>3 DEF Promise!Next
<1> QED BY <1>5, <1>6

LEMMA StepRefines ==
    ASSUME IInv, SInv, IInv', SInv', [Next]_vars
    PROVE  [Promise!Next]_(Promise!vars)
<1>1. ASSUME NEW r \in Requests, Produce(r) \/ Answer(r) \/ Stop(r) \/ GenerateRefused(r)
      PROVE  UNCHANGED Promise!vars
  <2>1. UNCHANGED <<reader, received>>
    BY <1>1 DEF Produce, Answer, Stop, GenerateRefused, StopBranch, AcquireExecution, EndOfChunk,
                SendEvent, SendFails, Return, Report, PostAccepted, RuntimeFails, NextChunk,
                EndOfBody, LineDone, LineData, LineBad, stream
  <2>2. \A q \in Requests : pc'[q] \in Idle <=> pc[q] \in Idle
    <3>1. ASSUME NEW q \in Requests, ~GenerateRefused(r) PROVE pc'[q] \in Idle <=> pc[q] \in Idle
      BY <2>1 DEF SInv, Delivery
    <3>2. CASE GenerateRefused(r)
      BY <3>2 DEF GenerateRefused, Goto, IInv, LocalsOK, Idle
    <3> QED BY <3>1, <3>2
  <2> QED BY <2>1, <2>2, QuietRefines
<1>2. CASE Shutdown \/ UNCHANGED vars
  BY <1>2, QuietRefines DEF Shutdown, vars, stream
<1> QED BY <1>1, <1>2, GenerateRefines, RecvRefines, EndRefines DEF Next, Read

LEMMA InitRefines == Init => Promise!Init
<1> SUFFICES ASSUME Init PROVE Promise!Init
  OBVIOUS
<1>1. ASSUME NEW r \in Requests PROVE Phase(r) = "idle" /\ Deltas(received[r]) = 0
  BY NothingSent, PhaseTable DEF Init, PhaseCases, Idle
<1> QED BY <1>1 DEF Promise!Init

\* Whatever the sidecar answers, the reader does and the stops interrupt, every
\* reader is handed deltas within max_tokens, usage, finished; or one error in
\* place of the rest; never silence, and nothing after the end.
THEOREM EventOrderHolds == Spec => EventOrder
<1>1. (IInv /\ SInv) /\ (IInv /\ SInv)' /\ [Next]_vars => [Promise!Next]_(Promise!vars)
  BY StepRefines
<1> QED BY <1>1, Invariance, InitRefines, PTL DEF Spec, EventOrder, Promise!Spec
=============================================================================
