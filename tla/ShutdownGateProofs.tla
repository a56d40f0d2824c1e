-------------------------- MODULE ShutdownGateProofs --------------------------
(***************************************************************************)
(* Safety of the shutdown gate for any number of operations, drain() and   *)
(* stop_now() calls.                                                       *)
(*                                                                         *)
(* The argument: the counter is the number of live guards, so the step     *)
(* that sees it reach zero sees the last operation leave; a call between   *)
(* its two blocks remembers that the first one made the phase terminal     *)
(* (PendingInv), which is what lets it cancel the token with the mutex     *)
(* free; and nobody is between two blocks when the gate is dropped         *)
(* (OwnerInv).  The same bookkeeping shows that nobody waits in vain: from *)
(* the step that makes the phase terminal on, some call is about to cancel *)
(* the token (PublisherInv).                                               *)
(***************************************************************************)
EXTENDS ShutdownGate, FiniteSetTheorems, TLAPS

(* A terminal graceful phase is reached with no live guard. *)
PhaseInv == phase = "graceful" => active = 0

(* What a call knows between its block under the mutex and the next step. *)
PendingInv ==
    /\ \A w \in Workers : worker[w] = "signal" => phase = "graceful"
    /\ \A d \in Drainers :
         /\ drainer[d] = "signal" => phase = "graceful"
         /\ drainer[d] \in {"wait", "force", "drop"} => phase # "accepting"
         /\ drainer[d] \in {"forceSignal", "dropSignal"} => phase \in Terminal
    /\ \A s \in Stoppers : stopper[s] = "signal" => phase \in Terminal

(* The last owner goes only when no guard and no call holds the gate. *)
OwnerInv ==
    ~owner => /\ Inside = {}
              /\ \A d \in Drainers : drainer[d] \in {"idle", "done", "dropped"}

GateInv ==
    /\ TypeOK
    /\ ActiveCount
    /\ PhaseInv
    /\ GracefulMeansDone
    /\ StopImpliesTerminal
    /\ PendingInv
    /\ OwnerInv

(* The live guards form a finite set; the counter is zero iff it is empty. *)
LEMMA InsideFinite ==
    /\ IsFiniteSet(Inside)
    /\ Cardinality(Inside) = 0 <=> Inside = {}
<1>1. Inside \in SUBSET Workers
  BY DEF Inside
<1>2. IsFiniteSet(Inside)
  BY <1>1, GateConstantsOK, FS_Subset
<1> QED BY <1>2, FS_EmptySet

(* An operation that enters is one more live guard. *)
LEMMA Entering ==
    ASSUME TypeOK, ActiveCount, NEW w \in Workers, worker[w] = "out",
           active' = active + 1, worker' = [worker EXCEPT ![w] = "in"]
    PROVE  ActiveCount'
<1>1. Inside' = Inside \cup {w} /\ w \notin Inside
  BY DEF Inside, TypeOK
<1>2. Cardinality(Inside \cup {w}) = Cardinality(Inside) + 1
  BY <1>1, InsideFinite, FS_AddElement
<1> QED BY <1>1, <1>2 DEF ActiveCount

(* An operation that leaves was counted, and is one live guard less. *)
LEMMA Leaving ==
    ASSUME TypeOK, ActiveCount, NEW w \in Workers, worker[w] = "in",
           active' = active - 1,
           NEW next \in {"signal", "left"}, worker' = [worker EXCEPT ![w] = next]
    PROVE  ActiveCount' /\ active' \in Nat /\ active > 0
<1>1. Inside' = Inside \ {w} /\ w \in Inside
  BY DEF Inside, TypeOK
<1>2. Cardinality(Inside \ {w}) = Cardinality(Inside) - 1
  BY <1>1, InsideFinite, FS_RemoveElement
<1>3. active # 0
  BY <1>1, InsideFinite DEF ActiveCount
<1> QED BY <1>1, <1>2, <1>3 DEF ActiveCount, TypeOK

(* A step that leaves the counter alone and moves nobody in or out. *)
LEMMA SameInside ==
    ASSUME ActiveCount, UNCHANGED active, Inside' = Inside
    PROVE  ActiveCount'
BY DEF ActiveCount

LEMMA Initial == Init => GateInv
<1> SUFFICES ASSUME Init PROVE GateInv
  OBVIOUS
<1>1. Inside = {}
  BY DEF Init, Inside
<1>2. ActiveCount
  BY <1>1, FS_EmptySet DEF ActiveCount, Init
<1> QED BY <1>1, <1>2 DEF Init, GateInv, TypeOK, PhaseInv, GracefulMeansDone,
       StopImpliesTerminal, PendingInv, OwnerInv, Terminal

(* Every step keeps the inductive invariant. *)
LEMMA Inductive == GateInv /\ [Next]_vars => GateInv'
<1> SUFFICES ASSUME GateInv, [Next]_vars PROVE GateInv'
  OBVIOUS
<1>a. TypeOK /\ ActiveCount
  BY DEF GateInv
<1>b. active = 0 <=> Inside = {}
  BY <1>a, InsideFinite DEF ActiveCount
<1> USE DEF Terminal
<1>1. ASSUME NEW w \in Workers, TryEnter(w) PROVE GateInv'
  <2>1. CASE phase = "accepting"
    <3>1. ActiveCount'
      BY <1>1, <1>a, <2>1, Entering DEF TryEnter
    <3>2. Inside' \subseteq Inside \cup {w}
      BY <1>1, <1>a DEF TryEnter, Inside, TypeOK
    <3>3. TypeOK'
      BY <1>1, <2>1, <1>a DEF TryEnter, TypeOK
    <3> QED
      BY <1>1, <2>1, <3>1, <3>2, <3>3 DEF TryEnter, GateInv, TypeOK, PhaseInv,
         GracefulMeansDone, StopImpliesTerminal, PendingInv, OwnerInv
  <2>2. CASE phase # "accepting"
    <3>1. Inside' = Inside
      BY <1>1, <1>a, <2>2 DEF TryEnter, Inside, TypeOK
    <3>2. ActiveCount'
      BY <1>1, <1>a, <2>2, <3>1, SameInside DEF TryEnter
    <3> QED
      BY <1>1, <2>2, <3>1, <3>2 DEF TryEnter, GateInv, TypeOK, PhaseInv,
         GracefulMeansDone, StopImpliesTerminal, PendingInv, OwnerInv
  <2> QED BY <2>1, <2>2
<1>2. ASSUME NEW w \in Workers, GuardDrop(w) PROVE GateInv'
  <2>1. PICK next \in {"signal", "left"} :
            /\ worker' = [worker EXCEPT ![w] = next]
            /\ next = "signal" => phase = "draining" /\ phase' = "graceful" /\ active' = 0
            /\ next = "left" => phase' = phase
    BY <1>2 DEF GuardDrop
  <2>2. ActiveCount' /\ active' \in Nat /\ active > 0
    BY <1>2, <1>a, <2>1, Leaving DEF GuardDrop
  <2>3. phase # "graceful"
    BY <2>2 DEF GateInv, PhaseInv
  <2>4. /\ owner /\ Inside' \subseteq Inside
        /\ active' = active - 1
        /\ UNCHANGED <<stopped, owner, drainer, outcome, stopper>>
    BY <1>2, <1>a, <2>1 DEF GuardDrop, GateInv, OwnerInv, Inside, TypeOK
  <2>5. TypeOK'
    BY <1>a, <2>1, <2>2, <2>4 DEF TypeOK
  <2>6. \A d \in Drainers : outcome[d] # "graceful"
    BY <2>3 DEF GateInv, GracefulMeansDone
  <2>7. PhaseInv' /\ GracefulMeansDone' /\ StopImpliesTerminal' /\ OwnerInv'
    BY <2>1, <2>3, <2>4, <2>6 DEF GateInv, PhaseInv, GracefulMeansDone,
       StopImpliesTerminal, OwnerInv
  <2>8. PendingInv'
    BY <1>a, <2>1, <2>3, <2>4 DEF GateInv, PendingInv, TypeOK
  <2> QED BY <2>2, <2>5, <2>7, <2>8 DEF GateInv
<1>3. ASSUME NEW w \in Workers, GuardSignal(w) PROVE GateInv'
  <2>1. Inside' = Inside
    BY <1>3, <1>a DEF GuardSignal, Inside, TypeOK
  <2>2. ActiveCount'
    BY <1>3, <1>a, <2>1, SameInside DEF GuardSignal
  <2> QED
    BY <1>3, <2>1, <2>2 DEF GuardSignal, GateInv, TypeOK, PhaseInv,
       GracefulMeansDone, StopImpliesTerminal, PendingInv, OwnerInv
<1>4. CASE UNCHANGED <<active, worker>> /\ Next
  <2>1. Inside' = Inside
    BY <1>4 DEF Inside
  <2>2. ActiveCount'
    BY <1>4, <1>a, <2>1, SameInside
  <2> USE DEF GateInv, TypeOK, PhaseInv, GracefulMeansDone, StopImpliesTerminal,
         PendingInv, OwnerInv
  <2>3. ASSUME NEW d \in Drainers, BeginDrain(d) PROVE GateInv'
    BY <1>4, <1>b, <2>1, <2>2, <2>3 DEF BeginDrain
  <2>4. ASSUME NEW d \in Drainers, DrainSignal(d) PROVE GateInv'
    BY <1>4, <1>b, <2>1, <2>2, <2>4 DEF DrainSignal
  <2>5. ASSUME NEW d \in Drainers, DrainStopped(d) PROVE GateInv'
    BY <1>4, <1>b, <2>1, <2>2, <2>5 DEF DrainStopped
  <2>6. ASSUME NEW d \in Drainers, DrainTimesOut(d) PROVE GateInv'
    BY <1>4, <2>1, <2>2, <2>6 DEF DrainTimesOut
  <2>7. ASSUME NEW d \in Drainers, DrainDropped(d) PROVE GateInv'
    BY <1>4, <2>1, <2>2, <2>7 DEF DrainDropped
  <2>8. ASSUME NEW d \in Drainers, DrainForce(d) PROVE GateInv'
    BY <1>4, <2>1, <2>2, <2>8 DEF DrainForce, StopNow
  <2>9. ASSUME NEW d \in Drainers, DrainForceSignal(d) PROVE GateInv'
    BY <1>4, <2>1, <2>2, <2>9 DEF DrainForceSignal
  <2>10. ASSUME NEW s \in Stoppers, StopperForce(s) PROVE GateInv'
    BY <1>4, <2>1, <2>2, <2>10 DEF StopperForce, StopNow
  <2>11. ASSUME NEW s \in Stoppers, StopperSignal(s) PROVE GateInv'
    BY <1>4, <2>1, <2>2, <2>11 DEF StopperSignal
  <2>12. CASE OwnerDropped
    BY <1>4, <2>1, <2>2, <2>12 DEF OwnerDropped, Inside
  <2> QED
    BY <1>1, <1>2, <1>3, <1>4, <2>3, <2>4, <2>5, <2>6, <2>7, <2>8, <2>9, <2>10,
       <2>11, <2>12 DEF Next, WorkerStep, DrainerStep
<1>5. CASE UNCHANGED vars
  <2>1. Inside' = Inside
    BY <1>5 DEF vars, Inside
  <2> QED
    BY <1>5, <2>1 DEF vars, GateInv, TypeOK, ActiveCount, PhaseInv,
       GracefulMeansDone, StopImpliesTerminal, PendingInv, OwnerInv
<1>6. ASSUME Next, ~UNCHANGED <<active, worker>>
      PROVE  \E w \in Workers : TryEnter(w) \/ GuardDrop(w) \/ GuardSignal(w)
  BY <1>6 DEF Next, WorkerStep, DrainerStep, BeginDrain, DrainTimesOut, DrainDropped,
     DrainSignal, DrainStopped, DrainForce, DrainForceSignal, StopperForce,
     StopperSignal, OwnerDropped
<1> QED BY <1>1, <1>2, <1>3, <1>4, <1>5, <1>6

(* The inductive invariant holds in every reachable state. *)
THEOREM Invariant == Spec => []GateInv
BY Initial, Inductive, PTL DEF Spec

(* The gate's state is well typed: the counter never goes below zero. *)
THEOREM TypeCorrect == Spec => []TypeOK
<1>1. GateInv => TypeOK
  BY DEF GateInv
<1> QED BY Invariant, <1>1, PTL

(* State.active is the number of live WorkGuards, however many there are. *)
THEOREM GuardsAreCounted == Spec => []ActiveCount
<1>1. GateInv => ActiveCount
  BY DEF GateInv
<1> QED BY Invariant, <1>1, PTL

(* A drain() that reported Graceful leaves no admitted operation behind. *)
THEOREM GracefulIsTrue == Spec => []GracefulMeansDone
<1>1. GateInv => GracefulMeansDone
  BY DEF GateInv
<1> QED BY Invariant, <1>1, PTL

(* The stop token is cancelled only after the phase became terminal, or with
   the gate gone, although the two are separate steps. *)
THEOREM StopFollowsPhase == Spec => []StopImpliesTerminal
<1>1. GateInv => StopImpliesTerminal
  BY DEF GateInv
<1> QED BY Invariant, <1>1, PTL

(* Phase and admission go one way: the first terminal outcome is kept by every
   later drain(), stop_now() and guard, and draining admits nobody. *)
THEOREM GateIsOneWay == Spec => OneWay
<1> DEFINE Step ==
      /\ phase \in Terminal => phase' = phase
      /\ phase # "accepting" => phase' # "accepting" /\ Inside' \subseteq Inside
<1>1. GateInv /\ [Next]_vars => [Step]_vars
  <2> SUFFICES ASSUME GateInv, Next PROVE Step
    OBVIOUS
  <2> USE DEF Terminal, GateInv, TypeOK, Inside
  <2>1. ASSUME NEW w \in Workers, TryEnter(w) \/ WorkerStep(w) PROVE Step
    BY <2>1 DEF TryEnter, WorkerStep, GuardDrop, GuardSignal
  <2>2. ASSUME NEW d \in Drainers,
               BeginDrain(d) \/ DrainTimesOut(d) \/ DrainDropped(d) \/ DrainerStep(d)
        PROVE  Step
    BY <2>2 DEF BeginDrain, DrainTimesOut, DrainDropped, DrainerStep, DrainSignal,
       DrainStopped, DrainForce, DrainForceSignal, StopNow
  <2>3. ASSUME NEW s \in Stoppers, StopperForce(s) \/ StopperSignal(s) PROVE Step
    BY <2>3 DEF StopperForce, StopperSignal, StopNow
  <2>4. CASE OwnerDropped
    BY <2>4 DEF OwnerDropped
  <2> QED BY <2>1, <2>2, <2>3, <2>4 DEF Next
<1> QED BY Invariant, <1>1, PTL DEF Spec, OneWay

-----------------------------------------------------------------------------
(* No lost wake-up: the safety half of TerminalIsPublished and DrainReturns. *)

(* Some call made the phase terminal and cancels the token in its next step. *)
Publishing ==
    \/ \E w \in Workers : worker[w] = "signal"
    \/ \E d \in Drainers : drainer[d] \in {"signal", "forceSignal", "dropSignal"}
    \/ \E s \in Stoppers : stopper[s] = "signal"

(* A terminal phase is published or about to be, and a gate that is still
   draining has a guard left to complete it. *)
PublisherInv ==
    /\ phase \in Terminal => stopped \/ Publishing
    /\ phase = "draining" => active > 0

(* Whoever makes the phase terminal becomes a publisher in the same step, and
   a publisher stays one until it has cancelled the token. *)
LEMMA PublisherStep == GateInv /\ PublisherInv /\ [Next]_vars => PublisherInv'
<1> SUFFICES ASSUME GateInv, PublisherInv, [Next]_vars PROVE PublisherInv'
  OBVIOUS
<1>a. TypeOK
  BY DEF GateInv
<1> USE <1>a DEF Terminal, TypeOK, PublisherInv, Publishing
<1>1. ASSUME NEW w \in Workers, TryEnter(w) PROVE PublisherInv'
  BY <1>1 DEF TryEnter
<1>2. ASSUME NEW w \in Workers, GuardDrop(w) PROVE PublisherInv'
  <2>1. active > 0
    <3>1. Inside # {}
      BY <1>2 DEF GuardDrop, Inside
    <3>2. active # 0
      BY <3>1, InsideFinite DEF GateInv, ActiveCount
    <3> QED BY <3>2
  <2>2. CASE active' = 0 /\ phase = "draining"
    <3>1. worker'[w] = "signal" /\ phase' = "graceful"
      BY <1>2, <2>2 DEF GuardDrop
    <3> QED BY <3>1
  <2>3. CASE ~(active' = 0 /\ phase = "draining")
    BY <1>2, <2>1, <2>3 DEF GuardDrop
  <2> QED BY <2>2, <2>3
<1>3. ASSUME NEW w \in Workers, GuardSignal(w) PROVE PublisherInv'
  BY <1>3 DEF GuardSignal
<1>4. ASSUME NEW d \in Drainers, BeginDrain(d) PROVE PublisherInv'
  BY <1>4 DEF BeginDrain
<1>5. ASSUME NEW d \in Drainers, DrainerStep(d) PROVE PublisherInv'
  <2>1. CASE DrainForce(d)
    <3>1. drainer'[d] \in {"forceSignal", "dropSignal"} /\ phase' \in Terminal
      BY <2>1 DEF DrainForce, StopNow
    <3> QED BY <2>1, <3>1 DEF DrainForce
  <2>2. CASE DrainSignal(d) \/ DrainForceSignal(d)
    BY <2>2 DEF DrainSignal, DrainForceSignal
  <2>3. CASE DrainStopped(d)
    BY <2>3 DEF DrainStopped
  <2> QED BY <1>5, <2>1, <2>2, <2>3 DEF DrainerStep
<1>6. ASSUME NEW d \in Drainers, DrainTimesOut(d) \/ DrainDropped(d)
      PROVE  PublisherInv'
  BY <1>6 DEF DrainTimesOut, DrainDropped
<1>7. ASSUME NEW s \in Stoppers, StopperForce(s) PROVE PublisherInv'
  <2>1. stopper'[s] = "signal" /\ phase' \in Terminal
    BY <1>7 DEF StopperForce, StopNow
  <2> QED BY <2>1
<1>8. ASSUME NEW s \in Stoppers, StopperSignal(s) PROVE PublisherInv'
  BY <1>8 DEF StopperSignal
<1>9. CASE OwnerDropped
  BY <1>9 DEF OwnerDropped
<1>10. CASE UNCHANGED vars
  BY <1>10 DEF vars
<1> QED BY <1>1, <1>2, <1>3, <1>4, <1>5, <1>6, <1>7, <1>8, <1>9, <1>10
     DEF Next, WorkerStep

(* Between the block that makes the phase terminal and the cancellation of the
   token, somebody is always on the way to cancel it. *)
THEOREM TerminalHasPublisher == Spec => []PublisherInv
<1>1. Init => PublisherInv
  BY DEF Init, PublisherInv, Terminal
<1> QED BY Invariant, PublisherStep, <1>1, PTL DEF Spec

(* A drain() that waits for the token never waits in vain: it is cancelled, a
   call is about to cancel it, or an admitted operation is left whose guard
   completes the gate. *)
THEOREM NobodyIsStranded ==
    Spec => [](\A d \in Drainers :
                  drainer[d] = "wait" => stopped \/ Publishing \/ Inside # {})
<1> DEFINE Awaited == \A d \in Drainers :
                        drainer[d] = "wait" => stopped \/ Publishing \/ Inside # {}
<1>1. GateInv /\ PublisherInv => Awaited
  <2> SUFFICES ASSUME GateInv, PublisherInv,
                      NEW d \in Drainers, drainer[d] = "wait", Inside = {}
               PROVE  stopped \/ Publishing
    OBVIOUS
  <2>1. active = 0
    BY InsideFinite DEF GateInv, ActiveCount
  <2>2. phase \in Terminal
    BY <2>1 DEF GateInv, TypeOK, PendingInv, PublisherInv
  <2> QED BY <2>2 DEF PublisherInv
<1> QED BY Invariant, TerminalHasPublisher, <1>1, PTL
=============================================================================
