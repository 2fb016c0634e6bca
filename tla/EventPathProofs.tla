--------------------------- MODULE EventPathProofs ---------------------------
(***************************************************************************)
(* Proofs about the event path (EventPath.tla), for every value of its     *)
(* constants: types (TypeCorrect), that two triages of one identity start  *)
(* a cooldown apart (CooldownKept), that a window is let go only once its  *)
(* releaser has caught up (LetGoCaughtUp), and that no alert is lost       *)
(* (LosesNothing).                                                         *)
(***************************************************************************)
EXTENDS EventPath, SequenceTheorems, FiniteSetTheorems, WellFoundedInduction, TLAPS

\* Of finitely many windows some one ends last.
LEMMA LatestExists ==
  ASSUME NEW W \in SUBSET Windows, W # {}, calendar \in [Windows -> Nat]
  PROVE  LatestEnding(W) \in W
<1> DEFINE After(w) == {v \in W : Later(v, w)}
<1>1. IsFiniteSet(W)
  BY EventPathAssumption, FS_Subset DEF EventPathAssumption
<1>2. \A w \in W : IsFiniteSet(After(w)) /\ Cardinality(After(w)) \in Nat
  BY <1>1, FS_Subset, FS_CardinalityType
<1>3. \A v, w \in W : v # w => Later(v, w) \/ Later(w, v)
  BY EventPathAssumption DEF EventPathAssumption, Later
<1>4. \A u, v, w \in W : Later(u, v) /\ Later(v, w) => Later(u, w)
  BY EventPathAssumption DEF EventPathAssumption, Later
<1>5. \A w \in W : ~Later(w, w)
  BY EventPathAssumption DEF EventPathAssumption, Later
<1>6. PICK w \in W : \A v \in W : ~(Cardinality(After(v)) < Cardinality(After(w)))
  <2> DEFINE N == {Cardinality(After(w)) : w \in W}
  <2>1. N \subseteq Nat /\ N # {}
    BY <1>2
  <2>2. \E n \in N : \A m \in N : ~(m < n)
    <3>1. PICK n \in N : \A m \in N : <<m, n>> \notin OpToRel(<, Nat)
      BY <2>1, NatLessThanWellFounded, WFMin
    <3> QED
      BY <2>1, <3>1 DEF OpToRel
  <2> QED
    BY <2>2
<1>7. After(w) = {}
  <2> SUFFICES ASSUME NEW v \in After(w) PROVE FALSE
    OBVIOUS
  <2>1. After(v) \subseteq After(w) /\ v \notin After(v)
    BY <1>4, <1>5
  <2>2. Cardinality(After(v)) < Cardinality(After(w))
    BY <1>2, <2>1, FS_Subset
  <2> QED
    BY <1>6, <2>2
<1>8. \A v \in W \ {w} : Later(w, v)
  BY <1>3, <1>7
<1> QED
  BY <1>8 DEF LatestEnding

-----------------------------------------------------------------------------
(* Typing *)

\* Sequences as the tasks use them.
LEMMA AppendIs ==
  ASSUME NEW S, NEW s \in Seq(S), NEW e \in S
  PROVE  /\ Append(s, e) \in Seq(S) /\ Len(s) \in Nat /\ Len(Append(s, e)) = Len(s) + 1
         /\ \A k \in 1..Len(s) : Append(s, e)[k] = s[k] /\ s[k] \in S
         /\ Append(s, e)[Len(s) + 1] = e
  BY AppendProperties, LenProperties, ElementOfSeq

LEMMA TailIs ==
  ASSUME NEW S, NEW s \in Seq(S), s # << >>
  PROVE  /\ Tail(s) \in Seq(S) /\ Len(s) \in Nat \ {0} /\ Len(Tail(s)) = Len(s) - 1
         /\ Head(s) = s[1] /\ s[1] \in S
         /\ \A k \in 1..Len(s) - 1 : Tail(s)[k] = s[k + 1]
  BY HeadTailProperties, LenProperties, ElementOfSeq, EmptySeq

LEMMA RestIs ==
  ASSUME NEW S, NEW s \in Seq(S), NEW n \in 1..Len(s)
  PROVE  LET t == SubSeq(s, n + 1, Len(s)) IN
         /\ t \in Seq(S) /\ Len(s) \in Nat /\ Len(t) = Len(s) - n
         /\ \A k \in 1..Len(s) - n : t[k] = s[k + n]
<1>1. Len(s) \in Nat /\ \A k \in 1..Len(s) : s[k] \in S
  BY LenProperties, ElementOfSeq
<1>2. n + 1 \in 1..Len(s) + 1 /\ Len(s) \in n..Len(s)
  BY <1>1
<1> QED
  BY <1>1, <1>2, SubSeqProperties

LEMMA ItemsType ==
  /\ NoItem \in Item
  /\ \A o \in Offset : Marker(o) \in Item
  /\ clock \in Nat =>
       \A S \in SUBSET Ident, o \in Offset, w \in Windows \cup {NoWindow} : Turn(S, o, w) \in Item
  BY EventPathAssumption DEF EventPathAssumption, NoItem, Marker, Turn, Item, Offset, NoOffset,
     Instant, NoWindow, Never

LEMMA ReachType ==
  /\ \A t \in Instant : Reach(t) \in Nat /\ t < Reach(t)
  /\ \A s, t \in Int : s <= t => Reach(s) <= Reach(t)
  /\ \A s, t \in Int : t - s < Cooldown => t < Reach(s)
  BY EventPathAssumption DEF EventPathAssumption, Reach, Instant, Never

\* Charging a fault only ever adds to the counts.
LEMMA ChargeType ==
  ASSUME NEW kinds, Charge(kinds), faults \in [FaultKind -> Nat]
  PROVE  /\ faults' \in [FaultKind -> Nat]
         /\ \A k \in FaultKind : faults'[k] >= faults[k]
         /\ \A k \in kinds \cap FaultKind : faults'[k] >= 1
  BY DEF Charge

LEMMA CheckpointType ==
  ASSUME TypeOK, NEW o \in Offset, WriteCheckpoint(o)
  PROVE  checkpoint' \in Offset /\ faults' \in [FaultKind -> Nat]
<1>1. CASE Charge({"checkpoint"}) /\ UNCHANGED checkpoint
  BY <1>1, ChargeType DEF TypeOK
<1>2. CASE checkpoint' \in {checkpoint, o} /\ UNCHANGED faults
  BY <1>2 DEF TypeOK
<1> QED
  BY <1>1, <1>2 DEF WriteCheckpoint

IntakeState == [cursor : Offset \cup {ReplayAll}, pos : Offset, backlog : Offset,
                subscribed : BOOLEAN, keepalive : BOOLEAN, first : Nat]

LEMMA StartedType == \A c \in Offset : clock \in Nat => Started(c) \in IntakeState
  BY EventPathAssumption DEF EventPathAssumption, Started, IntakeState, Offset

LEMMA InitType == Init => TypeOK
<1> SUFFICES ASSUME Init PROVE TypeOK
  OBVIOUS
<1>1. intake \in IntakeState
  BY StartedType, EventPathAssumption DEF Init, EventPathAssumption, Offset, NoOffset
<1>2. core \in [phase : {"idle", "triaging", "recorded"}, turn : Item]
  BY ItemsType DEF Init, Idle
<1>3. Len(topic) <= MaxEvents /\ topic \in Seq(Event) /\ arrived \in Seq(1..MaxEvents) /\ queue \in Seq(Item)
  BY EventPathAssumption, EmptySeq DEF Init, EventPathAssumption
<1>4. broken \in [events : SUBSET (1..MaxEvents), until : [Ident -> Nat],
                  early : SUBSET (1..MaxEvents)]
  BY DEF Init
<1>5. /\ calendar \in [Windows -> Nat] /\ lastTriaged \in [Ident -> Instant]
      /\ inFlight \in [Windows -> SUBSET Ident]
      /\ recorded \in [Ident -> [at : Instant, armed : Instant]]
      /\ frozenEnd \in [Windows -> Instant] /\ faults \in [FaultKind -> Nat]
  BY EventPathAssumption DEF Init, EventPathAssumption, NoRecord, Instant
<1>6. clock \in Nat /\ checkpoint \in Offset
  BY EventPathAssumption DEF Init, EventPathAssumption, Offset, NoOffset
<1> QED
  BY <1>1, <1>2, <1>3, <1>4, <1>5, <1>6 DEF Init, TypeOK, IntakeState

\* The world and intake.
LEMMA TypeOutside ==
  ASSUME TypeOK, World \/ Intake \/ Transport
  PROVE  TypeOK'
<1> USE EventPathAssumption DEF EventPathAssumption
<1>1. ASSUME NEW A \in Ident, NEW resolved \in Resolved, Publish(A, resolved) PROVE TypeOK'
  <2>1. [ident |-> A, resolved |-> resolved, at |-> clock] \in Event
    BY DEF Event, TypeOK
  <2>2. topic' \in Seq(Event) /\ Len(topic') <= MaxEvents
    BY <1>1, <2>1, AppendIs DEF Publish, TypeOK
  <2> QED
    BY <1>1, <2>2 DEF TypeOK, Publish, process, durable, history
<1>2. ASSUME NEW w \in Windows, Delay(w) PROVE TypeOK'
  <2>1. calendar' \in [Windows -> Nat]
    BY <1>2 DEF Delay, TypeOK
  <2> QED
    BY <1>2, <2>1 DEF TypeOK, Delay, process, durable, history
<1>3. CASE Advance
  BY <1>3 DEF TypeOK, Advance, process, durable, history
<1>4. CASE Subscribe
  <2>1. Len(topic) \in Nat /\ Len(topic) \in Offset
    BY LenProperties DEF TypeOK, Offset
  <2>2. ReplayFrom \in Offset
    BY <2>1 DEF ReplayFrom, TypeOK, Offset, ReplayAll, NoOffset
  <2>3. intake' \in IntakeState
    BY <1>4, <2>1, <2>2 DEF Subscribe, IntakeState, TypeOK
  <2>4. skipped' \subseteq 1..MaxEvents
    BY <1>4, <2>1 DEF Subscribe, TypeOK, Position, Offset
  <2> QED
    BY <1>4, <2>3, <2>4 DEF TypeOK, Subscribe, world, durable, IntakeState
<1>5. CASE Receive
  <2>1. Len(topic) \in Nat /\ intake.pos + 1 \in 1..MaxEvents
    BY <1>5, LenProperties DEF TypeOK, Offset, Receive
  <2>2. intake' \in IntakeState
    <3>1. intake \in IntakeState /\ intake.pos + 1 \in Offset
      BY <2>1 DEF TypeOK, IntakeState, Offset
    <3> QED
      BY <1>5, <3>1 DEF Receive, IntakeState
  <2>3. arrived' \in Seq(1..MaxEvents)
    BY <1>5, <2>1, AppendIs DEF TypeOK, Receive
  <2> QED
    BY <1>5, <2>2, <2>3 DEF TypeOK, Receive, world, durable, history, IntakeState
<1>6. CASE Keepalive \/ Lose \/ RejectSince
  <2>1. intake' \in IntakeState
    <3>1. intake \in IntakeState
      BY SMTT(30) DEF TypeOK, IntakeState
    <3>2. CASE Keepalive
      BY <3>1, <3>2 DEF Keepalive, IntakeState
    <3>3. CASE Lose
      BY <3>1, <3>3 DEF Lose, IntakeState
    <3>4. CASE RejectSince
      BY <3>1, <3>4 DEF RejectSince, IntakeState
    <3> QED
      BY <1>6, <3>2, <3>3, <3>4
  <2>2. faults' \in [FaultKind -> Nat]
    BY <1>6, ChargeType DEF Keepalive, Lose, RejectSince, TypeOK, history
  <2>3. /\ UNCHANGED <<world, durable, arrived, lastTriaged, inFlight, queue, core, blocked>>
        /\ UNCHANGED <<skipped, broken>>
    BY <1>6 DEF Keepalive, Lose, RejectSince, history
  <2> QED
    BY <2>1, <2>2, <2>3 DEF TypeOK, world, durable, IntakeState
<1> QED
  BY <1>1, <1>2, <1>3, <1>4, <1>5, <1>6 DEF World, Intake, Transport

\* What a dispatch, or a release, hands to the pipeline.
LEMMA SubmitType ==
  ASSUME TypeOK, NEW S \in SUBSET Ident, NEW o \in Offset, NEW u \in BOOLEAN, Submit(S, o, u)
  PROVE  lastTriaged' \in [Ident -> Instant] /\ queue' \in Seq(Item)
<1> DEFINE triage == S \ Cooled(S)
<1>1. lastTriaged' \in [Ident -> Instant]
  <2>1. lastTriaged' = [A \in Ident |-> IF A \in triage THEN clock ELSE lastTriaged[A]]
    BY DEF Submit, Armed
  <2> QED
    BY <2>1 DEF TypeOK, Instant
<1>2. Turn(triage, o, NoWindow) \in Item /\ Marker(o) \in Item
  BY ItemsType DEF TypeOK
<1>3. queue' \in {queue, Append(queue, Turn(triage, o, NoWindow)), Append(queue, Marker(o))}
  BY DEF Submit
<1>4. queue' \in Seq(Item)
  <2>1. queue \in Seq(Item)
    BY DEF TypeOK
  <2>2. \A e \in Item : Append(queue, e) \in Seq(Item)
    BY <2>1, AppendIs
  <2> QED
    BY <1>2, <1>3, <2>1, <2>2
<1> QED
  BY <1>1, <1>4

LEMMA HoldType ==
  ASSUME TypeOK, NEW B \in SUBSET (1..MaxEvents), NEW usable \in BOOLEAN,
         NEW failed \in SUBSET B, Hold(NewlyHeld(B, usable, failed), usable)
  PROVE  /\ held' \subseteq (1..MaxEvents) \X Windows
         /\ frozenEnd' \in [Windows -> Instant]
<1>1. \A i \in NewlyHeld(B, usable, failed) :
        /\ i \in B
        /\ LatestEnding(OpenFor(i, usable)) \in OpenFor(i, usable)
        /\ OpenFor(i, usable) \subseteq Windows
  <2> TAKE i \in NewlyHeld(B, usable, failed)
  <2>1. i \in B /\ OpenFor(i, usable) # {}
    BY DEF NewlyHeld
  <2>2. OpenFor(i, usable) \in SUBSET Windows
    BY DEF OpenFor, ActiveAt
  <2>3. LatestEnding(OpenFor(i, usable)) \in OpenFor(i, usable)
    BY <2>1, <2>2, LatestExists DEF TypeOK
  <2> QED
    BY <2>1, <2>2, <2>3
<1>2. held' \subseteq (1..MaxEvents) \X Windows
  <2>1. \A i \in NewlyHeld(B, usable, failed) :
          <<i, LatestEnding(OpenFor(i, usable))>> \in (1..MaxEvents) \X Windows
    BY <1>1
  <2> QED
    BY <2>1 DEF Hold, TypeOK
<1>3. frozenEnd' \in [Windows -> Instant]
  <2>1. \A w \in Windows : frozenEnd'[w] \in {calendar[w], frozenEnd[w]}
    BY DEF Hold
  <2>2. DOMAIN frozenEnd' = Windows /\ frozenEnd' = [w \in Windows |-> frozenEnd'[w]]
    BY DEF Hold
  <2> QED
    BY <2>1, <2>2 DEF TypeOK, Instant
<1> QED
  BY <1>2, <1>3

LEMMA EventsOfType == \A w \in Windows : EventsOf(w) \subseteq Position
  BY DEF EventsOf

LEMMA IdentsOfType ==
  ASSUME TypeOK, NEW S \in SUBSET Position
  PROVE  IdentsOf(S) \subseteq Ident
<1>1. \A i \in Position : topic[i] \in Event
  BY ElementOfSeq DEF TypeOK, Position
<1> QED
  BY <1>1 DEF IdentsOf, Event

\* The next batch and what follows it.
LEMMA BatchType ==
  ASSUME TypeOK, NEW n \in 1..Len(arrived)
  PROVE  /\ {arrived[k] : k \in 1..n} \subseteq 1..MaxEvents
         /\ arrived[n] \in Offset
         /\ SubSeq(arrived, n + 1, Len(arrived)) \in Seq(1..MaxEvents)
<1>1. arrived \in Seq(1..MaxEvents)
  BY DEF TypeOK
<1>2. Len(arrived) \in Nat /\ \A k \in 1..Len(arrived) : arrived[k] \in 1..MaxEvents
  BY <1>1, LenProperties, ElementOfSeq
<1>3. \A k \in 1..n : k \in 1..Len(arrived)
  BY <1>2
<1>4. SubSeq(arrived, n + 1, Len(arrived)) \in Seq(1..MaxEvents)
  BY <1>1, RestIs
<1> QED
  BY <1>2, <1>3, <1>4 DEF Offset

\* The coordinator.
LEMMA TypeCoordinator ==
  ASSUME TypeOK, NEW n \in 1..Len(arrived), Dispatch(n) \/ DispatchRaises(n),
         \A k \in 1..Len(arrived) : arrived[k] \in Position
  PROVE  TypeOK'
<1> USE EventPathAssumption DEF EventPathAssumption
<1> DEFINE B == {arrived[k] : k \in 1..n}
<1>0. /\ B \subseteq 1..MaxEvents /\ arrived[n] \in Offset
      /\ SubSeq(arrived, n + 1, Len(arrived)) \in Seq(1..MaxEvents)
  BY BatchType
<1>1. CASE Dispatch(n)
  <2>1. PICK usable \in BOOLEAN, failed \in SUBSET B, blind \in BOOLEAN, unwritten \in BOOLEAN :
          /\ Hold(NewlyHeld(B, usable, failed), usable)
          /\ Submit(IdentsOf(Survivors(B, usable, failed, IF blind THEN {} ELSE Known)),
                    arrived[n], unwritten)
          /\ Charge(If(~usable, "stale") \cup If(unwritten, "audit")
                      \cup If(blind \/ failed # {}, "hold"))
    BY <1>1 DEF Dispatch
  <2>2. IdentsOf(Survivors(B, usable, failed, IF blind THEN {} ELSE Known)) \in SUBSET Ident
    <3>1. B \subseteq Position
      <4>1. Len(arrived) \in Nat
        BY LenProperties DEF TypeOK
      <4> QED
        BY <4>1
    <3> QED
      BY <3>1, IdentsOfType DEF Survivors
  <2>3. lastTriaged' \in [Ident -> Instant] /\ queue' \in Seq(Item)
    BY <1>0, <2>1, <2>2, SubmitType
  <2>4. held' \subseteq (1..MaxEvents) \X Windows /\ frozenEnd' \in [Windows -> Instant]
    <3>1. B \in SUBSET (1..MaxEvents) /\ Hold(NewlyHeld(B, usable, failed), usable)
      BY <1>0, <2>1
    <3> HIDE DEF B
    <3> QED
      BY <3>1, HoldType
  <2>5. faults' \in [FaultKind -> Nat]
    BY <2>1, ChargeType DEF TypeOK
  <2>6. /\ arrived' = SubSeq(arrived, n + 1, Len(arrived))
        /\ UNCHANGED <<world, intake, inFlight, core, blocked, recorded, checkpoint,
                       released, skipped, broken>>
    BY <1>1 DEF Dispatch
  <2> QED
    BY <1>0, <2>3, <2>4, <2>5, <2>6 DEF TypeOK, world
<1>2. CASE DispatchRaises(n)
  <2>1. faults' \in [FaultKind -> Nat]
    BY <1>2, ChargeType DEF TypeOK, DispatchRaises
  <2>2. broken' \in [events : SUBSET (1..MaxEvents), until : [Ident -> Nat],
                     early : SUBSET (1..MaxEvents)]
    BY <1>0, <1>2 DEF TypeOK, DispatchRaises
  <2> QED
    BY <1>0, <1>2, <2>1, <2>2 DEF TypeOK, DispatchRaises, world, durable
<1> QED
  BY <1>1, <1>2

\* The releaser.
LEMMA TypeReleaser ==
  ASSUME TypeOK, Releaser
  PROVE  TypeOK'
<1> USE EventPathAssumption DEF EventPathAssumption
<1>0. Len(topic) \in Nat /\ Position \subseteq 1..MaxEvents
  BY LenProperties DEF TypeOK, Position
<1>1. ASSUME NEW w \in Windows, Extend(w) PROVE TypeOK'
  <2>1. frozenEnd' \in [Windows -> Instant]
    BY <1>1 DEF Extend, TypeOK, Instant
  <2> QED
    BY <1>1, <2>1 DEF TypeOK, Extend, world, process, history
<1>2. ASSUME NEW w \in Windows, LetGoEarly(w)
      PROVE  broken' \in [events : SUBSET (1..MaxEvents), until : [Ident -> Nat],
                          early : SUBSET (1..MaxEvents)]
  <2>1. Unproven(w) \subseteq 1..MaxEvents
    BY <1>0, EventsOfType DEF Unproven
  <2> QED
    BY <1>2, <2>1 DEF LetGoEarly, TypeOK
<1>3. ASSUME NEW w \in Windows, Releasable(w) PROVE faults' \in [FaultKind -> Nat]
  <2>1. PICK usable \in BOOLEAN : Charge(If(~usable, "stale"))
    BY <1>3 DEF Releasable
  <2> QED
    BY <2>1, ChargeType DEF TypeOK
<1>4. ASSUME NEW w \in Windows, ReleaseTurn(w) PROVE TypeOK'
  <2> DEFINE triage == Forwarded(w) \ Cooled(Forwarded(w))
  <2>1. /\ Releasable(w)
        /\ lastTriaged' = Armed(triage) /\ inFlight' = [inFlight EXCEPT ![w] = triage]
        /\ queue' = Append(queue, Turn(triage, NoOffset, w))
        /\ LetGoEarly(w)
        /\ UNCHANGED <<world, intake, arrived, core, blocked, durable, skipped>>
    BY <1>4 DEF ReleaseTurn
  <2>2. triage \subseteq Ident
    BY IdentsOfType, EventsOfType DEF Forwarded, HeldIdents
  <2>3. lastTriaged' \in [Ident -> Instant] /\ inFlight' \in [Windows -> SUBSET Ident]
    BY <2>1, <2>2 DEF Armed, TypeOK, Instant
  <2>4. queue' \in Seq(Item)
    <3>1. Turn(triage, NoOffset, w) \in Item
      BY <2>2, ItemsType DEF TypeOK, Offset, NoOffset
    <3> QED
      BY <2>1, <3>1, AppendIs DEF TypeOK
  <2> QED
    BY <1>2, <1>3, <2>1, <2>3, <2>4 DEF TypeOK, world, durable
<1>5. ASSUME NEW w \in Windows, ReleaseQuietly(w) PROVE TypeOK'
  <2>1. /\ Releasable(w) /\ LetGoEarly(w) /\ released' = released \cup {w}
        /\ UNCHANGED <<world, process, recorded, checkpoint, held, frozenEnd, skipped>>
    BY <1>5 DEF ReleaseQuietly
  <2> QED
    BY <1>2, <1>3, <2>1 DEF TypeOK, world, process
<1> QED
  BY <1>1, <1>4, <1>5 DEF Releaser

\* The core and the death of the process.
LEMMA TypeCore ==
  ASSUME TypeOK, Core \/ StartRaises \/ FlushFails \/ Restart
  PROVE  TypeOK'
<1> USE EventPathAssumption DEF EventPathAssumption
<1>0. /\ queue \in Seq(Item) /\ core.turn \in Item
      /\ core \in [phase : {"idle", "triaging", "recorded"}, turn : Item]
  BY DEF TypeOK
<1>1. queue # << >> => Head(queue) \in Item /\ Tail(queue) \in Seq(Item)
  BY <1>0, HeadTailProperties
<1>2. \A t \in Item : t.offset \in Offset /\ t.idents \subseteq Ident /\ t.armed \in Instant
                      /\ t.window \in Windows \cup {NoWindow}
  BY DEF Item
<1>3. Idle \in [phase : {"idle", "triaging", "recorded"}, turn : Item]
  BY ItemsType DEF Idle
<1>4. CASE ProcessMarker
  <2>1. checkpoint' \in Offset /\ faults' \in [FaultKind -> Nat]
    BY <1>1, <1>2, <1>4, CheckpointType DEF ProcessMarker
  <2> QED
    BY <1>1, <1>4, <2>1 DEF TypeOK, ProcessMarker, world
<1>5. CASE StartTriage
  BY <1>1, <1>5 DEF TypeOK, StartTriage, world, durable, history
<1>6. CASE FlushTriage
  <2>1. core' \in [phase : {"idle", "triaging", "recorded"}, turn : Item]
    BY <1>0, <1>6 DEF FlushTriage
  <2>2. recorded' \in [Ident -> [at : Instant, armed : Instant]]
    BY <1>0, <1>2, <1>6 DEF FlushTriage, TypeOK, Instant
  <2>3. /\ released' \subseteq Windows /\ inFlight' \in [Windows -> SUBSET Ident]
        /\ faults' \in [FaultKind -> Nat]
    <3>1. CASE /\ core.turn.window # NoWindow /\ released' = released \cup {core.turn.window}
               /\ inFlight' = [inFlight EXCEPT ![core.turn.window] = {}] /\ UNCHANGED faults
      BY <1>0, <1>2, <3>1 DEF TypeOK
    <3>2. CASE Charge({"mark"}) /\ UNCHANGED <<released, inFlight>>
      BY <3>2, ChargeType DEF TypeOK
    <3>3. CASE UNCHANGED <<released, inFlight, faults>>
      BY <3>3 DEF TypeOK
    <3> QED
      BY <1>6, <3>1, <3>2, <3>3 DEF FlushTriage
  <2>4. UNCHANGED <<world, intake, arrived, lastTriaged, queue, blocked, checkpoint,
                    held, frozenEnd, skipped, broken>>
    BY <1>6 DEF FlushTriage
  <2> QED
    BY <2>1, <2>2, <2>3, <2>4 DEF TypeOK, world
<1>7. CASE AdvanceCheckpoint
  <2>1. checkpoint' \in Offset /\ faults' \in [FaultKind -> Nat]
    BY <1>0, <1>2, <1>7, CheckpointType DEF AdvanceCheckpoint
  <2> QED
    BY <1>3, <1>7, <2>1 DEF TypeOK, AdvanceCheckpoint, world
<1>8. CASE StartRaises
  <2>1. faults' \in [FaultKind -> Nat]
    BY <1>8, ChargeType DEF TypeOK, StartRaises
  <2>2. broken' \in [events : SUBSET (1..MaxEvents), until : [Ident -> Nat],
                     early : SUBSET (1..MaxEvents)]
    <3>1. Reach(Head(queue).armed) \in Nat
      BY <1>1, <1>2, <1>8, ReachType DEF StartRaises
    <3> QED
      BY <1>8, <3>1 DEF StartRaises, TypeOK
  <2> QED
    BY <1>1, <1>8, <2>1, <2>2 DEF TypeOK, StartRaises, world, durable
<1>9. CASE FlushFails
  <2>1. faults' \in [FaultKind -> Nat]
    BY <1>9, ChargeType DEF TypeOK, FlushFails
  <2> QED
    BY <1>3, <1>9, <2>1 DEF TypeOK, FlushFails, world, durable
<1>10. CASE Restart
  <2>1. faults' \in [FaultKind -> Nat]
    BY <1>10, ChargeType DEF TypeOK, Restart
  <2>2. intake' \in IntakeState
    BY <1>10, StartedType DEF Restart, TypeOK
  <2>3. arrived' \in Seq(1..MaxEvents) /\ queue' \in Seq(Item)
    BY <1>10, EmptySeq DEF Restart
  <2>4. /\ lastTriaged' \in [Ident -> Instant] /\ inFlight' \in [Windows -> SUBSET Ident]
        /\ core' \in [phase : {"idle", "triaging", "recorded"}, turn : Item]
        /\ blocked' \in BOOLEAN
    BY <1>3, <1>10 DEF Restart, TypeOK
  <2>5. UNCHANGED <<world, durable, skipped, broken>>
    BY <1>10 DEF Restart
  <2> QED
    BY <2>1, <2>2, <2>3, <2>4, <2>5 DEF TypeOK, world, durable, IntakeState
<1> QED
  BY <1>4, <1>5, <1>6, <1>7, <1>8, <1>9, <1>10 DEF Core

-----------------------------------------------------------------------------
(* Where events are *)

\* Whatever refers to an event refers to a published one.
Places ==
  /\ \A k \in 1..Len(arrived) : arrived[k] \in Position
  /\ held \subseteq Position \X Windows
  /\ skipped \subseteq Position
  /\ broken.events \subseteq Position /\ broken.early \subseteq Position
  /\ checkpoint \in 0..Len(topic) /\ core.turn.offset \in 0..Len(topic)
  /\ \A k \in 1..Len(queue) : queue[k].offset \in 0..Len(topic)

\* The cursor is the last event received, but where nothing was yet.
CursorOK ==
  /\ intake.pos \in 0..Len(topic) /\ intake.backlog \in 0..Len(topic)
  /\ intake.cursor \in {ReplayAll} \cup 0..Len(topic)
  /\ intake.subscribed =>
       \/ intake.cursor = NoOffset /\ 1..intake.pos \subseteq skipped
       \/ intake.cursor = ReplayAll /\ intake.pos = 0
       \/ intake.cursor = intake.pos
  /\ intake.keepalive => intake.subscribed /\ intake.pos >= intake.backlog

\* What every proof below needs of sequences.
LEMMA Lengths == TypeOK => /\ Len(topic) \in Nat /\ Len(arrived) \in Nat /\ Len(queue) \in Nat
                           /\ \A i \in Position : topic[i] \in Event
                           /\ \A k \in 1..Len(queue) : queue[k] \in Item
                           /\ \A k \in 1..Len(arrived) : arrived[k] \in 1..MaxEvents
<1> SUFFICES ASSUME TypeOK
             PROVE  /\ Len(topic) \in Nat /\ Len(arrived) \in Nat /\ Len(queue) \in Nat
                    /\ \A i \in Position : topic[i] \in Event
                    /\ \A k \in 1..Len(queue) : queue[k] \in Item
                    /\ \A k \in 1..Len(arrived) : arrived[k] \in 1..MaxEvents
  OBVIOUS
<1>1. topic \in Seq(Event) /\ arrived \in Seq(1..MaxEvents) /\ queue \in Seq(Item)
  BY DEF TypeOK
<1> QED
  BY <1>1, LenProperties, ElementOfSeq DEF Position

\* Publishing leaves what was published as it was.
LEMMA Published ==
  ASSUME TypeOK, NEW A \in Ident, NEW resolved \in Resolved, Publish(A, resolved)
  PROVE  /\ Len(topic') = Len(topic) + 1 /\ Position \subseteq Position'
         /\ \A i \in Position : topic'[i] = topic[i]
         /\ topic'[Len(topic) + 1] = [ident |-> A, resolved |-> resolved, at |-> clock]
<1>1. [ident |-> A, resolved |-> resolved, at |-> clock] \in Event
  BY EventPathAssumption DEF Event, TypeOK, EventPathAssumption
<1>2. topic \in Seq(Event)
  BY DEF TypeOK
<1> QED
  BY <1>1, <1>2, AppendIs DEF Publish, Position

\* Every step but a publication leaves the topic alone, and none shortens it.
LEMMA TopicGrows ==
  ASSUME TypeOK, [Next]_vars
  PROVE  /\ Len(topic) \in Nat /\ Len(topic') \in Nat
         /\ Position \subseteq Position' /\ \A i \in Position : topic'[i] = topic[i]
<1>1. CASE \E A \in Ident, resolved \in Resolved : Publish(A, resolved)
  <2>1. PICK A \in Ident, resolved \in Resolved : Publish(A, resolved)
    BY <1>1
  <2> QED
    <3>1. Len(topic') = Len(topic) + 1 /\ Position \subseteq Position'
          /\ \A i \in Position : topic'[i] = topic[i]
      BY <2>1, Published
    <3>2. Len(topic) \in Nat
      BY Lengths
    <3> QED
      BY <3>1, <3>2
<1>2. CASE UNCHANGED topic
  BY <1>2, Lengths DEF Position
<1>3. UNCHANGED topic \/ \E A \in Ident, resolved \in Resolved : Publish(A, resolved)
  BY DEF Next, World, Intake, Transport, Coordinator, Releaser, Core, Faults, Delay, Advance,
     Subscribe, Receive, Keepalive, Lose, RejectSince, Dispatch, DispatchRaises, Extend,
     ReleaseTurn, ReleaseQuietly, ProcessMarker, StartTriage, FlushTriage, AdvanceCheckpoint,
     StartRaises, FlushFails, Restart, vars, world
<1> QED
  BY <1>1, <1>2, <1>3

LEMMA InitPlaces == Init => Places /\ CursorOK
  BY EventPathAssumption
  DEF Init, Places, CursorOK, Position, Idle, NoItem, NoOffset, Started, ReplayAll, EventPathAssumption

LEMMA PlacesOutside ==
  ASSUME TypeOK, Places, CursorOK, World \/ Intake \/ Transport \/ UNCHANGED vars
  PROVE  Places'
<1>0. Len(topic) \in Nat /\ Len(arrived) \in Nat
  BY Lengths
<1>1. CASE UNCHANGED <<topic, arrived, held, skipped, broken, checkpoint, core, queue>>
  BY <1>1 DEF Places, Position
<1>2. ASSUME NEW A \in Ident, NEW resolved \in Resolved, Publish(A, resolved) PROVE Places'
  <2>1. Position \subseteq Position' /\ Len(topic') = Len(topic) + 1
    BY <1>2, Published
  <2>2. UNCHANGED <<arrived, held, skipped, broken, checkpoint, core, queue>>
    BY <1>2 DEF Publish, process, durable, history
  <2>3. \A k \in 0..Len(topic) : k \in 0..Len(topic')
    BY <1>0, <2>1
  <2>4. \A S : S \subseteq Position => S \subseteq Position'
    BY <2>1
  <2>5. held' \subseteq Position' \X Windows
    BY <2>1, <2>2 DEF Places
  <2>6. /\ \A k \in 1..Len(arrived') : arrived'[k] \in Position'
        /\ skipped' \subseteq Position'
        /\ broken'.events \subseteq Position' /\ broken'.early \subseteq Position'
    BY <2>1, <2>2, <2>4 DEF Places
  <2>7. /\ checkpoint' \in 0..Len(topic') /\ core'.turn.offset \in 0..Len(topic')
        /\ \A k \in 1..Len(queue') : queue'[k].offset \in 0..Len(topic')
    BY <2>2, <2>3 DEF Places
  <2> QED
    BY <2>5, <2>6, <2>7 DEF Places
<1>3. CASE Subscribe
  BY <1>3 DEF Subscribe, Places, Position, world, durable
<1>4. CASE Receive
  <2>1. /\ arrived \in Seq(1..MaxEvents) /\ intake.pos + 1 \in 1..MaxEvents
        /\ intake.pos + 1 \in Position
    <3>1. intake.pos \in 0..Len(topic) /\ intake.pos < Len(topic)
      BY <1>4 DEF Receive, CursorOK
    <3>2. arrived \in Seq(1..MaxEvents) /\ Len(topic) <= MaxEvents /\ MaxEvents \in Nat
      BY EventPathAssumption DEF TypeOK, EventPathAssumption
    <3> QED
      BY <1>0, <3>1, <3>2 DEF Position
  <2>2. \A k \in 1..Len(arrived') : arrived'[k] \in Position
    <3>1. arrived' = Append(arrived, intake.pos + 1)
      BY <1>4 DEF Receive
    <3>2. /\ Len(arrived') = Len(arrived) + 1
          /\ \A k \in 1..Len(arrived) : arrived'[k] = arrived[k]
          /\ arrived'[Len(arrived) + 1] = intake.pos + 1
      BY <2>1, <3>1, AppendIs
    <3>3. \A k \in 1..Len(arrived) + 1 : k \in 1..Len(arrived) \/ k = Len(arrived) + 1
      BY <1>0
    <3> QED
      BY <2>1, <3>2, <3>3 DEF Places
  <2> QED
    BY <1>4, <2>2 DEF Receive, Places, Position, world, durable, history
<1>5. ASSUME UNCHANGED vars \/ (\E w \in Windows : Delay(w)) \/ Advance \/ Keepalive \/ Lose \/ RejectSince
      PROVE  UNCHANGED <<topic, arrived, held, skipped, broken, checkpoint, core, queue>>
  BY <1>5 DEF vars, Delay, Advance, Keepalive, Lose, RejectSince, world, process, durable, history
<1> QED
  BY <1>1, <1>2, <1>3, <1>4, <1>5 DEF World, Intake, Transport

LEMMA PlacesInside ==
  ASSUME TypeOK, Places, CursorOK, Coordinator \/ Releaser \/ Core \/ Faults
  PROVE  Places'
<1>0. /\ Len(topic) \in Nat /\ Len(arrived) \in Nat /\ Len(queue) \in Nat
      /\ queue \in Seq(Item) /\ arrived \in Seq(1..MaxEvents)
      /\ \A k \in 1..Len(queue) : queue[k] \in Item
  BY Lengths DEF TypeOK
<1>1. UNCHANGED topic /\ Position' = Position
  BY DEF Coordinator, Releaser, Core, Faults, Dispatch, DispatchRaises, Extend, ReleaseTurn,
     ReleaseQuietly, ProcessMarker, StartTriage, FlushTriage, AdvanceCheckpoint, StartRaises,
     FlushFails, Restart, world, Position
<1>2. ASSUME NEW n \in 1..Len(arrived), Dispatch(n) \/ DispatchRaises(n)
      PROVE  /\ \A k \in 1..Len(arrived') : arrived'[k] \in Position
             /\ {arrived[k] : k \in 1..n} \subseteq Position /\ arrived[n] \in Position
  <2>1. arrived' = SubSeq(arrived, n + 1, Len(arrived))
    BY <1>2 DEF Dispatch, DispatchRaises
  <2>2. Len(arrived') = Len(arrived) - n /\ \A k \in 1..Len(arrived) - n : arrived'[k] = arrived[k + n]
    BY <1>0, <2>1, RestIs
  <2>3. \A k \in 1..Len(arrived) - n : k + n \in 1..Len(arrived)
    BY <1>0
  <2>4. \A k \in 1..n : k \in 1..Len(arrived)
    BY <1>0
  <2> QED
    BY <2>2, <2>3, <2>4 DEF Places
<1>3. ASSUME NEW e \in Item, e.offset \in 0..Len(topic), queue' = Append(queue, e)
      PROVE  \A k \in 1..Len(queue') : queue'[k].offset \in 0..Len(topic)
  <2>1. /\ Len(queue') = Len(queue) + 1 /\ queue'[Len(queue) + 1] = e
        /\ \A k \in 1..Len(queue) : queue'[k] = queue[k]
    BY <1>0, <1>3, AppendIs
  <2>2. \A k \in 1..Len(queue) + 1 : k \in 1..Len(queue) \/ k = Len(queue) + 1
    BY <1>0
  <2> QED
    BY <1>3, <2>1, <2>2 DEF Places
<1>4. ASSUME queue # << >>, queue' = Tail(queue)
      PROVE  /\ \A k \in 1..Len(queue') : queue'[k].offset \in 0..Len(topic)
             /\ Head(queue).offset \in 0..Len(topic)
  <2>1. /\ Len(queue') = Len(queue) - 1 /\ Head(queue) = queue[1] /\ Len(queue) >= 1
        /\ \A k \in 1..Len(queue) - 1 : queue'[k] = queue[k + 1]
    BY <1>0, <1>4, TailIs
  <2>2. \A k \in 1..Len(queue) - 1 : k + 1 \in 1..Len(queue)
    BY <1>0
  <2>3. 1 \in 1..Len(queue) /\ \A k \in 1..Len(queue) : queue[k].offset \in 0..Len(topic)
    BY <1>0, <2>1 DEF Places
  <2> QED
    BY <2>1, <2>2, <2>3
<1>5. ASSUME NEW n \in 1..Len(arrived), Dispatch(n) PROVE Places'
  <2> DEFINE B == {arrived[k] : k \in 1..n}
  <2>1. PICK usable \in BOOLEAN, failed \in SUBSET B, blind \in BOOLEAN, unwritten \in BOOLEAN :
          /\ Hold(NewlyHeld(B, usable, failed), usable)
          /\ Submit(IdentsOf(Survivors(B, usable, failed, IF blind THEN {} ELSE Known)),
                    arrived[n], unwritten)
    BY <1>5 DEF Dispatch
  <2>2. B \subseteq Position /\ \A k \in 1..Len(arrived') : arrived'[k] \in Position
    BY <1>2, <1>5
  <2>3. arrived[n] \in Offset /\ arrived[n] \in 0..Len(topic)
    BY <1>0, <1>2, <1>5, BatchType DEF Position
  <2>4. held' \subseteq Position \X Windows
    <3>1. \A i \in NewlyHeld(B, usable, failed) :
            i \in Position /\ LatestEnding(OpenFor(i, usable)) \in Windows
      <4> TAKE i \in NewlyHeld(B, usable, failed)
      <4>1. i \in Position /\ OpenFor(i, usable) # {} /\ OpenFor(i, usable) \in SUBSET Windows
        BY <2>2 DEF NewlyHeld, OpenFor, ActiveAt
      <4> QED
        BY <4>1, LatestExists DEF TypeOK
    <3>2. held' = held \cup {<<i, LatestEnding(OpenFor(i, usable))>> :
                              i \in NewlyHeld(B, usable, failed)}
      BY <2>1 DEF Hold
    <3>3. \A i \in NewlyHeld(B, usable, failed) :
            <<i, LatestEnding(OpenFor(i, usable))>> \in Position \X Windows
      BY <3>1
    <3>4. held \subseteq Position \X Windows
      BY DEF Places
    <3> HIDE DEF B
    <3> QED
      BY <3>2, <3>3, <3>4
  <2>5. \A k \in 1..Len(queue') : queue'[k].offset \in 0..Len(topic)
    <3>1. IdentsOf(Survivors(B, usable, failed, IF blind THEN {} ELSE Known)) \in SUBSET Ident
      BY <2>2, IdentsOfType DEF Survivors
    <3>2. PICK S \in SUBSET Ident :
            queue' \in {queue, Append(queue, Turn(S, arrived[n], NoWindow)),
                        Append(queue, Marker(arrived[n]))}
      BY <2>1, <3>1 DEF Submit
    <3>3. Turn(S, arrived[n], NoWindow) \in Item /\ Marker(arrived[n]) \in Item
      <4>1. clock \in Nat /\ NoWindow \in Windows \cup {NoWindow}
        BY DEF TypeOK
      <4> QED
        BY <2>3, <4>1, ItemsType
    <3>4. Turn(S, arrived[n], NoWindow).offset = arrived[n] /\ Marker(arrived[n]).offset = arrived[n]
      BY DEF Turn, Marker, NoItem
    <3> QED
      BY <1>3, <2>3, <3>2, <3>3, <3>4 DEF Places
  <2> QED
    BY <1>1, <1>5, <2>2, <2>4, <2>5 DEF Places, Dispatch
<1>6. ASSUME NEW n \in 1..Len(arrived), DispatchRaises(n) PROVE Places'
  <2>1. broken'.events \subseteq Position /\ broken'.early = broken.early
    BY <1>2, <1>6 DEF DispatchRaises, Places, TypeOK
  <2> QED
    BY <1>1, <1>2, <1>6, <2>1 DEF Places, DispatchRaises, durable
<1>7. ASSUME NEW w \in Windows, LetGoEarly(w)
      PROVE  broken'.events \subseteq Position /\ broken'.early \subseteq Position
  BY <1>7 DEF LetGoEarly, Places, TypeOK, Unproven, EventsOf
<1>8. CASE Releaser
  <2>1. ASSUME NEW w \in Windows, Extend(w) PROVE Places'
    BY <1>1, <2>1 DEF Extend, Places, process, history
  <2>2. ASSUME NEW w \in Windows, ReleaseQuietly(w) PROVE Places'
    BY <1>1, <1>7, <2>2 DEF ReleaseQuietly, Places, process
  <2>3. ASSUME NEW w \in Windows, ReleaseTurn(w) PROVE Places'
    <3> DEFINE t == Turn(Forwarded(w) \ Cooled(Forwarded(w)), NoOffset, w)
    <3>1. queue' = Append(queue, t) /\ LetGoEarly(w)
          /\ UNCHANGED <<arrived, core, held, checkpoint, skipped>>
      BY <2>3 DEF ReleaseTurn, durable
    <3>2. t \in Item /\ t.offset \in 0..Len(topic)
      <4>1. Forwarded(w) \subseteq Ident
        BY IdentsOfType, EventsOfType DEF Forwarded, HeldIdents
      <4>2. NoOffset \in Offset /\ t.offset = NoOffset /\ NoOffset \in 0..Len(topic)
        BY <1>0, EventPathAssumption DEF EventPathAssumption, Offset, NoOffset, Turn
      <4> QED
        BY <4>1, <4>2, ItemsType DEF TypeOK
    <3> HIDE DEF t
    <3>3. \A k \in 1..Len(queue') : queue'[k].offset \in 0..Len(topic)
      BY <1>3, <3>1, <3>2
    <3> QED
      BY <1>1, <1>7, <3>1, <3>3 DEF Places
  <2> QED
    BY <1>8, <2>1, <2>2, <2>3 DEF Releaser
<1>9. ASSUME NEW o \in 0..Len(topic), WriteCheckpoint(o) PROVE checkpoint' \in 0..Len(topic)
  BY <1>9 DEF WriteCheckpoint, Places
<1>10. CASE ProcessMarker
  BY <1>1, <1>4, <1>9, <1>10 DEF ProcessMarker, Places
<1>11. CASE StartTriage \/ StartRaises
  <2>1. \A k \in 1..Len(queue') : queue'[k].offset \in 0..Len(topic)
    BY <1>4, <1>11 DEF StartTriage, StartRaises
  <2>2. core'.turn.offset \in 0..Len(topic)
    BY <1>4, <1>11 DEF StartTriage, StartRaises, Places
  <2>3. broken'.events = broken.events /\ broken'.early = broken.early
    BY <1>11 DEF StartTriage, StartRaises, TypeOK, history
  <2>4. UNCHANGED <<arrived, held, skipped, checkpoint>>
    BY <1>11 DEF StartTriage, StartRaises, durable, history
  <2> QED
    BY <1>1, <2>1, <2>2, <2>3, <2>4 DEF Places
<1>12. CASE FlushTriage
  BY <1>1, <1>12 DEF FlushTriage, Places, TypeOK
<1>13. Idle.turn.offset \in 0..Len(topic)
  BY <1>0 DEF Idle, NoItem, NoOffset
<1>14. CASE AdvanceCheckpoint
  BY <1>1, <1>9, <1>13, <1>14 DEF AdvanceCheckpoint, Places
<1>15. CASE FlushFails
  BY <1>1, <1>13, <1>15 DEF FlushFails, Places, durable
<1>16. CASE Restart
  BY <1>1, <1>13, <1>16 DEF Restart, Places, durable
<1> QED
  BY <1>5, <1>6, <1>8, <1>10, <1>11, <1>12, <1>14, <1>15, <1>16 DEF Coordinator, Core, Faults

LEMMA CursorStep ==
  ASSUME TypeOK, CursorOK, Places, [Next]_vars
  PROVE  CursorOK'
<1>0. /\ Len(topic) \in Nat /\ Len(topic') \in Nat /\ intake.pos \in Nat /\ intake.backlog \in Nat
      /\ intake.cursor \in Offset \cup {ReplayAll}
      /\ MaxEvents \in Nat
  BY TopicGrows, EventPathAssumption DEF TypeOK, Offset, EventPathAssumption
<1>1. CASE UNCHANGED <<intake, skipped>>
  <2>1. Len(topic') >= Len(topic)
    BY <1>0, TopicGrows DEF Position
  <2> QED
    BY <1>0, <1>1, <2>1 DEF CursorOK
<1>2. CASE Subscribe
  <2>1. /\ intake'.pos = ReplayFrom /\ intake'.subscribed /\ ~intake'.keepalive
        /\ intake'.cursor = intake.cursor /\ UNCHANGED topic
    BY <1>2 DEF Subscribe, TypeOK, world
  <2>2. intake'.backlog = Len(topic)
    BY <1>2 DEF Subscribe, TypeOK
  <2>3. CASE intake.cursor = NoOffset
    <3>1. ReplayFrom = Len(topic) /\ skipped' = Position
      BY <1>2, <2>3 DEF Subscribe, ReplayFrom, NoOffset, ReplayAll
    <3>2. 1..Len(topic) \subseteq skipped'
      BY <3>1 DEF Position
    <3> QED
      BY <1>0, <2>1, <2>2, <2>3, <3>1, <3>2 DEF CursorOK, NoOffset
  <2>4. CASE intake.cursor = ReplayAll
    <3>1. ReplayFrom = 0
      BY <2>4 DEF ReplayFrom, ReplayAll, NoOffset
    <3> QED
      BY <1>0, <2>1, <2>2, <2>4, <3>1 DEF CursorOK, ReplayAll
  <2>5. CASE intake.cursor # NoOffset /\ intake.cursor # ReplayAll
    <3>1. ReplayFrom = intake.cursor
      BY <2>5 DEF ReplayFrom
    <3> QED
      BY <1>0, <2>1, <2>2, <2>5, <3>1 DEF CursorOK, ReplayAll
  <2> QED
    BY <2>3, <2>4, <2>5
<1>3. CASE Receive
  <2>1. /\ intake'.pos = intake.pos + 1 /\ intake'.cursor = intake.pos + 1
        /\ intake'.subscribed = intake.subscribed /\ intake'.keepalive = intake.keepalive
        /\ intake'.backlog = intake.backlog /\ intake.pos < Len(topic) /\ UNCHANGED topic
    BY <1>3 DEF Receive, TypeOK, world
  <2> QED
    BY <1>0, <2>1 DEF CursorOK
<1>4. CASE Keepalive
  <2>1. /\ intake'.pos = intake.pos /\ intake'.cursor = intake.cursor
        /\ intake'.subscribed = intake.subscribed /\ intake.subscribed
        /\ intake'.backlog = intake.backlog /\ intake.pos = Len(topic)
        /\ UNCHANGED <<topic, skipped>>
    BY <1>4 DEF Keepalive, TypeOK, world, history
  <2> QED
    BY <1>0, <2>1 DEF CursorOK, TypeOK, Offset
<1>5. CASE Lose \/ RejectSince
  <2>1. /\ intake'.pos = intake.pos /\ ~intake'.subscribed
        /\ intake'.backlog = intake.backlog /\ UNCHANGED <<topic, skipped>>
        /\ intake'.cursor \in {intake.cursor, ReplayAll}
        /\ Lose => ~intake'.keepalive
        /\ RejectSince => intake'.keepalive = intake.keepalive /\ ~intake.subscribed
    BY <1>5 DEF Lose, RejectSince, TypeOK, world
  <2> QED
    BY <1>0, <1>5, <2>1 DEF CursorOK
<1>6. CASE Restart
  <2>1. /\ intake'.pos = 0 /\ intake'.backlog = 0 /\ ~intake'.subscribed /\ ~intake'.keepalive
        /\ intake'.cursor = checkpoint /\ UNCHANGED topic
    BY <1>6 DEF Restart, Started, world
  <2> QED
    BY <1>0, <2>1 DEF CursorOK, Places
<1>7. \/ Subscribe \/ Receive \/ Keepalive \/ Lose \/ RejectSince \/ Restart
      \/ UNCHANGED <<intake, skipped>>
  BY DEF Next, World, Intake, Transport, Coordinator, Releaser, Core, Faults, Publish, Delay, Advance,
     Dispatch, DispatchRaises, Extend, ReleaseTurn, ReleaseQuietly, ProcessMarker, StartTriage,
     FlushTriage, AdvanceCheckpoint, StartRaises, FlushFails, vars, process, history
<1> QED
  BY <1>1, <1>2, <1>3, <1>4, <1>5, <1>6, <1>7

\* Types, positions and the cursor together.
GroundInv == TypeOK /\ Places /\ CursorOK

LEMMA Ground == Spec => []GroundInv
<1>1. Init => GroundInv
  BY InitType, InitPlaces DEF GroundInv
<1>2. GroundInv /\ [Next]_vars => GroundInv'
  <2> SUFFICES ASSUME GroundInv, [Next]_vars PROVE GroundInv'
    OBVIOUS
  <2>1. TypeOK /\ Places /\ CursorOK
    BY DEF GroundInv
  <2>2. CursorOK'
    BY <2>1, CursorStep
  <2>3. Places'
    <3>1. CASE World \/ Intake \/ Transport \/ UNCHANGED vars
      BY <2>1, <3>1, PlacesOutside
    <3>2. CASE Coordinator \/ Releaser \/ Core \/ Faults
      BY <2>1, <3>2, PlacesInside
    <3> QED
      BY <3>1, <3>2 DEF Next
  <2>4. ASSUME UNCHANGED vars PROVE TypeOK'
    BY <2>1, <2>4 DEF TypeOK, vars, world, process, durable, history
  <2>5. TypeOK'
    <3>1. CASE World \/ Intake \/ Transport
      BY <2>1, <3>1, TypeOutside
    <3>2. ASSUME NEW n \in 1..Len(arrived), Dispatch(n) \/ DispatchRaises(n)
          PROVE  TypeOK'
      <4>1. Len(topic) \in Nat /\ \A k \in 1..Len(arrived) : arrived[k] \in Position
        BY <2>1, Lengths DEF Places
      <4> QED
        BY <2>1, <3>2, <4>1, TypeCoordinator
    <3>3. CASE Releaser
      BY <2>1, <3>3, TypeReleaser
    <3>4. CASE Core \/ StartRaises \/ FlushFails \/ Restart
      BY <2>1, <3>4, TypeCore
    <3> QED
      BY <2>4, <3>1, <3>2, <3>3, <3>4 DEF Next, Faults, Coordinator
  <2> QED
    BY <2>2, <2>3, <2>5 DEF GroundInv
<1> QED
  BY <1>1, <1>2, PTL DEF Spec

\* Every variable of the event path keeps its type (intake.py, coordinator.py,
\* holds.py, agent/core.py).
THEOREM TypeCorrect == Spec => []TypeOK
<1>1. GroundInv => TypeOK
  BY DEF GroundInv
<1> QED
  BY <1>1, Ground, PTL

-----------------------------------------------------------------------------
(* Clocks *)

\* Events are published in order, and nothing is dated later than now.  The
\* queue holds its turns in the order they were armed.
DatedBefore(now) ==
  /\ \A i \in Position : topic[i].at <= now
  /\ \A A \in Ident : recorded[A].at <= now /\ lastTriaged[A] <= now /\ broken.until[A] <= Reach(now)
  /\ core.phase # "idle" => 0 <= core.turn.armed /\ core.turn.armed <= now
TopicInOrder == \A i, j \in Position : i <= j => topic[i].at <= topic[j].at
ItemDated(t) ==
  /\ t.armed <= clock
  /\ t.idents # {} => t.armed >= 0
  /\ \A A \in t.idents : broken.until[A] <= Reach(t.armed)
QueueInOrder ==
  \A k \in 1..Len(queue), l \in 1..Len(queue) :
    l <= k /\ queue[k].idents # {} => queue[l].armed <= queue[k].armed
Timely ==
  /\ TopicInOrder /\ DatedBefore(clock)
  /\ \A k \in 1..Len(queue) : ItemDated(queue[k])
  /\ QueueInOrder

LEMMA Numbers ==
  ASSUME TypeOK
  PROVE  /\ clock \in Nat
         /\ \A i \in Position : i \in Nat /\ topic[i].at \in Nat /\ topic[i].ident \in Ident
         /\ \A A \in Ident : /\ recorded[A].at \in Instant /\ recorded[A].armed \in Instant
                             /\ lastTriaged[A] \in Instant /\ broken.until[A] \in Nat
         /\ core.turn \in Item /\ core.turn.armed \in Instant /\ core.turn.idents \subseteq Ident
         /\ \A k \in 1..Len(queue) : queue[k].armed \in Instant /\ queue[k].idents \subseteq Ident
         /\ Instant \subseteq Int
<1>1. \A i \in Position : topic[i] \in Event /\ i \in Nat
  BY Lengths DEF Position
<1>2. \A k \in 1..Len(queue) : queue[k] \in Item
  BY Lengths
<1>3. core.turn \in Item
  BY DEF TypeOK
<1>4. \A t \in Item : t.armed \in Instant /\ t.idents \subseteq Ident
  BY DEF Item
<1>5. \A e \in Event : e.at \in Nat /\ e.ident \in Ident
  BY DEF Event
<1>6. \A A \in Ident : /\ recorded[A].at \in Instant /\ recorded[A].armed \in Instant
                       /\ lastTriaged[A] \in Instant /\ broken.until[A] \in Nat
  BY DEF TypeOK
<1>7. clock \in Nat
  BY DEF TypeOK
<1>8. Instant \subseteq Int
  BY DEF Instant, Never
<1> QED
  BY <1>1, <1>2, <1>3, <1>4, <1>5, <1>6, <1>7, <1>8

\* What a step does to the queue: nothing, one more item, the first one taken,
\* or a process that starts anew.
LEMMA QueueMoves ==
  ASSUME TypeOK, [Next]_vars
  PROVE  \/ UNCHANGED queue
         \/ /\ queue # << >> /\ queue' = Tail(queue) /\ core.phase = "idle"
            /\ ProcessMarker \/ StartTriage \/ StartRaises
         \/ queue' = << >> /\ Restart
         \/ \E n \in 1..Len(arrived) : Dispatch(n)
         \/ \E w \in Windows : ReleaseTurn(w)
<1>1. UNCHANGED queue \/ ProcessMarker \/ StartTriage \/ StartRaises \/ Restart
      \/ (\E n \in 1..Len(arrived) : Dispatch(n)) \/ \E w \in Windows : ReleaseTurn(w)
  BY DEF Next, World, Intake, Transport, Coordinator, Releaser, Core, Faults, Publish, Delay, Advance,
     Subscribe, Receive, Keepalive, Lose, RejectSince, DispatchRaises, Extend, ReleaseQuietly,
     FlushTriage, AdvanceCheckpoint, FlushFails, vars, process
<1>2. ProcessMarker \/ StartTriage \/ StartRaises =>
        queue # << >> /\ queue' = Tail(queue) /\ core.phase = "idle"
  BY DEF ProcessMarker, StartTriage, StartRaises
<1>3. Restart => queue' = << >>
  BY DEF Restart
<1> QED
  BY <1>1, <1>2, <1>3

\* A dispatch submits a turn, a marker, or nothing, and arms what it triages.
LEMMA DispatchSubmits ==
  ASSUME GroundInv, NEW n \in 1..Len(arrived), Dispatch(n)
  PROVE  \E S \in SUBSET Ident :
           /\ S \cap Cooled(Ident) = {}
           /\ lastTriaged' = Armed(S)
           /\ \/ S = {} /\ UNCHANGED queue
              \/ S = {} /\ queue' = Append(queue, Marker(arrived[n])) /\ Marker(arrived[n]) \in Item
              \/ S # {} /\ queue' = Append(queue, Turn(S, arrived[n], NoWindow))
                 /\ Turn(S, arrived[n], NoWindow) \in Item
<1> DEFINE B == {arrived[k] : k \in 1..n}
<1>0. /\ Len(topic) \in Nat /\ Len(arrived) \in Nat /\ TypeOK
      /\ \A k \in 1..Len(arrived) : arrived[k] \in Position
  BY Lengths DEF GroundInv, Places
<1>1. PICK usable \in BOOLEAN, failed \in SUBSET B, blind \in BOOLEAN, unwritten \in BOOLEAN :
        Submit(IdentsOf(Survivors(B, usable, failed, IF blind THEN {} ELSE Known)),
               arrived[n], unwritten)
  BY DEF Dispatch
<1>2. Survivors(B, usable, failed, IF blind THEN {} ELSE Known) \subseteq Position
  <2>1. \A k \in 1..n : k \in 1..Len(arrived)
    BY <1>0
  <2> QED
    BY <1>0, <2>1 DEF Survivors
<1>3. PICK R \in SUBSET Ident :
        R = IdentsOf(Survivors(B, usable, failed, IF blind THEN {} ELSE Known))
  BY <1>0, <1>2, IdentsOfType
<1> DEFINE S == R \ Cooled(R)
<1>4. /\ S \in SUBSET Ident /\ S \cap Cooled(Ident) = {}
      /\ lastTriaged' = Armed(S)
      /\ \/ S = {} /\ UNCHANGED queue
         \/ S = {} /\ queue' = Append(queue, Marker(arrived[n]))
         \/ S # {} /\ queue' = Append(queue, Turn(S, arrived[n], NoWindow))
  BY <1>1, <1>3 DEF Submit, Cooled
<1>5. arrived[n] \in Offset
  BY <1>0, BatchType
<1>6. Marker(arrived[n]) \in Item /\ Turn(S, arrived[n], NoWindow) \in Item
  <2>1. clock \in Nat /\ NoWindow \in Windows \cup {NoWindow}
    BY <1>0 DEF TypeOK
  <2> HIDE DEF S
  <2> QED
    BY <1>4, <1>5, <2>1, ItemsType
<1> QED
  BY <1>4, <1>6

LEMMA ReleaseSubmits ==
  ASSUME GroundInv, NEW w \in Windows, ReleaseTurn(w)
  PROVE  \E S \in SUBSET Ident :
           /\ S # {} /\ S \cap Cooled(Ident) = {}
           /\ S = Forwarded(w) \ Cooled(Forwarded(w)) 
           /\ lastTriaged' = Armed(S)
           /\ queue' = Append(queue, Turn(S, NoOffset, w)) /\ Turn(S, NoOffset, w) \in Item
<1> DEFINE S == Forwarded(w) \ Cooled(Forwarded(w))
<1>1. Forwarded(w) \subseteq Ident
  BY IdentsOfType, EventsOfType DEF Forwarded, HeldIdents, GroundInv
<1>2. /\ S # {} /\ S \cap Cooled(Ident) = {} /\ S \in SUBSET Ident
      /\ lastTriaged' = Armed(S) /\ queue' = Append(queue, Turn(S, NoOffset, w))
  BY <1>1 DEF ReleaseTurn, Cooled
<1>3. NoOffset \in Offset /\ clock \in Nat
  BY EventPathAssumption DEF GroundInv, TypeOK, EventPathAssumption, Offset, NoOffset
<1> HIDE DEF S
<1>4. Turn(S, NoOffset, w) \in Item
  BY <1>2, <1>3, ItemsType
<1> QED
  BY <1>2, <1>4 DEF S

\* Which steps change what.
LEMMA Moves ==
  ASSUME TypeOK, [Next]_vars
  PROVE  /\ UNCHANGED recorded \/ FlushTriage
         /\ UNCHANGED lastTriaged \/ Restart \/ (\E n \in 1..Len(arrived) : Dispatch(n))
              \/ \E w \in Windows : ReleaseTurn(w)
         /\ broken'.until = broken.until \/ StartRaises
         /\ UNCHANGED core \/ StartTriage \/ FlushTriage \/ AdvanceCheckpoint \/ FlushFails \/ Restart
         /\ UNCHANGED topic \/ \E A \in Ident, resolved \in Resolved : Publish(A, resolved)
         /\ UNCHANGED clock \/ Advance
<1>1. UNCHANGED vars \/ World \/ Intake \/ Transport \/ Coordinator \/ Releaser \/ Core \/ Faults
  BY DEF Next
<1>2. CASE UNCHANGED vars
  BY <1>2 DEF vars, world, process, durable, history
<1>3. CASE World
  BY <1>3 DEF World, Publish, Delay, Advance, process, durable, history
<1>4. CASE Intake \/ Transport
  BY <1>4 DEF Intake, Transport, Subscribe, Receive, Keepalive, Lose, RejectSince, world, durable, history
<1>5. CASE Coordinator
  BY <1>5 DEF Coordinator, Dispatch, world
<1>6. CASE Releaser
  <2>1. ASSUME NEW w \in Windows, LetGoEarly(w) PROVE broken'.until = broken.until
    BY <2>1 DEF LetGoEarly, TypeOK
  <2> QED
    BY <1>6, <2>1 DEF Releaser, Extend, ReleaseTurn, ReleaseQuietly, world, process, durable, history
<1>7. CASE Core
  BY <1>7 DEF Core, ProcessMarker, StartTriage, FlushTriage, AdvanceCheckpoint, world, durable, history
<1>8. CASE Faults
  <2>1. ASSUME NEW n \in 1..Len(arrived), DispatchRaises(n) PROVE broken'.until = broken.until
    BY <2>1 DEF DispatchRaises, TypeOK
  <2> QED
    BY <1>8, <2>1 DEF Faults, DispatchRaises, StartRaises, FlushFails, Restart, world, durable, history
<1> QED
  BY <1>1, <1>2, <1>3, <1>4, <1>5, <1>6, <1>7, <1>8

LEMMA InitTimely == Init => Timely
<1> SUFFICES ASSUME Init PROVE Timely
  OBVIOUS
<1>1. Position = {} /\ Len(queue) = 0
  BY DEF Init, Position
<1>2. 0 <= Reach(0) /\ clock = 0
  BY ReachType DEF Init, Instant
<1>3. \A A \in Ident : recorded[A].at = -1 /\ lastTriaged[A] = -1 /\ broken.until[A] = 0
  BY DEF Init, NoRecord, Never
<1>4. core.phase = "idle"
  BY DEF Init, Idle
<1> QED
  BY <1>1, <1>2, <1>3, <1>4 DEF Timely, TopicInOrder, DatedBefore, QueueInOrder

LEMMA DatesHold ==
  ASSUME GroundInv, GroundInv', Timely, [Next]_vars
  PROVE  TopicInOrder' /\ DatedBefore(clock)'
<1>0. TypeOK /\ TypeOK'
  BY DEF GroundInv
<1>1. clock \in Nat /\ clock' \in Nat /\ clock <= clock' /\ Reach(clock) <= Reach(clock')
      /\ Reach(clock) \in Nat /\ Reach(clock') \in Nat
  <2>1. clock \in Nat /\ clock' \in Nat /\ clock <= clock'
    <3>1. clock \in Nat /\ clock' \in Nat
      BY <1>0 DEF TypeOK
    <3>2. clock' = clock \/ clock' = clock + 1
      BY <1>0, Moves DEF Advance
    <3> QED
      BY <3>1, <3>2
  <2> QED
    BY <2>1, ReachType DEF Instant
<1>2. TopicInOrder' /\ \A i \in Position' : topic'[i].at <= clock'
  <2>1. CASE UNCHANGED topic
    <3>1. \A i \in Position : topic[i].at <= clock /\ topic[i].at \in Nat
      BY <1>0, Numbers DEF Timely, DatedBefore
    <3> QED
      BY <1>1, <2>1, <3>1 DEF Timely, TopicInOrder, Position
  <2>2. ASSUME NEW A \in Ident, NEW resolved \in Resolved, Publish(A, resolved)
        PROVE  TopicInOrder' /\ \A i \in Position' : topic'[i].at <= clock'
    <3>1. /\ Len(topic') = Len(topic) + 1 /\ Position \subseteq Position' /\ Len(topic) \in Nat
          /\ \A i \in Position : topic'[i] = topic[i]
          /\ topic'[Len(topic) + 1].at = clock /\ clock' = clock
      <4>1. Len(topic) \in Nat
        BY <1>0, Lengths
      <4>2. /\ Len(topic') = Len(topic) + 1 /\ Position \subseteq Position'
            /\ \A i \in Position : topic'[i] = topic[i]
            /\ topic'[Len(topic) + 1] = [ident |-> A, resolved |-> resolved, at |-> clock]
        BY <1>0, <2>2, Published
      <4>3. clock' = clock
        BY <2>2 DEF Publish
      <4> QED
        BY <4>1, <4>2, <4>3
    <3>2. \A i \in Position : topic[i].at <= clock /\ topic[i].at \in Nat
      BY <1>0, Numbers DEF Timely, DatedBefore
    <3>3. \A i \in Position' : /\ i \in Position \/ i = Len(topic) + 1
                               /\ i \in Nat /\ i <= Len(topic) + 1
      BY <3>1 DEF Position
    <3>4. \A i \in Position : i <= Len(topic) /\ i \in Nat
      BY <3>1 DEF Position
    <3>5. ASSUME NEW i \in Position', NEW j \in Position', i <= j PROVE topic'[i].at <= topic'[j].at
      <4>1. CASE i \in Position /\ j \in Position
        BY <3>1, <3>5, <4>1 DEF Timely, TopicInOrder
      <4>2. CASE j = Len(topic) + 1
        BY <1>1, <3>1, <3>2, <3>3, <4>2
      <4>3. CASE i = Len(topic) + 1
        BY <3>1, <3>3, <3>4, <3>5, <4>2, <4>3
      <4> QED
        BY <3>3, <4>1, <4>2, <4>3
    <3> QED
      BY <1>1, <3>1, <3>2, <3>3, <3>5 DEF TopicInOrder
  <2> QED
    BY <1>0, <2>1, <2>2, Moves
<1>3. \A A \in Ident : /\ recorded[A].at <= clock /\ recorded[A].at \in Int
                       /\ lastTriaged[A] <= clock /\ lastTriaged[A] \in Int
                       /\ broken.until[A] <= Reach(clock) /\ broken.until[A] \in Nat
  BY <1>0, Numbers DEF Timely, DatedBefore
<1>4. \A A \in Ident : recorded'[A].at <= clock'
  <2>1. CASE FlushTriage
    <3>1. \A A \in Ident : recorded'[A].at \in {clock, recorded[A].at}
      BY <2>1 DEF FlushTriage
    <3> QED
      BY <1>1, <1>3, <3>1
  <2> QED
    BY <1>0, <1>1, <1>3, <2>1, Moves
<1>5. \A A \in Ident : lastTriaged'[A] <= clock'
  <2>1. ASSUME NEW S, lastTriaged' = Armed(S) PROVE \A A \in Ident : lastTriaged'[A] <= clock'
    <3>1. \A A \in Ident : lastTriaged'[A] \in {clock, lastTriaged[A]}
      BY <2>1 DEF Armed
    <3> QED
      BY <1>1, <1>3, <3>1
  <2>2. CASE Restart
    BY <1>1, <1>3, <2>2 DEF Restart
  <2>3. ASSUME NEW n \in 1..Len(arrived), Dispatch(n) PROVE \E S : lastTriaged' = Armed(S)
    BY <2>3, DispatchSubmits
  <2>4. ASSUME NEW w \in Windows, ReleaseTurn(w) PROVE \E S : lastTriaged' = Armed(S)
    BY <2>4, ReleaseSubmits
  <2> QED
    BY <1>0, <1>1, <1>3, <2>1, <2>2, <2>3, <2>4, Moves
<1>6. \A A \in Ident : broken'.until[A] <= Reach(clock')
  <2>1. CASE StartRaises
    <3>1. Head(queue) = queue[1] /\ 1 \in 1..Len(queue)
      BY <1>0, <2>1, TailIs DEF StartRaises, TypeOK
    <3>2. queue[1].armed <= clock /\ queue[1].armed \in Int
      BY <1>0, <3>1, Numbers DEF Timely, ItemDated
    <3>3. Reach(queue[1].armed) <= Reach(clock) /\ Reach(queue[1].armed) \in Nat
      <4>1. queue[1].armed \in Instant
        BY <1>0, <3>1, Numbers
      <4> QED
        BY <1>1, <3>2, <4>1, ReachType
    <3>4. \A A \in Ident : broken'.until[A] \in {Reach(queue[1].armed), broken.until[A]}
      BY <1>0, <2>1, <3>1 DEF StartRaises, TypeOK
    <3> QED
      BY <1>1, <1>3, <3>3, <3>4
  <2> QED
    BY <1>0, <1>1, <1>3, <2>1, Moves
<1>7. core'.phase # "idle" => 0 <= core'.turn.armed /\ core'.turn.armed <= clock'
  <2>1. CASE StartTriage
    <3>1. core'.turn = queue[1] /\ 1 \in 1..Len(queue) /\ queue[1].idents # {}
      BY <1>0, <2>1, TailIs DEF StartTriage, TypeOK
    <3>2. queue[1].armed <= clock /\ queue[1].armed \in Int /\ 0 <= queue[1].armed
      BY <1>0, <3>1, Numbers DEF Timely, ItemDated
    <3> QED
      BY <1>1, <3>1, <3>2
  <2>2. CASE AdvanceCheckpoint \/ FlushFails \/ Restart
    BY <2>2 DEF AdvanceCheckpoint, FlushFails, Restart, Idle
  <2>3. CASE FlushTriage \/ UNCHANGED core
    <3>1. core'.turn = core.turn /\ (core'.phase # "idle" => core.phase # "idle")
      BY <1>0, <2>3 DEF FlushTriage, TypeOK
    <3>2. core.turn.armed \in Int
      BY <1>0, Numbers
    <3> QED
      BY <1>1, <3>1, <3>2 DEF Timely, DatedBefore
  <2> QED
    BY <1>0, <2>1, <2>2, <2>3, Moves
<1> QED
  BY <1>2, <1>4, <1>5, <1>6, <1>7 DEF DatedBefore

LEMMA QueueHolds ==
  ASSUME GroundInv, GroundInv', Timely, [Next]_vars
  PROVE  (\A k \in 1..Len(queue) : ItemDated(queue[k]))' /\ QueueInOrder'
<1>0. /\ TypeOK /\ TypeOK' /\ Len(queue) \in Nat /\ queue \in Seq(Item)
      /\ clock \in Nat /\ clock' \in Nat /\ clock <= clock'
      /\ \A k \in 1..Len(queue) : queue[k].armed \in Int /\ queue[k].idents \subseteq Ident
      /\ \A k \in 1..Len(queue) : ItemDated(queue[k])
      /\ \A A \in Ident : broken.until[A] \in Nat /\ broken.until[A] <= Reach(clock)
  <2>1. TypeOK /\ TypeOK'
    BY DEF GroundInv
  <2>2. clock' = clock \/ clock' = clock + 1
    BY <2>1, Moves DEF Advance
  <2>3. clock \in Nat /\ clock' \in Nat /\ queue \in Seq(Item)
    BY <2>1 DEF TypeOK
  <2>4. clock <= clock'
    BY <2>2, <2>3
  <2> QED
    BY <2>1, <2>3, <2>4, Numbers, Lengths DEF Timely, DatedBefore
<1>1. CASE UNCHANGED queue
  <2>1. broken'.until = broken.until
    <3>1. ~StartRaises
      <4> SUFFICES ASSUME StartRaises PROVE FALSE
        OBVIOUS
      <4>1. queue # << >> /\ queue' = Tail(queue)
        BY DEF StartRaises
      <4>2. Len(Tail(queue)) = Len(queue) - 1
        BY <1>0, <4>1, TailIs
      <4> QED
        BY <1>0, <1>1, <4>1, <4>2
    <3> QED
      BY <1>0, <3>1, Moves
  <2> QED
    BY <1>0, <1>1, <2>1 DEF ItemDated, QueueInOrder, Timely
<1>2. CASE queue # << >> /\ queue' = Tail(queue) /\ (ProcessMarker \/ StartTriage \/ StartRaises)
  <2>1. /\ Len(queue') = Len(queue) - 1 /\ Head(queue) = queue[1] /\ 1 \in 1..Len(queue)
        /\ \A k \in 1..Len(queue) - 1 : queue'[k] = queue[k + 1]
    BY <1>0, <1>2, TailIs
  <2>2. \A k \in 1..Len(queue) - 1 : k + 1 \in 1..Len(queue) /\ 1 <= k + 1
    BY <1>0
  <2>3. \A A \in Ident : \/ broken'.until[A] = broken.until[A]
                         \/ A \in queue[1].idents /\ broken'.until[A] = Reach(queue[1].armed)
    <3>1. CASE StartRaises
      BY <1>0, <2>1, <3>1 DEF StartRaises, TypeOK
    <3> QED
      BY <1>0, <3>1, Moves
  <2>4. ASSUME NEW k \in 1..Len(queue') PROVE ItemDated(queue[k])'
    <3>1. k + 1 \in 1..Len(queue) /\ ItemDated(queue[k + 1]) /\ queue'[k] = queue[k + 1]
      BY <1>0, <2>1, <2>2
    <3>2. queue[k + 1].idents # {} => queue[1].armed <= queue[k + 1].armed
      BY <2>1, <2>2, <3>1 DEF Timely, QueueInOrder
    <3>3. ASSUME NEW A \in queue[k + 1].idents PROVE broken'.until[A] <= Reach(queue[k + 1].armed)
      <4>1. A \in Ident /\ queue[1].armed <= queue[k + 1].armed
        BY <1>0, <3>1, <3>2, <3>3
      <4>2. Reach(queue[1].armed) <= Reach(queue[k + 1].armed)
        BY <1>0, <2>1, <3>1, <4>1, ReachType
      <4> QED
        BY <2>3, <3>1, <3>3, <4>1, <4>2 DEF ItemDated
    <3>4. queue'[k].armed <= clock' /\ (queue'[k].idents # {} => queue'[k].armed >= 0)
      BY <1>0, <3>1 DEF ItemDated
    <3> QED
      BY <3>1, <3>3, <3>4 DEF ItemDated
  <2>5. (\A k \in 1..Len(queue) : ItemDated(queue[k]))'
    BY <1>0, <2>1, <2>4 DEF ItemDated
  <2>6. QueueInOrder'
    <3>1. ASSUME NEW k \in 1..Len(queue'), NEW l \in 1..Len(queue'),
                 l <= k, queue'[k].idents # {}
          PROVE  queue'[l].armed <= queue'[k].armed
      <4>1. k + 1 \in 1..Len(queue) /\ l + 1 \in 1..Len(queue) /\ l + 1 <= k + 1
            /\ queue'[k] = queue[k + 1] /\ queue'[l] = queue[l + 1]
        BY <1>0, <2>1, <2>2, <3>1
      <4> QED
        BY <3>1, <4>1 DEF Timely, QueueInOrder
    <3> QED
      BY <3>1 DEF QueueInOrder
  <2> QED
    BY <2>5, <2>6
<1>3. ASSUME NEW e, queue' = Append(queue, e), e \in Item, e.armed <= clock, e.idents # {} => e.armed = clock,
             broken'.until = broken.until
      PROVE  (\A k \in 1..Len(queue) : ItemDated(queue[k]))' /\ QueueInOrder'
  <2>1. /\ Len(queue') = Len(queue) + 1 /\ queue'[Len(queue) + 1] = e
        /\ \A k \in 1..Len(queue) : queue'[k] = queue[k]
    BY <1>0, <1>3, AppendIs
  <2>2. \A k \in 1..Len(queue) + 1 : k \in 1..Len(queue) \/ k = Len(queue) + 1
    BY <1>0
  <2>3. e.armed \in Int /\ e.idents \subseteq Ident
    BY <1>3 DEF Item, Instant, Never
  <2>4. ASSUME NEW k \in 1..Len(queue') PROVE ItemDated(queue[k])'
    <3>1. CASE k \in 1..Len(queue)
      BY <1>0, <1>3, <2>1, <3>1 DEF ItemDated
    <3>2. CASE k = Len(queue) + 1
      BY <1>0, <1>3, <2>1, <2>3, <3>2 DEF ItemDated
    <3> QED
      BY <2>1, <2>2, <3>1, <3>2
  <2>5. QueueInOrder'
    <3>1. ASSUME NEW k \in 1..Len(queue'), NEW l \in 1..Len(queue'),
                 l <= k, queue'[k].idents # {}
          PROVE  queue'[l].armed <= queue'[k].armed
      <4>1. CASE k \in 1..Len(queue)
        <5>1. l \in 1..Len(queue)
          BY <1>0, <2>1, <3>1, <4>1
        <5> QED
          BY <2>1, <3>1, <4>1, <5>1 DEF Timely, QueueInOrder
      <4>2. CASE k = Len(queue) + 1
        <5>1. CASE l \in 1..Len(queue)
          BY <1>0, <1>3, <2>1, <3>1, <4>2, <5>1 DEF ItemDated
        <5>2. CASE l = Len(queue) + 1
          BY <2>1, <2>3, <4>2, <5>2
        <5> QED
          BY <2>1, <2>2, <5>1, <5>2
      <4> QED
        BY <2>1, <2>2, <4>1, <4>2
    <3> QED
      BY <3>1 DEF QueueInOrder
  <2> QED
    BY <2>4, <2>5
<1>4. ASSUME NEW n \in 1..Len(arrived), Dispatch(n)
      PROVE  (\A k \in 1..Len(queue) : ItemDated(queue[k]))' /\ QueueInOrder'
  <2>1. PICK S \in SUBSET Ident :
          \/ UNCHANGED queue
          \/ queue' = Append(queue, Marker(arrived[n])) /\ Marker(arrived[n]) \in Item
          \/ queue' = Append(queue, Turn(S, arrived[n], NoWindow))
             /\ Turn(S, arrived[n], NoWindow) \in Item
    BY <1>4, DispatchSubmits
  <2>2. broken'.until = broken.until
    BY <1>4 DEF Dispatch
  <2>3. Marker(arrived[n]).armed <= clock /\ Marker(arrived[n]).idents = {}
    BY <1>0 DEF Marker, NoItem, Never
  <2>4. Turn(S, arrived[n], NoWindow).armed = clock
    BY DEF Turn
  <2> QED
    BY <1>0, <1>1, <1>3, <2>1, <2>2, <2>3, <2>4
<1>5. ASSUME NEW w \in Windows, ReleaseTurn(w)
      PROVE  (\A k \in 1..Len(queue) : ItemDated(queue[k]))' /\ QueueInOrder'
  <2>1. PICK S \in SUBSET Ident :
          queue' = Append(queue, Turn(S, NoOffset, w)) /\ Turn(S, NoOffset, w) \in Item
    BY <1>5, ReleaseSubmits
  <2>2. broken'.until = broken.until
    BY <1>0, <1>5 DEF ReleaseTurn, LetGoEarly, TypeOK
  <2>3. Turn(S, NoOffset, w).armed = clock
    BY DEF Turn
  <2> QED
    BY <1>0, <1>3, <2>1, <2>2, <2>3
<1>6. CASE queue' = << >>
  <2>1. Len(queue') = 0
    BY <1>6
  <2> QED
    BY <2>1 DEF QueueInOrder
<1> QED
  BY <1>0, <1>1, <1>2, <1>4, <1>5, <1>6, QueueMoves

LEMMA Dated == Spec => []Timely
<1>1. Timely /\ GroundInv /\ GroundInv' /\ [Next]_vars => Timely'
  BY DatesHold, QueueHolds DEF Timely
<1> QED
  BY <1>1, InitTimely, Ground, PTL DEF Spec

-----------------------------------------------------------------------------
(* The cooldown *)

\* The cooldown table is never behind a triage on record, at work or queued.
TurnArmed(t, A) == A \in t.idents => 0 <= t.armed /\ t.armed <= lastTriaged[A]
CooldownInv ==
  \A A \in Ident :
    /\ recorded[A].armed <= lastTriaged[A] /\ recorded[A].armed <= recorded[A].at
    /\ TurnArmed(core.turn, A)
    /\ \A k \in 1..Len(queue) : TurnArmed(queue[k], A)

LEMMA InitCooldown == Init => CooldownInv
  BY DEF Init, CooldownInv, TurnArmed, Idle, NoItem, NoRecord, Never

\* What arming does to the table.
LEMMA ArmedAbove ==
  ASSUME GroundInv, Timely, NEW S \in SUBSET Ident, lastTriaged' = Armed(S)
  PROVE  \A A \in Ident : /\ lastTriaged[A] <= lastTriaged'[A] /\ lastTriaged[A] \in Int
                          /\ A \in S => lastTriaged'[A] = clock
                          /\ lastTriaged'[A] \in Int
<1>1. \A A \in Ident : /\ lastTriaged[A] <= clock /\ lastTriaged[A] \in Int /\ clock \in Int
                       /\ lastTriaged'[A] = IF A \in S THEN clock ELSE lastTriaged[A]
  BY Numbers DEF Armed, GroundInv, Timely, DatedBefore
<1> QED
  BY <1>1

LEMMA CooldownStep ==
  ASSUME GroundInv, GroundInv', Timely, CooldownInv, [Next]_vars
  PROVE  CooldownInv'
<1>0. /\ TypeOK /\ TypeOK' /\ Len(queue) \in Nat /\ queue \in Seq(Item) /\ clock \in Nat
      /\ \A k \in 1..Len(queue) : queue[k].armed \in Int /\ queue[k].idents \subseteq Ident
      /\ core.turn.armed \in Int
      /\ \A A \in Ident : /\ recorded[A].at \in Int /\ recorded[A].armed \in Int
                          /\ lastTriaged[A] \in Int /\ lastTriaged'[A] \in Int
                          /\ recorded'[A].at \in Int /\ recorded'[A].armed \in Int
                          /\ lastTriaged[A] <= clock
  <2>1. TypeOK /\ TypeOK' /\ queue \in Seq(Item)
    BY DEF GroundInv, TypeOK
  <2>2. \A A \in Ident : /\ recorded'[A].at \in Int /\ recorded'[A].armed \in Int
                         /\ lastTriaged'[A] \in Int
    BY <2>1 DEF TypeOK, Instant, Never
  <2> QED
    BY <2>1, <2>2, Numbers, Lengths DEF Timely, DatedBefore
<1>1. CASE Restart
  BY <1>0, <1>1 DEF Restart, durable, CooldownInv, TurnArmed, Idle, NoItem
<1>2. ASSUME ~Restart PROVE \A A \in Ident : lastTriaged[A] <= lastTriaged'[A]
  <2>1. ASSUME NEW n \in 1..Len(arrived), Dispatch(n)
        PROVE  \A A \in Ident : lastTriaged[A] <= lastTriaged'[A]
    <3>1. PICK S \in SUBSET Ident : lastTriaged' = Armed(S)
      BY <2>1, DispatchSubmits
    <3> QED
      BY <3>1, ArmedAbove
  <2>2. ASSUME NEW w \in Windows, ReleaseTurn(w)
        PROVE  \A A \in Ident : lastTriaged[A] <= lastTriaged'[A]
    <3>1. PICK S \in SUBSET Ident : lastTriaged' = Armed(S)
      BY <2>2, ReleaseSubmits
    <3> QED
      BY <3>1, ArmedAbove
  <2>3. CASE UNCHANGED lastTriaged
    BY <1>0, <2>3
  <2> QED
    BY <1>0, <1>2, <2>1, <2>2, <2>3, Moves
<1>3. ASSUME ~Restart
      PROVE  \A A \in Ident : recorded'[A].armed <= lastTriaged'[A] /\ recorded'[A].armed <= recorded'[A].at
  <2>1. CASE FlushTriage
    <3>1. core.turn.armed <= clock
      BY <2>1 DEF FlushTriage, Timely, DatedBefore
    <3>2. \A A \in Ident : \/ recorded'[A] = recorded[A]
                           \/ /\ A \in core.turn.idents /\ recorded'[A].at = clock
                              /\ recorded'[A].armed = core.turn.armed
      BY <2>1 DEF FlushTriage
    <3>3. \A A \in Ident : A \in core.turn.idents => core.turn.armed <= lastTriaged[A]
      BY DEF CooldownInv, TurnArmed
    <3> QED
      BY <1>0, <1>2, <1>3, <3>1, <3>2, <3>3 DEF CooldownInv
  <2>2. CASE UNCHANGED recorded
    BY <1>0, <1>2, <1>3, <2>2 DEF CooldownInv
  <2> QED
    BY <1>0, <2>1, <2>2, Moves
<1>4. ASSUME ~Restart, NEW t, NEW A \in Ident, TurnArmed(t, A), t.armed \in Int
      PROVE  A \in t.idents => 0 <= t.armed /\ t.armed <= lastTriaged'[A]
  BY <1>0, <1>2, <1>4 DEF TurnArmed
<1>5. ASSUME ~Restart, NEW A \in Ident PROVE TurnArmed(core.turn, A)'
  <2>1. CASE StartTriage
    <3>1. core'.turn = queue[1] /\ 1 \in 1..Len(queue)
      BY <1>0, <2>1, TailIs DEF StartTriage
    <3>2. TurnArmed(queue[1], A) /\ queue[1].armed \in Int
      BY <1>0, <3>1 DEF CooldownInv
    <3> QED
      BY <1>4, <1>5, <3>1, <3>2 DEF TurnArmed
  <2>2. CASE AdvanceCheckpoint \/ FlushFails
    BY <2>2 DEF AdvanceCheckpoint, FlushFails, Idle, NoItem, TurnArmed
  <2>3. CASE FlushTriage \/ UNCHANGED core
    <3>1. core'.turn = core.turn
      BY <1>0, <2>3 DEF FlushTriage, TypeOK
    <3>2. TurnArmed(core.turn, A)
      BY DEF CooldownInv
    <3> QED
      BY <1>0, <1>4, <1>5, <3>1, <3>2 DEF TurnArmed
  <2> QED
    BY <1>0, <1>5, <2>1, <2>2, <2>3, Moves
<1>6. ASSUME NEW e, NEW S \in SUBSET Ident, e.idents \in {{}, S}, e.armed = clock \/ e.idents = {}, e \in Item,
             lastTriaged' = Armed(S), queue' = Append(queue, e), ~Restart, NEW A \in Ident
      PROVE  \A k \in 1..Len(queue') : TurnArmed(queue[k], A)'
  <2>1. /\ Len(queue') = Len(queue) + 1 /\ queue'[Len(queue) + 1] = e
        /\ \A k \in 1..Len(queue) : queue'[k] = queue[k]
    BY <1>0, <1>6, AppendIs
  <2>2. A \in S => lastTriaged'[A] = clock
    BY <1>6, ArmedAbove
  <2>3. ASSUME NEW k \in 1..Len(queue') PROVE TurnArmed(queue[k], A)'
    <3>1. CASE k \in 1..Len(queue)
      <4>1. TurnArmed(queue[k], A) /\ queue[k].armed \in Int /\ queue'[k] = queue[k]
        BY <1>0, <2>1, <3>1 DEF CooldownInv
      <4> QED
        BY <1>4, <1>6, <4>1 DEF TurnArmed
    <3>2. CASE k = Len(queue) + 1
      <4>1. e.idents = {} \/ (e.idents = S /\ e.armed = clock)
        BY <1>6
      <4>2. CASE e.idents = {}
        BY <2>1, <3>2, <4>2 DEF TurnArmed
      <4>3. CASE e.idents = S /\ e.armed = clock
        BY <1>0, <2>1, <2>2, <3>2, <4>3 DEF TurnArmed
      <4> QED
        BY <4>1, <4>2, <4>3
    <3> QED
      BY <1>0, <2>1, <3>1, <3>2
  <2> QED
    BY <2>3
<1>7. ASSUME ~Restart, NEW A \in Ident PROVE \A k \in 1..Len(queue') : TurnArmed(queue[k], A)'
  <2>1. CASE UNCHANGED queue
    <3>1. \A k \in 1..Len(queue) : TurnArmed(queue[k], A) /\ queue[k].armed \in Int
      BY <1>0 DEF CooldownInv
    <3> QED
      BY <1>4, <1>7, <2>1, <3>1 DEF TurnArmed
  <2>2. CASE queue # << >> /\ queue' = Tail(queue)
    <3>1. /\ Len(queue') = Len(queue) - 1
          /\ \A k \in 1..Len(queue) - 1 : queue'[k] = queue[k + 1]
      BY <1>0, <2>2, TailIs
    <3>2. \A k \in 1..Len(queue') : k + 1 \in 1..Len(queue) /\ queue'[k] = queue[k + 1]
      BY <1>0, <3>1
    <3>3. \A k \in 1..Len(queue) : TurnArmed(queue[k], A) /\ queue[k].armed \in Int
      BY <1>0 DEF CooldownInv
    <3> QED
      BY <1>4, <1>7, <3>2, <3>3 DEF TurnArmed
  <2>3. ASSUME NEW n \in 1..Len(arrived), Dispatch(n)
        PROVE  \A k \in 1..Len(queue') : TurnArmed(queue[k], A)'
    <3>1. PICK S \in SUBSET Ident :
            /\ lastTriaged' = Armed(S)
            /\ \/ UNCHANGED queue
               \/ queue' = Append(queue, Marker(arrived[n])) /\ Marker(arrived[n]) \in Item
               \/ queue' = Append(queue, Turn(S, arrived[n], NoWindow))
                  /\ Turn(S, arrived[n], NoWindow) \in Item
      BY <2>3, DispatchSubmits
    <3>2. Marker(arrived[n]).idents = {}
      BY DEF Marker, NoItem
    <3>3. Turn(S, arrived[n], NoWindow).armed = clock /\ Turn(S, arrived[n], NoWindow).idents = S
      BY DEF Turn
    <3>4. CASE queue' = Append(queue, Marker(arrived[n])) /\ Marker(arrived[n]) \in Item
      BY <1>6, <1>7, <3>1, <3>2, <3>4
    <3>5. CASE queue' = Append(queue, Turn(S, arrived[n], NoWindow)) /\ Turn(S, arrived[n], NoWindow) \in Item
      BY <1>6, <1>7, <3>1, <3>3, <3>5
    <3> QED
      BY <2>1, <3>1, <3>4, <3>5
  <2>4. ASSUME NEW w \in Windows, ReleaseTurn(w)
        PROVE  \A k \in 1..Len(queue') : TurnArmed(queue[k], A)'
    <3>1. PICK S \in SUBSET Ident :
            /\ lastTriaged' = Armed(S)
            /\ queue' = Append(queue, Turn(S, NoOffset, w)) /\ Turn(S, NoOffset, w) \in Item
      BY <2>4, ReleaseSubmits
    <3>2. Turn(S, NoOffset, w).armed = clock /\ Turn(S, NoOffset, w).idents = S
      BY DEF Turn
    <3> QED
      BY <1>6, <1>7, <3>1, <3>2
  <2> QED
    BY <1>0, <1>7, <2>1, <2>2, <2>3, <2>4, QueueMoves
<1> QED
  BY <1>1, <1>3, <1>5, <1>7 DEF CooldownInv

LEMMA Cooling == Spec => []CooldownInv
<1>1. CooldownInv /\ Timely /\ GroundInv /\ GroundInv' /\ [Next]_vars => CooldownInv'
  BY CooldownStep
<1> QED
  BY <1>1, InitCooldown, Ground, Dated, PTL DEF Spec

\* Two triages of one identity start at least a cooldown apart, within a process
\* and across restarts (pipeline.py evaluate, rehydrate): what is put on the queue
\* names no identity that a record, the turn at work or a queued turn names from
\* less than a cooldown ago.
THEOREM CooldownKept == Spec => CooldownHolds
<1> DEFINE Apart ==
      Len(queue') > Len(queue) =>
       \A A \in queue'[Len(queue')].idents :
         /\ recorded[A].armed # Never => clock >= recorded[A].armed + Cooldown
         /\ \A k \in 1..Len(queue) : A \in queue[k].idents => clock >= queue[k].armed + Cooldown
         /\ A \in core.turn.idents => clock >= core.turn.armed + Cooldown
<1>1. ASSUME GroundInv, CooldownInv, [Next]_vars PROVE Apart
  <2> SUFFICES ASSUME Len(queue') > Len(queue), NEW A \in queue'[Len(queue')].idents
               PROVE  /\ recorded[A].armed # Never => clock >= recorded[A].armed + Cooldown
                      /\ \A k \in 1..Len(queue) : A \in queue[k].idents => clock >= queue[k].armed + Cooldown
                      /\ A \in core.turn.idents => clock >= core.turn.armed + Cooldown
    OBVIOUS
  <2>0. /\ TypeOK /\ Len(queue) \in Nat /\ queue \in Seq(Item)
    BY <1>1, Lengths DEF GroundInv, TypeOK
  <2>1. A \in Ident /\ A \notin Cooled(Ident)
    <3>1. ASSUME NEW e \in Item, queue' = Append(queue, e) PROVE A \in e.idents
      <4>1. Len(queue') = Len(queue) + 1 /\ queue'[Len(queue) + 1] = e
        BY <2>0, <3>1, AppendIs
      <4> QED
        BY <4>1
    <3>2. ASSUME NEW n \in 1..Len(arrived), Dispatch(n) PROVE A \in Ident /\ A \notin Cooled(Ident)
      <4>1. PICK S \in SUBSET Ident :
              /\ S \cap Cooled(Ident) = {}
              /\ \/ UNCHANGED queue
                 \/ queue' = Append(queue, Marker(arrived[n])) /\ Marker(arrived[n]) \in Item
                 \/ queue' = Append(queue, Turn(S, arrived[n], NoWindow))
                    /\ Turn(S, arrived[n], NoWindow) \in Item
        BY <1>1, <3>2, DispatchSubmits
      <4>2. Marker(arrived[n]).idents = {}
        BY DEF Marker, NoItem
      <4>3. Turn(S, arrived[n], NoWindow).idents = S
        BY DEF Turn
      <4>4. queue' # queue
        BY <2>0
      <4> QED
        BY <3>1, <4>1, <4>2, <4>3, <4>4
    <3>3. ASSUME NEW w \in Windows, ReleaseTurn(w) PROVE A \in Ident /\ A \notin Cooled(Ident)
      <4>1. PICK S \in SUBSET Ident :
              /\ S \cap Cooled(Ident) = {}
              /\ queue' = Append(queue, Turn(S, NoOffset, w)) /\ Turn(S, NoOffset, w) \in Item
        BY <1>1, <3>3, ReleaseSubmits
      <4>2. Turn(S, NoOffset, w).idents = S
        BY DEF Turn
      <4> QED
        BY <3>1, <4>1, <4>2
    <3>4. queue' # queue /\ queue' # << >> /\ (queue # << >> => queue' # Tail(queue))
      <4>1. queue # << >> => Len(Tail(queue)) = Len(queue) - 1
        BY <2>0, TailIs
      <4>2. Len(<< >>) = 0
        OBVIOUS
      <4> QED
        BY <2>0, <4>1, <4>2
    <3> QED
      BY <1>1, <2>0, <3>2, <3>3, <3>4, QueueMoves
  <2>2. /\ clock \in Nat /\ Cooldown \in Nat /\ lastTriaged[A] \in Instant
        /\ recorded[A].armed \in Instant /\ core.turn.armed \in Int
        /\ \A k \in 1..Len(queue) : queue[k].armed \in Int
    BY <2>0, <2>1, Numbers, EventPathAssumption DEF EventPathAssumption
  <2>3. lastTriaged[A] = Never \/ clock - lastTriaged[A] >= Cooldown
    BY <2>1, <2>2 DEF Cooled, Instant, Never
  <2>4. ASSUME NEW t \in Int, 0 <= t, t <= lastTriaged[A] PROVE clock >= t + Cooldown
    BY <2>2, <2>3, <2>4 DEF Instant, Never
  <2>5. recorded[A].armed # Never => 0 <= recorded[A].armed /\ recorded[A].armed \in Int
    BY <2>2 DEF Instant, Never
  <2>6. recorded[A].armed <= lastTriaged[A] /\ TurnArmed(core.turn, A)
        /\ \A k \in 1..Len(queue) : TurnArmed(queue[k], A)
    BY <1>1, <2>1 DEF CooldownInv
  <2> QED
    BY <2>2, <2>4, <2>5, <2>6 DEF TurnArmed
<1>2. [Apart]_vars \/ ~[Next]_vars \/ ~GroundInv \/ ~CooldownInv
  BY <1>1
<1>3. CooldownHolds <=> [][Apart]_vars
  BY DEF CooldownHolds
<1> HIDE DEF Apart
<1> QED
  BY <1>2, <1>3, Ground, Cooling, PTL DEF Spec

-----------------------------------------------------------------------------
(* Releases at work *)

\* A release's turn carries every identity that keeps its window in flight, and
\* what the window held is in it, has recovered, or was settled before.
ReleaseUnderway(t) ==
  \A w \in Windows : t.window = w /\ w \notin released =>
    /\ inFlight[w] = t.idents /\ t.idents # {}
    /\ \A j \in EventsOf(w) :
         \/ Covered(j) \/ j \in broken.early
         \/ topic[j].ident \in t.idents \cup RecoveredIn(w)
Releases ==
  /\ core.phase = "triaging" => ReleaseUnderway(core.turn) /\ core.turn.idents # {}
  /\ \A k \in 1..Len(queue) : ReleaseUnderway(queue[k])

\* What only grows, and which step lets a window go.
LEMMA Grows ==
  ASSUME GroundInv, [Next]_vars
  PROVE  /\ held \subseteq held' /\ released \subseteq released'
         /\ broken.early \subseteq broken'.early /\ broken.events \subseteq broken'.events
         /\ skipped \subseteq skipped'
<1>0. TypeOK
  BY DEF GroundInv
<1>1. held \subseteq held'
  BY DEF Next, World, Intake, Transport, Coordinator, Releaser, Core, Faults, Publish, Delay, Advance,
     Subscribe, Receive, Keepalive, Lose, RejectSince, Dispatch, Hold, DispatchRaises, Extend,
     ReleaseTurn, ReleaseQuietly, ProcessMarker, StartTriage, FlushTriage, AdvanceCheckpoint,
     StartRaises, FlushFails, Restart, vars, durable
<1>2. released \subseteq released'
  BY DEF Next, World, Intake, Transport, Coordinator, Releaser, Core, Faults, Publish, Delay, Advance,
     Subscribe, Receive, Keepalive, Lose, RejectSince, Dispatch, DispatchRaises, Extend,
     ReleaseTurn, ReleaseQuietly, ProcessMarker, StartTriage, FlushTriage, AdvanceCheckpoint,
     StartRaises, FlushFails, Restart, vars, durable
<1>3. skipped \subseteq skipped'
  <2>1. CASE Subscribe
    BY <1>0, <2>1 DEF Subscribe, GroundInv, Places
  <2>2. CASE UNCHANGED skipped
    BY <2>2
  <2>3. Subscribe \/ UNCHANGED skipped
    BY DEF Next, World, Intake, Transport, Coordinator, Releaser, Core, Faults, Publish, Delay, Advance,
       Receive, Keepalive, Lose, RejectSince, Dispatch, DispatchRaises, Extend,
       ReleaseTurn, ReleaseQuietly, ProcessMarker, StartTriage, FlushTriage, AdvanceCheckpoint,
       StartRaises, FlushFails, Restart, vars, history
  <2> QED
    BY <2>1, <2>2, <2>3
<1>4. broken.early \subseteq broken'.early /\ broken.events \subseteq broken'.events
  <2>1. CASE UNCHANGED broken
    BY <2>1
  <2>2. ASSUME NEW w \in Windows, LetGoEarly(w)
        PROVE  broken.early \subseteq broken'.early /\ broken.events \subseteq broken'.events
    BY <1>0, <2>2 DEF LetGoEarly, TypeOK
  <2>3. ASSUME NEW n \in 1..Len(arrived), DispatchRaises(n)
        PROVE  broken.early \subseteq broken'.early /\ broken.events \subseteq broken'.events
    BY <1>0, <2>3 DEF DispatchRaises, TypeOK
  <2>4. CASE StartRaises
    BY <1>0, <2>4 DEF StartRaises, TypeOK
  <2>5. \/ UNCHANGED broken \/ StartRaises \/ (\E w \in Windows : LetGoEarly(w))
        \/ \E n \in 1..Len(arrived) : DispatchRaises(n)
    BY DEF Next, World, Intake, Transport, Coordinator, Releaser, Core, Faults, Publish, Delay, Advance,
       Subscribe, Receive, Keepalive, Lose, RejectSince, Dispatch, Extend,
       ReleaseTurn, ReleaseQuietly, ProcessMarker, StartTriage, FlushTriage, AdvanceCheckpoint,
       FlushFails, Restart, vars, history
  <2> QED
    BY <2>1, <2>2, <2>3, <2>4, <2>5
<1> QED
  BY <1>1, <1>2, <1>3, <1>4

\* A window that is being let go, or was, holds nothing new.
LEMMA EventsFrozen ==
  ASSUME GroundInv, [Next]_vars, NEW w \in Windows, w \in released \/ inFlight[w] # {}
  PROVE  EventsOf(w)' = EventsOf(w) /\ RecoveredIn(w)' = RecoveredIn(w)
<1>0. /\ TypeOK /\ Position \subseteq Position' /\ \A i \in Position : topic'[i] = topic[i]
      /\ held \subseteq Position \X Windows /\ held \subseteq held'
  BY TopicGrows, Grows DEF GroundInv, Places
<1>1. \A i : <<i, w>> \in held' => <<i, w>> \in held
  <2>1. ASSUME NEW n \in 1..Len(arrived), Dispatch(n), NEW i, <<i, w>> \in held' PROVE <<i, w>> \in held
    <3> DEFINE B == {arrived[k] : k \in 1..n}
    <3>1. PICK usable \in BOOLEAN, failed \in SUBSET B : Hold(NewlyHeld(B, usable, failed), usable)
      BY <2>1 DEF Dispatch
    <3>2. SUFFICES ASSUME NEW h \in NewlyHeld(B, usable, failed), w = LatestEnding(OpenFor(h, usable))
                   PROVE FALSE
      BY <2>1, <3>1 DEF Hold
    <3>3. OpenFor(h, usable) # {} /\ OpenFor(h, usable) \in SUBSET Windows
      BY DEF NewlyHeld, OpenFor, ActiveAt
    <3>4. w \in OpenFor(h, usable)
      BY <1>0, <3>2, <3>3, LatestExists DEF TypeOK
    <3> QED
      BY <3>4 DEF OpenFor
  <2>2. UNCHANGED held \/ \E n \in 1..Len(arrived) : Dispatch(n)
    BY DEF Next, World, Intake, Transport, Coordinator, Releaser, Core, Faults, Publish, Delay, Advance,
       Subscribe, Receive, Keepalive, Lose, RejectSince, DispatchRaises, Extend,
       ReleaseTurn, ReleaseQuietly, ProcessMarker, StartTriage, FlushTriage, AdvanceCheckpoint,
       StartRaises, FlushFails, Restart, vars, durable
  <2> QED
    BY <2>1, <2>2
<1>2. EventsOf(w)' = EventsOf(w)
  BY <1>0, <1>1 DEF EventsOf
<1>3. EventsOf(w) \subseteq Position
  BY EventsOfType
<1>4. \A i \in EventsOf(w) : LastOf(i, w)' <=> LastOf(i, w)
  BY <1>0, <1>2, <1>3 DEF LastOf
<1>5. {i \in EventsOf(w) : LastOf(i, w) /\ topic[i].resolved}'
        = {i \in EventsOf(w) : LastOf(i, w) /\ topic[i].resolved}
  BY <1>0, <1>2, <1>3, <1>4
<1> QED
  BY <1>0, <1>2, <1>3, <1>5 DEF RecoveredIn, IdentsOf

LEMMA CoveredStays ==
  ASSUME GroundInv, Timely, [Next]_vars, NEW i \in Position, Covered(i)
  PROVE  Covered(i)'
<1> DEFINE A == topic[i].ident
<1>1. /\ topic'[i] = topic[i] /\ A \in Ident /\ topic[i].at \in Int
      /\ recorded[A].at \in Instant /\ recorded[A].at <= clock /\ clock \in Nat
      /\ recorded[A].at # Never /\ topic[i].at < Reach(recorded[A].at)
  BY TopicGrows, Numbers DEF GroundInv, Timely, DatedBefore, Covered
<1>2. recorded'[A].at \in {clock, recorded[A].at}
  <2>1. CASE FlushTriage
    BY <1>1, <2>1 DEF FlushTriage
  <2> QED
    BY <2>1, Moves DEF GroundInv
<1> HIDE DEF A
<1>3. Reach(recorded[A].at) <= Reach(clock) /\ Reach(recorded[A].at) \in Int /\ Reach(clock) \in Int
  BY <1>1, ReachType DEF Instant, Never
<1>4. clock # Never
  BY <1>1 DEF Never
<1> QED
  BY <1>1, <1>2, <1>3, <1>4 DEF Covered, A

\* What a window lets go is in the triage it submits, has recovered, is on
\* record, or is let go early.
LEMMA LetGoSettles ==
  ASSUME GroundInv, Timely, NEW w \in Windows, Releasable(w), LetGoEarly(w), NEW j \in EventsOf(w)
  PROVE  \/ topic[j].ident \in Forwarded(w) \ Cooled(Forwarded(w))
         \/ topic[j].ident \in RecoveredIn(w)
         \/ Covered(j) \/ j \in broken'.early
<1> DEFINE A == topic[j].ident
<1>0. TypeOK /\ j \in Position
  BY EventsOfType DEF GroundInv
<1>1. SUFFICES ASSUME A \in Cooled(Forwarded(w)), j \notin broken'.early PROVE Covered(j)
  BY DEF Forwarded, HeldIdents, IdentsOf
<1>2. /\ A \in Ident /\ topic[j].at \in Nat /\ topic[j].at <= clock /\ clock \in Nat
      /\ lastTriaged[A] \in Instant /\ recorded[A].at \in Instant
  BY <1>0, Numbers DEF Timely, DatedBefore
<1>3. A \notin InFlightIdents
  BY DEF Releasable, HeldIdents, IdentsOf
<1>4. ~(recorded[A].at < lastTriaged[A])
  BY <1>0, <1>1, <1>3 DEF LetGoEarly, Unproven, TypeOK
<1>5. lastTriaged[A] # Never /\ clock - lastTriaged[A] < Cooldown
  BY <1>1 DEF Cooled
<1> HIDE DEF A
<1>6. lastTriaged[A] \in Nat /\ recorded[A].at \in Nat /\ lastTriaged[A] <= recorded[A].at
  BY <1>2, <1>4, <1>5 DEF Instant, Never
<1>7. clock < Reach(lastTriaged[A])
  BY <1>2, <1>5, <1>6, ReachType
<1>8. Reach(lastTriaged[A]) <= Reach(recorded[A].at)
  BY <1>6, ReachType
<1>9. Reach(lastTriaged[A]) \in Nat /\ Reach(recorded[A].at) \in Nat
  BY <1>2, ReachType
<1>10. topic[j].at < Reach(recorded[A].at)
  BY <1>2, <1>7, <1>8, <1>9
<1> QED
  BY <1>6, <1>10 DEF Covered, A, Never

LEMMA InitReleases == Init => Releases
  BY DEF Init, Releases, Idle

LEMMA ReleasesStep ==
  ASSUME GroundInv, GroundInv', Timely, Releases, [Next]_vars
  PROVE  Releases'
<1> DEFINE Kept(t) ==
      \A w \in Windows : t.window = w /\ w \notin released' =>
        /\ inFlight'[w] = t.idents /\ t.idents # {}
        /\ \A j \in EventsOf(w)' :
             \/ Covered(j)' \/ j \in broken'.early
             \/ topic'[j].ident \in t.idents \cup RecoveredIn(w)'
<1>0. /\ TypeOK /\ TypeOK' /\ Len(queue) \in Nat /\ queue \in Seq(Item)
      /\ released \subseteq released' /\ broken.early \subseteq broken'.early
      /\ \A i \in Position : topic'[i] = topic[i]
  <2>1. TypeOK /\ TypeOK' /\ queue \in Seq(Item)
    BY DEF GroundInv, TypeOK
  <2> QED
    BY <2>1, Lengths, Grows, TopicGrows
<1>1. ASSUME NEW t, ReleaseUnderway(t),
             \A w \in Windows : t.window = w /\ w \notin released' => inFlight'[w] = inFlight[w]
      PROVE  Kept(t)
  <2> SUFFICES ASSUME NEW w \in Windows, t.window = w, w \notin released'
               PROVE  /\ inFlight'[w] = t.idents /\ t.idents # {}
                      /\ \A j \in EventsOf(w)' :
                           \/ Covered(j)' \/ j \in broken'.early
                           \/ topic'[j].ident \in t.idents \cup RecoveredIn(w)'
    OBVIOUS
  <2>1. /\ inFlight[w] = t.idents /\ t.idents # {} /\ inFlight'[w] = t.idents
        /\ \A j \in EventsOf(w) : \/ Covered(j) \/ j \in broken.early
                                  \/ topic[j].ident \in t.idents \cup RecoveredIn(w)
    BY <1>0, <1>1 DEF ReleaseUnderway
  <2>2. EventsOf(w)' = EventsOf(w) /\ RecoveredIn(w)' = RecoveredIn(w) /\ EventsOf(w) \subseteq Position
    BY <2>1, EventsFrozen, EventsOfType
  <2>3. \A j \in EventsOf(w) : Covered(j) => Covered(j)'
    BY <2>2, CoveredStays
  <2> QED
    BY <1>0, <2>1, <2>2, <2>3
<1>2. CASE Restart
  BY <1>2 DEF Restart, Releases, Idle
<1>3. ASSUME NEW w \in Windows, ReleaseTurn(w) PROVE Releases'
  <2>1. PICK S \in SUBSET Ident :
          /\ S # {} /\ S = Forwarded(w) \ Cooled(Forwarded(w))
          /\ queue' = Append(queue, Turn(S, NoOffset, w)) /\ Turn(S, NoOffset, w) \in Item
    BY <1>3, ReleaseSubmits
  <2>2. /\ inFlight' = [inFlight EXCEPT ![w] = S] /\ inFlight[w] = {} /\ w \notin released
        /\ Releasable(w) /\ LetGoEarly(w) /\ UNCHANGED <<core, held, topic, recorded, released>>
    BY <1>3, <2>1 DEF ReleaseTurn, Releasable, Considered, world, durable
  <2> DEFINE e == Turn(S, NoOffset, w)
  <2>3. e.window = w /\ e.idents = S
    BY DEF Turn
  <2>4. EventsOf(w)' = EventsOf(w) /\ RecoveredIn(w)' = RecoveredIn(w)
        /\ \A j \in EventsOf(w) : Covered(j)' <=> Covered(j)
    BY <2>2 DEF EventsOf, RecoveredIn, IdentsOf, LastOf, Position, Covered
  <2>5. inFlight'[w] = S
    BY <1>0, <2>2 DEF TypeOK
  <2> HIDE DEF e
  <2>6. Kept(e)
    <3>1. \A j \in EventsOf(w) : \/ topic[j].ident \in S \/ topic[j].ident \in RecoveredIn(w)
                                 \/ Covered(j) \/ j \in broken'.early
      BY <2>1, <2>2, LetGoSettles
    <3> QED
      BY <2>1, <2>2, <2>3, <2>4, <2>5, <3>1
  <2>7. ASSUME NEW t, ReleaseUnderway(t) PROVE Kept(t)
    <3>1. \A v \in Windows : t.window = v /\ v \notin released' => inFlight'[v] = inFlight[v]
      <4> TAKE v \in Windows
      <4>1. CASE v = w
        BY <2>2, <2>7, <4>1 DEF ReleaseUnderway
      <4>2. CASE v # w
        BY <1>0, <2>2, <4>2 DEF TypeOK
      <4> QED
        BY <4>1, <4>2
    <3> HIDE DEF Kept
    <3> QED
      BY <1>1, <2>7, <3>1
  <2>8. /\ Len(queue') = Len(queue) + 1 /\ queue'[Len(queue) + 1] = e
        /\ \A k \in 1..Len(queue) : queue'[k] = queue[k]
    BY <1>0, <2>1, AppendIs DEF e
  <2>9. \A k \in 1..Len(queue') : Kept(queue'[k])
    <3>1. \A k \in 1..Len(queue) : Kept(queue[k])
      <4> HIDE DEF Kept
      <4> QED
        BY <2>7 DEF Releases
    <3>2. \A k \in 1..Len(queue) + 1 : k \in 1..Len(queue) \/ k = Len(queue) + 1
      BY <1>0
    <3> HIDE DEF Kept
    <3> QED
      BY <2>6, <2>8, <3>1, <3>2
  <2>10. core'.phase = "triaging" => Kept(core'.turn) /\ core'.turn.idents # {}
    <3>1. core' = core
      BY <2>2
    <3> HIDE DEF Kept
    <3> QED
      BY <2>7, <3>1 DEF Releases
  <2> QED
    BY <2>9, <2>10 DEF Releases, ReleaseUnderway
<1>4. ASSUME NEW t, ReleaseUnderway(t), ~Restart, \A w \in Windows : ~ReleaseTurn(w) PROVE Kept(t)
  <2>1. UNCHANGED inFlight
        \/ (core.turn.window \in released' /\ inFlight' = [inFlight EXCEPT ![core.turn.window] = {}])
    BY <1>4 DEF Next, World, Intake, Transport, Coordinator, Releaser, Core, Faults, Publish, Delay, Advance,
       Subscribe, Receive, Keepalive, Lose, RejectSince, Dispatch, DispatchRaises, Extend,
       ReleaseQuietly, ProcessMarker, StartTriage, FlushTriage, AdvanceCheckpoint,
       StartRaises, FlushFails, vars, process
  <2>2. \A w \in Windows : t.window = w /\ w \notin released' => inFlight'[w] = inFlight[w]
    BY <1>0, <2>1 DEF TypeOK
  <2> HIDE DEF Kept
  <2> QED
    BY <1>1, <1>4, <2>2
<1>5. ASSUME ~Restart, \A w \in Windows : ~ReleaseTurn(w) PROVE Releases'
  <2>1. \A k \in 1..Len(queue) : Kept(queue[k])
    <3> HIDE DEF Kept
    <3> QED
      BY <1>4, <1>5 DEF Releases
  <2>2. core.phase = "triaging" => Kept(core.turn) /\ core.turn.idents # {}
    <3> HIDE DEF Kept
    <3> QED
      BY <1>4, <1>5 DEF Releases
  <2>3. core'.phase = "triaging" => Kept(core'.turn) /\ core'.turn.idents # {}
    <3>1. CASE StartTriage
      <4>1. core'.turn = queue[1] /\ 1 \in 1..Len(queue) /\ queue[1].idents # {}
        BY <1>0, <3>1, TailIs DEF StartTriage
      <4> HIDE DEF Kept
      <4> QED
        BY <2>1, <4>1
    <3>2. CASE FlushTriage \/ AdvanceCheckpoint \/ FlushFails
      BY <1>0, <3>2 DEF FlushTriage, AdvanceCheckpoint, FlushFails, Idle, TypeOK
    <3>3. CASE UNCHANGED core
      <4> HIDE DEF Kept
      <4> QED
        BY <2>2, <3>3
    <3> HIDE DEF Kept
    <3> QED
      BY <1>0, <1>5, <3>1, <3>2, <3>3, Moves
  <2>4. \A k \in 1..Len(queue') : Kept(queue'[k])
    <3>1. CASE UNCHANGED queue
      BY <2>1, <3>1
    <3>2. CASE queue # << >> /\ queue' = Tail(queue)
      <4>1. /\ Len(queue') = Len(queue) - 1
            /\ \A k \in 1..Len(queue) - 1 : queue'[k] = queue[k + 1]
        BY <1>0, <3>2, TailIs
      <4>2. \A k \in 1..Len(queue') : k + 1 \in 1..Len(queue) /\ queue'[k] = queue[k + 1]
        BY <1>0, <4>1
      <4> HIDE DEF Kept
      <4> QED
        BY <2>1, <4>2
    <3>3. ASSUME NEW n \in 1..Len(arrived), Dispatch(n) PROVE \A k \in 1..Len(queue') : Kept(queue'[k])
      <4>1. PICK S \in SUBSET Ident :
              \/ UNCHANGED queue
              \/ queue' = Append(queue, Marker(arrived[n])) /\ Marker(arrived[n]) \in Item
              \/ queue' = Append(queue, Turn(S, arrived[n], NoWindow))
                 /\ Turn(S, arrived[n], NoWindow) \in Item
        BY <3>3, DispatchSubmits
      <4>2. Marker(arrived[n]).window = NoWindow /\ Turn(S, arrived[n], NoWindow).window = NoWindow
        BY DEF Marker, NoItem, Turn
      <4>3. ASSUME NEW e \in Item, e.window = NoWindow, queue' = Append(queue, e)
            PROVE  \A k \in 1..Len(queue') : Kept(queue'[k])
        <5>1. /\ Len(queue') = Len(queue) + 1 /\ queue'[Len(queue) + 1] = e
              /\ \A k \in 1..Len(queue) : queue'[k] = queue[k]
          BY <1>0, <4>3, AppendIs
        <5>2. Kept(e)
          BY <4>3, EventPathAssumption DEF EventPathAssumption, NoWindow
        <5>3. \A k \in 1..Len(queue) + 1 : k \in 1..Len(queue) \/ k = Len(queue) + 1
          BY <1>0
        <5> HIDE DEF Kept
        <5> QED
          BY <2>1, <5>1, <5>2, <5>3
      <4> HIDE DEF Kept
      <4> QED
        BY <3>1, <4>1, <4>2, <4>3
    <3> HIDE DEF Kept
    <3> QED
      BY <1>0, <1>5, <3>1, <3>2, <3>3, QueueMoves
  <2> QED
    BY <2>3, <2>4 DEF Releases, ReleaseUnderway
<1> QED
  BY <1>2, <1>3, <1>5

LEMMA ReleasesHold == Spec => []Releases
<1>1. Releases /\ Timely /\ GroundInv /\ GroundInv' /\ [Next]_vars => Releases'
  BY ReleasesStep
<1> QED
  BY <1>1, InitReleases, Ground, Dated, PTL DEF Spec

\* A window is let go only by its releaser, which has caught up or waited long
\* enough, for whatever the releaser has submitted before keeps its window in
\* flight (coordinator.py caught_up, release.py _consider).
THEOREM LetGoCaughtUp == Spec => ReleasedCaughtUp
<1> DEFINE Waited ==
      \A w \in Windows : LetGo(w) =>
       \/ intake.subscribed /\ intake.pos >= intake.backlog /\ arrived = <<>>
       \/ FallbackDue(w)
<1>1. ASSUME GroundInv, Releases, [Next]_vars PROVE Waited
  <2> SUFFICES ASSUME NEW w \in Windows, LetGo(w)
               PROVE  \/ intake.subscribed /\ intake.pos >= intake.backlog /\ arrived = <<>>
                      \/ FallbackDue(w)
    OBVIOUS
  <2>1. /\ w \notin released /\ inFlight[w] = {}
        /\ w \in released' \/ inFlight'[w] # {}
    BY DEF LetGo
  <2>2. ReleaseTurn(w) \/ ReleaseQuietly(w)
    <3>1. TypeOK
      BY <1>1 DEF GroundInv
    <3>2. ~FlushTriage
      <4> SUFFICES ASSUME FlushTriage PROVE FALSE
        OBVIOUS
      <4>1. ReleaseUnderway(core.turn)
        BY <1>1 DEF FlushTriage, Releases
      <4>2. \/ UNCHANGED <<released, inFlight>>
            \/ /\ core.turn.window # NoWindow
               /\ released' = released \cup {core.turn.window}
               /\ inFlight' = [inFlight EXCEPT ![core.turn.window] = {}]
        BY DEF FlushTriage
      <4> QED
        BY <2>1, <3>1, <4>1, <4>2 DEF ReleaseUnderway, TypeOK
    <3>3. ~Restart
      BY <2>1 DEF Restart, durable
    <3>4. ASSUME NEW v \in Windows, ReleaseTurn(v) PROVE v = w
      BY <2>1, <3>1, <3>4 DEF ReleaseTurn, durable, TypeOK
    <3>5. ASSUME NEW v \in Windows, ReleaseQuietly(v) PROVE v = w
      BY <2>1, <3>5 DEF ReleaseQuietly, process
    <3>6. UNCHANGED <<inFlight, released>> \/ FlushTriage \/ Restart
          \/ \E v \in Windows : ReleaseTurn(v) \/ ReleaseQuietly(v)
      BY <1>1 DEF Next, World, Intake, Transport, Coordinator, Releaser, Core, Faults, Publish, Delay, Advance,
         Subscribe, Receive, Keepalive, Lose, RejectSince, Dispatch, DispatchRaises, Extend,
         ProcessMarker, StartTriage, AdvanceCheckpoint, StartRaises, FlushFails, vars, process, durable
    <3> QED
      BY <2>1, <3>2, <3>3, <3>4, <3>5, <3>6
  <2>3. CaughtUp \/ FallbackDue(w)
    BY <2>2 DEF ReleaseTurn, ReleaseQuietly, Releasable
  <2> QED
    BY <1>1, <2>3 DEF CaughtUp, GroundInv, CursorOK
<1>2. ReleasedCaughtUp <=> [][Waited]_vars
  BY DEF ReleasedCaughtUp
<1> HIDE DEF Waited
<1> QED
  BY <1>1, <1>2, Ground, ReleasesHold, PTL DEF Spec

\* What a released window held is on record, has recovered, or was let go early.
LetGoDone ==
  \A w \in released : \A j \in EventsOf(w) :
    Covered(j) \/ j \in broken.early \/ topic[j].ident \in RecoveredIn(w)

LEMMA FlushCovers ==
  ASSUME GroundInv, Timely, FlushTriage, NEW i \in Position, topic[i].ident \in core.turn.idents
  PROVE  Covered(i)'
<1>1. /\ topic[i].ident \in Ident /\ topic[i].at \in Nat /\ topic[i].at <= clock /\ clock \in Nat
  BY Numbers DEF GroundInv, Timely, DatedBefore
<1>2. clock < Reach(clock) /\ Reach(clock) \in Nat
  BY <1>1, ReachType DEF Instant
<1>3. recorded'[topic[i].ident].at = clock /\ topic' = topic
  BY <1>1 DEF FlushTriage, world
<1> QED
  BY <1>1, <1>2, <1>3 DEF Covered, Never

LEMMA LetGoDoneStep ==
  ASSUME GroundInv, GroundInv', Timely, Releases, LetGoDone, [Next]_vars
  PROVE  LetGoDone'
<1>0. /\ TypeOK /\ broken.early \subseteq broken'.early
      /\ \A i \in Position : topic'[i] = topic[i]
      /\ \A w \in Windows : EventsOf(w) \subseteq Position
  BY Grows, TopicGrows, EventsOfType DEF GroundInv
<1> SUFFICES ASSUME NEW w \in Windows, w \in released', NEW j \in EventsOf(w)'
             PROVE  Covered(j)' \/ j \in broken'.early \/ topic'[j].ident \in RecoveredIn(w)'
  <2>1. released' \subseteq Windows
    BY DEF GroundInv, TypeOK
  <2> QED
    BY <2>1 DEF LetGoDone
<1>1. ASSUME w \in released \/ inFlight[w] # {}, NEW G, 
             \A h \in EventsOf(w) : Covered(h) \/ h \in broken.early
                                    \/ topic[h].ident \in RecoveredIn(w) \/ h \in G
      PROVE  Covered(j)' \/ j \in broken'.early \/ topic'[j].ident \in RecoveredIn(w)' \/ j \in G
  <2>1. EventsOf(w)' = EventsOf(w) /\ RecoveredIn(w)' = RecoveredIn(w)
    BY <1>1, EventsFrozen
  <2>2. j \in Position /\ j \in EventsOf(w)
    BY <1>0, <2>1
  <2>3. Covered(j) => Covered(j)'
    BY <2>2, CoveredStays
  <2> QED
    BY <1>0, <1>1, <2>1, <2>2, <2>3
<1>2. CASE w \in released
  BY <1>1, <1>2 DEF LetGoDone
<1>3. CASE w \notin released /\ FlushTriage
  <2>1. /\ core.turn.window = w /\ ReleaseUnderway(core.turn)
    BY <1>3 DEF FlushTriage, Releases
  <2>2. /\ inFlight[w] # {}
        /\ \A h \in EventsOf(w) : \/ Covered(h) \/ h \in broken.early
                                  \/ topic[h].ident \in core.turn.idents \cup RecoveredIn(w)
    BY <1>3, <2>1 DEF ReleaseUnderway
  <2>3. PICK G : G = {h \in EventsOf(w) : topic[h].ident \in core.turn.idents}
    OBVIOUS
  <2>4. Covered(j)' \/ j \in broken'.early \/ topic'[j].ident \in RecoveredIn(w)' \/ j \in G
    BY <1>1, <2>2, <2>3
  <2>5. j \in G => Covered(j)'
    BY <1>0, <1>3, <2>3, FlushCovers
  <2> QED
    BY <2>4, <2>5
<1>4. CASE w \notin released /\ ReleaseQuietly(w)
  <2>1. /\ Releasable(w) /\ LetGoEarly(w) /\ Forwarded(w) \subseteq Cooled(Forwarded(w))
        /\ UNCHANGED <<topic, held, recorded>>
    BY <1>4 DEF ReleaseQuietly, world
  <2>2. EventsOf(w)' = EventsOf(w) /\ RecoveredIn(w)' = RecoveredIn(w)
    BY <2>1 DEF EventsOf, RecoveredIn, IdentsOf, LastOf, Position
  <2>3. \/ topic[j].ident \in RecoveredIn(w) \/ Covered(j) \/ j \in broken'.early
    BY <2>1, <2>2, LetGoSettles
  <2>4. Covered(j) => Covered(j)'
    BY <1>0, <2>2, CoveredStays
  <2> QED
    BY <1>0, <2>1, <2>2, <2>3, <2>4
<1>5. w \in released \/ FlushTriage \/ ReleaseQuietly(w)
  BY DEF Next, World, Intake, Transport, Coordinator, Releaser, Core, Faults, Publish, Delay, Advance,
     Subscribe, Receive, Keepalive, Lose, RejectSince, Dispatch, DispatchRaises, Extend,
     ReleaseTurn, ReleaseQuietly, ProcessMarker, StartTriage, AdvanceCheckpoint,
     StartRaises, FlushFails, Restart, vars, durable
<1> QED
  BY <1>2, <1>3, <1>4, <1>5

LEMMA LetGoSettled == Spec => []LetGoDone
<1>1. Init => LetGoDone
  BY DEF Init, LetGoDone
<1>2. LetGoDone /\ Releases /\ Timely /\ GroundInv /\ GroundInv' /\ [Next]_vars => LetGoDone'
  BY LetGoDoneStep
<1> QED
  BY <1>1, <1>2, Ground, Dated, ReleasesHold, PTL DEF Spec

-----------------------------------------------------------------------------
(* Nothing is lost *)

\* The triage that turn t asks for answers for event i.
Carries(t, i) == topic[i].ident \in t.idents /\ topic[i].at < Reach(t.armed)
CoreCarries(i) == core.phase = "triaging" /\ Carries(core.turn, i)

\* The ways in which an event is accounted for: it is on disk, as a triage record
\* or as a held row; an event of its alert comes after o; it is on one of the
\* first n places of the queue, or on one of the first m of the batch.
Settled(i) == Covered(i) \/ \E j \in Known : j >= i /\ SameAlert(i, j)
Beyond(i, o) == \E j \in Position : j > o /\ j >= i /\ SameAlert(i, j)
Underway(i, n) == CoreCarries(i) \/ \E l \in 1..Len(queue) : l <= n /\ Carries(queue[l], i)
InHand(i, m) == \E l \in 1..Len(arrived) : l <= m /\ arrived[l] >= i /\ SameAlert(i, arrived[l])

Answered(i, o, n, m) == Settled(i) \/ Beyond(i, o) \/ Underway(i, n) \/ InHand(i, m)
Reached(o, n, m) == \A i \in Position : Spared(i) => Answered(i, o, n, m)

\* Where a subscription goes on.
Frontier ==
  IF intake.subscribed THEN intake.pos ELSE IF intake.cursor = ReplayAll THEN 0 ELSE intake.cursor

\* The k-th place of the queue (the turn at work is place 0) would move the
\* checkpoint to o; the k-th place of the batch, or what comes after it, is o.
Moving(o, k) ==
  \/ k = 0 /\ core.phase # "idle" /\ core.turn.offset = o
  \/ k \in 1..Len(queue) /\ queue[k].offset = o
Received(o, k) ==
  \/ k \in 1..Len(arrived) /\ arrived[k] = o
  \/ k = Len(arrived) /\ o = Frontier

\* What is on disk reaches the checkpoint; what is before a place of the queue
\* reaches the offset there; what is in the queue and before a place of the
\* batch reaches the event there.
OnDisk == \A i \in Position : Spared(i) => Settled(i) \/ Beyond(i, checkpoint)
Tracking ==
  /\ \A o \in Nat, k \in Nat : o # NoOffset /\ Moving(o, k) => Reached(o, k, 0)
  /\ \A o \in Nat, k \in Nat, n \in Nat : n = Len(queue) /\ Received(o, k) => Reached(o, n, k)

\* A cooldown stands for a record, for a triage to come, or for one that an
\* exception ended.
CooldownsMeanWork ==
  \A A \in Ident :
    \/ recorded[A].at >= lastTriaged[A]
    \/ broken.until[A] >= Reach(lastTriaged[A])
    \/ core.phase = "triaging" /\ A \in core.turn.idents /\ core.turn.armed >= lastTriaged[A]
    \/ \E l \in 1..Len(queue) : A \in queue[l].idents /\ queue[l].armed >= lastTriaged[A]

KeepsTrack == Contained => OnDisk /\ (~blocked => Tracking /\ CooldownsMeanWork)

\* An event that is not excused now never was before.
LEMMA UntilGrows ==
  ASSUME GroundInv, Timely, [Next]_vars
  PROVE  \A A \in Ident : broken.until[A] <= broken'.until[A] /\ broken.until[A] \in Nat /\ broken'.until[A] \in Int
<1>0. TypeOK /\ \A A \in Ident : broken.until[A] \in Nat
  BY Numbers DEF GroundInv
<1>1. CASE StartRaises
  <2>1. Head(queue) = queue[1] /\ 1 \in 1..Len(queue)
    BY <1>0, <1>1, TailIs DEF StartRaises, TypeOK
  <2>2. queue[1].armed \in Instant /\ Reach(queue[1].armed) \in Nat
    BY <1>0, <2>1, Numbers, ReachType
  <2>3. \A A \in queue[1].idents : broken.until[A] <= Reach(queue[1].armed)
    BY <2>1 DEF Timely, ItemDated
  <2>4. \A A \in Ident : \/ broken'.until[A] = broken.until[A]
                         \/ A \in queue[1].idents /\ broken'.until[A] = Reach(queue[1].armed)
    BY <1>0, <1>1, <2>1 DEF StartRaises, TypeOK
  <2> QED
    BY <1>0, <2>2, <2>3, <2>4
<1>2. CASE broken'.until = broken.until
  BY <1>0, <1>2
<1> QED
  BY <1>0, <1>1, <1>2, Moves

LEMMA SparedBefore ==
  ASSUME GroundInv, Timely, [Next]_vars, NEW i \in Position, Spared(i)'
  PROVE  Spared(i)
<1>1. /\ broken.events \subseteq Position /\ broken.early \subseteq Position
      /\ broken.events \subseteq broken'.events /\ broken.early \subseteq broken'.early
      /\ skipped \subseteq skipped' /\ \A j \in Position : topic'[j] = topic[j]
  BY Grows, TopicGrows DEF GroundInv, Places
<1>2. topic[i].ident \in Ident /\ topic[i].at \in Int
  BY Numbers DEF GroundInv
<1>3. topic[i].at >= broken.until[topic[i].ident]
  <2>1. topic[i].at >= broken'.until[topic[i].ident]
    BY <1>1 DEF Spared
  <2> QED
    BY <1>2, <2>1, UntilGrows
<1>4. i \notin skipped
  BY <1>1 DEF Spared
<1>5. \A j \in broken.events \cup broken.early : j >= i => ~SameAlert(i, j)
  BY <1>1 DEF Spared, SameAlert
<1> QED
  BY <1>3, <1>4, <1>5 DEF Spared

LEMMA SettledStays ==
  ASSUME GroundInv, Timely, [Next]_vars, NEW i \in Position, Settled(i)
  PROVE  Settled(i)'
<1>1. /\ held \subseteq held' /\ held \subseteq Position \X Windows
      /\ \A j \in Position : topic'[j] = topic[j]
  BY Grows, TopicGrows DEF GroundInv, Places
<1>2. CASE Covered(i)
  BY <1>2, CoveredStays DEF Settled
<1>3. CASE \E j \in Known : j >= i /\ SameAlert(i, j)
  <2>1. PICK j \in Known : j >= i /\ SameAlert(i, j)
    BY <1>3
  <2>2. j \in Position /\ j \in Known'
    BY <1>1, <2>1 DEF Known
  <2>3. SameAlert(i, j)'
    BY <1>1, <2>1, <2>2 DEF SameAlert
  <2> QED
    BY <2>1, <2>2, <2>3 DEF Settled
<1> QED
  BY <1>2, <1>3 DEF Settled

LEMMA BeyondStays ==
  ASSUME GroundInv, [Next]_vars, NEW i \in Position, NEW o, Beyond(i, o)
  PROVE  Beyond(i, o)'
<1>1. Position \subseteq Position' /\ \A j \in Position : topic'[j] = topic[j]
  BY TopicGrows DEF GroundInv
<1> QED
  BY <1>1 DEF Beyond, SameAlert

\* A later event of the same alert that is on record, or held, settles an earlier
\* one; and what is settled on disk is handled or will be taken up again.
LEMMA SettledIsKept ==
  ASSUME GroundInv, Timely, LetGoDone, NEW i \in Position, Spared(i), Settled(i)
  PROVE  Handled(i) \/ Awaited(i)
<1>0. /\ held \subseteq Position \X Windows /\ broken.early \subseteq Position
      /\ \A j \in Position : /\ j \in Nat /\ topic[j].at \in Nat /\ topic[j].ident \in Ident
      /\ \A A \in Ident : recorded[A].at \in Instant
  BY Numbers DEF GroundInv, Places
<1>1. CASE Covered(i)
  BY <1>1 DEF Handled
<1>2. CASE \E j \in Known : j >= i /\ SameAlert(i, j)
  <2>1. PICK j \in Position, w \in Windows : <<j, w>> \in held /\ j >= i /\ SameAlert(i, j)
    BY <1>0, <1>2 DEF Known
  <2>2. CASE w \notin released
    BY <2>1, <2>2 DEF Awaited, Resumes
  <2>3. CASE w \in released
    <3>1. j \in EventsOf(w)
      BY <2>1 DEF EventsOf
    <3>2. CASE Covered(j)
      <4>1. topic[i].at <= topic[j].at
        BY <2>1 DEF Timely, TopicInOrder
      <4>2. Reach(recorded[topic[i].ident].at) \in Nat
        BY <1>0, ReachType
      <4> QED
        BY <1>0, <2>1, <3>2, <4>1, <4>2 DEF Covered, SameAlert, Handled
    <3>3. CASE j \in broken.early
      BY <2>1, <3>3 DEF Spared
    <3>4. CASE topic[j].ident \in RecoveredIn(w)
      <4>1. topic[i].ident \in RecoveredIn(w)
        BY <2>1, <3>4 DEF SameAlert
      <4> QED
        BY <2>1, <2>3, <3>1, <4>1 DEF Recovered, Handled
    <3> QED
      BY <2>3, <3>1, <3>2, <3>3, <3>4 DEF LetGoDone
  <2> QED
    BY <2>2, <2>3
<1> QED
  BY <1>1, <1>2 DEF Settled

LEMMA FaultsGrow ==
  ASSUME GroundInv, [Next]_vars
  PROVE  Contained' => Contained
<1>0. faults \in [FaultKind -> Nat] /\ "hold" \in FaultKind /\ "stale" \in FaultKind
  BY DEF GroundInv, TypeOK, FaultKind
<1>1. UNCHANGED faults \/ \E kinds : Charge(kinds)
  <2>1. CASE UNCHANGED vars \/ World \/ Intake
    BY <2>1 DEF vars, World, Publish, Delay, Advance, Intake, Subscribe, Receive, Keepalive, history
  <2>2. CASE Transport \/ Coordinator
    <3>1. CASE Transport
      BY <3>1 DEF Transport, Lose, RejectSince
    <3>2. ASSUME NEW n \in 1..Len(arrived), Dispatch(n)
          PROVE  UNCHANGED faults \/ \E kinds : Charge(kinds)
      BY <3>2 DEF Dispatch
    <3> QED
      BY <2>2, <3>1, <3>2 DEF Coordinator
  <2>3. CASE Releaser
    BY <2>3 DEF Releaser, Extend, ReleaseTurn, ReleaseQuietly, Releasable, history
  <2>4. CASE Core
    BY <2>4 DEF Core, ProcessMarker, StartTriage, FlushTriage, AdvanceCheckpoint, WriteCheckpoint, history
  <2>5. CASE Faults
    BY <2>5 DEF Faults, DispatchRaises, StartRaises, FlushFails, Restart
  <2> QED
    BY <2>1, <2>2, <2>3, <2>4, <2>5 DEF Next
<1>2. \A k \in FaultKind : faults'[k] >= faults[k] /\ faults'[k] \in Nat
  BY <1>0, <1>1, ChargeType
<1> QED
  BY <1>0, <1>2 DEF Contained

LEMMA CarriesStays ==
  ASSUME GroundInv, [Next]_vars, NEW i \in Position, NEW t
  PROVE  Carries(t, i) <=> topic'[i].ident \in t.idents /\ topic'[i].at < Reach(t.armed)
BY TopicGrows DEF GroundInv, Carries

LEMMA CoreMoves ==
  ASSUME GroundInv, Timely, [Next]_vars, ~Restart, ~blocked', NEW i \in Position, CoreCarries(i)
  PROVE  CoreCarries(i)' \/ Settled(i)'
<1>0. core.phase = "triaging" /\ Carries(core.turn, i)
  BY DEF CoreCarries
<1>1. CASE FlushTriage
  BY <1>0, <1>1, FlushCovers DEF Settled, Carries
<1>2. CASE UNCHANGED core
  <2>1. topic'[i].ident \in core.turn.idents /\ topic'[i].at < Reach(core.turn.armed)
    BY <1>0, CarriesStays
  <2> QED
    BY <1>0, <1>2, <2>1 DEF CoreCarries, Carries, Reach
<1>3. ~StartTriage /\ ~AdvanceCheckpoint /\ ~FlushFails
  BY <1>0 DEF StartTriage, AdvanceCheckpoint, FlushFails
<1> QED
  BY <1>1, <1>2, <1>3, Moves DEF GroundInv

LEMMA Submissions ==
  ASSUME GroundInv
  PROVE  /\ \A k \in 1..Len(arrived) : Dispatch(k) =>
              UNCHANGED queue \/ \E e \in Item : queue' = Append(queue, e)
         /\ \A w \in Windows : ReleaseTurn(w) =>
              UNCHANGED queue \/ \E e \in Item : queue' = Append(queue, e)
<1>1. ASSUME NEW k \in 1..Len(arrived), Dispatch(k)
      PROVE  UNCHANGED queue \/ \E e \in Item : queue' = Append(queue, e)
  <2>1. PICK S \in SUBSET Ident :
          \/ UNCHANGED queue
          \/ queue' = Append(queue, Marker(arrived[k])) /\ Marker(arrived[k]) \in Item
          \/ queue' = Append(queue, Turn(S, arrived[k], NoWindow))
             /\ Turn(S, arrived[k], NoWindow) \in Item
    BY <1>1, DispatchSubmits
  <2> QED
    BY <2>1
<1>2. ASSUME NEW w \in Windows, ReleaseTurn(w) PROVE \E e \in Item : queue' = Append(queue, e)
  <2>1. PICK S \in SUBSET Ident :
          queue' = Append(queue, Turn(S, NoOffset, w)) /\ Turn(S, NoOffset, w) \in Item
    BY <1>2, ReleaseSubmits
  <2> QED
    BY <2>1
<1> QED
  BY <1>1, <1>2

\* What is underway stays underway until it is settled.  When the core takes the
\* first turn, every place of the queue moves up by one.
LEMMA UnderwayMoves ==
  ASSUME GroundInv, Timely, [Next]_vars, ~Restart, ~blocked', NEW i \in Position, Spared(i)',
         NEW n \in Nat, Underway(i, n)
  PROVE  /\ queue' # Tail(queue) \/ queue = << >> =>
              \A m \in Nat : m >= n => Underway(i, m)' \/ Settled(i)'
         /\ queue' = Tail(queue) /\ queue # << >> =>
              \A m \in Nat : n = m + 1 => Underway(i, m)' \/ Settled(i)'
<1>0. TypeOK /\ queue \in Seq(Item) /\ Len(queue) \in Nat
  BY Lengths DEF GroundInv, TypeOK
<1>1. CASE CoreCarries(i)
  <2>1. CoreCarries(i)' \/ Settled(i)'
    BY <1>1, CoreMoves
  <2>2. CoreCarries(i)' => \A m \in Nat : Underway(i, m)'
    BY DEF Underway
  <2> QED
    BY <2>1, <2>2
<1>2. CASE ~CoreCarries(i)
  <2>1. PICK l \in 1..Len(queue) : l <= n /\ Carries(queue[l], i)
    BY <1>2 DEF Underway
  <2>2. topic'[i].ident \in queue[l].idents /\ topic'[i].at < Reach(queue[l].armed)
    BY <2>1, CarriesStays
  <2>3. ASSUME queue' # Tail(queue) \/ queue = << >>, NEW m \in Nat, m >= n
        PROVE  Underway(i, m)'
    <3>1. Len(queue') \in Nat /\ Len(queue) <= Len(queue') /\ queue'[l] = queue[l]
      <4>1. CASE UNCHANGED queue
        BY <1>0, <4>1
      <4>2. ASSUME NEW e \in Item, queue' = Append(queue, e)
            PROVE  Len(queue') \in Nat /\ Len(queue) <= Len(queue') /\ queue'[l] = queue[l]
        BY <1>0, <4>2, AppendIs
      <4>3. ASSUME NEW k \in 1..Len(arrived), Dispatch(k)
            PROVE  UNCHANGED queue \/ \E e \in Item : queue' = Append(queue, e)
        BY <4>3, Submissions
      <4>4. ASSUME NEW w \in Windows, ReleaseTurn(w)
            PROVE  UNCHANGED queue \/ \E e \in Item : queue' = Append(queue, e)
        BY <4>4, Submissions
      <4> QED
        BY <1>0, <2>3, <4>1, <4>2, <4>3, <4>4, QueueMoves
    <3>2. l \in 1..Len(queue') /\ l <= m
      BY <1>0, <2>1, <2>3, <3>1
    <3>3. Carries(queue[l], i)'
      BY <2>2, <3>1 DEF Carries, Reach
    <3> QED
      BY <3>2, <3>3 DEF Underway
  <2>4. ASSUME queue' = Tail(queue), queue # << >>, NEW m \in Nat, n = m + 1
        PROVE  Underway(i, m)' \/ Settled(i)'
    <3>1. /\ Len(queue') = Len(queue) - 1 /\ Head(queue) = queue[1]
          /\ \A k \in 1..Len(queue) - 1 : queue'[k] = queue[k + 1]
      BY <1>0, <2>4, TailIs
    <3>2. CASE l = 1
      <4>1. ProcessMarker \/ StartTriage \/ StartRaises
        <5>1. queue' # queue
          BY <1>0, <3>1
        <5>2. ASSUME NEW e \in Item, queue' = Append(queue, e) PROVE FALSE
          BY <1>0, <3>1, <5>2, AppendIs
        <5>3. \A k \in 1..Len(arrived) : ~Dispatch(k)
          BY <5>1, <5>2, Submissions
        <5>4. \A w \in Windows : ~ReleaseTurn(w)
          BY <5>1, <5>2, Submissions
        <5> QED
          BY <1>0, <5>1, <5>3, <5>4, QueueMoves
      <4>2. ~ProcessMarker
        BY <2>1, <3>1, <3>2 DEF ProcessMarker, Carries
      <4>3. CASE StartTriage
        <5>1. core' = [phase |-> "triaging", turn |-> queue[1]]
          BY <3>1, <4>3 DEF StartTriage
        <5> QED
          BY <2>2, <3>2, <5>1 DEF Underway, CoreCarries, Carries, Reach
      <4>4. CASE StartRaises
        <5>1. broken'.until[topic[i].ident] = Reach(queue[1].armed)
          BY <1>0, <2>1, <3>1, <3>2, <4>4, Numbers DEF StartRaises, TypeOK, Carries
        <5>2. topic' = topic
          BY <4>4 DEF StartRaises, world
        <5>3. topic[i].at >= Reach(queue[1].armed)
          BY <5>1, <5>2 DEF Spared
        <5>4. topic[i].at \in Nat /\ Reach(queue[1].armed) \in Nat
          BY <1>0, <2>1, <3>2, Numbers, ReachType
        <5> QED
          BY <2>1, <3>2, <5>3, <5>4 DEF Carries
      <4> QED
        BY <4>1, <4>2, <4>3, <4>4
    <3>3. CASE l # 1
      <4>1. PICK k \in 1..Len(queue) - 1 : l = k + 1
        BY <1>0, <3>3
      <4>2. k \in 1..Len(queue') /\ k <= m /\ queue'[k] = queue[l]
        BY <1>0, <2>1, <2>4, <3>1, <4>1
      <4>3. Carries(queue[k], i)'
        BY <2>2, <4>2 DEF Carries, Reach
      <4> QED
        BY <4>2, <4>3 DEF Underway
    <3> QED
      BY <3>2, <3>3
  <2> QED
    BY <2>3, <2>4
<1> QED
  BY <1>1, <1>2

\* With the store readable and the snapshot fresh, a batch is held or submitted
\* as it should be.
LEMMA PlainDispatch ==
  ASSUME GroundInv, Contained', NEW n \in 1..Len(arrived), Dispatch(n)
  PROVE  LET B == {arrived[k] : k \in 1..n} IN
         /\ Hold(NewlyHeld(B, TRUE, {}), TRUE)
         /\ \E unwritten \in BOOLEAN :
              Submit(IdentsOf(Survivors(B, TRUE, {}, Known)), arrived[n], unwritten)
<1> DEFINE B == {arrived[k] : k \in 1..n}
<1>1. PICK usable \in BOOLEAN, failed \in SUBSET B, blind \in BOOLEAN, unwritten \in BOOLEAN :
        /\ Hold(NewlyHeld(B, usable, failed), usable)
        /\ Submit(IdentsOf(Survivors(B, usable, failed, IF blind THEN {} ELSE Known)),
                  arrived[n], unwritten)
        /\ Charge(If(~usable, "stale") \cup If(unwritten, "audit")
                   \cup If(blind \/ failed # {}, "hold"))
  BY DEF Dispatch
<1>2. faults \in [FaultKind -> Nat] /\ "stale" \in FaultKind /\ "hold" \in FaultKind
  BY DEF GroundInv, TypeOK, FaultKind
<1>3. faults'["stale"] = 0 /\ faults'["hold"] = 0
  BY DEF Contained
<1>4. PICK K : K = If(~usable, "stale") \cup If(unwritten, "audit") \cup If(blind \/ failed # {}, "hold")
  OBVIOUS
<1>5. \A k \in K \cap FaultKind : faults'[k] >= 1
  BY <1>1, <1>2, <1>4, ChargeType
<1>6. "stale" \notin K /\ "hold" \notin K
  BY <1>2, <1>3, <1>5
<1>7. usable /\ ~blind /\ failed = {}
  BY <1>4, <1>6 DEF If
<1> HIDE DEF B
<1>8. usable = TRUE /\ (IF blind THEN {} ELSE Known) = Known
  BY <1>7
<1> QED
  BY <1>1, <1>7, <1>8 DEF B

\* A cooldown that has not run out answers for whatever is there now.
LEMMA CooledIsWork ==
  ASSUME GroundInv, Timely, CooldownsMeanWork, NEW i \in Position, Spared(i),
         NEW S, topic[i].ident \in Cooled(S)
  PROVE  Settled(i) \/ \A n \in Nat : n >= Len(queue) => Underway(i, n)
<1> DEFINE A == topic[i].ident
<1>0. /\ A \in Ident /\ topic[i].at \in Nat /\ topic[i].at <= clock /\ clock \in Nat
      /\ lastTriaged[A] \in Instant /\ recorded[A].at \in Instant /\ broken.until[A] \in Nat
      /\ \A k \in 1..Len(queue) : queue[k].armed \in Instant
      /\ core.turn.armed \in Instant /\ Len(queue) \in Nat
  BY Numbers, Lengths DEF GroundInv, Timely, DatedBefore
<1>1. lastTriaged[A] # Never /\ clock - lastTriaged[A] < Cooldown
  BY DEF Cooled
<1>2. topic[i].at >= broken.until[A]
  BY DEF Spared
<1>w. \/ recorded[A].at >= lastTriaged[A]
      \/ broken.until[A] >= Reach(lastTriaged[A])
      \/ core.phase = "triaging" /\ A \in core.turn.idents /\ core.turn.armed >= lastTriaged[A]
      \/ \E l \in 1..Len(queue) : A \in queue[l].idents /\ queue[l].armed >= lastTriaged[A]
  BY <1>0 DEF CooldownsMeanWork
<1> HIDE DEF A
<1>3. lastTriaged[A] \in Nat /\ clock < Reach(lastTriaged[A]) /\ Reach(lastTriaged[A]) \in Nat
  <2>1. lastTriaged[A] \in Nat
    BY <1>0, <1>1 DEF Instant, Never
  <2> QED
    BY <1>0, <1>1, <2>1, ReachType
<1>4. ASSUME NEW t \in Instant, t >= lastTriaged[A] PROVE topic[i].at < Reach(t) /\ t # Never
  <2>1. t \in Nat
    BY <1>3, <1>4 DEF Instant, Never
  <2>2. Reach(lastTriaged[A]) <= Reach(t) /\ Reach(t) \in Nat
    BY <1>3, <1>4, <2>1, ReachType
  <2> QED
    BY <1>0, <1>3, <2>1, <2>2 DEF Never
<1>5. CASE recorded[A].at >= lastTriaged[A]
  BY <1>0, <1>4, <1>5 DEF Settled, Covered, A
<1>6. ~(broken.until[A] >= Reach(lastTriaged[A]))
  BY <1>0, <1>2, <1>3
<1>7. CASE core.phase = "triaging" /\ A \in core.turn.idents /\ core.turn.armed >= lastTriaged[A]
  BY <1>0, <1>4, <1>7 DEF Underway, CoreCarries, Carries, A
<1>8. CASE \E l \in 1..Len(queue) : A \in queue[l].idents /\ queue[l].armed >= lastTriaged[A]
  <2>1. PICK l \in 1..Len(queue) : A \in queue[l].idents /\ queue[l].armed >= lastTriaged[A]
    BY <1>8
  <2>2. Carries(queue[l], i)
    BY <1>0, <1>4, <2>1 DEF Carries, A
  <2>3. \A n \in Nat : n >= Len(queue) => l <= n
    BY <1>0
  <2> QED
    BY <2>2, <2>3 DEF Underway
<1> QED
  BY <1>w, <1>5, <1>6, <1>7, <1>8

LEMMA NoCrash ==
  ASSUME GroundInv, NEW n \in 1..Len(arrived), Dispatch(n) \/ DispatchRaises(n)
  PROVE  ~Restart
<1> SUFFICES ASSUME Restart PROVE FALSE
  OBVIOUS
<1>1. faults \in [FaultKind -> Nat] /\ "crash" \in FaultKind
  BY DEF GroundInv, TypeOK, FaultKind
<1>2. faults'["crash"] = faults["crash"] + 1
  BY <1>1 DEF Restart, Charge
<1>3. \E K : Charge(K) /\ "crash" \notin K
  <2>1. CASE Dispatch(n)
    BY <2>1 DEF Dispatch, If
  <2>2. CASE DispatchRaises(n)
    BY <2>2 DEF DispatchRaises
  <2> QED
    BY <2>1, <2>2
<1>4. faults'["crash"] = faults["crash"]
  BY <1>1, <1>3 DEF Charge
<1> QED
  BY <1>1, <1>2, <1>4

\* Every event of a dispatched batch is held, or in a triage.
LEMMA Processed ==
  ASSUME GroundInv, Timely, CooldownsMeanWork, Contained', ~blocked, [Next]_vars,
         NEW n \in 1..Len(arrived), Dispatch(n), NEW i \in Position, Spared(i)',
         NEW l \in 1..n, arrived[l] >= i, SameAlert(i, arrived[l]), NEW m \in Nat, m = Len(queue')
  PROVE  Settled(i)' \/ Underway(i, m)'
<1> DEFINE B == {arrived[k] : k \in 1..n}
           j == arrived[l]
<1>0. /\ TypeOK /\ Len(arrived) \in Nat /\ Len(queue) \in Nat /\ queue \in Seq(Item)
      /\ \A k \in 1..n : k \in 1..Len(arrived)
      /\ UNCHANGED <<world, core, blocked, recorded, broken>>
  <2>1. TypeOK /\ queue \in Seq(Item) /\ Len(arrived) \in Nat
    BY Lengths DEF GroundInv, TypeOK
  <2> QED
    BY <2>1, Lengths DEF Dispatch
<1>1. j \in Position /\ j \in B /\ B \subseteq Position /\ topic[j].ident = topic[i].ident /\ j >= i
  BY <1>0 DEF GroundInv, Places, SameAlert
<1>2. Spared(i) /\ ~Restart /\ ~blocked'
  BY <1>0, SparedBefore, NoCrash
<1>3. \/ UNCHANGED queue
      \/ \E e \in Item : queue' = Append(queue, e)
  BY Submissions
<1>4. Len(queue') >= Len(queue) /\ (queue' # Tail(queue) \/ queue = << >>)
  <2>1. queue # << >> => Len(Tail(queue)) = Len(queue) - 1
    BY <1>0, TailIs
  <2>2. Len(queue') \in {Len(queue), Len(queue) + 1}
    BY <1>0, <1>3, AppendIs
  <2> QED
    BY <1>0, <2>1, <2>2
<1>5. CASE Settled(i)
  BY <1>5, SettledStays
<1>6. CASE Underway(i, Len(queue))
  <2>1. PICK k \in Nat : k = Len(queue)
    BY <1>0
  <2>2. Underway(i, k)
    BY <1>6, <2>1
  <2>3. m >= k
    BY <1>4, <2>1
  <2> QED
    BY <1>2, <1>4, <2>2, <2>3, UnderwayMoves
<1>7. CASE j \in Known
  BY <1>1, <1>5, <1>7 DEF Settled, SameAlert
<1> HIDE DEF B
<1>8. CASE j \notin Known /\ OpenFor(j, TRUE) # {}
  <2>1. j \in NewlyHeld(B, TRUE, {})
    BY <1>1, <1>8 DEF NewlyHeld
  <2>2. <<j, LatestEnding(OpenFor(j, TRUE))>> \in held'
    BY <2>1, PlainDispatch DEF Hold, B
  <2>3. j \in Known'
    BY <2>2 DEF Known
  <2> QED
    BY <1>0, <1>1, <2>3 DEF Settled, SameAlert, world
<1>9. CASE j \notin Known /\ OpenFor(j, TRUE) = {}
  <2>1. j \in Survivors(B, TRUE, {}, Known)
    BY <1>1, <1>9 DEF Survivors
  <2>2. PICK R : R = IdentsOf(Survivors(B, TRUE, {}, Known))
    OBVIOUS
  <2>3. topic[i].ident \in R
    BY <1>1, <2>1, <2>2 DEF IdentsOf
  <2>4. PICK unwritten \in BOOLEAN : Submit(R, arrived[n], unwritten)
    BY <2>2, PlainDispatch DEF B
  <2>5. CASE topic[i].ident \in Cooled(R)
    <3>1. Settled(i) \/ \A k \in Nat : k >= Len(queue) => Underway(i, k)
      BY <1>2, <2>5, CooledIsWork
    <3> QED
      BY <1>0, <1>5, <1>6, <3>1
  <2>6. CASE topic[i].ident \notin Cooled(R)
    <3>1. PICK S : S = R \ Cooled(R)
      OBVIOUS
    <3>2. topic[i].ident \in S /\ queue' = Append(queue, Turn(S, arrived[n], NoWindow))
      BY <2>3, <2>4, <2>6, <3>1 DEF Submit
    <3>3. Turn(S, arrived[n], NoWindow) \in Item
      <4>1. R \subseteq Ident
        BY <1>0, <1>1, <2>2, IdentsOfType DEF Survivors
      <4>2. arrived[n] \in Offset /\ clock \in Nat /\ NoWindow \in Windows \cup {NoWindow}
        BY <1>0, BatchType DEF TypeOK
      <4> QED
        BY <3>1, <4>1, <4>2, ItemsType
    <3>4. queue'[Len(queue) + 1] = Turn(S, arrived[n], NoWindow) /\ Len(queue') = Len(queue) + 1
      BY <1>0, <3>2, <3>3, AppendIs
    <3>5. topic[i].at \in Nat /\ topic[i].at <= clock /\ clock < Reach(clock) /\ clock \in Nat
          /\ Reach(clock) \in Nat
      BY <1>0, Numbers, ReachType DEF Timely, DatedBefore, Instant
    <3>6. m \in 1..Len(queue') /\ topic'[i].ident \in queue'[m].idents /\ queue'[m].armed = clock /\ m <= m
      BY <1>0, <3>2, <3>4 DEF Turn, world
    <3>7. topic'[i].at < Reach(queue'[m].armed)
      BY <1>0, <3>5, <3>6 DEF world
    <3> QED
      BY <3>6, <3>7 DEF Underway, Carries, Reach
  <2> QED
    BY <2>5, <2>6
<1> QED
  BY <1>7, <1>8, <1>9

\* What a step does to the batch.
LEMMA BatchMoves ==
  ASSUME [Next]_vars
  PROVE  UNCHANGED arrived \/ Receive \/ Restart
         \/ \E n \in 1..Len(arrived) : Dispatch(n) \/ DispatchRaises(n)
  BY DEF Next, World, Intake, Transport, Coordinator, Releaser, Core, Faults, Publish, Delay, Advance,
     Subscribe, Keepalive, Lose, RejectSince, Extend, ReleaseTurn, ReleaseQuietly, ProcessMarker,
     StartTriage, FlushTriage, AdvanceCheckpoint, StartRaises, FlushFails, vars, process

LEMMA ReceivedOne ==
  ASSUME GroundInv, Receive
  PROVE  /\ Len(arrived') = Len(arrived) + 1 /\ arrived'[Len(arrived) + 1] = intake.pos + 1
         /\ \A k \in 1..Len(arrived) : arrived'[k] = arrived[k]
         /\ intake.pos \in Nat /\ Len(arrived) \in Nat /\ intake.pos + 1 \in Position
         /\ Frontier = intake.pos /\ Frontier' = intake.pos + 1
<1>1. arrived \in Seq(1..MaxEvents) /\ intake.pos \in 0..Len(topic) /\ Len(topic) \in Nat
      /\ Len(topic) <= MaxEvents /\ MaxEvents \in Nat /\ Len(arrived) \in Nat
  BY Lengths, EventPathAssumption DEF GroundInv, CursorOK, TypeOK, EventPathAssumption
<1>2. /\ intake.subscribed /\ intake.pos < Len(topic) /\ arrived' = Append(arrived, intake.pos + 1)
      /\ intake' = [intake EXCEPT !.pos = @ + 1, !.cursor = intake.pos + 1]
  BY DEF Receive
<1>3. intake.pos + 1 \in 1..MaxEvents /\ intake.pos + 1 \in Position
  BY <1>1, <1>2 DEF Position
<1>4. intake'.subscribed = TRUE /\ intake'.pos = intake.pos + 1
  BY <1>2 DEF GroundInv, TypeOK
<1> QED
  BY <1>1, <1>2, <1>3, <1>4, AppendIs DEF Frontier

LEMMA InHandStays ==
  ASSUME GroundInv, [Next]_vars, UNCHANGED arrived \/ Receive, NEW i \in Position,
         NEW m \in Nat, InHand(i, m)
  PROVE  \A k \in Nat : k >= m => InHand(i, k)'
<1>1. PICK l \in 1..Len(arrived) : l <= m /\ arrived[l] >= i /\ SameAlert(i, arrived[l])
  BY DEF InHand
<1>2. /\ Len(arrived) \in Nat /\ arrived[l] \in Position
      /\ \A j \in Position : topic'[j] = topic[j]
  BY Lengths, TopicGrows DEF GroundInv, Places
<1>3. l \in 1..Len(arrived') /\ arrived'[l] = arrived[l]
  <2>1. CASE UNCHANGED arrived
    BY <2>1
  <2>2. CASE Receive
    <3>1. Len(arrived') = Len(arrived) + 1 /\ arrived'[l] = arrived[l]
      BY <2>2, ReceivedOne
    <3> QED
      BY <1>2, <3>1
  <2> QED
    BY <2>1, <2>2
<1>4. arrived'[l] >= i /\ SameAlert(i, arrived[l])'
  BY <1>1, <1>2, <1>3 DEF SameAlert
<1>5. \A k \in Nat : k >= m => l <= k
  BY <1>1, <1>2
<1> QED
  BY <1>3, <1>4, <1>5 DEF InHand

LEMMA InHandMoves ==
  ASSUME GroundInv, [Next]_vars, NEW n \in 1..Len(arrived), Dispatch(n) \/ DispatchRaises(n),
         NEW i \in Position, NEW m \in Nat, InHand(i, m)
  PROVE  \/ \E l \in 1..n : arrived[l] >= i /\ SameAlert(i, arrived[l])
         \/ \A k \in Nat : m <= k + n => InHand(i, k)'
<1>1. PICK l \in 1..Len(arrived) : l <= m /\ arrived[l] >= i /\ SameAlert(i, arrived[l])
  BY DEF InHand
<1>2. /\ Len(arrived) \in Nat /\ arrived[l] \in Position /\ arrived \in Seq(1..MaxEvents)
      /\ \A j \in Position : topic'[j] = topic[j]
  BY Lengths, TopicGrows DEF GroundInv, Places, TypeOK
<1>3. CASE l > n
  <2>1. PICK h \in 1..Len(arrived) - n : l = h + n
    BY <1>2, <1>3
  <2>2. /\ Len(arrived') = Len(arrived) - n
        /\ \A k \in 1..Len(arrived) - n : arrived'[k] = arrived[k + n]
    <3>1. arrived' = SubSeq(arrived, n + 1, Len(arrived))
      BY DEF Dispatch, DispatchRaises
    <3> QED
      BY <1>2, <3>1, RestIs
  <2>3. h \in 1..Len(arrived') /\ arrived'[h] = arrived[l]
    BY <2>1, <2>2
  <2>4. arrived'[h] >= i /\ SameAlert(i, arrived[h])'
    BY <1>1, <1>2, <2>3 DEF SameAlert
  <2>5. \A k \in Nat : m <= k + n => h <= k
    BY <1>1, <1>2, <2>1
  <2> QED
    BY <2>3, <2>4, <2>5 DEF InHand
<1>4. CASE l <= n
  BY <1>1, <1>2, <1>4
<1> QED
  BY <1>2, <1>3, <1>4

\* What accounted for an event accounts for it after a step, at the place that the
\* same turns and the same part of the batch now have.
LEMMA AnsweredMoves ==
  ASSUME GroundInv, Timely, KeepsTrack, Contained', ~blocked, ~blocked', ~Restart, [Next]_vars,
         NEW i \in Position, Spared(i)', NEW o, NEW n \in Nat, NEW m \in Nat, Answered(i, o, n, m),
         NEW n2 \in Nat, NEW m2 \in Nat,
         queue' # Tail(queue) \/ queue = << >> => n2 >= n,
         queue' = Tail(queue) /\ queue # << >> => n = n2 + 1,
         UNCHANGED arrived \/ Receive => m2 >= m,
         \A k \in 1..Len(arrived) : Dispatch(k) \/ DispatchRaises(k) => m <= m2 + k,
         m = 0 \/ n2 = Len(queue') \/ \A k \in 1..Len(arrived) : ~Dispatch(k)
  PROVE  Answered(i, o, n2, m2)'
<1>1. CASE Settled(i)
  BY <1>1, SettledStays DEF Answered
<1>2. CASE Beyond(i, o)
  BY <1>2, BeyondStays DEF Answered
<1>3. CASE Underway(i, n)
  BY <1>3, UnderwayMoves DEF Answered
<1>4. CASE InHand(i, m)
  <2>0. m # 0 /\ Len(arrived) \in Nat
    BY <1>4, Lengths DEF InHand, GroundInv
  <2>1. CASE UNCHANGED arrived \/ Receive
    BY <1>4, <2>1, InHandStays DEF Answered
  <2>2. ASSUME NEW k \in 1..Len(arrived), DispatchRaises(k) PROVE Answered(i, o, n2, m2)'
    <3>1. \A l \in 1..k : ~(arrived[l] >= i /\ SameAlert(i, arrived[l]))
      <4> SUFFICES ASSUME NEW l \in 1..k, arrived[l] >= i, SameAlert(i, arrived[l]) PROVE FALSE
        OBVIOUS
      <4>1. arrived[l] \in broken'.events
        BY <2>2 DEF DispatchRaises, GroundInv, TypeOK
      <4>2. topic' = topic
        BY <2>2 DEF DispatchRaises, world
      <4> QED
        BY <4>1, <4>2 DEF Spared, SameAlert
    <3> QED
      BY <1>4, <2>2, <3>1, InHandMoves DEF Answered
  <2>3. ASSUME NEW k \in 1..Len(arrived), Dispatch(k) PROVE Answered(i, o, n2, m2)'
    <3>1. CASE \E l \in 1..k : arrived[l] >= i /\ SameAlert(i, arrived[l])
      <4>1. PICK l \in 1..k : arrived[l] >= i /\ SameAlert(i, arrived[l])
        BY <3>1
      <4>2. n2 = Len(queue') /\ CooldownsMeanWork
        BY <2>0, <2>3, FaultsGrow DEF KeepsTrack
      <4>3. Settled(i)' \/ Underway(i, n2)'
        BY <2>3, <4>1, <4>2, Processed
      <4> QED
        BY <4>3 DEF Answered
    <3>2. CASE ~\E l \in 1..k : arrived[l] >= i /\ SameAlert(i, arrived[l])
      BY <1>4, <2>3, <3>2, InHandMoves DEF Answered
    <3> QED
      BY <3>1, <3>2
  <2> QED
    BY <2>1, <2>2, <2>3, BatchMoves
<1> QED
  BY <1>1, <1>2, <1>3, <1>4 DEF Answered

\* An event that is published now comes after everything.
LEMMA NewIsBeyond ==
  ASSUME GroundInv, [Next]_vars, NEW o \in 0..Len(topic), NEW i \in Position', i \notin Position
  PROVE  Beyond(i, o)'
<1>1. Len(topic) \in Nat /\ Len(topic') \in Nat /\ i \in 1..Len(topic')
  BY TopicGrows DEF GroundInv, Position
<1>2. i > o /\ i >= i
  BY <1>1 DEF Position
<1> QED
  BY <1>2 DEF Beyond, SameAlert

\* Where a place of the queue comes from.
LEMMA MovingFrom ==
  ASSUME GroundInv, [Next]_vars, ~Restart, NEW o \in Nat, NEW k \in Nat, o # NoOffset, Moving(o, k)'
  PROVE  \/ (queue' # Tail(queue) \/ queue = << >>) /\ Moving(o, k)
         \/ queue' = Tail(queue) /\ queue # << >> /\ Moving(o, k + 1)
         \/ /\ queue' # Tail(queue) \/ queue = << >>
            /\ k = Len(queue') /\ k >= Len(queue)
            /\ \E n \in 1..Len(arrived) : Dispatch(n) /\ o = arrived[n]
<1>0. /\ TypeOK /\ Len(queue) \in Nat /\ queue \in Seq(Item)
      /\ queue # << >> => Len(Tail(queue)) = Len(queue) - 1
  <2>1. TypeOK /\ queue \in Seq(Item) /\ Len(queue) \in Nat
    BY Lengths DEF GroundInv, TypeOK
  <2> QED
    BY <2>1, TailIs
<1>1. CASE queue # << >> /\ queue' = Tail(queue) /\ core.phase = "idle"
           /\ (ProcessMarker \/ StartTriage \/ StartRaises)
  <2>1. /\ Len(queue') = Len(queue) - 1 /\ Head(queue) = queue[1] /\ Len(queue) >= 1
        /\ \A l \in 1..Len(queue) - 1 : queue'[l] = queue[l + 1]
    BY <1>0, <1>1, TailIs
  <2>2. CASE k = 0 /\ core'.phase # "idle" /\ core'.turn.offset = o
    <3>1. core'.turn = queue[1]
      BY <1>1, <2>1, <2>2 DEF ProcessMarker, StartTriage, StartRaises
    <3>2. k + 1 = 1 /\ 1 \in 1..Len(queue)
      BY <1>0, <2>1, <2>2
    <3> QED
      BY <1>1, <2>2, <3>1, <3>2 DEF Moving
  <2>3. CASE k \in 1..Len(queue') /\ queue'[k].offset = o
    <3>1. k + 1 \in 1..Len(queue) /\ queue'[k] = queue[k + 1]
      BY <1>0, <2>1, <2>3
    <3> QED
      BY <1>1, <2>3, <3>1 DEF Moving
  <2> QED
    BY <2>2, <2>3 DEF Moving
<1>2. CASE \E e \in Item : /\ queue' = Append(queue, e)
                           /\ \/ e.offset = NoOffset
                              \/ \E n \in 1..Len(arrived) : Dispatch(n) /\ e.offset = arrived[n]
                           /\ UNCHANGED core
  <2>1. PICK e \in Item : /\ queue' = Append(queue, e)
                          /\ \/ e.offset = NoOffset
                             \/ \E n \in 1..Len(arrived) : Dispatch(n) /\ e.offset = arrived[n]
                          /\ UNCHANGED core
    BY <1>2
  <2>2. /\ Len(queue') = Len(queue) + 1 /\ queue'[Len(queue) + 1] = e
        /\ \A l \in 1..Len(queue) : queue'[l] = queue[l]
    BY <1>0, <2>1, AppendIs
  <2>3. queue' # Tail(queue) \/ queue = << >>
    BY <1>0, <2>2
  <2>4. CASE k = 0 /\ core'.phase # "idle" /\ core'.turn.offset = o
    BY <2>1, <2>3, <2>4 DEF Moving
  <2>5. CASE k \in 1..Len(queue) /\ queue'[k].offset = o
    BY <2>2, <2>3, <2>5 DEF Moving
  <2>6. CASE k = Len(queue) + 1 /\ queue'[k].offset = o
    BY <1>0, <2>1, <2>2, <2>3, <2>6
  <2> QED
    BY <1>0, <2>2, <2>4, <2>5, <2>6 DEF Moving
<1>3. CASE UNCHANGED queue
  <2>1. queue' # Tail(queue) \/ queue = << >>
    BY <1>0, <1>3
  <2>2. core'.phase # "idle" => core.phase # "idle" /\ core'.turn = core.turn
    <3>1. ~StartTriage
      BY <1>0, <2>1, <1>3 DEF StartTriage
    <3>2. CASE FlushTriage
      BY <1>0, <3>2 DEF FlushTriage, TypeOK
    <3>3. CASE AdvanceCheckpoint \/ FlushFails
      BY <3>3 DEF AdvanceCheckpoint, FlushFails, Idle
    <3>4. CASE UNCHANGED core
      BY <3>4
    <3> QED
      BY <1>0, <3>1, <3>2, <3>3, <3>4, Moves
  <2> QED
    BY <1>3, <2>1, <2>2 DEF Moving
<1>4. ASSUME NEW n \in 1..Len(arrived), Dispatch(n)
      PROVE  \/ UNCHANGED queue
             \/ \E e \in Item : queue' = Append(queue, e) /\ e.offset = arrived[n] /\ UNCHANGED core
  <2>1. PICK S \in SUBSET Ident :
          \/ UNCHANGED queue
          \/ queue' = Append(queue, Marker(arrived[n])) /\ Marker(arrived[n]) \in Item
          \/ queue' = Append(queue, Turn(S, arrived[n], NoWindow))
             /\ Turn(S, arrived[n], NoWindow) \in Item
    BY <1>4, DispatchSubmits
  <2>2. Marker(arrived[n]).offset = arrived[n] /\ Turn(S, arrived[n], NoWindow).offset = arrived[n]
    BY DEF Marker, NoItem, Turn
  <2>3. UNCHANGED core
    BY <1>4 DEF Dispatch
  <2> QED
    BY <2>1, <2>2, <2>3
<1>5. ASSUME NEW w \in Windows, ReleaseTurn(w)
      PROVE  \E e \in Item : queue' = Append(queue, e) /\ e.offset = NoOffset /\ UNCHANGED core
  <2>1. PICK S \in SUBSET Ident :
          queue' = Append(queue, Turn(S, NoOffset, w)) /\ Turn(S, NoOffset, w) \in Item
    BY <1>5, ReleaseSubmits
  <2>2. Turn(S, NoOffset, w).offset = NoOffset
    BY DEF Turn
  <2>3. UNCHANGED core
    BY <1>5 DEF ReleaseTurn
  <2> QED
    BY <2>1, <2>2, <2>3
<1>6. ASSUME NEW n \in 1..Len(arrived), Dispatch(n)
      PROVE  \/ UNCHANGED queue
             \/ \E e \in Item : /\ queue' = Append(queue, e)
                                /\ \/ e.offset = NoOffset
                                   \/ \E l \in 1..Len(arrived) : Dispatch(l) /\ e.offset = arrived[l]
                                /\ UNCHANGED core
  <2>1. CASE UNCHANGED queue
    BY <2>1
  <2>2. CASE \E e \in Item : queue' = Append(queue, e) /\ e.offset = arrived[n] /\ UNCHANGED core
    <3>1. PICK e \in Item : queue' = Append(queue, e) /\ e.offset = arrived[n] /\ UNCHANGED core
      BY <2>2
    <3>2. \E l \in 1..Len(arrived) : Dispatch(l) /\ e.offset = arrived[l]
      BY <1>6, <3>1
    <3> QED
      BY <3>1, <3>2
  <2> QED
    BY <1>4, <1>6, <2>1, <2>2
<1>7. ASSUME NEW w \in Windows, ReleaseTurn(w)
      PROVE  \E e \in Item : /\ queue' = Append(queue, e)
                             /\ \/ e.offset = NoOffset
                                \/ \E n \in 1..Len(arrived) : Dispatch(n) /\ e.offset = arrived[n]
                             /\ UNCHANGED core
  <2>1. PICK e \in Item : queue' = Append(queue, e) /\ e.offset = NoOffset /\ UNCHANGED core
    BY <1>5, <1>7
  <2> QED
    BY <2>1
<1> QED
  BY <1>0, <1>1, <1>2, <1>3, <1>6, <1>7, QueueMoves

LEMMA FrontierMoves ==
  ASSUME GroundInv, [Next]_vars, ~Restart, ~Receive
  PROVE  Frontier' = Frontier \/ Frontier' = 0 \/ Position \subseteq skipped'
<1>0. TypeOK /\ CursorOK
  BY DEF GroundInv
<1>1. CASE Subscribe
  <2>1. intake'.subscribed = TRUE /\ intake'.pos = ReplayFrom /\ ~intake.subscribed
    BY <1>0, <1>1 DEF Subscribe, TypeOK
  <2>2. CASE intake.cursor = NoOffset
    BY <1>1, <2>2 DEF Subscribe
  <2>3. CASE intake.cursor # NoOffset
    BY <2>1, <2>3 DEF Frontier, ReplayFrom
  <2> QED
    BY <2>2, <2>3
<1>2. CASE Lose
  <2>1. /\ intake'.subscribed = FALSE /\ intake'.cursor = intake.cursor /\ intake.subscribed
    BY <1>0, <1>2 DEF Lose, TypeOK
  <2> QED
    BY <1>0, <2>1 DEF Frontier, CursorOK, NoOffset, ReplayAll
<1>3. CASE RejectSince
  BY <1>0, <1>3 DEF RejectSince, TypeOK, Frontier
<1>4. CASE Keepalive
  BY <1>0, <1>4 DEF Keepalive, TypeOK, Frontier
<1>5. CASE UNCHANGED intake
  BY <1>5 DEF Frontier
<1>6. Subscribe \/ Lose \/ RejectSince \/ Keepalive \/ UNCHANGED intake
  BY DEF Next, World, Intake, Transport, Coordinator, Releaser, Core, Faults, Publish, Delay, Advance,
     Dispatch, DispatchRaises, Extend, ReleaseTurn, ReleaseQuietly, ProcessMarker,
     StartTriage, FlushTriage, AdvanceCheckpoint, StartRaises, FlushFails, vars, process
<1> QED
  BY <1>1, <1>2, <1>3, <1>4, <1>5, <1>6

LEMMA PlacesInTopic ==
  ASSUME GroundInv
  PROVE  /\ \A o, k : Moving(o, k) => o \in 0..Len(topic)
         /\ \A o, k : Received(o, k) => o \in 0..Len(topic)
         /\ Frontier \in 0..Len(topic)
<1>1. Len(topic) \in Nat
  BY Lengths DEF GroundInv
<1> QED
  BY <1>1 DEF GroundInv, Places, CursorOK, Moving, Received, Frontier, Position

\* The queue keeps its promise.
LEMMA QueueTracks ==
  ASSUME GroundInv, Timely, KeepsTrack, Contained', ~blocked, ~blocked', ~Restart, [Next]_vars,
         NEW o \in Nat, NEW k \in Nat, o # NoOffset, Moving(o, k)'
  PROVE  Reached(o, k, 0)'
<1>0. Tracking /\ Len(queue) \in Nat
  BY FaultsGrow, Lengths DEF KeepsTrack, GroundInv
<1> SUFFICES ASSUME NEW i \in Position', Spared(i)' PROVE Answered(i, o, k, 0)'
  BY DEF Reached
<1>1. CASE i \notin Position
  <2>1. \E A \in Ident, resolved \in Resolved : Publish(A, resolved)
    <3>1. UNCHANGED topic \/ \E A \in Ident, resolved \in Resolved : Publish(A, resolved)
      BY Moves DEF GroundInv
    <3>2. UNCHANGED topic => Position' = Position
      BY DEF Position
    <3> QED
      BY <1>1, <3>1, <3>2
  <2>2. UNCHANGED <<queue, core>>
    BY <2>1 DEF Publish, process
  <2>3. o \in 0..Len(topic)
    BY <2>2, PlacesInTopic DEF Moving
  <2> QED
    BY <1>1, <2>3, NewIsBeyond DEF Answered
<1>2. CASE i \in Position
  <2>0. Spared(i)
    BY <1>2, SparedBefore
  <2>1. CASE (queue' # Tail(queue) \/ queue = << >>) /\ Moving(o, k)
    <3>1. Answered(i, o, k, 0)
      BY <1>0, <1>2, <2>0, <2>1 DEF Tracking, Reached
    <3>2. /\ \A l \in 1..Len(arrived) : Dispatch(l) \/ DispatchRaises(l) => 0 <= 0 + l
          /\ k >= k /\ 0 >= 0 /\ 0 \in Nat /\ 0 = 0
      BY Lengths DEF GroundInv
    <3>3. ~(queue' = Tail(queue) /\ queue # << >>)
      BY <2>1
    <3> QED
      BY <1>2, <3>1, <3>2, <3>3, AnsweredMoves
  <2>2. CASE queue' = Tail(queue) /\ queue # << >> /\ Moving(o, k + 1)
    <3>1. Answered(i, o, k + 1, 0)
      BY <1>0, <1>2, <2>0, <2>2 DEF Tracking, Reached
    <3>2. Len(arrived) \in Nat /\ \A l \in 1..Len(arrived) : 0 <= 0 + l
      BY Lengths DEF GroundInv
    <3> QED
      BY <1>2, <2>2, <3>1, <3>2, AnsweredMoves
  <2>3. ASSUME queue' # Tail(queue) \/ queue = << >>, k = Len(queue'), k >= Len(queue),
               NEW n \in 1..Len(arrived), Dispatch(n), o = arrived[n]
        PROVE  Answered(i, o, k, 0)'
    <3>1. PICK q \in Nat : q = Len(queue)
      BY <1>0
    <3>2. Received(o, n) /\ n \in Nat
      BY <2>3 DEF Received
    <3>3. Answered(i, o, q, n)
      BY <1>0, <1>2, <2>0, <3>1, <3>2 DEF Tracking, Reached
    <3>4. Len(arrived) \in Nat /\ Len(arrived') = Len(arrived) - n
      <4>1. arrived \in Seq(1..MaxEvents) /\ Len(arrived) \in Nat
        BY Lengths DEF GroundInv, TypeOK
      <4>2. arrived' = SubSeq(arrived, n + 1, Len(arrived))
        BY <2>3 DEF Dispatch
      <4> QED
        BY <4>1, <4>2, RestIs
    <3>5. ~Receive /\ arrived' # arrived
      <4>1. Receive => Len(arrived') = Len(arrived) + 1
        BY ReceivedOne
      <4> QED
        BY <3>4, <4>1
    <3>6. \A l \in 1..Len(arrived) : Dispatch(l) \/ DispatchRaises(l) => n <= 0 + l
      <4> SUFFICES ASSUME NEW l \in 1..Len(arrived), Dispatch(l) \/ DispatchRaises(l) PROVE n <= l
        BY <3>4
      <4>1. arrived \in Seq(1..MaxEvents) /\ arrived' = SubSeq(arrived, l + 1, Len(arrived))
        BY DEF GroundInv, TypeOK, Dispatch, DispatchRaises
      <4>2. Len(arrived') = Len(arrived) - l
        BY <4>1, RestIs
      <4> QED
        BY <3>4, <4>2
    <3> QED
      BY <1>2, <2>3, <3>1, <3>2, <3>3, <3>5, <3>6, AnsweredMoves
  <2> QED
    BY <2>1, <2>2, <2>3, MovingFrom
<1> QED
  BY <1>1, <1>2

LEMMA LengthMoves ==
  ASSUME GroundInv, [Next]_vars, ~Restart
  PROVE  /\ Len(queue) \in Nat /\ Len(queue') \in Nat
         /\ queue' # Tail(queue) \/ queue = << >> => Len(queue') >= Len(queue)
         /\ queue' = Tail(queue) /\ queue # << >> => Len(queue) = Len(queue') + 1
<1>0. /\ Len(queue) \in Nat /\ queue \in Seq(Item)
      /\ queue # << >> => Len(Tail(queue)) = Len(queue) - 1 /\ Len(queue) \in Nat \ {0}
  <2>1. Len(queue) \in Nat /\ queue \in Seq(Item)
    BY Lengths DEF GroundInv, TypeOK
  <2> QED
    BY <2>1, TailIs
<1>1. CASE queue # << >> /\ queue' = Tail(queue)
  BY <1>0, <1>1
<1>2. CASE UNCHANGED queue
  BY <1>0, <1>2
<1>3. CASE \E e \in Item : queue' = Append(queue, e)
  BY <1>0, <1>3, AppendIs
<1>4. UNCHANGED queue \/ (\E e \in Item : queue' = Append(queue, e))
      \/ (queue # << >> /\ queue' = Tail(queue))
  BY QueueMoves, Submissions DEF GroundInv
<1> QED
  BY <1>1, <1>2, <1>3, <1>4

LEMMA DroppedFrom ==
  ASSUME GroundInv, NEW n \in 1..Len(arrived), Dispatch(n) \/ DispatchRaises(n)
  PROVE  /\ Len(arrived) \in Nat /\ Len(arrived') = Len(arrived) - n
         /\ \A k \in 1..Len(arrived) - n : arrived'[k] = arrived[k + n]
<1>1. arrived \in Seq(1..MaxEvents) /\ Len(arrived) \in Nat
  BY Lengths DEF GroundInv, TypeOK
<1>2. arrived' = SubSeq(arrived, n + 1, Len(arrived))
  BY DEF Dispatch, DispatchRaises
<1> QED
  BY <1>1, <1>2, RestIs

\* The batch keeps its promise.
LEMMA BatchTracks ==
  ASSUME GroundInv, Timely, KeepsTrack, Contained', ~blocked, ~blocked', ~Restart, [Next]_vars,
         NEW o \in Nat, NEW k \in Nat, NEW n \in Nat, n = Len(queue'), Received(o, k)'
  PROVE  Reached(o, n, k)'
<1>0. Tracking /\ Len(queue) \in Nat /\ Len(arrived) \in Nat
  BY FaultsGrow, Lengths DEF KeepsTrack, GroundInv
<1> SUFFICES ASSUME NEW i \in Position', Spared(i)' PROVE Answered(i, o, n, k)'
  BY DEF Reached
<1>1. CASE i \notin Position
  <2>1. \E A \in Ident, resolved \in Resolved : Publish(A, resolved)
    <3>1. UNCHANGED topic \/ \E A \in Ident, resolved \in Resolved : Publish(A, resolved)
      BY Moves DEF GroundInv
    <3>2. UNCHANGED topic => Position' = Position
      BY DEF Position
    <3> QED
      BY <1>1, <3>1, <3>2
  <2>2. UNCHANGED <<arrived, intake>>
    BY <2>1 DEF Publish, process
  <2>3. Received(o, k)
    BY <2>2 DEF Received, Frontier
  <2>4. o \in 0..Len(topic)
    BY <2>3, PlacesInTopic
  <2> QED
    BY <1>1, <2>4, NewIsBeyond DEF Answered
<1>2. CASE i \in Position /\ ~Receive /\ k = Len(arrived') /\ o = Frontier' /\ Frontier' # Frontier
  <2>1. i \in Nat \ {0} /\ i >= i
    BY <1>2, Lengths DEF GroundInv, Position
  <2>2. Frontier' = 0 \/ i \in skipped'
    BY <1>2, FrontierMoves
  <2>3. Frontier' = 0
    BY <2>2 DEF Spared
  <2>4. Beyond(i, o)'
    BY <1>2, <2>1, <2>3 DEF Beyond, SameAlert
  <2> QED
    BY <2>4 DEF Answered
<1>3. CASE i \in Position /\ (Receive \/ k # Len(arrived') \/ o # Frontier' \/ Frontier' = Frontier)
  <2>0. Spared(i) /\ i \in Position
    BY <1>3, SparedBefore
  <2>1. PICK q \in Nat : q = Len(queue)
    BY <1>0
  <2>2. /\ queue' # Tail(queue) \/ queue = << >> => n >= q
        /\ queue' = Tail(queue) /\ queue # << >> => q = n + 1
    BY <2>1, LengthMoves
  <2>3. ASSUME NEW h \in Nat, Received(o, h) PROVE Answered(i, o, q, h)
    BY <1>0, <2>0, <2>1, <2>3 DEF Tracking, Reached
  <2>4. CASE UNCHANGED arrived
    <3>1. ~Receive
      BY <1>0, <2>4, ReceivedOne
    <3>2. Received(o, k)
      BY <1>3, <2>4, <3>1 DEF Received
    <3>3. Answered(i, o, q, k)
      BY <2>3, <3>2
    <3>4. \A l \in 1..Len(arrived) : ~Dispatch(l) /\ ~DispatchRaises(l)
      BY <1>0, <2>4, DroppedFrom
    <3>5. k >= k
      OBVIOUS
    <3> QED
      BY <2>0, <2>2, <2>4, <3>3, <3>4, <3>5, AnsweredMoves
  <2>5. CASE Receive
    <3>1. /\ Len(arrived') = Len(arrived) + 1 /\ arrived'[Len(arrived) + 1] = intake.pos + 1
          /\ \A l \in 1..Len(arrived) : arrived'[l] = arrived[l]
          /\ intake.pos \in Nat /\ intake.pos + 1 \in Position
          /\ Frontier = intake.pos /\ Frontier' = intake.pos + 1
      BY <2>5, ReceivedOne
    <3>2. \A l \in 1..Len(arrived) : ~Dispatch(l) /\ ~DispatchRaises(l)
      BY <1>0, <3>1, DroppedFrom
    <3>3. CASE k \in 1..Len(arrived) /\ arrived'[k] = o
      <4>1. Received(o, k)
        BY <3>1, <3>3 DEF Received
      <4>2. Answered(i, o, q, k) /\ k >= k
        BY <2>3, <4>1
      <4> QED
        BY <2>0, <2>2, <2>5, <3>2, <4>2, AnsweredMoves
    <3>4. CASE k = Len(arrived) + 1 /\ o = intake.pos + 1
      <4>1. PICK p \in Nat, h \in Nat : p = intake.pos /\ h = Len(arrived)
        BY <1>0, <3>1
      <4>2. Received(p, h)
        BY <3>1, <4>1 DEF Received
      <4>3. Answered(i, p, q, h)
        BY <1>0, <2>0, <2>1, <4>1, <4>2 DEF Tracking, Reached
      <4>4. CASE Beyond(i, p)
        <5>1. PICK j \in Position : j > p /\ j >= i /\ SameAlert(i, j)
          BY <4>4 DEF Beyond
        <5>2. j \in Nat
          BY Lengths DEF GroundInv, Position
        <5>3. CASE j = o
          <6>1. topic' = topic
            BY <2>5 DEF Receive, world
          <6>2. k \in 1..Len(arrived') /\ arrived'[k] = j /\ k <= k
            BY <1>0, <3>1, <3>4, <5>3
          <6>3. InHand(i, k)'
            BY <5>1, <6>1, <6>2 DEF InHand, SameAlert
          <6> QED
            BY <6>3 DEF Answered
        <5>4. CASE j # o
          <6>1. j > o
            BY <3>4, <4>1, <5>1, <5>2, <5>4
          <6>2. Beyond(i, o)
            BY <5>1, <6>1 DEF Beyond
          <6> QED
            BY <2>0, <6>2, BeyondStays DEF Answered
        <5> QED
          BY <5>3, <5>4
      <4>5. CASE ~Beyond(i, p)
        <5>1. Answered(i, o, q, h)
          BY <4>3, <4>5 DEF Answered
        <5>2. k >= h
          BY <3>4, <4>1
        <5> QED
          BY <2>0, <2>2, <2>5, <3>2, <5>1, <5>2, AnsweredMoves
      <4> QED
        BY <4>4, <4>5
    <3>5. \/ k \in 1..Len(arrived) /\ arrived'[k] = o
          \/ k = Len(arrived) + 1 /\ o = intake.pos + 1
      BY <1>0, <3>1 DEF Received
    <3> QED
      BY <3>3, <3>4, <3>5
  <2>6. ASSUME NEW d \in 1..Len(arrived), Dispatch(d) \/ DispatchRaises(d)
        PROVE  Answered(i, o, n, k)'
    <3>1. /\ Len(arrived') = Len(arrived) - d
          /\ \A l \in 1..Len(arrived) - d : arrived'[l] = arrived[l + d]
      BY <2>6, DroppedFrom
    <3>2. ~Receive /\ ~UNCHANGED arrived
      BY <1>0, <3>1, ReceivedOne
    <3>3. PICK h \in Nat : h = k + d
      BY <1>0
    <3>4. Received(o, h)
      <4>1. CASE k \in 1..Len(arrived') /\ arrived'[k] = o
        BY <1>0, <3>1, <3>3, <4>1 DEF Received
      <4>2. CASE k = Len(arrived') /\ o = Frontier'
        BY <1>0, <1>3, <3>1, <3>2, <3>3, <4>2 DEF Received
      <4> QED
        BY <4>1, <4>2 DEF Received
    <3>5. Answered(i, o, q, h)
      BY <2>3, <3>4
    <3>6. \A l \in 1..Len(arrived) : Dispatch(l) \/ DispatchRaises(l) => h <= k + l
      <4> SUFFICES ASSUME NEW l \in 1..Len(arrived), Dispatch(l) \/ DispatchRaises(l) PROVE h <= k + l
        OBVIOUS
      <4>1. Len(arrived') = Len(arrived) - l
        BY DroppedFrom
      <4> QED
        BY <1>0, <3>1, <3>3, <4>1
    <3> QED
      BY <2>0, <2>2, <3>2, <3>5, <3>6, AnsweredMoves
  <2> QED
    BY <2>4, <2>5, <2>6, BatchMoves
<1> QED
  BY <1>1, <1>2, <1>3

\* Where an item of the queue goes.
LEMMA ItemMoves ==
  ASSUME GroundInv, [Next]_vars, ~Restart, NEW l \in 1..Len(queue)
  PROVE  \/ l \in 1..Len(queue') /\ queue'[l] = queue[l]
         \/ \E k \in 1..Len(queue') : queue'[k] = queue[l]
         \/ l = 1 /\ Head(queue) = queue[1] /\ (ProcessMarker \/ StartTriage \/ StartRaises)
<1>0. Len(queue) \in Nat /\ queue \in Seq(Item)
  BY Lengths DEF GroundInv, TypeOK
<1>1. CASE queue # << >> /\ queue' = Tail(queue) /\ (ProcessMarker \/ StartTriage \/ StartRaises)
  <2>1. /\ Len(queue') = Len(queue) - 1 /\ Head(queue) = queue[1]
        /\ \A k \in 1..Len(queue) - 1 : queue'[k] = queue[k + 1]
    BY <1>0, <1>1, TailIs
  <2>2. CASE l # 1
    <3>1. PICK k \in 1..Len(queue) - 1 : l = k + 1
      BY <1>0, <2>2
    <3> QED
      BY <2>1, <3>1
  <2> QED
    BY <1>1, <2>1, <2>2
<1>2. CASE UNCHANGED queue
  BY <1>2
<1>3. CASE \E e \in Item : queue' = Append(queue, e)
  BY <1>0, <1>3, AppendIs
<1> QED
  BY <1>1, <1>2, <1>3, QueueMoves, Submissions DEF GroundInv

LEMMA WorkStep ==
  ASSUME GroundInv, GroundInv', Timely, CooldownsMeanWork, ~blocked, ~blocked', ~Restart, [Next]_vars
  PROVE  CooldownsMeanWork'
<1>0. /\ TypeOK /\ Len(queue) \in Nat /\ queue \in Seq(Item) /\ clock \in Nat
      /\ core.turn.armed \in Instant
      /\ \A k \in 1..Len(queue) : queue[k].armed \in Instant /\ queue[k].idents \subseteq Ident
      /\ \A A \in Ident : /\ recorded[A].at \in Instant /\ recorded[A].at <= clock
                          /\ lastTriaged[A] \in Instant /\ lastTriaged[A] <= clock
  <2>1. TypeOK /\ queue \in Seq(Item)
    BY DEF GroundInv, TypeOK
  <2> QED
    BY <2>1, Numbers, Lengths DEF Timely, DatedBefore
<1> SUFFICES ASSUME NEW A \in Ident
             PROVE  \/ recorded'[A].at >= lastTriaged'[A]
                    \/ broken'.until[A] >= Reach(lastTriaged'[A])
                    \/ core'.phase = "triaging" /\ A \in core'.turn.idents /\ core'.turn.armed >= lastTriaged'[A]
                    \/ \E l \in 1..Len(queue') : A \in queue'[l].idents /\ queue'[l].armed >= lastTriaged'[A]
  BY DEF CooldownsMeanWork, Reach
<1>1. ASSUME NEW S \in SUBSET Ident, NEW e \in Item, lastTriaged' = Armed(S), e.idents = S, e.armed = clock,
             queue' = Append(queue, e), A \in S
      PROVE  \E l \in 1..Len(queue') : A \in queue'[l].idents /\ queue'[l].armed >= lastTriaged'[A]
  <2>1. Len(queue') = Len(queue) + 1 /\ queue'[Len(queue) + 1] = e
    BY <1>0, <1>1, AppendIs
  <2>2. lastTriaged'[A] = clock
    BY <1>1 DEF Armed
  <2>3. Len(queue) + 1 \in 1..Len(queue')
    BY <1>0, <2>1
  <2> QED
    BY <1>0, <1>1, <2>1, <2>2, <2>3
<1>2. \/ lastTriaged'[A] = lastTriaged[A]
      \/ \E l \in 1..Len(queue') : A \in queue'[l].idents /\ queue'[l].armed >= lastTriaged'[A]
  <2>1. ASSUME NEW n \in 1..Len(arrived), Dispatch(n), lastTriaged'[A] # lastTriaged[A]
        PROVE  \E l \in 1..Len(queue') : A \in queue'[l].idents /\ queue'[l].armed >= lastTriaged'[A]
    <3>1. PICK S \in SUBSET Ident :
            /\ lastTriaged' = Armed(S)
            /\ \/ S = {}
               \/ queue' = Append(queue, Turn(S, arrived[n], NoWindow))
                  /\ Turn(S, arrived[n], NoWindow) \in Item
      BY <2>1, DispatchSubmits
    <3>2. A \in S
      BY <2>1, <3>1 DEF Armed
    <3>3. Turn(S, arrived[n], NoWindow).armed = clock /\ Turn(S, arrived[n], NoWindow).idents = S
      BY DEF Turn
    <3> QED
      BY <1>1, <3>1, <3>2, <3>3
  <2>2. ASSUME NEW w \in Windows, ReleaseTurn(w), lastTriaged'[A] # lastTriaged[A]
        PROVE  \E l \in 1..Len(queue') : A \in queue'[l].idents /\ queue'[l].armed >= lastTriaged'[A]
    <3>1. PICK S \in SUBSET Ident :
            /\ lastTriaged' = Armed(S)
            /\ queue' = Append(queue, Turn(S, NoOffset, w)) /\ Turn(S, NoOffset, w) \in Item
      BY <2>2, ReleaseSubmits
    <3>2. A \in S
      BY <2>2, <3>1 DEF Armed
    <3>3. Turn(S, NoOffset, w).armed = clock /\ Turn(S, NoOffset, w).idents = S
      BY DEF Turn
    <3> QED
      BY <1>1, <3>1, <3>2, <3>3
  <2> QED
    BY <1>0, <2>1, <2>2, Moves
<1>3. CASE lastTriaged'[A] = lastTriaged[A]
  <2>1. CASE recorded[A].at >= lastTriaged[A]
    <3>1. recorded'[A].at \in {clock, recorded[A].at}
      <4>1. FlushTriage => recorded'[A].at \in {clock, recorded[A].at}
        BY DEF FlushTriage
      <4> QED
        BY <1>0, <4>1, Moves
    <3> QED
      BY <1>0, <1>3, <2>1, <3>1 DEF Instant, Never
  <2>2. CASE broken.until[A] >= Reach(lastTriaged[A])
    <3>1. Reach(lastTriaged[A]) \in Nat
      BY <1>0, ReachType
    <3>2. broken.until[A] <= broken'.until[A] /\ broken.until[A] \in Nat /\ broken'.until[A] \in Int
      BY UntilGrows
    <3> QED
      BY <1>3, <2>2, <3>1, <3>2
  <2>3. CASE core.phase = "triaging" /\ A \in core.turn.idents /\ core.turn.armed >= lastTriaged[A]
    <3>1. CASE FlushTriage
      <4>1. recorded'[A].at = clock
        BY <2>3, <3>1 DEF FlushTriage
      <4> QED
        BY <1>0, <1>3, <4>1 DEF Instant, Never
    <3>2. CASE UNCHANGED core
      BY <1>3, <2>3, <3>2
    <3>3. ~StartTriage /\ ~AdvanceCheckpoint /\ ~FlushFails
      BY <2>3 DEF StartTriage, AdvanceCheckpoint, FlushFails
    <3> QED
      BY <1>0, <3>1, <3>2, <3>3, Moves
  <2>4. CASE \E l \in 1..Len(queue) : A \in queue[l].idents /\ queue[l].armed >= lastTriaged[A]
    <3>1. PICK l \in 1..Len(queue) : A \in queue[l].idents /\ queue[l].armed >= lastTriaged[A]
      BY <2>4
    <3>2. CASE l = 1 /\ Head(queue) = queue[1] /\ (ProcessMarker \/ StartTriage \/ StartRaises)
      <4>1. ~ProcessMarker
        BY <3>1, <3>2 DEF ProcessMarker
      <4>2. CASE StartTriage
        BY <1>3, <3>1, <3>2, <4>2 DEF StartTriage
      <4>3. CASE StartRaises
        <5>1. broken'.until[A] = Reach(queue[1].armed)
          BY <1>0, <3>1, <3>2, <4>3 DEF StartRaises, TypeOK
        <5>2. Reach(lastTriaged[A]) <= Reach(queue[1].armed)
              /\ Reach(lastTriaged[A]) \in Nat /\ Reach(queue[1].armed) \in Nat
          <6>1. lastTriaged[A] \in Int /\ queue[1].armed \in Int /\ lastTriaged[A] <= queue[1].armed
            BY <1>0, <3>1, <3>2 DEF Instant, Never
          <6> QED
            BY <1>0, <3>1, <3>2, <6>1, ReachType
        <5> QED
          BY <1>3, <5>1, <5>2
      <4> QED
        BY <3>2, <4>1, <4>2, <4>3
    <3>3. CASE \E k \in 1..Len(queue') : queue'[k] = queue[l]
      BY <1>3, <3>1, <3>3
    <3> QED
      BY <3>2, <3>3, ItemMoves
  <2> QED
    BY <2>1, <2>2, <2>3, <2>4 DEF CooldownsMeanWork
<1> QED
  BY <1>2, <1>3

\* The checkpoint only ever moves to where everything is on disk.
LEMMA DiskStep ==
  ASSUME GroundInv, Timely, KeepsTrack, Contained', [Next]_vars
  PROVE  OnDisk'
<1>0. OnDisk /\ (~blocked => Tracking) /\ queue \in Seq(Item) /\ Len(arrived) \in Nat
  BY FaultsGrow, Lengths DEF KeepsTrack, GroundInv, TypeOK
<1>1. PICK c : c = checkpoint'
  OBVIOUS
<1> SUFFICES ASSUME NEW i \in Position', Spared(i)' PROVE Settled(i)' \/ Beyond(i, c)'
  BY <1>1 DEF OnDisk, Beyond
<1>2. CASE i \notin Position
  <2>1. \E A \in Ident, resolved \in Resolved : Publish(A, resolved)
    <3>1. UNCHANGED topic \/ \E A \in Ident, resolved \in Resolved : Publish(A, resolved)
      BY Moves DEF GroundInv
    <3>2. UNCHANGED topic => Position' = Position
      BY DEF Position
    <3> QED
      BY <1>2, <3>1, <3>2
  <2>2. c \in 0..Len(topic)
    BY <1>1, <2>1 DEF Publish, durable, GroundInv, Places
  <2> QED
    BY <1>2, <2>2, NewIsBeyond
<1>3. CASE i \in Position
  <2>1. Spared(i)
    BY <1>3, SparedBefore
  <2>2. Settled(i) \/ Beyond(i, c)
    <3>1. CASE c = checkpoint
      BY <1>0, <1>3, <2>1, <3>1 DEF OnDisk
    <3>2. CASE c # checkpoint
      <4>1. \/ ProcessMarker /\ ~blocked /\ c # NoOffset /\ c = Head(queue).offset
            \/ AdvanceCheckpoint /\ ~blocked /\ c # NoOffset /\ c = core.turn.offset
        BY <1>1, <3>2
        DEF Next, World, Intake, Transport, Coordinator, Releaser, Core, Faults, Publish, Delay, Advance,
            Subscribe, Receive, Keepalive, Lose, RejectSince, Dispatch, DispatchRaises, Extend,
            ReleaseTurn, ReleaseQuietly, ProcessMarker, StartTriage, FlushTriage, AdvanceCheckpoint,
            WriteCheckpoint, StartRaises, FlushFails, Restart, vars, durable
      <4>2. c \in Nat
        BY <1>1, <4>1, PlacesInTopic DEF GroundInv, Places, ProcessMarker, AdvanceCheckpoint, Moving
      <4>3. CASE ProcessMarker
        <5>1. Head(queue) = queue[1] /\ 1 \in 1..Len(queue)
          BY <1>0, <4>3, TailIs DEF ProcessMarker
        <5>2. Moving(c, 1) /\ core.phase = "idle" /\ queue[1].idents = {} /\ c # NoOffset /\ ~blocked
          BY <1>0, <4>1, <4>3, <5>1 DEF ProcessMarker, Moving, AdvanceCheckpoint
        <5>3. Answered(i, c, 1, 0)
          BY <1>0, <1>3, <2>1, <4>2, <5>2 DEF Tracking, Reached
        <5>4. ~Underway(i, 1)
          <6>1. \A l \in 1..Len(queue) : l <= 1 => l = 1
            BY <1>0
          <6> QED
            BY <5>2, <6>1 DEF Underway, CoreCarries, Carries
        <5>5. ~InHand(i, 0)
          BY <1>0 DEF InHand
        <5> QED
          BY <5>3, <5>4, <5>5 DEF Answered
      <4>4. CASE AdvanceCheckpoint
        <5>1. Moving(c, 0) /\ core.phase = "recorded" /\ c # NoOffset /\ ~blocked
          BY <4>1, <4>4 DEF AdvanceCheckpoint, Moving, ProcessMarker
        <5>2. Answered(i, c, 0, 0)
          BY <1>0, <1>3, <2>1, <4>2, <5>1 DEF Tracking, Reached
        <5>3. ~Underway(i, 0)
          <6>1. \A l \in 1..Len(queue) : ~(l <= 0)
            BY <1>0
          <6> QED
            BY <5>1, <6>1 DEF Underway, CoreCarries
        <5>4. ~InHand(i, 0)
          BY <1>0 DEF InHand
        <5> QED
          BY <5>2, <5>3, <5>4 DEF Answered
      <4> QED
        BY <4>1, <4>3, <4>4
    <3> QED
      BY <3>1, <3>2
  <2> QED
    BY <1>3, <2>2, SettledStays, BeyondStays
<1> QED
  BY <1>2, <1>3

LEMMA InitKeepsTrack == Init => KeepsTrack
<1> SUFFICES ASSUME Init PROVE KeepsTrack
  OBVIOUS
<1>1. Position = {}
  BY DEF Init, Position
<1>2. CooldownsMeanWork
  BY DEF Init, CooldownsMeanWork, NoRecord, Never
<1> QED
  BY <1>1, <1>2 DEF KeepsTrack, OnDisk, Tracking, Reached

LEMMA RestartTracks ==
  ASSUME GroundInv, Timely, KeepsTrack, Contained', [Next]_vars, Restart
  PROVE  Tracking' /\ CooldownsMeanWork'
<1>1. /\ queue' = << >> /\ arrived' = << >> /\ core'.phase = "idle" /\ checkpoint' = checkpoint
      /\ recorded' = recorded /\ lastTriaged' = [A \in Ident |-> recorded[A].at]
      /\ intake'.subscribed = FALSE /\ intake'.cursor = checkpoint
  BY DEF Restart, Started, Idle, durable
<1>2. checkpoint \in Nat /\ checkpoint # ReplayAll
  BY DEF GroundInv, TypeOK, Offset, ReplayAll
<1>3. Frontier' = checkpoint'
  BY <1>1, <1>2 DEF Frontier
<1>4. Len(queue') = 0 /\ Len(arrived') = 0
  BY <1>1
<1>5. \A o, k \in Nat : ~Moving(o, k)'
  BY <1>1, <1>4 DEF Moving
<1>6. ASSUME NEW o \in Nat, NEW k \in Nat, NEW n \in Nat, Received(o, k)' PROVE Reached(o, n, k)'
  <2>1. o = checkpoint'
    BY <1>3, <1>4, <1>6 DEF Received
  <2> SUFFICES ASSUME NEW i \in Position', Spared(i)' PROVE Answered(i, o, n, k)'
    BY DEF Reached
  <2>2. Settled(i)' \/ Beyond(i, o)'
    BY <2>1, DiskStep DEF OnDisk, Beyond
  <2> QED
    BY <2>2 DEF Answered
<1>7. Tracking'
  BY <1>5, <1>6 DEF Tracking
<1>8. \A A \in Ident : recorded[A].at \in Int
  BY DEF GroundInv, TypeOK, Instant, Never
<1>9. CooldownsMeanWork'
  BY <1>1, <1>8 DEF CooldownsMeanWork
<1> QED
  BY <1>7, <1>9

LEMMA KeepsTrackStep ==
  ASSUME GroundInv, GroundInv', Timely, KeepsTrack, [Next]_vars
  PROVE  KeepsTrack'
<1> SUFFICES ASSUME Contained' PROVE OnDisk' /\ (~blocked' => Tracking' /\ CooldownsMeanWork')
  BY DEF KeepsTrack
<1>1. OnDisk'
  BY DiskStep
<1>2. CASE Restart
  BY <1>1, <1>2, RestartTracks
<1>3. CASE ~Restart /\ ~blocked'
  <2>1. ~blocked
    BY <1>3
    DEF Next, World, Intake, Transport, Coordinator, Releaser, Core, Faults, Publish, Delay, Advance,
        Subscribe, Receive, Keepalive, Lose, RejectSince, Dispatch, DispatchRaises, Extend,
        ReleaseTurn, ReleaseQuietly, ProcessMarker, StartTriage, FlushTriage, AdvanceCheckpoint,
        StartRaises, FlushFails, vars, process
  <2>2. CooldownsMeanWork'
    BY <1>3, <2>1, FaultsGrow, WorkStep DEF KeepsTrack
  <2>3. \A o \in Nat, k \in Nat : o # NoOffset /\ Moving(o, k)' => Reached(o, k, 0)'
    BY <1>3, <2>1, QueueTracks
  <2>4. \A o \in Nat, k \in Nat, n \in Nat : n = Len(queue') /\ Received(o, k)' => Reached(o, n, k)'
    BY <1>3, <2>1, BatchTracks
  <2>5. Tracking'
    BY <2>3, <2>4 DEF Tracking
  <2> QED
    BY <1>1, <2>2, <2>5
<1> QED
  BY <1>1, <1>2, <1>3

LEMMA TrackKept == Spec => []KeepsTrack
<1>1. KeepsTrack /\ Timely /\ GroundInv /\ GroundInv' /\ [Next]_vars => KeepsTrack'
  BY KeepsTrackStep
<1> QED
  BY <1>1, InitKeepsTrack, Ground, Dated, PTL DEF Spec

\* No alert is lost, whatever crashes, write failures and outages happen, as long
\* as no batch failed open: at any moment a record or a released window settles an
\* event, or a restart takes it up again (core.py _flush_event_triage,
\* coordinator.py dispatch_batch, release.py).
THEOREM LosesNothing == Spec => []NothingIsLost
<1>1. ASSUME GroundInv, Timely, LetGoDone, KeepsTrack PROVE NothingIsLost
  <2> SUFFICES ASSUME Contained, NEW i \in Position, Spared(i) PROVE Handled(i) \/ Awaited(i)
    BY DEF NothingIsLost
  <2>1. Settled(i) \/ Beyond(i, checkpoint)
    BY <1>1 DEF KeepsTrack, OnDisk
  <2>2. CASE Settled(i)
    BY <1>1, <2>2, SettledIsKept
  <2>3. CASE Beyond(i, checkpoint)
    BY <2>3 DEF Beyond, Awaited, Resumes
  <2> QED
    BY <2>1, <2>2, <2>3
<1> QED
  BY <1>1, Ground, Dated, LetGoSettled, TrackKept, PTL

=============================================================================
