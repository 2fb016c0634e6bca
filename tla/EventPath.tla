----------------------------- MODULE EventPath -----------------------------
(***************************************************************************)
(* The path of an alert, from the ntfy topic to a durable outcome: intake  *)
(* (henk/events/intake.py), the coordinator's batches and maintenance      *)
(* holds (henk/events/coordinator.py, holds.py, store/holds.py), cooldown  *)
(* (pipeline.py), the core's serial queue and triage flush (henk/agent/    *)
(* core.py), the resume checkpoint (checkpoint.py) and the releaser of     *)
(* held events (release.py).                                               *)
(*                                                                         *)
(* An event is its position in the topic; the text of alerts, what the     *)
(* triage says and how it is announced are left out.  All of it runs on    *)
(* one asyncio loop: a handler without a suspending await is one action.   *)
(* Only the audit log (recorded), the checkpoint and the hold tables       *)
(* (held, frozenEnd, released) survive the death of the process.           *)
(***************************************************************************)
EXTENDS Integers, Sequences, FiniteSets

CONSTANTS
  Ident,        \* alert identities
  Resolved,     \* may an event be resolved: a subset of BOOLEAN
  Windows,      \* maintenance windows, numbered
  Start,        \* Start[w]: when window w begins
  End,          \* End[w]: when it ends, as first planned
  Grace,        \* grace after a window's end, during which alerts are still held
  Fallback,     \* wait for catch-up after which a due window is released anyway
  Cooldown,     \* cooldown_seconds
  MaxEvents,    \* bound on published events
  MaxClock,     \* bound on the clock
  MaxDelay,     \* bound on how far the owner moves a window's end
  MaxFaults,    \* MaxFaults[k]: bound on the faults of kind k
  MaxTrouble    \* bound on the faults of all kinds together

FaultKind ==
  {"crash",       \* the process dies
   "audit",       \* an audit record cannot be written
   "checkpoint",  \* the checkpoint cannot be written
   "hold",        \* held ids cannot be read, or a held row not stored
   "mark",        \* a window cannot be marked released
   "stale",       \* the window snapshot is absent or stale when it is read
   "escape",      \* an exception leaves a handler
   "lose",        \* the subscription ends
   "reject"}      \* the server refuses the resume point


ASSUME EventPathAssumption ==
  /\ Resolved \subseteq BOOLEAN
  /\ Windows \subseteq Nat /\ IsFiniteSet(Windows)
  /\ Start \in [Windows -> Nat] /\ End \in [Windows -> Nat]
  /\ Grace \in Nat /\ Fallback \in Nat /\ Cooldown \in Nat
  /\ MaxEvents \in Nat /\ MaxClock \in Nat /\ MaxDelay \in Nat
  /\ MaxFaults \in [FaultKind -> Nat] /\ MaxTrouble \in Nat

VARIABLES
  clock,        \* wall clock
  topic,        \* the events published so far
  calendar,     \* calendar[w]: the end of w in the owner's calendar
  intake,       \* the subscription and its resume cursor
  arrived,      \* received and not yet dispatched: pump queue and debounce batch
  lastTriaged,  \* the pipeline's cooldown table
  inFlight,     \* inFlight[w]: identities the release of w is triaging; {} if none
  queue,        \* the core's serial queue
  core,         \* the turn the core is processing
  blocked,      \* _checkpoint_blocked, the durability latch
  recorded,     \* durable: the latest triage record of each identity
  checkpoint,   \* durable: the intake-offset file
  held,         \* durable: held_events, as <<event, window>> pairs
  frozenEnd,    \* durable: hold_windows."end"; Never without a row
  released,     \* durable: the windows whose released_at is set
  faults,       \* history: faults so far, per kind
  skipped,      \* history: the events a subscription without `since` left out
  broken        \* history: what may be lost, the events of the batches that exceptions
                \* ended, until when a cooldown stands for a triage that never ran, and
                \* the held events let go on a cooldown that was not yet on record

process == <<intake, arrived, lastTriaged, inFlight, queue, core, blocked>>
durable == <<recorded, checkpoint, held, frozenEnd, released>>
world == <<clock, topic, calendar>>
history == <<faults, skipped, broken>>
vars == <<world, process, durable, history>>

-----------------------------------------------------------------------------
(* Values *)

Never == -1
NoOffset == 0        \* no cursor: the subscription sends no `since`
ReplayAll == -1      \* RETENTION_REPLAY_SINCE
NoWindow == -1

Event == [ident : Ident, resolved : BOOLEAN, at : Nat]
Position == 1..Len(topic)
Offset == 0..MaxEvents
Instant == Nat \cup {Never}

\* An event turn, a release's turn (no offset), or a marker (no identities).
Item == [idents : SUBSET Ident, offset : Offset, window : Windows \cup {NoWindow},
         armed : Instant]

NoItem == [idents |-> {}, offset |-> NoOffset, window |-> NoWindow, armed |-> Never]
Marker(offset) == [NoItem EXCEPT !.offset = offset]

Turn(S, offset, window) ==
  [idents |-> S, offset |-> offset, window |-> window, armed |-> clock]

NoRecord == [at |-> Never, armed |-> Never]

\* What a triage armed at t answers for is published before this instant.
Reach(t) == t + (IF Cooldown = 0 THEN 1 ELSE Cooldown)

\* A fault of each of these kinds happens in this step, within the bounds.
Charge(kinds) ==
  /\ \A k \in kinds : faults[k] < MaxFaults[k]
  /\ faults' = [k \in FaultKind |-> IF k \in kinds THEN faults[k] + 1 ELSE faults[k]]
  /\ Cardinality(UNION {{k} \X (1..faults'[k]) : k \in FaultKind}) <= MaxTrouble

If(condition, kind) == IF condition THEN {kind} ELSE {}

TypeOK ==
  /\ clock \in Nat
  /\ topic \in Seq(Event) /\ Len(topic) <= MaxEvents
  /\ calendar \in [Windows -> Nat]
  /\ intake \in [cursor : Offset \cup {ReplayAll}, pos : Offset, backlog : Offset,
                 subscribed : BOOLEAN, keepalive : BOOLEAN, first : Nat]
  /\ arrived \in Seq(1..MaxEvents)
  /\ lastTriaged \in [Ident -> Instant]
  /\ inFlight \in [Windows -> SUBSET Ident]
  /\ queue \in Seq(Item)
  /\ core \in [phase : {"idle", "triaging", "recorded"}, turn : Item]
  /\ blocked \in BOOLEAN
  /\ recorded \in [Ident -> [at : Instant, armed : Instant]]
  /\ checkpoint \in Offset
  /\ held \subseteq (1..MaxEvents) \X Windows
  /\ frozenEnd \in [Windows -> Instant]
  /\ released \subseteq Windows
  /\ faults \in [FaultKind -> Nat]
  /\ skipped \subseteq 1..MaxEvents
  /\ broken \in [events : SUBSET (1..MaxEvents), until : [Ident -> Nat],
                 early : SUBSET (1..MaxEvents)]

\* A process that starts with this resume cursor.
Started(cursor) ==
  [cursor |-> cursor, pos |-> 0, backlog |-> 0, subscribed |-> FALSE,
   keepalive |-> FALSE, first |-> clock]

Idle == [phase |-> "idle", turn |-> NoItem]

Init ==
  /\ clock = 0
  /\ topic = <<>>
  /\ calendar = End
  /\ intake = Started(NoOffset)
  /\ arrived = <<>>
  /\ lastTriaged = [A \in Ident |-> Never]
  /\ inFlight = [w \in Windows |-> {}]
  /\ queue = <<>>
  /\ core = Idle
  /\ blocked = FALSE
  /\ recorded = [A \in Ident |-> NoRecord]
  /\ checkpoint = NoOffset
  /\ held = {}
  /\ frozenEnd = [w \in Windows |-> Never]
  /\ released = {}
  /\ faults = [k \in FaultKind |-> 0]
  /\ skipped = {}
  /\ broken = [events |-> {}, until |-> [A \in Ident |-> 0], early |-> {}]

-----------------------------------------------------------------------------
(* The world: sensors publish, the owner extends a window, time passes *)

Publish(A, resolved) ==
  /\ Len(topic) < MaxEvents
  /\ topic' = Append(topic, [ident |-> A, resolved |-> resolved, at |-> clock])
  /\ UNCHANGED <<clock, calendar, process, durable, history>>

Delay(w) ==
  /\ calendar[w] < End[w] + MaxDelay
  /\ clock < calendar[w] + Grace
  /\ calendar' = [calendar EXCEPT ![w] = @ + 1]
  /\ UNCHANGED <<clock, topic, process, durable, history>>

Advance ==
  /\ clock < MaxClock
  /\ clock' = clock + 1
  /\ UNCHANGED <<topic, calendar, process, durable, history>>

-----------------------------------------------------------------------------
(* Intake *)

\* ntfy replays what follows `since`; without it, only what is published later.
ReplayFrom ==
  CASE intake.cursor = NoOffset  -> Len(topic)
    [] intake.cursor = ReplayAll -> 0
    [] OTHER                     -> intake.cursor

Subscribe ==
  /\ ~intake.subscribed
  /\ intake' = [intake EXCEPT !.subscribed = TRUE, !.keepalive = FALSE,
                              !.pos = ReplayFrom, !.backlog = Len(topic)]
  /\ skipped' = IF intake.cursor = NoOffset THEN Position ELSE skipped
  /\ UNCHANGED <<broken, world, arrived, lastTriaged, inFlight, queue, core, blocked,
                 durable, faults>>

\* HTTP 400 for a real `since`: fall back to everything still retained.
RejectSince ==
  /\ ~intake.subscribed
  /\ intake.cursor \notin {NoOffset, ReplayAll}
  /\ Charge({"reject"})
  /\ intake' = [intake EXCEPT !.cursor = ReplayAll]
  /\ UNCHANGED <<world, arrived, lastTriaged, inFlight, queue, core, blocked,
                 durable, skipped, broken>>

\* The next message frame; the pump puts it on the queue at once.
Receive ==
  /\ intake.subscribed
  /\ intake.pos < Len(topic)
  /\ intake' = [intake EXCEPT !.pos = @ + 1, !.cursor = intake.pos + 1]
  /\ arrived' = Append(arrived, intake.pos + 1)
  /\ UNCHANGED <<world, lastTriaged, inFlight, queue, core, blocked, durable, history>>

\* ntfy sends the backlog before its first keepalive, and frames in order.
Keepalive ==
  /\ intake.subscribed
  /\ intake.pos = Len(topic)
  /\ ~intake.keepalive
  /\ intake' = [intake EXCEPT !.keepalive = TRUE]
  /\ UNCHANGED <<world, arrived, lastTriaged, inFlight, queue, core, blocked,
                 durable, history>>

\* Slip: the end of a subscription is not noted.
LoseQuietly ==
  /\ intake.subscribed
  /\ Charge({"lose"})
  /\ intake' = [intake EXCEPT !.subscribed = FALSE]
  /\ UNCHANGED <<world, arrived, lastTriaged, inFlight, queue, core, blocked,
                 durable, skipped, broken>>

\* The subscription ends: transport failure, liveness trip or clean end.
Lose ==
  /\ intake.subscribed
  /\ Charge({"lose"})
  /\ intake' = [intake EXCEPT !.subscribed = FALSE, !.keepalive = FALSE]
  /\ UNCHANGED <<world, arrived, lastTriaged, inFlight, queue, core, blocked,
                 durable, skipped, broken>>

-----------------------------------------------------------------------------
(* Cooldown *)

Cooled(S) ==
  {A \in S : lastTriaged[A] # Never /\ clock - lastTriaged[A] < Cooldown}

\* evaluate arms the cooldown of what it lets through, before any triage.
Armed(S) == [A \in Ident |-> IF A \in S THEN clock ELSE lastTriaged[A]]

IdentsOf(S) == {topic[i].ident : i \in S}

-----------------------------------------------------------------------------
(* Dispatch of a debounced batch *)

Known == {h[1] : h \in held}

\* The snapshot may be absent or stale, and then no window is active.
ActiveAt(t, usable) ==
  {w \in Windows : usable /\ Start[w] <= t /\ t < calendar[w] + Grace}

OpenFor(i, usable) ==
  {w \in ActiveAt(topic[i].at, usable) : w \notin released /\ inFlight[w] = {}}

\* max by (end, start, id)
Later(v, w) ==
  \/ calendar[v] > calendar[w]
  \/ calendar[v] = calendar[w] /\ Start[v] > Start[w]
  \/ calendar[v] = calendar[w] /\ Start[v] = Start[w] /\ v > w

LatestEnding(W) == CHOOSE w \in W : \A v \in W \ {w} : Later(w, v)

\* In batch B, with `known` the ids read as already held and `failed` the
\* events whose row cannot be stored: what is held now, and what goes on.
NewlyHeld(B, usable, failed) ==
  {i \in B : i \notin Known /\ i \notin failed /\ OpenFor(i, usable) # {}}

Survivors(B, usable, failed, known) ==
  {i \in B : i \notin known /\ (OpenFor(i, usable) = {} \/ i \in failed)}

Hold(H, usable) ==
  /\ held' = held \cup {<<i, LatestEnding(OpenFor(i, usable))>> : i \in H}
  /\ frozenEnd' = [w \in Windows |->
       IF frozenEnd[w] = Never /\ \E i \in H : w = LatestEnding(OpenFor(i, usable))
         THEN calendar[w] ELSE frozenEnd[w]]

\* Suppressions decide about the marker only: a batch with a turn goes out
\* whether or not its suppression records were written.
Submit(S, offset, unwritten) ==
  LET triage == S \ Cooled(S)
  IN  /\ lastTriaged' = Armed(triage)
      /\ unwritten => Cooled(S) # {}
      /\ queue' = IF triage # {} THEN Append(queue, Turn(triage, offset, NoWindow))
                  ELSE IF unwritten THEN queue
                  ELSE Append(queue, Marker(offset))

\* dispatch_batch on the n events that have arrived first.
Dispatch(n) ==
  LET B == {arrived[k] : k \in 1..n}
  IN  /\ arrived' = SubSeq(arrived, n + 1, Len(arrived))
      /\ \E usable \in BOOLEAN, failed \in SUBSET B, blind \in BOOLEAN, unwritten \in BOOLEAN :
           /\ Hold(NewlyHeld(B, usable, failed), usable)
           /\ Submit(IdentsOf(Survivors(B, usable, failed, IF blind THEN {} ELSE Known)),
                     arrived[n], unwritten)
           /\ Charge(If(~usable, "stale") \cup If(unwritten, "audit")
                      \cup If(blind \/ failed # {}, "hold"))
      /\ UNCHANGED <<world, intake, inFlight, core, blocked, recorded, checkpoint,
                     released, skipped, broken>>

\* An exception escapes dispatch_batch: the coordinator logs it and goes on.
DispatchRaises(n) ==
  /\ Charge({"escape"})
  /\ arrived' = SubSeq(arrived, n + 1, Len(arrived))
  /\ broken' = [broken EXCEPT !.events = @ \cup {arrived[k] : k \in 1..n}]
  /\ UNCHANGED <<world, intake, lastTriaged, inFlight, queue, core, blocked, durable,
                 skipped>>

-----------------------------------------------------------------------------
(* The releaser, one window at a time *)

EventsOf(w) == {i \in Position : <<i, w>> \in held}
HeldIdents(w) == IdentsOf(EventsOf(w))

\* group_held: an identity whose latest held event is resolved has recovered.
LastOf(i, w) == \A j \in EventsOf(w) : topic[j].ident = topic[i].ident => j <= i
RecoveredIn(w) == IdentsOf({i \in EventsOf(w) : LastOf(i, w) /\ topic[i].resolved})

Due(w) == frozenEnd[w] + Grace

CaughtUp == intake.keepalive /\ arrived = <<>>

FallbackDue(w) ==
  (IF Due(w) > intake.first THEN Due(w) ELSE intake.first) + Fallback <= clock

\* The calendar still has the window, running now and begun before its events.
StillRunning(w, usable) ==
  /\ w \in ActiveAt(clock, usable)
  /\ \A i \in EventsOf(w) : Start[w] <= topic[i].at

Considered(w) ==
  /\ EventsOf(w) # {} /\ w \notin released /\ inFlight[w] = {}
  /\ clock >= Due(w)

\* The extension rule moves the stored end and defers the release.
Extend(w) ==
  /\ Considered(w)
  /\ StillRunning(w, TRUE)
  /\ frozenEnd[w] # calendar[w]
  /\ frozenEnd' = [frozenEnd EXCEPT ![w] = calendar[w]]
  /\ UNCHANGED <<world, process, recorded, checkpoint, held, released, history>>

InFlightIdents == UNION {inFlight[w] : w \in Windows}

\* Slip: not waiting for a release in flight that triages a shared identity.
ReleasableAlone(w) ==
  /\ Considered(w)
  /\ \E usable \in BOOLEAN :
       ~StillRunning(w, usable) /\ Charge(If(~usable, "stale"))
  /\ CaughtUp \/ FallbackDue(w)

Releasable(w) ==
  /\ Considered(w)
  /\ \E usable \in BOOLEAN :
       ~StillRunning(w, usable) /\ Charge(If(~usable, "stale"))
  /\ CaughtUp \/ FallbackDue(w)
  /\ InFlightIdents \cap HeldIdents(w) = {}

Forwarded(w) == HeldIdents(w) \ RecoveredIn(w)

\* What w lets go on a cooldown no record bears out yet.  Releases in flight are
\* waited for: it is an event turn's.
Unproven(w) ==
  {i \in EventsOf(w) : LET A == topic[i].ident
                       IN  /\ A \in Cooled(Forwarded(w)) \ InFlightIdents
                           /\ recorded[A].at < lastTriaged[A]}
LetGoEarly(w) == broken' = [broken EXCEPT !.early = @ \cup Unproven(w)]

\* A release with identities to triage goes to the core as one turn.
ReleaseTurn(w) ==
  LET triage == Forwarded(w) \ Cooled(Forwarded(w))
  IN  /\ Releasable(w)
      /\ triage # {}
      /\ lastTriaged' = Armed(triage)
      /\ inFlight' = [inFlight EXCEPT ![w] = triage]
      /\ queue' = Append(queue, Turn(triage, NoOffset, w))
      /\ LetGoEarly(w)
      /\ UNCHANGED <<world, intake, arrived, core, blocked, durable, skipped>>

\* Slip: a release whose identities have all recovered is not marked.
ReleaseCooledOnly(w) ==
  /\ Releasable(w)
  /\ Forwarded(w) # {}
  /\ Forwarded(w) \subseteq Cooled(Forwarded(w))
  /\ released' = released \cup {w}
  /\ LetGoEarly(w)
  /\ UNCHANGED <<world, process, recorded, checkpoint, held, frozenEnd, skipped>>

\* All recovered or cooled down: marked at once.  (A store error changes nothing.)
ReleaseQuietly(w) ==
  /\ Releasable(w)
  /\ Forwarded(w) \subseteq Cooled(Forwarded(w))
  /\ released' = released \cup {w}
  /\ LetGoEarly(w)
  /\ UNCHANGED <<world, process, recorded, checkpoint, held, frozenEnd, skipped>>

-----------------------------------------------------------------------------
(* The core's serial queue *)

\* write() may fail: logged, and the cursor keeps its value.
WriteCheckpoint(offset) ==
  \/ /\ ~blocked /\ offset # NoOffset
     /\ checkpoint' = offset
     /\ UNCHANGED faults
  \/ /\ ~blocked /\ offset # NoOffset
     /\ Charge({"checkpoint"})
     /\ UNCHANGED checkpoint
  \/ /\ blocked \/ offset = NoOffset
     /\ UNCHANGED <<checkpoint, faults>>

ProcessMarker ==
  /\ core.phase = "idle"
  /\ queue # <<>> /\ Head(queue).idents = {}
  /\ queue' = Tail(queue)
  /\ WriteCheckpoint(Head(queue).offset)
  /\ UNCHANGED <<world, intake, arrived, lastTriaged, inFlight, core, blocked,
                 recorded, held, frozenEnd, released, skipped, broken>>

StartTriage ==
  /\ core.phase = "idle"
  /\ queue # <<>> /\ Head(queue).idents # {}
  /\ queue' = Tail(queue)
  /\ core' = [phase |-> "triaging", turn |-> Head(queue)]
  /\ UNCHANGED <<world, intake, arrived, lastTriaged, inFlight, blocked, durable, history>>

\* The session cannot start: the exception escapes process(), run() logs it.
StartRaises ==
  /\ core.phase = "idle"
  /\ queue # <<>> /\ Head(queue).idents # {}
  /\ Charge({"escape"})
  /\ queue' = Tail(queue)
  /\ broken' = [broken EXCEPT !.until = [A \in Ident |->
       IF A \in Head(queue).idents THEN Reach(Head(queue).armed) ELSE @[A]]]
  /\ UNCHANGED <<world, intake, arrived, lastTriaged, inFlight, core, blocked,
                 durable, skipped>>

\* The triage ended, well or in error, and its record is durable.  A release's
\* window is marked then; when that fails it stays in flight.
FlushTriage ==
  /\ core.phase = "triaging"
  /\ core' = [core EXCEPT !.phase = "recorded"]
  /\ recorded' = [A \in Ident |-> IF A \in core.turn.idents
                    THEN [at |-> clock, armed |-> core.turn.armed] ELSE recorded[A]]
  /\ \/ /\ core.turn.window # NoWindow
        /\ released' = released \cup {core.turn.window}
        /\ inFlight' = [inFlight EXCEPT ![core.turn.window] = {}]
        /\ UNCHANGED faults
     \/ /\ core.turn.window # NoWindow
        /\ Charge({"mark"})
        /\ UNCHANGED <<released, inFlight>>
     \/ /\ core.turn.window = NoWindow
        /\ UNCHANGED <<released, inFlight, faults>>
  /\ UNCHANGED <<world, intake, arrived, lastTriaged, queue, blocked, checkpoint,
                 held, frozenEnd, skipped, broken>>

\* Slip: no latch after a record that could not be written.
FlushFailsOpen ==
  /\ core.phase = "triaging"
  /\ Charge({"audit"})
  /\ core' = Idle
  /\ UNCHANGED <<world, intake, arrived, lastTriaged, inFlight, queue, blocked,
                 durable, skipped, broken>>

\* Its record cannot be written: latch the checkpoint for this process.
FlushFails ==
  /\ core.phase = "triaging"
  /\ Charge({"audit"})
  /\ blocked' = TRUE
  /\ core' = Idle
  /\ UNCHANGED <<world, intake, arrived, lastTriaged, inFlight, queue, durable,
                 skipped, broken>>

\* No await separates this from the flush; a crash can.
AdvanceCheckpoint ==
  /\ core.phase = "recorded"
  /\ core' = Idle
  /\ WriteCheckpoint(core.turn.offset)
  /\ UNCHANGED <<world, intake, arrived, lastTriaged, inFlight, queue, blocked,
                 recorded, held, frozenEnd, released, skipped, broken>>

-----------------------------------------------------------------------------
(* The process dies and starts again *)

\* Slip: cooldowns are not rebuilt from the audit log.
RestartCold ==
  /\ Charge({"crash"})
  /\ intake' = Started(checkpoint)
  /\ arrived' = <<>>
  /\ lastTriaged' = [A \in Ident |-> Never]
  /\ inFlight' = [w \in Windows |-> {}]
  /\ queue' = <<>>
  /\ core' = Idle
  /\ blocked' = FALSE
  /\ UNCHANGED <<world, durable, skipped, broken>>

Restart ==
  /\ Charge({"crash"})
  /\ intake' = Started(checkpoint)
  /\ arrived' = <<>>
  /\ lastTriaged' = [A \in Ident |-> recorded[A].at]
  /\ inFlight' = [w \in Windows |-> {}]
  /\ queue' = <<>>
  /\ core' = Idle
  /\ blocked' = FALSE
  /\ UNCHANGED <<world, durable, skipped, broken>>

-----------------------------------------------------------------------------
World == (\E A \in Ident, resolved \in Resolved : Publish(A, resolved))
           \/ (\E w \in Windows : Delay(w)) \/ Advance

Intake == Subscribe \/ Receive \/ Keepalive
Transport == Lose \/ RejectSince

Coordinator == \E n \in 1..Len(arrived) : Dispatch(n)

Releaser == \E w \in Windows : Extend(w) \/ ReleaseTurn(w) \/ ReleaseQuietly(w)

Core == ProcessMarker \/ StartTriage \/ FlushTriage \/ AdvanceCheckpoint

Faults ==
  \/ \E n \in 1..Len(arrived) : DispatchRaises(n)
  \/ StartRaises \/ FlushFails \/ Restart

Next == World \/ Intake \/ Transport \/ Coordinator \/ Releaser \/ Core \/ Faults

Spec == Init /\ [][Next]_vars

\* Every task of the loop runs on, triages end, time passes, and the network
\* fails only so often.  Faults are never required.
Fairness ==
  /\ WF_vars(Intake) /\ WF_vars(Coordinator) /\ WF_vars(Core) /\ WF_vars(Releaser)
  /\ WF_vars(Advance)

FairSpec == Spec /\ Fairness

-----------------------------------------------------------------------------
(* Properties *)

SameAlert(i, j) == topic[i].ident = topic[j].ident

\* A durable triage record names the alert, from after the event or no longer than
\* a cooldown before it.
Covered(i) ==
  /\ recorded[topic[i].ident].at # Never
  /\ topic[i].at < Reach(recorded[topic[i].ident].at)

\* The alert, or a later one of its identity, was held and found resolved.
Recovered(i) ==
  \E w \in released : \E j \in EventsOf(w) :
    j >= i /\ SameAlert(i, j) /\ topic[i].ident \in RecoveredIn(w)

Handled(i) == Covered(i) \/ Recovered(i)

\* What a restart takes up again: the events after the checkpoint, the windows
\* not yet released.
Resumes(j) == j > checkpoint \/ \E w \in Windows \ released : <<j, w>> \in held

Awaited(i) == \E j \in Position : j >= i /\ SameAlert(i, j) /\ Resumes(j)

\* No batch failed open.
Contained == faults["hold"] = 0 /\ faults["stale"] = 0

\* An exception costs the alerts of the batch it ended, or what comes in the
\* cooldown of the triage it ended; a window let go too early costs the alerts that
\* were cooled down; and nothing else is lost.
Spared(i) == /\ i \notin skipped
             /\ \A j \in broken.events \cup broken.early : j >= i => ~SameAlert(i, j)
             /\ topic[i].at >= broken.until[topic[i].ident]

\* No alert is lost, whatever crashes, write failures and outages happen: what
\* is on disk at any moment either settles an event or leads a restart back to
\* it (core.py _flush_event_triage, coordinator.py dispatch_batch, release.py).
\* What the other faults break is stated by the properties that follow it.
NothingIsLost == Contained => \A i \in Position : Spared(i) => Handled(i) \/ Awaited(i)

\* "the cursor never moves past an event whose outcome is not yet on disk"
\* (events/checkpoint.py:11): a triage record, or a held row.
CursorOnDisk ==
  \A i \in Position \ skipped : i <= checkpoint => Handled(i) \/ i \in Known

\* A cooldown armed only in memory "must not close this window for good if the
\* process dies first" (events/release.py:28): what a released window held is
\* triaged, has recovered, or is still to come.
ReleasedForGood ==
  faults["escape"] = 0 =>
    \A w \in released : \A i \in EventsOf(w) :
      Handled(i) \/ \E j \in Position : SameAlert(i, j) /\ Resumes(j)

\* Two triages of one identity start at least a cooldown apart, within a
\* process and across restarts (pipeline.py evaluate, rehydrate).
CooldownHolds ==
  [][Len(queue') > Len(queue) =>
       \A A \in queue'[Len(queue')].idents :
         /\ recorded[A].armed # Never => clock >= recorded[A].armed + Cooldown
         /\ \A k \in 1..Len(queue) : A \in queue[k].idents => clock >= queue[k].armed + Cooldown
         /\ A \in core.turn.idents => clock >= core.turn.armed + Cooldown]_vars

\* A window is let go only once everything published before the current
\* subscription was received and dispatched, or after the fallback wait
\* (coordinator.py caught_up, release.py _consider).
LetGo(w) ==
  /\ w \notin released /\ inFlight[w] = {}
  /\ w \in released' \/ inFlight'[w] # {}
ReleasedCaughtUp ==
  [][\A w \in Windows : LetGo(w) =>
       \/ intake.subscribed /\ intake.pos >= intake.backlog /\ arrived = <<>>
       \/ FallbackDue(w)]_vars

\* Every event is handled one day, unless a subscription without a cursor left
\* it out or an exception cost it.
EveryEventIsHandled ==
  \A i \in 1..MaxEvents :
    i \in Position ~> i \in Position /\ (Spared(i) => Handled(i))

=============================================================================
