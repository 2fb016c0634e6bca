# Henk: specifications, model checking and proofs

Henk is a single-process asyncio assistant: it answers its owner over Signal,
triages alerts that arrive on an ntfy topic, keeps reminders, and asks before it
changes anything. This directory holds TLA+ modules for the parts of it whose
correctness depends on the order of events (interleaved tasks, crashes, failed
writes, retries) or on a case analysis no test enumerates (configuration, clock
changes, retention), the TLC configurations that check them, and TLAPS proofs
for the reminder subsystem, the event path, the approval gate, the agent core's
conversation, the maintenance calendar, the store, the channel to the owner and the
session feed.

All paths below are relative to `src/`.

## The system

One event loop runs the channel's receive loop and five tasks (`henk/app.py`
`App.run`): the agent core, the event coordinator, the reminder scheduler, the
maintenance-window provider and the hold releaser. A handler that does not await
is atomic; everything else can interleave at an await, and the process can die
between any two steps. A SQLite store, an append-only audit log, the
intake-offset file and the calendar snapshot survive it. Two other programs share
state with it: the session publisher, through an ntfy topic, and the purge
script, through the SQLite file.

| Component | State | Operations | Talks to | Module |
|---|---|---|---|---|
| Reminder store `henk/store/reminders.py` | the `reminders` table | schedule, cancel, reinstate, the selections, charge, mark delivered / missed / abandoned / reported / surfaced | scheduler, commands, tools, note | Reminders |
| Reminder scheduler `henk/reminders/scheduler.py` | the current tick | pre-work transaction, deliver, report | store, channel, audit | Reminders |
| Time resolution `henk/reminders/timeparse.py` | none | classify, resolve, check past and horizon | tools, commands | OwnerTime |
| Intake `henk/events/intake.py` | resume cursor, liveness budget, backoff | subscribe, receive, reconnect, replay | ntfy, coordinator | EventPath |
| Coordinator `henk/events/coordinator.py` | pump queue, debounce batch, caught-up flags | dispatch a batch, submit a release | pipeline, holds, core, audit | EventPath |
| Pipeline `henk/events/pipeline.py` | cooldowns, announcement times, hand-off references | evaluate, rehydrate | coordinator, audit log | EventPath |
| Holds `henk/events/holds.py`, `henk/store/holds.py` | held events, frozen ends, releases in flight | hold, extend, mark released | coordinator, releaser, core | EventPath |
| Releaser `henk/events/release.py` | none | tick over unreleased windows | holds, windows, coordinator | EventPath |
| Windows, client, token `henk/calendar/` | snapshot of the calendar, cached token | refresh, load, active; list, insert | coordinator, releaser, tools | MaintenanceCalendar |
| Core `henk/agent/core.py` | serial queue, open session, taint, checkpoint latch | owner turn, event turn, marker, flush, close | sessions, gate, channel, audit, checkpoint | Conversation, EventPath |
| Approval gate `henk/gate/approval.py` | the pending approval, the turn's context | authorize, deliver, deliver_reaction | tools, channel, dispatcher | ApprovalGate |
| Dispatcher `henk/app.py` | none | route a message or a reaction | allowlist, gate, core | ApprovalGate |
| Signal channel `henk/channel/` | send lock, typing indicator, backoff | send, prompt, edit, receive, acknowledge | signal-cli | SignalChannel |
| Store `henk/store/db.py`, `memory.py`, `inbox.py`, `handoffs.py` | SQLite connection, depth, poisoned flag | transaction, capped inserts, retention, reads | everything durable | HenkStore |
| Digest `henk/agent/digest.py`, `henk/events/identity.py` | none | relate, rank, fill | core, archive | HandoffDigest |
| Audit log `henk/audit/` | JSONL file | write, read tail | core, coordinator, scheduler | in the modules of its writers |
| Configuration `henk/config.py`, registry `henk/tools/__init__.py` | none | load, validate, build | all | HenkConfig, OwnerSettings |
| Tools `henk/tools/` | none, but the calendar tool's reference slot | one call each | gate, external services | in the modules of what they change |
| Replay `henk/replay/` | recordings | record, replay, grade | offline | none |
| Session publisher `deploy/session-publisher/` | its own files | publish | ntfy, read by `sessions_read` | SessionFeed |

Which behaviours are hard to test:

* **Stale selections.** A reminder tick selects rows in one transaction and sends
  them one by one behind a lock; the owner can cancel meanwhile. A publish is
  awaited while its session is replaced.
* **Crashes between a side effect and its record.** A send that succeeded but was
  not recorded; a triage recorded but not checkpointed; a release triaged but not
  marked; a post accepted and a state file not written.
* **Write failures.** An audit record that cannot be written must stop the cursor,
  even for turns already queued; a statement that fails in a nested scope must
  undo all of it.
* **State armed only in memory.** Cooldowns are armed when a turn is submitted
  and become durable when it is recorded.
* **Replays.** Reconnects and restarts deliver events again; windows, cooldowns
  and held ids decide what that means.
* **Late answers.** A typed answer, a reaction and the timeout race for one
  approval; an answer of Google's or of the bridge's may be lost.
* **Boundaries.** Caps, budgets that include their own mark, clock changes,
  settings that are related to each other.

What makes each component correct is stated under the runs; `PROJECT.json` lists
the hazards with the line where each bites.

## Modules

### Reminders

`Reminders.tla` models the table, the owner's operations and the whole tick.

| Model | Code |
|---|---|
| `rows[r]` | a row: `status`, `due_at`, `next_attempt_at`, `attempts`, `delivered_at`, `surfaced_at`, `reported_at` (the last two as flags) |
| `tick` | the locals of `tick()`: captured instant, deliveries left, report set, receipts left, the send in progress |
| `Schedule`, `Cancel`, `Reinstate` | the commands and tools, each one transaction, with the cap and the due-instant checks |
| `Surface` | the delivery note of an owner turn |
| `PreWork` | `_pre_work`: grace pass, selection, charges, both crash bounds, one transaction |
| `Skip`, `Dispatch`, `Transmit`, `RecordDelivery`, `RecordRetry` | `_deliver`: re-read, the awaited send, its record |
| `StartSummary`, `TransmitSummary`, `RecordSummary` | `_report` |
| `StoreFault` | a store error in the tick, logged and dropped by `run` |
| `Crash` | process death, or the task cancelled at shutdown |

The owner's operations happen only while the tick sleeps or awaits the channel
(`LoopFree`): elsewhere the tick holds the event loop. `seen` and the counters of
crashes and faults are history variables and guard nothing but their bounds. A
send has the channel's three outcomes; while the clock is at most `OutageEnd` it
may end in any of them.

`ReminderPromise.tla` is the abstract specification: a promise is open, then
withdrawn, kept, or owed and settled. `Promise == INSTANCE ReminderPromise WITH ...`
is the refinement mapping and `KeepsPromise` the property.

`RemindersProofs.tla` holds the theorems.

### EventPath

`EventPath.tla` follows an alert from the topic to a durable outcome.

| Model | Code |
|---|---|
| `topic`, `Publish` | the ntfy topic (external); an event is its position |
| `intake`, `Subscribe`, `Receive`, `Keepalive`, `Lose`, `RejectSince` | `EventIntake.events` and the coordinator's `note_*` callbacks |
| `arrived`, `Dispatch(n)` | the pump queue and the debounce batch; any prefix may be the next batch, which covers every debounce timing |
| `lastTriaged` | the pipeline's cooldown table |
| `held`, `frozenEnd`, `released`, `inFlight` | `held_events`, `hold_windows`, `HoldLedger._in_flight` |
| `Extend`, `ReleaseTurn`, `ReleaseQuietly` | `HoldReleaser._consider` |
| `queue`, `core`, `ProcessMarker`, `StartTriage`, `FlushTriage`, `FlushFails`, `AdvanceCheckpoint` | the core's queue, `_process_event`, `_flush_event_triage`, `_advance_checkpoint` |
| `blocked` | `_checkpoint_blocked` |
| `recorded` | the latest triage record of each identity in the audit log |
| `Restart` | process death, start, `rehydrate`, `checkpoint.read` |

Faults are charged against `MaxFaults[k]`, one bound per kind (`FaultKind`), and against
`MaxTrouble` for all kinds together, so a run names exactly the
faults it allows. Time is a clock in the units of the cooldown; identities, windows and
events are small sets.

`skipped` and `broken` are history: what a subscription without a cursor left out, what
an exception (`DispatchRaises`, `StartRaises`) cost (`Reach` is how far the cooldown of a
turn that raised keeps later alerts out), and in `broken.early` the held events a window
was let go with on a cooldown that is armed in memory and not on record. `NothingIsLost`
and `EveryEventIsHandled` ask for every event outside them.

`EventPathMC.tla` gives TLC the windows and the fault bounds. `EventPathProofs.tla` holds
the theorems.

### ApprovalGate

`ApprovalGate.tla` follows a tool call of the model from the permission callback to
its decision. It composes what the gate, the dispatcher, the callback and the
core's framing of turns do, because the hazards lie between them.

| Model | Code |
|---|---|
| `turn`, `CallContext`, `RaiseTaint` | `_turn_context`, `_raise_taint` |
| `running`, `tainted`, `StartOwnerTurn`, `StartEventTurn`, `EndTurn` | `AgentCore._framed_turn`, `_ensure_session`, `_start_event_session` |
| `Bypass`, `DenyScope`, `Authorize`, `Suppress`, `RefuseUndeclared`, `RejectBusy`, `Ask` | the returns of `authorize`, in their order, each with its guard |
| `pending` | `_Pending`: its future is `answer` and `expired` |
| `ShowPrompt`, `PromptSent`, `PromptFailed` | `send_prompt`: the bridge has the prompt in the conversation before the gate knows, and the confirmation can be lost |
| `Expire`, `Resume` | `wait_for` on Python 3.12, which the image is built from: the timer cancels the waiting task, and wins over an answer the task has not seen yet |
| `Decide`, `EditDone` | slot released, receipt, outcome edit, decision |
| `CancelTask` | the awaiting task is cancelled; `finally` releases the slot |
| `Message`, `React` | `Dispatcher.on_inbound`, `deliver`, `deliver_reaction`, `_answer` |

`"permitted"` means that `authorize` returned and the session runs the tool. A turn
may end with calls still in the gate, and a call may come when no turn is framed.
`firstAct` and `exposed` are history: the first answer the owner gave while a call
was pending, and whether the open session met an incident or a source ran in one of
its turns. The send lock, which would put a prompt behind the edit before it, is
left out (it is in SignalChannel): this allows more interleavings, not fewer. A prompt's reference is its
call.

`ApprovalGateMC.tla` gives TLC three tools: a read-only source of taint, a standing
write of owner turns only, and a per-instance source that event turns may use.
`ApprovalGateProofs.tla` holds the theorems.

### Conversation

`Conversation.tla` follows an owner message, a command, `/new` or an incident through
the agent core's one serial queue.

| Model | Code |
|---|---|
| `inbox`, `turn`, `phase` | `AgentCore._queue`, the turn being processed, the await it is at |
| `session`, `leaving`, `Open`, `Reuses`, `Displace`, `Closed` | `_ensure_session`, `_start_event_session`, `_close_session` |
| `acc`, `Continued`, `WriteRecord`, `Record` | `_SessionAudit`, `_write_audit_record`, the flush of a triage |
| `CallMade`, `NoteReceipt`, `Ask`, `Decide`, `Executed` | the session's tool calls, the gate's receipts, `_was_executed` |
| `TakeRecall` | `_take_recall`: the block a new session is given, and its hash |
| `EndOwnerTurn`, `EndEventTurn`, `ClassifyEnding`, `Worse`, `Announced` | `_process_owner`, `_process_event`, `ending.py` |
| `Publish`, `Published`, `incidents` | `publish_handoff`, the incident context |
| `GrowIdle`, `Reset`, `Command` | idle expiry, `/new`, an owner command |
| `Kill`, `Stop` | the process dies; `aclose` on a graceful stop |
| `Down`, `Armed`, `InOrder` | the next start: cooldowns armed from the records, the events past the cursor delivered again |

The model behind a session is free: it calls tools, publishes, ends a turn in any of the
ways the SDK reports, or raises. What the gate decides is an input here. `told`, `ended`,
`given`, `filed` and `excused` are history. `ConversationProofs.tla` holds the theorems.

### SignalChannel

`SignalChannel.tla` models the adapter over a bridge that refuses a request, or accepts
it and loses the answer.

| Model | Code |
|---|---|
| `Split`, `Cut`, `CharsWithin` | `split_message` and its helpers, in bytes |
| `Rendered`, `Escaped`, `Oversized` | `render_prompt`, `_escape_styled`, the size check of `send_prompt` |
| `lock`, `Send`, `Post`, `Accepted`, `Refused`, `GiveUp`, `Cancel` | `_send_serialized`, `_send_message`, `_send_with_retry`, cancellation of a caller |
| `bracket`, `doing`, `Start`, `Stop`, `Wait`, `Woken`, `CloseBracket`, `CutOff`, `Approval` | `OwnerAcknowledgement`'s refresh loop, its pause under an approval and its bounded close |
| `loop`, `Arrive`, `ReceiptEnds`, `StreamFails`, `Reconnect` | `messages`: allowlist, read receipt, backoff |

The three parts share no state but the channel, so an initial state sets one of them
going: their product would add nothing but size. Text is a sequence of characters of one
or two bytes.

### HandoffDigest and HenkStore

`HandoffDigest.tla` has no state: it holds identities, incidents, the relation of an
archived hand-off to a turn, the order of candidates and the greedy fill of the digest.

`HenkStore.tla` models the SQLite file a statement at a time. A call is a program
(`Program`) of statements, scope ends, catches and receipts; the process may die between
any two of them.

| Model | Code |
|---|---|
| `db`, `work`, `lock` | the committed file, the connection's view, SQLite's write lock |
| `depth`, `poisoned`, `Enter`, `LeaveNested`, `LeaveOutermost`, `Catch` | `Store.transaction` |
| `Insert`, `Overflow`, `Aged`, `Beyond`, `Bounded` | the repositories' inserts and trims |
| `Reply`, `Receipt` | what commands and tools say, and the receipt after the commit |
| `Recall`, `ListMemories`, `ListInbox`, `ReadInbox`, `FindByMessageRef`, `ShowDigest` | the reads and what they leave out |
| `PurgeBegins` ... `PurgeEnds` | `deploy/henk-purge-handoffs.py` |

SQLite is external: a statement succeeds or raises and changes nothing, ROLLBACK does not
fail, and AUTOINCREMENT never reissues an id. An automatic rollback by SQLite itself is
outside the model. `HenkStoreProofs.tla` holds the theorems.

### HenkConfig, OwnerTime, OwnerSettings

`HenkConfig.tla` loads a file (`FromDict`): each section's defaults and coercions
(`Cast`, with what Python's `int`, `float` and `bool` do to strings, NaN and infinities),
the checks in their order (`Checks`) and the settings each refusal names; then the prompt
(`BuildSystemPrompt`) and the registry (`BuildProductionRegistry`) of the process.
`Flip` changes a capability's flag in a file that loaded.

`OwnerTime.tla` resolves a submitted time: `Classify` tells a normal reading from an
ambiguous and an imaginary one, `ResolveDuration`, `ResolveDated` and `ResolveClock` are
the three families, `Neighbours` the alternatives offered for a skipped reading. A zone has
one transition; `FoldOffset` is what zoneinfo does with a reading (PEP 495), external.

`OwnerSettings.tla` composes them: a time can be asked for only in a process whose file
loaded with reminders on, through the tool if the registry holds it.

### MaintenanceCalendar

| Model | Code |
|---|---|
| `calendar`, `gone`, `made`, `Add`, `Remove`, `Revoke` | Google's side (external) |
| `token`, `call`, `SignIn`, `Refused`, `TryAgain`, `Answered`, `Failure` | `CalendarClient._call`, `_send`, the token cache |
| `snapshot`, `file`, `StartRefresh`, `RefreshDone`, `RefreshFailed`, `Load` | `WindowProvider.refresh`, `load`, the file beside the audit log |
| `Admit`, `Holds`, `Usable`, `Active` | admission, the one predicate, staleness |
| `approved`, `slot`, `Approve`, `Record` | `ApprovalReferences` |
| `Run`, `Created`, `NotCreated`, `InsertFailure`, `Problem` | the create tool |
| `Restart`, `TurnDies`, `Damage` | a restart with another flag, a cancelled turn, a damaged file |

That one mutating call runs at a time between its approval and its run is the behaviour
of the SDK's command line, external, and an assumption of `ReceiptsTellTheWrite`;
`ApprovalReferences`' docstring derives it from the gate's single slot, which alone would
not give it (`GateHolds` has two decided calls at once). `MaintenanceCalendarProofs.tla`
holds the theorems.

### SessionFeed

| Model | Code |
|---|---|
| `cfg`, `Loads`, `Canonical`, `Admitted`, `Reported`, `RootLabel` | `load_config`, `canonicalise`, the gates of `build_snapshot` |
| `Snapshot`, `Dated`, `Dropped`, `Unlisted`, `Key` | `build_snapshot`, the ages it joins, `degrade`, `comparison_key` |
| `Rank`, `Before`, `Place`, `Ordered` | the stable sort of `degrade` and of the reader's body, by the place of each session |
| `lock`, `run`, `Start`, `Post`, `Finish`, `Die`, `Corrupt` | `main`: the advisory lock, the post, `write_state`, kill points, a damaged `last.json` |
| `Wanted` | `should_publish` |
| `topic`, `Stray` | the ntfy cache (external), with frames that are not snapshots |
| `poll`, `Ask`, `AskFurther`, `Candidates`, `Tally`, `Concluded` | `sessions_read`: one or two polls, the choice of a frame, headline, counts and notes |

The timer's slots are `tick` apart and a run may be late within its slot
(`session-publisher.timer`). `missed`, `since` and `about` are history.

## Runs

| Run | What it shows | Bounds |
|---|---|---|
| `RemindersPair` | nothing disappears silently, receipts are true, a cancelled reminder is not sent, and the abstract promise is kept | 2 rows selected together, clock to 4, a crash, an outage throughout |
| `RemindersLong` | one reminder through its whole life: delivered only in its window, no duplicate without an interruption, no abandonment by outage alone, the owner told of it a bounded number of times, settled one day | clock to 9, past grace and horizon; outage to 7; 2 crashes and a store error, crash limit 3 |
| `EventHolds` | no alert is lost, with two overlapping windows | 3 events of one identity; any three of: a crash, a failed audit, checkpoint or release write |
| `EventReaches` | two triages of an identity are a cooldown apart; a window is let go only when caught up or after the fallback; every event is handled one day, but those an exception cost | 2 events; any two of: a crash, a lost stream, a rejected cursor, a failed release write, an escaped exception; the window extended by up to 1 |
| `GateHolds` | a tool runs on the owner's first word only, receipts tell the answer, an exposed session never writes, the slot becomes free again | 2 calls, 3 tools, kill-switch on and off, any number of turns, messages and reactions; one message queued at a time |
| `SessionsTold` | no private session is told, what the budget drops is counted and least urgent, the topic converges on the estate, a stale report means missed slots | 4 pairs of configurations (two broken), 2 worlds, 9 instants of a heartbeat of 4, one failure or damaged file, both publishers |
| `ConversationKept` | each taken-up turn is answered once, and an incident again only for a record that was lost; records add up and name the recall they were given, hand-offs are filed under their incident, errors stay on the record | arrivals of 5 kinds, failures, kills and stops, anywhere: 3 of the first with one of the others, or 2 with 2; 2 calls or hand-offs |
| `ChannelKept` | chunks of two messages never mix, an outcome promises no more than arrived, the indicator is fresh, yields and closes in its bound, no sender waits for ever | every pair of 9 jobs, 2 failed requests, cancellation anywhere; every accepted bound of an acknowledgement; 2 failed streams |
| `StoreKept` | a call is committed whole or not at all, what is said of it is so, caps hold, reads add up, ids and purged rows can be told | 2 calls on a file at every cap, one failing statement or death, a clock that steps back, one purge |
| `CalendarKept` | alerts are held exactly for planned windows, results are true, a receipt names the approval that was written | 2 edits of 3 possible events, 2 approvals, 3 troubles of which at most 2 faults, 1 revocation, 1 restart or damaged file |
| `SettingsKept` | prompt and registry agree, a flip fails only for its companion, a time means what the owner's clock shows | 3 deployments with every single odd value, related pairs and every combination of flags; 24 zones, every minute of three short days |
| `RecordedWhenTriaged` | counterexample: a graceful stop records a triage that did not end | as `ConversationKept`, with one failure, kill or stop |

The bounds are small because the hazards are: each needs one or two rows, events, calls
or sessions, one fault of each kind, and a clock that crosses every threshold (due,
lateness, grace, horizon, cooldown, fallback, heartbeat, staleness). In the gate, two
calls are what it takes to compete for the slot, to answer one while the other asks, and
to outlive a turn. In the store, a file at each cap makes every insert trim. Constants
named `Max...` bound the model, not the program, except those the modules declare as
settings: `MaxPending`, `MaxAttempts`, `MaxBackoff`, `MaxCount` and `MaxAge` of the store,
`MaxEntries`, `MaxChars`, `MaxReadLimit`, `MaxWindow`, `MaxAhead`, `MaxListed`. In
`SessionFeed` nothing changes and nothing fails after `Calm`: what follows is long enough
for two heartbeats, which convergence and staleness need.
`CHECK_DEADLOCK FALSE` where calls, events or the clock may be used up and nothing is left
to do. `SessionsTold` uses symmetry of the two publisher processes; its properties are
safety properties.

Fairness. Liveness is checked in four runs. `RemindersLong` assumes weak fairness of the
scheduler (`run` loops for ever and logs what a tick raises; the adapter's sends are
bounded by timeouts) and of the clock. `EventReaches` assumes it of intake (it reconnects
for ever), of the coordinator, of the core (every turn ends or raises), of the releaser
and of the clock. `GateHolds` assumes it of each call in the gate: sends and edits are
bounded by the bridge's timeouts and retries, the wait by its timer. `ChannelKept` assumes
it of each sender's steps: a request is answered or times out, and the loop runs what is
ready. Owner, faults, crashes and cancellations are never required to happen.

The definitions named `TypeOK` say what a module's variables hold. Those of `Reminders`,
`ApprovalGate`, `EventPath`, `MaintenanceCalendar`, `HenkStore` and `Conversation` are
proved; those of the other modules document the shape. None is in a run.

## What the code does and a comment or specification does not say

The run `RecordedWhenTriaged` ends in a counterexample. `AgentCore._close_session`
(`henk/agent/core.py:903`) writes any record that is not flushed, with the outcome
"completed" a session starts with. On a graceful stop in the middle of a triage that is
the triage's own record; the next start arms the cooldown from it, and the replayed event
is not triaged. `openspec/specs/audit-log/spec.md:91` says "written at the completion of
the triage turn (not deferred to session close)".

Nine more configurations end in a counterexample to a sentence of the repository. They are
run by hand (`tlc -config <name>.cfg <module>`):

| Configuration, module | Property | What is said | What the code does |
|---|---|---|---|
| `EventCursor`, EventPathMC | `CursorOnDisk` | "the cursor never moves past an event whose outcome is not yet on disk" (`henk/events/checkpoint.py:11`) | a batch whose dispatch raised, or a triage whose session cannot start, is dropped and passed |
| `EventReleased`, EventPathMC | `ReleasedForGood` | "must not close this window for good if the process dies first" (`henk/events/release.py:28`) | a live turn's cooldown, armed in memory, does |
| `RemindersUntried`, Reminders | `AbandonedWasTried` | "a row Henk actually tried to deliver and abandoned" (`henk/reminders/scheduler.py:75`) | rows queued behind a send that keeps killing the process are abandoned untried |
| `RemindersUnnamed`, Reminders | `UnnamedOnlyByProcessDeath` | "after repeated process deaths" (`openspec/specs/reminders/spec.md:523`) | store errors alone close a report unnamed |
| `GateLate`, ApprovalGateMC | `NoLateApproval` | "treated as a normal message, not a late approval" (`openspec/specs/approval-gate/spec.md:58`) | a late keyword approves the next call, even before its prompt is shown |
| `SessionsStored`, SessionFeedMC | `StoredIsCarried` | the state file names the last snapshot the topic carries (`deploy/session-publisher/session_publisher.py:60`) | a post whose answer was lost is on the topic and not in the file |
| `ExecutedMeansPermitted`, ConversationMC | `ExecutedMeansPermitted` | `executed` is "whether this invocation was permitted to proceed" (`henk/agent/core.py:1035`) | flags are matched to receipts in order, so calls decided out of order swap theirs |
| `ChannelDrops`, SignalChannelMC | `TransportNeverPropagates` | "a transport failure never propagates" (`henk/channel/signal.py:180`) | after 1024 failures in a row `2**attempt` is no float: OverflowError ends the loop; the same formula is at `henk/events/intake.py:400` |
| `SettingsGap`, OwnerSettingsMC | `PassedGapIsTomorrow` | a passed reading inside the gap is "scheduled for that reading on the following date" (`openspec/specs/reminders/spec.md:291`) | it is refused as imaginary |

Smaller differences met while modelling, each modelled as the code has it:

* Sessions: equal keys keep herdr's order; a label may end in a newline (`LABEL_PATTERN`
  ends in `$`); "No live sessions." is said without the caveats; counts double when two
  polls overlap.
* Store: `store` settings are not validated, so a page size of 0 or less makes `/inbox`
  say empty; a poisoned transaction rolls back without a word to a caller that swallowed
  the exception; a hand-off published under an empty id is retained without one.
* Configuration: NaN and infinity are accepted everywhere but in the calendar section and
  the acknowledgement's bound (the docstrings at `henk/config.py:1258` and `:1592` say
  otherwise); an infinity in an integer setting raises an error that names no setting;
  `bool("false")` is true; `henk/config.py:803` says a lateness threshold above the grace
  makes on-time delivery unreachable, but it is the late one that is.
  `crash_attempt_limit: 1` is accepted and abandons every selected reminder before its
  first send.
* Calendar: `hold_alerts` turned back on with a fresh snapshot read without it holds
  nothing until the next refresh; the create tool says a window holds alerts before the
  refresh that makes it so.
* Gate: a keyword typed between the timer and the release of the slot answers nothing and
  is not queued.

## Proofs

### Reminders

`RemindersProofs.tla` proves its theorems for every value of the constants that
satisfies `RemindersAssumption` (what `henk/config.py` validates). TLC checked
`IInv` on the instance of `RemindersPair` before it was proved; it is proved now and no
longer in the run.

The safety properties are not inductive by themselves. A tick acts on rows it read
several awaits ago, so `IInv` adds what survives those awaits (`TickOK`: a row
still to be sent is pending or was cancelled meanwhile, and lies in its window at
the tick's instant; a row to be reported is still owed; receipts are true) and the
bookkeeping that ties counters to interruptions (`RowOK`: every attempt still on a
row's counter and every extra copy is owed to an interrupted tick).

* `TypeStep` gives `TypeCorrect`.
* One lemma per action, or per group of similar actions, shows that `IInv` is
  preserved (`OwnerSteps`, `PreWorkPreserves`, `TransmitPreserves`, ...); the
  pre-work transaction first gets a row-by-row description (`SelectionFacts`,
  `PreWorkMoves`). `Inductive` collects them and `Invariance` concludes.
* `DeliveryWindow`, `SilentLoss`, `Abandonment`, `Duplicates` and `Receipts`
  follow from it.
* `PendingCap` is proved separately with facts about cardinalities.
* `CancelledUnsent`: `Dispatch` is the only step that hands a reminder to the channel, and
  it re-reads the row first.
* `OwnerIsNotPestered` needs the invariant that ties notices and namings to the row's marks
  and to the interruptions that may have lost one.
* `PromiseKept`, the refinement of `ReminderPromise`: the initial state maps to open
  promises, and each action to one step of a promise or a stutter. It assumes
  `CrashLimit > 1`: with a limit of 1, which `henk/config.py` accepts, a selected reminder
  is abandoned unsent in the transaction that charges it, and the step maps to nothing.

### ApprovalGate

`ApprovalGateProofs.tla` proves its theorems for every set of calls, every set of
registered tools and every queue bound. `GateAssumption` only keeps `None` apart from
the values it stands beside and gives the tools their shape.

None of the safety properties is inductive alone. `IInv` joins them with what ties
the variables of the gate to what happened: `PendingKept` (the pending approval's
answer is the owner's first, its reference is its own prompt's, and it is not decided),
`CallsKept` (a call at its prompt is per-instance, only standing tools are authorized
unasked) and `TaintKept` (exposure shows in the turn's context during a turn and in the
session's taint between turns).

* `ReturnKeeps`, `EntersKeeps` and `PromptOwnsSlot` say once what several steps need:
  what a return does to the taint, what a new call finds, what a call at its prompt owns.
* `DecideKeeps` covers the four ways the wait ends, `DecideNowKeeps` the five decisions
  without a prompt, `AnswerKeeps` keyword, unrelated message and reaction. One lemma
  per remaining action, and `GateInvariant` collects them.
* `SlotIsAlwaysItsPrompts`, `RunsAlwaysOnOwnersWord`, `ReceiptAlwaysTells`,
  `ReceiptAlwaysFirst` and the action property `ExposedNeverWrites` follow.
  `SlotIsItsPrompts` and `ReceiptComesFirst` are proved and in no run.

### EventPath

`EventPathProofs.tla` proves its theorems for any identities, windows, delays, cooldown,
grace, fallback and fault bounds that satisfy `EventPathAssumption`. The invariants come in
layers, each proved from those before it:

* `GroundInv`: types, that the cursors lie within the topic and what is durable lies behind
  what was received, and where the items of the queue come from. `TypeCorrect` is its
  first part.
* `Timely`: the topic and the queue are in the order of their instants, and nothing is
  dated after now.
* `CooldownInv`: the cooldown table is never behind a triage on record, at work or queued. A
  restart forgets the table and arms it from the records, so the invariant speaks of both.
  `CooldownKept` follows.
* `Releases`: a release queued or at work is in flight with exactly its identities, and
  every event of its window is one of theirs, recovered, on record or in `broken.early`.
  `LetGoCaughtUp` follows.
* `LetGoDone`: what a released window held is on record, recovered or in `broken.early`.
* `KeepsTrack`, for batches that did not fail open: what is on disk settles an event or
  leads a restart back to it (`OnDisk`); unless the checkpoint is blocked, what lies before
  a place of the queue or of the batch is settled, held or in a turn ahead of that place
  (`Tracking`), because a cooldown stands for a record, for a triage to come or for one an
  exception ended (`CooldownsMeanWork`). `BatchTracks`, `WorkStep` and `DiskStep` are its
  lemmas by group of actions, and `LosesNothing` follows.

`NothingIsLost` was first stated without `broken.early`, and the proof did not go through
for a reason: a window whose identity a live turn has just triaged is released at once on
that turn's cooldown, which only its flush makes durable. If the process dies before, the
live event may be held again in another window, and the event let go is lost. TLC finds this
with two windows, or with one after a lost stream and a rejected cursor (`EventReleased`).
The property excludes those events by name, and nothing more.

### Conversation

`ConversationProofs.tla` proves its theorems for any number of arrivals, calls, failed writes
and deaths of the process (`ConversationAssumption` gives the bounds their types and nothing
more). None of the properties is inductive alone; `IInv` has seven parts, each proved from
those before it:

* `TypeOK`.
* `Queue`: the queue is in the order of arrival and behind the turn at work, so a turn that
  has left it never comes back but through a restart.
* `Standing`: what is open in each phase. The incident context is that of the open session,
  and empty without one; only an event's session can have its record written before it ends.
  With it `Outstanding` gives `AlwaysFiledUnderItsIncident`: what `publish_handoff` has read
  was the open session's, and nothing rewrites it.
* `Outstanding`: a call that waits for the owner is a call of the open owner's session that
  has neither leave nor receipt. This is what lets a decision add one receipt and one
  permission to the same call.
* `Accounts`: each record balances (as many executed as permitted, as many receipts as calls
  with one), the open record's receipts balance the calls since its baseline, and what the
  session's earlier records hold is what lies before the baseline. It is stated of the
  accumulating record because a triage's record is written while its session goes on.
* `Blocks`: a recall block belongs to one session, and the open record names the one its
  session was given, after its triage's record too.
* `Hearing`: what the owner was told of a turn, counted with the send under way, against the
  records of it that were lost. A turn still to come was told only for lost records; a turn
  out of the queue was told, unless it is excused or owed nothing.

`RecordIs` says once what writing a record does, `LostMore` and `RecordedMore` what one more
record does to the counts, `Again` what a restart delivers, `EndOwnerIs` and `EndEventIs` how
a turn ends. One step lemma per part (`QueueStep`, ..., `HearingStep`) goes through the
actions; `Inductive` collects them. `TypeCorrect`, `NobodyIsEverLeft`,
`RecordsAreAlwaysTrue` and `AlwaysFiledUnderItsIncident` follow, and the action property
`ErrorsAreAlwaysRecorded` from the same invariant by cases on the step.

`NobodyIsLeftWaiting` was first stated as "answered exactly once", which holds with a single
failure and is false: an incident whose triage record could not be written is announced,
the cursor stays behind it, and a restart triages and announces it again
(`henk/agent/core.py:607`). The property counts those repeats by the records that were lost,
and `ConversationKept` has the failures it takes for one.

### MaintenanceCalendar

`MaintenanceCalendarProofs.tla` proves its theorems for every set of windows and every bound
that satisfies `CalendarAssumption`, in two layers:

* `RunsOK`: types; a run has the reference its approval recorded, and what no run has
  reached was not made (`TurnOK`); what a result says of the write is what Google has
  (`ResultsOK`); a receipt names the window of its own run (`ReceiptsOK`). `RunEnds` is the
  one description of the ways a run ends (answered, refused, failed, cancelled with its
  turn), and `RunEndsKeeps` their one proof. `ResultsAlwaysTrue` and `ReceiptsAlwaysTell`
  follow.
* `SnapshotOK`, of the snapshot and of the file alike: what it holds was planned when it
  was read (`Planned`), and what was planned then and still is, it holds (`Complete`).
  `Moved` is every way Google's side moves meanwhile; `RefreshKeeps` and `LoadKeeps` are the
  two steps that replace a snapshot. `HeldWasAlwaysPlanned` and `PlannedIsAlwaysHeld` follow,
  the second because staleness lies below the look-ahead, which `CalendarAssumption` says.

### HenkStore

`HenkStoreProofs.tla` proves its theorems for any caps, any calls and any file the schema
allows (`StoreAssumption`): the rows a program finds have their shape, and the counter of
hand-off ids is not behind them. `IInv` has four parts:

* `TypeOK`.
* `Progress`: the running call is at some position of its program. The position says how
  deep its scopes are (`DepthAt`), and what the connection sees of each of our tables
  (`ValueAt`: what was committed, after the statements so far) unless the scope is poisoned or
  the call is raising; it raises only towards a catch of a poisoned scope, a scope's end or
  the end of the program. `ProgramShape` lists the programs; `ScopesAt`, `StatementAt`
  and `LeaveAt` read from it what a position allows; `ValueSteps` moves the value by one
  statement; `RaisedTo` and `RaisedFrom` say where an exception lands.
* `Locks`: the purge holds SQLite's lock exactly while it is at work; an open scope of ours
  holds it unless the purge does not.
* `Archive`: new hand-off ids lie above every id ever given, a named id is never another
  row's, and what the purge deleted is gone and was backed up.

`TypeCorrect` and `ArchiveIsAlwaysHonest` follow; `CommitsAreWhole` is the action property
`OneWholeCall`: what a commit adds to the file is one whole call or nothing.

Three more theorems rest on `IInv`:

* `ClaimsAreAlwaysTrue`. `Claims` ties what will be said to what was done: a call's number is
  new until it commits, what it has touched is what its statements so far touch
  (`TouchedAt`, moved by `TouchedSteps`), and past its outermost scope it is `Settled`: it
  changed the file exactly if it owes a receipt, and what it touched is gone. `WholeCalls` says
  it of each kind of call applied to a file (`WholeIs`): the row it inserts outlives its own
  trims, and tables have no row in common (`TablesApart`). `StillSilent` and `ClaimsNothing`
  are the steps that say nothing. The purge may take a retained hand-off between its commit
  and its reply, which `PurgeDeletesClaims` allows for.
* `BoundsAlwaysHold`. A row's rank is the number of rows that come before it, and different
  rows of a table have different ranks (`Ranks`), so the n oldest are at most n and the rest
  at most what is left (`Youngest`): `TrimLeaves` and `CountLeaves` bound what a trim and a
  pruning leave beside the row just inserted, `WholeWithin` what a whole call leaves, and
  `CommitsWholeCalls` says nothing else is committed. The theorem has a hypothesis: the file the
  program finds is within its caps. A cap lowered between two runs breaks it, as it does the
  property, until the next write to that table; `StoreKept` starts from a file at every cap.
* `ReadsAlwaysAddUp`. No two rows of a table are equally new (`NewerOrders`), so each has a
  place of its own and what `InOrder` chooses is the whole table in one line (`PlacesExist`,
  `LineIs`); a recall and a page are parts of such a line (`PartByAge`), and what a recall leaves
  out is the least that lets the rest fit (`OmittedIs`). `Fill` is a recursive function: that it
  exists and keeps `Filling`, of any length of its candidates, follows from a least
  counterexample, for which the library's well-foundedness of the naturals is enough
  (`FilledExists`, `FillKeeps`). `RenderingShows` says what the two fills show, `ReferenceIs`,
  `PlacedIs` and `RelatedIs` what each of the three filters leaves to the next, and `ReadCounts`
  adds them up; `DigestCounts` says it as the property does. `Counted` is what no step
  disturbs (`NextAddsUp`): the file's hand-offs have sizes and the last answer is right about
  the file; a step that writes the file finds no answer (`Standing`). The hypotheses: the file
  found and the calls have sizes, a turn's references are a sequence, and whatever comes first
  in the digest fits it with its header and the markers (`Roomy`). The last is what
  `DIGEST_MAX_CHARS` was sized for (`henk/agent/digest.py:57-62`): without it, a first entry that
  does not fit leaves its place to a smaller one, and a digest in which nothing fits counts
  nothing.

  What competes is easily stated too wide: `read_digest` sets apart the first reference that is
  found, and a second one competes as ordinary history, by its relation or its hour; one that
  is neither is told as omitted and not counted. The second turn of `StoreKept` has such a
  reference.

`StoreKept` evaluates the hypotheses of the last two theorems on its instance
(`SupposedHere`).

### SignalChannel

`SignalChannelProofs.tla` proves its three theorems for every value of the constants that
satisfies `ChannelAssumption`:

* `TypingAlwaysTimely`. `TypingInv` says what the indicator's task does at each stage of the
  turn and by when it is done with it (`AtWork`), that a paused indicator was stopped and one
  that is not cannot have seen the prompt yet (`Pausing`), and that starts are issued one
  interval apart whatever became of the last (`Rhythm`); from the spacing of the starts and
  the number lost since the last accepted one, the age of the indicator follows. The proof
  uses that an acknowledgement's bound is no longer than the refresh interval, which the
  configuration enforces (`AcceptedTimeouts`).
* `SequencesStayWhole`. `SendingInv` says that who is at work is in the lock once, that only
  its head has a request out or sleeps (`LockOK`), that who queues and has already sent holds
  the lock and made the last request (`Progressing`), and what has landed at each chunk number
  (`Standing`). `LeaveIs` is why a cancelled waiter does not cost the holder its turn; `Ends`
  and `GoesOn` are the two ways a step moves a sender, `Waits` what the others keep meanwhile.
* `PiecesMakeTheText`: what the docstring of `split_message` promises (the chunks joined are
  the text, none over the limit). `Split` is recursive. `SplitsExist` builds, for each length,
  a function that takes the splitting step for every text up to that length, `SplitsAgree`
  shows that two of them agree where both are given, and so `SplitIs`: `Split` takes the step
  for every text. `CutIs` is why the step gets on: a text that does not fit is cut after its
  first character or later, and before the limit. A shortest text whose pieces do not make it
  up is then impossible. `SequencesStayWhole` uses it through `PiecesMakeWhole`, which adds
  prompts and edits.

### SessionFeed

`SessionFeedProofs.tla` proves its four theorems for any configuration files, any estate, any
number of publisher processes and any costs, budget and bounds (`FeedAssumption`: a file has
finitely many allow roots, no label is the one that stands for none, and what herdr lists is a
sequence of records with an age or none, and durations are integers; TLC evaluates it on the
run).

`FeedInv` says that every snapshot held by a run or carried by the topic is fit (`SnapOK`):
each listed session is one of the agents it was taken from and the owner cleared every path
that one reports (`Cleared`), what is not listed was dropped or refused (`Accounted`), and the
cut to the budget is minimal and spares what is urgent (`WellCut`). The history in `about` is
what lets the invariant speak of the estate at the time, which has moved on since.

* `OrderedIs`: the sort loses nothing, makes nothing up and is in order. A session's place is
  the number of those before it; that places are a bijection onto the indices is where the
  cardinality theorems come in.
* `LongestExists`, `AdmittedIsPublic` and `PublicIsAdmitted`: both gates against `Private`,
  which is stated without them. `DroppedIs`: the budget's loop stops at the first fit.
* `SnapshotOK` joins these for the snapshot as it is built; `ShownOK` and `ConcludedOK` carry
  it to the answer, the first counting what Henk's own filters leave out.
* `Keeps`, `RunSet`, `TopicGrows` and `TopicAges` are what the steps need; `StepFeed` collects
  them. `NothingPrivateIsEverTold` and `DroppingIsAlwaysHonest` follow.

The proof of the first does not need the unsafe roots to be broad ones, nor that `git`
answers; that of the second needs that a snapshot taken while `git` failed is not blamed for
the sessions it refused, which `WellCut` says.

`TimeInv` is what time adds, on top of `FeedInv`. A run that holds a snapshot holds one taken
now, the estate's unless that has just changed, and once acknowledged the newest of the topic
(`RunOK`); the topic is in the order of the server's clock (`TopicOK`); what the state file
says is never later than the newest snapshot (`StoredOK`), which is what makes a lost answer
or a lost file harmless. `Rhythm` speaks of the timer's slot that lasts now: if it was served,
or the last one was, or the one before, the newest snapshot is as young as the heartbeat then
says (`Fresh`); and either it is the estate's (`Agreed`), or nothing was acknowledged since the
last change and no slot served since but while the heartbeat was not due (`Overdue`).

* `KeyStays`: the key of a snapshot depends on the files and the estate, not on the clock.
* `NewestGrows` and `NewestAges`: what a post, a stray frame and the cache's forgetting do to
  the newest snapshot; the last is the one place where the length of the cache matters.
* `RhythmSteady`, `RhythmPosts`, `RhythmFinishes`, `RhythmChanges` and `RhythmTicks`: one lemma
  for each way a step touches the clock's account. A served slot ends `Agreed` or not yet
  `Overdue`; two of them in a row without a heartbeat due do not fit, and that is convergence.
* `StaleIsShown`, `PolledIs`, `NewestIsPolled`: a stale headline is of a candidate beyond the
  staleness limit, which only the second window can hold, and a poll that is not cut reads the
  newest there is. `FirstIsFresh` and `SecondIsMissed` conclude.

`ReportAlwaysConverges` and `StaleAlwaysMeansStopped` have the hypothesis that a heartbeat is
at least a tick, the first also that the server keeps a frame for the two together. The code
checks neither: `load_config` wants both durations positive
(`deploy/session-publisher/session_publisher.py:274`), and the cache is the server's. The
defaults (900 and 300 seconds) and the run's files satisfy both. Both are needed: with a heartbeat
shorter than a tick one missed slot can look stale with no note, since the note of the cadence
is measured by heartbeat and tick, and a snapshot forgotten before the next is due leaves the
topic without one.

### What is not proved

Only model-checked: liveness (`EveryReminderSettles`, `EveryEventIsHandled`, `SlotIsFreed`,
`EverySendEnds`), which is out of the prover's reach; and every property of `HenkConfig` and
`OwnerTime`. `OwnerSettings` reads its configuration and a clock and takes a few steps: its
properties are case analyses over values, which a run enumerates. No module of the project
declares a recursive operator: the recursion of `HandoffDigest` and `SignalChannel` is in
recursive functions. What the digest's fill and the splitting compute is proved by a least
counterexample. With a crash limit of 1 every selected reminder is abandoned unsent and the
refinement does not hold (a promise may then be owed in the step that selects it, unsent); the
runs use 2 and 3.

## Not modelled

* Texts, rendering, prompts and model output: data. The identity of an alert is a key; how
  it is taken from the text is not modelled.
* The announcement cap's sliding window, and recurrence notes (`henk/events/pipeline.py`):
  a turn past the cap is an input of `Conversation`.
* The liveness watchdog of intake (`henk/events/intake.py`): its clock would multiply
  `EventPath` by its phases.
* The read-only tools (queries, documents, health, Taiga, to-do, calendar listing): each is
  one request and its rendering, and keeps no state.
* Replay: offline evaluation.
* Token lifetimes: an expired token and a revoked one are one kind of refusal. An
  indicator's start that lands after it was cancelled.
* That calendar staleness is below the look-ahead (`CalendarAssumption`) is assumed; the
  configuration does not check it.
* A crash between a command's commit and its receipt leaves the log a receipt short, by
  design; the direction that matters is `ReceiptsAreCommitted` and `ClaimsAreTrue`.
* Events without an id, and two frames of one event inside a batch.
* The order of start-up, migrations, and the supervision of the tasks.

## Plan

`HenkConfig` and `OwnerTime` are left to the runs.

Next models: the announcement cap, live and rehydrated, and intake's watchdog with a clock.
