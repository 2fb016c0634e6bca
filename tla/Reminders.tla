----------------------------- MODULE Reminders -----------------------------
(***************************************************************************)
(* Reminder delivery: the `reminders` table (henk/store/reminders.py), the *)
(* polling scheduler that delivers from it (henk/reminders/scheduler.py),  *)
(* the owner's commands on it (henk/agent/commands.py, henk/tools/         *)
(* reminders.py) and the note that surfaces deliveries in conversation     *)
(* (henk/reminders/note.py).                                               *)
(*                                                                         *)
(* The process is one asyncio loop.  A store transaction contains no       *)
(* await, so each is one action; the only places where the owner's         *)
(* commands interleave with a tick are the awaits on the channel's send,   *)
(* which appear here as the phases "sending" and "summarizing".  A crash,  *)
(* or a shutdown that cancels the scheduler task, may fall between any two *)
(* actions: the rows survive it, the tick does not.                        *)
(***************************************************************************)
EXTENDS Integers, FiniteSets

CONSTANTS
  MaxId,            \* ids of the table's rows are 1..MaxId (a bound on inserts)
  MaxPending,       \* reminders that may be pending at once
  TickLimit,        \* tick_delivery_limit: deliveries selected per tick
  CrashLimit,       \* crash_attempt_limit
  Grace,            \* late_grace_seconds
  LateThreshold,    \* late_delivery_threshold_seconds
  RetryFloor,       \* retry_floor_seconds
  ReportHorizon,    \* report_horizon_seconds
  Skew,             \* clock_skew_tolerance_seconds of the time resolver
  NoteWindow,       \* note_window_seconds
  NoteMax,          \* note_max_items
  Horizon,          \* last due instant an owner may ask for
  MaxClock,         \* bound on the clock
  OutageEnd,        \* the channel may fail a send up to this instant
  MaxCrashes,       \* bound on process deaths
  MaxFaults         \* bound on store errors raised inside a tick

\* henk/config.py validates every one of these as a positive number, the
\* horizon above the floor and the lateness threshold below the grace window.
ASSUME RemindersAssumption ==
  /\ MaxId \in Nat /\ MaxPending \in Nat \ {0} /\ TickLimit \in Nat \ {0}
  /\ CrashLimit \in Nat \ {0}
  /\ Grace \in Nat \ {0} /\ LateThreshold \in Nat \ {0} /\ RetryFloor \in Nat \ {0}
  /\ ReportHorizon \in Nat /\ LateThreshold < Grace /\ RetryFloor < ReportHorizon
  /\ Skew \in Nat /\ NoteWindow \in Nat /\ NoteMax \in Nat
  /\ Horizon \in Nat /\ MaxClock \in Nat /\ OutageEnd \in Nat
  /\ MaxCrashes \in Nat /\ MaxFaults \in Nat

VARIABLES
  clock,    \* the wall clock
  rows,     \* the reminders table, by id
  tick,     \* the scheduler task's current tick
  seen,     \* history: what reached the owner, per reminder
  audit,    \* the receipts written to the audit log
  crashes,  \* history: process deaths so far
  faults    \* history: ticks a store error aborted so far

vars == <<clock, rows, tick, seen, audit, crashes, faults>>

-----------------------------------------------------------------------------
(* The table *)

Id == 1..MaxId
NoId == 0
Never == -1

DeliveredStatus == {"delivered", "delivered-late"}
OwedStatus == {"missed", "abandoned"}
Status == {"none", "pending", "cancelled"} \cup DeliveredStatus \cup OwedStatus
Outcome == {"DELIVERED", "PARTIAL", "FAILED"}

Row == [status : Status, due : Nat, next : Nat, attempts : Nat,
        delivered : Nat \cup {Never}, surfaced : BOOLEAN, reported : BOOLEAN]

NoRow == [status |-> "none", due |-> 0, next |-> 0, attempts |-> 0,
          delivered |-> Never, surfaced |-> FALSE, reported |-> FALSE]

\* _insert_locked
NewRow(due) ==
  [status |-> "pending", due |-> due, next |-> due, attempts |-> 0,
   delivered |-> Never, surfaced |-> FALSE, reported |-> FALSE]

\* _transition rewrites next_attempt_at on the way into `pending`
ToPending(row) == [row EXCEPT !.status = "pending", !.next = row.due]

Pending(rs) == {r \in Id : rs[r].status = "pending"}

\* ORDER BY due_at ASC, id ASC
Before(r, s) ==
  \/ rows[r].due < rows[s].due
  \/ rows[r].due = rows[s].due /\ r < s

\* ... LIMIT n
Oldest(S, n) == {r \in S : Cardinality({s \in S : Before(s, r)}) < n}

\* Slip: the grace window measured from the next attempt.
PastGraceOfAttempt(rs, now) ==
  {r \in Id : rs[r].status = "pending" /\ now > rs[r].next + Grace}

SelectPastGrace(rs, now) ==
  {r \in Id : rs[r].status = "pending" /\ now > rs[r].due + Grace}

SelectDue(rs, now) ==
  {r \in Id : rs[r].status = "pending" /\ rs[r].next <= now /\ rs[r].due <= now}

\* Slip: only missed rows are owed to the summary.
SelectMissedOnly(rs, now) ==
  {r \in Id : rs[r].status = "missed" /\ ~rs[r].reported /\ rs[r].next <= now}

SelectReportable(rs, now) ==
  {r \in Id : rs[r].status \in OwedStatus /\ ~rs[r].reported /\ rs[r].next <= now}

\* mark_missed and mark_abandoned write the same columns but for the status
GiveUpOn(row, status, now) ==
  [row EXCEPT !.status = status, !.attempts = 0, !.next = now, !.reported = FALSE]

MarkDelivered(row, now, late) ==
  [row EXCEPT !.status = IF late THEN "delivered-late" ELSE "delivered",
              !.delivered = now, !.attempts = 0]

\* Slip: a failed send leaves its charge on the row.
RetryCharged(row, at) == [row EXCEPT !.next = at]

ScheduleRetry(row, at) == [row EXCEPT !.next = at, !.attempts = 0]

MarkReported(row) == [row EXCEPT !.reported = TRUE, !.attempts = 0]

-----------------------------------------------------------------------------
(* The tick *)

Phase == {"idle", "receipts", "deliver", "sending", "sent", "summarizing", "summarized"}

NoTick == [phase |-> "idle", instant |-> 0, deliveries |-> {}, notice |-> {},
           report |-> {}, receipts |-> {}, current |-> NoId, outcome |-> "FAILED"]

Transition == {"cancelled", "reinstated", "missed", "abandoned"} \cup DeliveredStatus

Tick == [phase : Phase, instant : Nat, deliveries : SUBSET Id, notice : SUBSET Id,
         report : SUBSET Id, receipts : SUBSET (Id \X Transition),
         current : Id \cup {NoId}, outcome : Outcome]

Seen == [dispatched : Nat, confirmed : Nat, notices : Nat, named : Nat]

TypeOK ==
  /\ clock \in Nat
  /\ rows \in [Id -> Row]
  /\ tick \in Tick
  /\ tick.phase \in {"sending", "sent"} <=> tick.current # NoId
  /\ seen \in [Id -> Seen]
  /\ audit \subseteq Id \X Transition
  /\ crashes \in Nat
  /\ faults \in Nat

Init ==
  /\ clock = 0
  /\ rows = [r \in Id |-> NoRow]
  /\ tick = NoTick
  /\ seen = [r \in Id |-> [dispatched |-> 0, confirmed |-> 0, notices |-> 0, named |-> 0]]
  /\ audit = {}
  /\ crashes = 0
  /\ faults = 0

-----------------------------------------------------------------------------
(* The owner's operations.  Each is one transaction on the event loop, so it *)
(* can fall between any two steps of a tick.                                 *)

\* The time resolver refuses an instant in the past beyond the skew tolerance;
\* the pending cap is checked in the insert's transaction.
Schedule ==
  \E r \in Id, due \in 0..Horizon :
    /\ rows[r].status = "none"
    /\ \A s \in Id : s < r => rows[s].status # "none"
    /\ due >= clock - Skew
    /\ Cardinality(Pending(rows)) < MaxPending
    /\ rows' = [rows EXCEPT ![r] = NewRow(due)]
    /\ UNCHANGED <<clock, tick, seen, audit, crashes, faults>>

Cancel(r) ==
  /\ rows[r].status = "pending"
  /\ rows' = [rows EXCEPT ![r].status = "cancelled"]
  /\ audit' = audit \cup {<<r, "cancelled">>}
  /\ UNCHANGED <<clock, tick, seen, crashes, faults>>

\* Slip: reinstating what is overdue.
ReinstateOverdue(r) ==
  /\ rows[r].status = "cancelled"
  /\ Cardinality(Pending(rows)) < MaxPending
  /\ rows' = [rows EXCEPT ![r] = ToPending(@)]
  /\ audit' = audit \cup {<<r, "reinstated">>}
  /\ UNCHANGED <<clock, tick, seen, crashes, faults>>

\* `/reminders reinstate` refuses a due instant that has passed.
Reinstate(r) ==
  /\ rows[r].status = "cancelled"
  /\ rows[r].due > clock
  /\ Cardinality(Pending(rows)) < MaxPending
  /\ rows' = [rows EXCEPT ![r] = ToPending(@)]
  /\ audit' = audit \cup {<<r, "reinstated">>}
  /\ UNCHANGED <<clock, tick, seen, crashes, faults>>

\* ORDER BY delivered_at DESC, id DESC LIMIT NoteMax, within the window
NewestUnsurfaced ==
  LET fresh == {r \in Id : /\ rows[r].status \in DeliveredStatus
                           /\ ~rows[r].surfaced
                           /\ rows[r].delivered >= clock - NoteWindow}
      Newer(s, r) == \/ rows[s].delivered > rows[r].delivered
                     \/ rows[s].delivered = rows[r].delivered /\ s > r
  IN  {r \in fresh : Cardinality({s \in fresh : Newer(s, r)}) < NoteMax}

\* An owner turn begins: the note names deliveries and marks them in one step.
Surface ==
  /\ NewestUnsurfaced # {}
  /\ rows' = [r \in Id |-> IF r \in NewestUnsurfaced
                             THEN [rows[r] EXCEPT !.surfaced = TRUE] ELSE rows[r]]
  /\ UNCHANGED <<clock, tick, seen, audit, crashes, faults>>

-----------------------------------------------------------------------------
(* The scheduler's tick *)

\* Step 1 of the pre-work transaction: the grace pass over every pending row.
AfterGrace(now) ==
  [r \in Id |-> IF r \in SelectPastGrace(rows, now)
                  THEN GiveUpOn(rows[r], "missed", now) ELSE rows[r]]

\* Step 2: selection against the post-grace rows.
DueRows(now) == Oldest(SelectDue(AfterGrace(now), now), TickLimit)
ReportRows(now) == SelectReportable(AfterGrace(now), now)

\* Step 3: one attempt charged to each selected row, and the crash bound beside it.
Exhausted(rs) == {r \in Id : rs[r].attempts + 1 >= CrashLimit}
Abandoned(now) == DueRows(now) \cap Exhausted(AfterGrace(now))
Unreportable(now) == ReportRows(now) \cap Exhausted(AfterGrace(now))

AfterPreWork(now) ==
  LET rs == AfterGrace(now)
  IN  [r \in Id |->
         CASE r \in Abandoned(now)                -> GiveUpOn(rs[r], "abandoned", now)
           [] r \in Unreportable(now)             -> MarkReported(rs[r])
           [] r \in (DueRows(now) \cup ReportRows(now))
                    \ (Abandoned(now) \cup Unreportable(now))
                                                  -> [rs[r] EXCEPT !.attempts = @ + 1]
           [] OTHER                               -> rs[r]]

HasWork(now) ==
  SelectPastGrace(rows, now) \cup DueRows(now) \cup ReportRows(now) # {}

\* A tick that finds nothing to do writes nothing.
EmptyTick ==
  /\ tick.phase = "idle"
  /\ ~HasWork(clock)
  /\ UNCHANGED vars

\* tick() reads the clock once; _pre_work is one transaction without an await.
\* (When it raises, it rolls back and the tick ends: nothing has changed.)
PreWork ==
  /\ tick.phase = "idle"
  /\ HasWork(clock)
  /\ rows' = AfterPreWork(clock)
  /\ tick' = [phase      |-> "receipts",
              instant    |-> clock,
              deliveries |-> DueRows(clock) \ Abandoned(clock),
              notice     |-> {r \in DueRows(clock) : rows[r].next <= rows[r].due},
              report     |-> (ReportRows(clock) \ Unreportable(clock)) \cup Abandoned(clock),
              receipts   |-> (SelectPastGrace(rows, clock) \X {"missed"})
                               \cup (Abandoned(clock) \X {"abandoned"}),
              current    |-> NoId,
              outcome    |-> "FAILED"]
  /\ UNCHANGED <<clock, seen, audit, crashes, faults>>

\* After the commit, never inside it.
WriteReceipts ==
  /\ tick.phase = "receipts"
  /\ audit' = audit \cup tick.receipts
  /\ tick' = [tick EXCEPT !.phase = "deliver", !.receipts = {}]
  /\ UNCHANGED <<clock, rows, seen, crashes, faults>>

\* _deliver: the pre-send re-read finds the row no longer pending.
Skip ==
  /\ tick.phase = "deliver"
  /\ \E r \in Oldest(tick.deliveries, 1) :
       /\ rows[r].status # "pending"
       /\ tick' = [tick EXCEPT !.deliveries = @ \ {r}]
  /\ UNCHANGED <<clock, rows, seen, audit, crashes, faults>>

\* Slip: no re-read before the send.
DispatchUnchecked ==
  /\ tick.phase = "deliver"
  /\ \E r \in Oldest(tick.deliveries, 1) :
       /\ tick' = [tick EXCEPT !.phase = "sending", !.current = r, !.deliveries = @ \ {r}]
       /\ seen' = [seen EXCEPT ![r].dispatched = @ + 1]
  /\ UNCHANGED <<clock, rows, audit, crashes, faults>>

\* _deliver: the re-read and the call of send_proactive, which then waits for
\* the adapter's send lock and sends.
Dispatch ==
  /\ tick.phase = "deliver"
  /\ \E r \in Oldest(tick.deliveries, 1) :
       /\ rows[r].status = "pending"
       /\ tick' = [tick EXCEPT !.phase = "sending", !.current = r, !.deliveries = @ \ {r}]
       /\ seen' = [seen EXCEPT ![r].dispatched = @ + 1]
  /\ UNCHANGED <<clock, rows, audit, crashes, faults>>

\* What the channel can report now.
ChannelOutcomes == IF clock <= OutageEnd THEN Outcome ELSE {"DELIVERED"}

\* Slip: every failed attempt carries a notice.
NoticeEachTime(o) == IF o # "DELIVERED" THEN 1 ELSE 0

\* What the owner got of one send: its text, or at least its head, and the
\* failure notice when the caller supplied one and the text was not whole.
NoticesSent(o) == IF o # "DELIVERED" /\ tick.current \in tick.notice THEN 1 ELSE 0

Heard(s, o, n) ==
  [s EXCEPT !.confirmed = IF o = "FAILED" THEN @ ELSE @ + 1, !.notices = @ + n]

Named(s, o) == [s EXCEPT !.named = IF o = "FAILED" THEN @ ELSE @ + 1]

\* The adapter finishes the send.
Transmit(o) ==
  /\ tick.phase = "sending"
  /\ o \in ChannelOutcomes
  /\ tick' = [tick EXCEPT !.phase = "sent", !.outcome = o]
  /\ seen' = [seen EXCEPT ![tick.current] = Heard(@, o, NoticesSent(o))]
  /\ UNCHANGED <<clock, rows, audit, crashes, faults>>

Late(r) == tick.instant > rows[r].due + LateThreshold

\* Slip: a partial send is retried.
RetryPartial ==
  /\ tick.phase = "sent"
  /\ tick.outcome # "DELIVERED"
  /\ rows' = [rows EXCEPT ![tick.current] = ScheduleRetry(@, tick.instant + RetryFloor)]
  /\ tick' = [tick EXCEPT !.phase = "deliver", !.current = NoId]
  /\ UNCHANGED <<clock, seen, audit, crashes, faults>>

\* The failed-send exit: still pending, deferred to the retry floor.
RecordRetry ==
  /\ tick.phase = "sent"
  /\ tick.outcome = "FAILED"
  /\ rows' = [rows EXCEPT ![tick.current] = ScheduleRetry(@, tick.instant + RetryFloor)]
  /\ tick' = [tick EXCEPT !.phase = "deliver", !.current = NoId]
  /\ UNCHANGED <<clock, seen, audit, crashes, faults>>

\* Slip: the receipt reads the clock again.
RecordWithClock ==
  /\ tick.phase = "sent"
  /\ tick.outcome # "FAILED"
  /\ rows' = [rows EXCEPT
       ![tick.current] = MarkDelivered(@, tick.instant, Late(tick.current))]
  /\ tick' = [tick EXCEPT !.phase = "deliver", !.current = NoId]
  /\ audit' = audit \cup
       {<<tick.current, IF clock > rows[tick.current].due + LateThreshold
                          THEN "delivered-late" ELSE "delivered">>}
  /\ UNCHANGED <<clock, seen, crashes, faults>>

\* Delivered or partial: recorded as delivered, whatever the status is by now.
RecordDelivery ==
  /\ tick.phase = "sent"
  /\ tick.outcome # "FAILED"
  /\ rows' = [rows EXCEPT
       ![tick.current] = MarkDelivered(@, tick.instant, Late(tick.current))]
  /\ tick' = [tick EXCEPT !.phase = "deliver", !.current = NoId]
  /\ audit' = audit \cup {<<tick.current, rows'[tick.current].status>>}
  /\ UNCHANGED <<clock, seen, crashes, faults>>

\* The deliveries are done: the tick ends, or sends its catch-up summary.
EndTick ==
  /\ tick.phase = "deliver"
  /\ tick.deliveries = {}
  /\ tick.report = {}
  /\ tick' = NoTick
  /\ UNCHANGED <<clock, rows, seen, audit, crashes, faults>>

StartSummary ==
  /\ tick.phase = "deliver"
  /\ tick.deliveries = {}
  /\ tick.report # {}
  /\ tick' = [tick EXCEPT !.phase = "summarizing"]
  /\ UNCHANGED <<clock, rows, seen, audit, crashes, faults>>

\* `named` counts the summaries naming r of which at least the head landed.
TransmitSummary(o) ==
  /\ tick.phase = "summarizing"
  /\ o \in ChannelOutcomes
  /\ tick' = [tick EXCEPT !.phase = "summarized", !.outcome = o]
  /\ seen' = [r \in Id |-> IF r \in tick.report THEN Named(seen[r], o) ELSE seen[r]]
  /\ UNCHANGED <<clock, rows, audit, crashes, faults>>

\* Slip: every summary retires its rows.
RetireAlways == tick.report

\* Slip: a partial summary never retires a row.
RetireWholeOnly == IF tick.outcome = "DELIVERED" THEN tick.report ELSE {}

\* _report's post-send write: all rows of a delivered summary, of a partial one
\* the rows past the horizon, and a floor retry for the others.
Retired ==
  CASE tick.outcome = "DELIVERED" -> tick.report
    [] tick.outcome = "PARTIAL"   ->
         {r \in tick.report : tick.instant > rows[r].due + Grace + ReportHorizon}
    [] tick.outcome = "FAILED"    -> {}

RecordSummary ==
  /\ tick.phase = "summarized"
  /\ rows' = [r \in Id |->
       IF r \in Retired THEN MarkReported(rows[r])
       ELSE IF r \in tick.report THEN ScheduleRetry(rows[r], tick.instant + RetryFloor)
       ELSE rows[r]]
  /\ tick' = NoTick
  /\ UNCHANGED <<clock, seen, audit, crashes, faults>>

-----------------------------------------------------------------------------
(* Time and failures *)

Advance ==
  /\ clock < MaxClock
  /\ clock' = clock + 1
  /\ UNCHANGED <<rows, tick, seen, audit, crashes, faults>>

\* A store error at a re-read or at a post-send write: run() logs it and drops
\* what is left of the tick, the deliveries and the summary still to come included.
StoreFault ==
  /\ \/ tick.phase = "deliver" /\ tick.deliveries # {}
     \/ tick.phase \in {"sent", "summarized"}
  /\ faults < MaxFaults
  /\ faults' = faults + 1
  /\ tick' = NoTick
  /\ UNCHANGED <<clock, rows, seen, audit, crashes>>

\* The process dies and restarts: only the table and the audit log survive.
Crash ==
  /\ tick.phase # "idle"
  /\ crashes < MaxCrashes
  /\ crashes' = crashes + 1
  /\ tick' = NoTick
  /\ UNCHANGED <<clock, rows, seen, audit, faults>>

-----------------------------------------------------------------------------
\* The tick holds the loop except while it sleeps or awaits the channel.
LoopFree == tick.phase \in {"idle", "sending", "summarizing"}

Owner ==
  LoopFree /\ (Schedule \/ (\E r \in Id : Cancel(r) \/ Reinstate(r)) \/ Surface)

Deliver == Skip \/ Dispatch \/ (\E o \in Outcome : Transmit(o)) \/ RecordRetry \/ RecordDelivery

Report == StartSummary \/ (\E o \in Outcome : TransmitSummary(o)) \/ RecordSummary

Scheduler == EmptyTick \/ PreWork \/ WriteReceipts \/ Deliver \/ Report \/ EndTick

Next == Owner \/ Scheduler \/ Advance \/ StoreFault \/ Crash

Spec == Init /\ [][Next]_vars

\* run() ticks forever, every await on the channel returns, and time passes.
\* The owner's operations, faults and crashes are never required to happen.
Fairness == WF_vars(Scheduler) /\ WF_vars(Advance)

FairSpec == Spec /\ Fairness

-----------------------------------------------------------------------------
(* Properties *)

Interruptions == crashes + faults

Delivered(r) == rows[r].status \in DeliveredStatus
Owed(r) == rows[r].status \in OwedStatus /\ ~rows[r].reported

\* The number of pending reminders never exceeds the configured cap: the check
\* and the insert share a transaction, and reinstating passes the same check
\* (store/reminders.py schedule, reinstate), however ticks and commands mix.
PendingCapHolds == Cardinality(Pending(rows)) <= MaxPending

\* A reminder recorded as delivered was sent at an instant neither before its
\* due instant nor beyond its grace window, and the recorded lateness is right
\* (scheduler.py _pre_work order, _deliver): the whole tick uses one instant.
DeliveredInWindow ==
  \A r \in Id : Delivered(r) =>
    /\ rows[r].due <= rows[r].delivered
    /\ rows[r].delivered <= rows[r].due + Grace
    /\ rows[r].status = "delivered-late"
         <=> rows[r].delivered > rows[r].due + LateThreshold

\* No overdue reminder disappears silently: a reminder the store says is
\* delivered reached the owner, and one whose report is closed was named in a
\* summary of which at least the head landed -- unless enough ticks were
\* interrupted to exhaust the crash bound (_pre_work, _report).
NoSilentLoss ==
  \A r \in Id :
    /\ Delivered(r) => seen[r].confirmed > 0
    /\ rows[r].reported =>
         seen[r].named > 0 \/ Interruptions >= CrashLimit - 1

\* A confirmed reminder is not sent again, except that each interrupted
\* recording (a crash, a failed post-send write) may cost one more copy.
NoDuplicateUnlessInterrupted ==
  \A r \in Id : seen[r].confirmed <= 1 + Interruptions

\* The channel alone never makes Henk give up: only ticks cut off before their
\* post-send write count towards abandoning a delivery (charge_attempt).
OutageNeverAbandons ==
  \A r \in Id : rows[r].status = "abandoned" => Interruptions >= CrashLimit - 1

\* A persistently failing reminder costs the owner at most crash_attempt_limit
\* failure notices: floor retries pass none (_notice_for).
NoticesBounded == \A r \in Id : seen[r].notices <= CrashLimit

\* The catch-up summary repeats a reminder a bounded number of times: one per
\* floor interval from its due instant to the end of the report horizon, the
\* attempt that retires it, and one for each interruption (_report).
NamingsBounded ==
  \A r \in Id :
    seen[r].named <= (Grace + ReportHorizon) \div RetryFloor + 2 + Interruptions

\* The audit log never claims an exit the store did not commit: a receipt is
\* written after its commit, and the exits it names are final (_Tick.receipts).
ReceiptsAreCommitted ==
  \A r \in Id, t \in DeliveredStatus \cup OwedStatus :
    <<r, t>> \in audit => rows[r].status = t

\* While a reminder is cancelled no send of it is dispatched, even when the
\* tick selected it before the owner's cancellation (_deliver's re-read).
CancelledStaysUnsent ==
  [][\A r \in Id : rows[r].status = "cancelled" =>
        seen'[r].dispatched = seen[r].dispatched]_vars

\* Every stored reminder is settled one day: delivered, cancelled, or named in
\* the catch-up summary -- the scheduler never strands a row, whatever crashes,
\* store errors and outages preceded.
Settled(r) == Delivered(r) \/ rows[r].status = "cancelled" \/ rows[r].reported
EveryReminderSettles ==
  \A r \in Id : rows[r].status = "pending" ~> Settled(r)

\* A failing reminder costs the owner a bounded number of messages, however the
\* channel, the crashes and the store errors fall: bounded notices and namings.
OwnerNotPestered == NoticesBounded /\ NamingsBounded

-----------------------------------------------------------------------------
(* The inductive invariant behind the safety properties above *)

\* The reminders this tick has selected and not finished with.
ToSend == tick.deliveries \cup ({tick.current} \ {NoId})

\* What the scheduler may rely on across its awaits: a selected reminder is
\* still pending, or was cancelled meanwhile, and is within its window at the
\* tick's instant; a row of the report is owed; a receipt to write is true.
TickOK ==
  /\ tick.instant <= clock
  /\ tick.phase = "idle" => tick = NoTick
  /\ tick.phase \in {"summarizing", "summarized"} => tick.deliveries = {}
  /\ tick.current \notin tick.deliveries
  /\ \A r \in ToSend :
       /\ rows[r].status \in {"pending", "cancelled"}
       /\ rows[r].due <= tick.instant
       /\ tick.instant <= rows[r].due + Grace
  /\ \A r \in tick.report : rows[r].status \in OwedStatus /\ ~rows[r].reported
  /\ tick.phase = "summarized" /\ tick.outcome # "FAILED" =>
       \A r \in tick.report : seen[r].named > 0
  /\ \A r \in Id, t \in Transition :
       <<r, t>> \in tick.receipts => t \in OwedStatus /\ rows[r].status = t

ConfirmedNow(r) ==
  tick.phase = "sent" /\ tick.current = r /\ tick.outcome # "FAILED"

Charge(r) == IF r \in ToSend \cup tick.report THEN 1 ELSE 0
Copy(r) == IF Delivered(r) \/ ConfirmedNow(r) THEN 1 ELSE 0

\* Every attempt still on the counter, and every copy beyond the recorded one,
\* is owed to an interrupted tick; a cancelled row that was due when it was
\* skipped keeps its charge, but it can never become pending again.
RowOK(r) ==
  /\ rows[r].reported => rows[r].status \in OwedStatus
  /\ \/ rows[r].attempts <= Interruptions + Charge(r)
     \/ rows[r].status = "cancelled" /\ rows[r].due <= clock
  /\ seen[r].confirmed <= Interruptions + Copy(r)
  /\ ConfirmedNow(r) => seen[r].confirmed > 0

\* Conjoined, they are preserved by every step (proved in RemindersProofs).
IInv ==
  /\ TypeOK
  /\ TickOK
  /\ \A r \in Id : RowOK(r)
  /\ DeliveredInWindow
  /\ NoSilentLoss
  /\ OutageNeverAbandons
  /\ ReceiptsAreCommitted

-----------------------------------------------------------------------------
(* Reminders implements ReminderPromise *)

StandingOf(r) ==
  CASE rows[r].status = "none"              -> "unmade"
    [] rows[r].status = "pending"           -> "open"
    [] rows[r].status = "cancelled"         -> "withdrawn"
    [] rows[r].status \in DeliveredStatus   -> "kept"
    [] rows[r].status \in OwedStatus /\ ~rows[r].reported -> "owed"
    [] OTHER                                -> "settled"

Promise == INSTANCE ReminderPromise WITH
  Promises <- Id, Cap <- MaxPending, now <- clock,
  due <- [r \in Id |-> rows[r].due],
  promise <- [r \in Id |-> StandingOf(r)]

\* The store, the scheduler and the commands together keep the abstract promise:
\* every step moves each reminder along one edge of its life or not at all.
KeepsPromise == Promise!PromiseSpec

\* A reminder marked abandoned is "a row Henk actually tried to deliver and
\* abandoned, as opposed to one whose grace window simply expired"
\* (reminders/scheduler.py:75): at least one send of it was dispatched.
AbandonedWasTried ==
  \A r \in Id : rows[r].status = "abandoned" => seen[r].dispatched > 0

\* "No overdue reminder SHALL reach a terminal status without either being
\* delivered or being named in an attempted catch-up summary -- with exactly one
\* exception ... after repeated process deaths" (openspec/specs/reminders/
\* spec.md): without a process death, a report is closed only after a naming.
UnnamedOnlyByProcessDeath ==
  crashes = 0 => \A r \in Id : rows[r].reported => seen[r].named > 0

=============================================================================
