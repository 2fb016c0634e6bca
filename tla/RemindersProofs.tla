-------------------------- MODULE RemindersProofs ---------------------------
(***************************************************************************)
(* Proofs about reminder delivery, for every value of the constants.       *)
(***************************************************************************)
EXTENDS Reminders, FiniteSetTheorems, TLAPS

-----------------------------------------------------------------------------
(* Typing *)

\* The row writers keep a row's type.
LEMMA WritersType ==
  /\ \A due \in Nat : NewRow(due) \in Row
  /\ \A row \in Row : ToPending(row) \in Row /\ MarkReported(row) \in Row
  /\ \A row \in Row, at \in Nat : ScheduleRetry(row, at) \in Row
  /\ \A row \in Row, now \in Nat :
       GiveUpOn(row, "missed", now) \in Row /\ GiveUpOn(row, "abandoned", now) \in Row
  /\ \A row \in Row, now \in Nat, late \in BOOLEAN : MarkDelivered(row, now, late) \in Row
  BY DEF NewRow, ToPending, GiveUpOn, MarkDelivered, ScheduleRetry, MarkReported,
     Row, Status, DeliveredStatus, OwedStatus

\* So do the history's.
LEMMA HistoryType ==
  \A s \in Seen, o \in Outcome, n \in Nat :
    Heard(s, o, n) \in Seen /\ Named(s, o) \in Seen
<1> SUFFICES ASSUME NEW s \in Seen, NEW o \in Outcome, NEW n \in Nat
             PROVE  Heard(s, o, n) \in Seen /\ Named(s, o) \in Seen
  OBVIOUS
<1>1. /\ (IF o = "FAILED" THEN s.confirmed ELSE s.confirmed + 1) \in Nat
      /\ s.notices + n \in Nat
      /\ (IF o = "FAILED" THEN s.named ELSE s.named + 1) \in Nat
  BY DEF Seen
<1> QED
  BY <1>1 DEF Heard, Named, Seen

\* The pre-work transaction keeps the table's type.
LEMMA PreWorkType ==
  ASSUME TypeOK
  PROVE  AfterPreWork(clock) \in [Id -> Row]
<1> DEFINE rs == AfterGrace(clock)
<1>1. rs \in [Id -> Row]
  BY WritersType DEF TypeOK, AfterGrace, Status, OwedStatus
<1>2. SUFFICES ASSUME NEW r \in Id PROVE AfterPreWork(clock)[r] \in Row
  BY DEF AfterPreWork
<1>3. GiveUpOn(rs[r], "abandoned", clock) \in Row /\ MarkReported(rs[r]) \in Row
  BY <1>1, WritersType DEF TypeOK, Status, OwedStatus
<1>4. [rs[r] EXCEPT !.attempts = @ + 1] \in Row
  BY <1>1 DEF Row
<1> QED
  BY <1>1, <1>3, <1>4 DEF AfterPreWork

\* No step changes the type of a variable.
LEMMA TypeStep == TypeOK /\ [Next]_vars => TypeOK'
<1> SUFFICES ASSUME TypeOK, [Next]_vars PROVE TypeOK'
  OBVIOUS
<1> USE RemindersAssumption DEF TypeOK
<1>1. CASE Schedule
  BY <1>1, WritersType DEF Schedule
<1>2. ASSUME NEW r \in Id, Cancel(r) PROVE TypeOK'
  BY <1>2 DEF Cancel, Row, Status, Transition
<1>3. ASSUME NEW r \in Id, Reinstate(r) PROVE TypeOK'
  <2>1. rows' \in [Id -> Row]
    BY <1>3, WritersType DEF Reinstate
  <2> QED
    BY <1>3, <2>1 DEF Reinstate, Transition
<1>4. CASE Surface
  BY <1>4 DEF Surface, Row
<1>5. CASE EmptyTick
  BY <1>5 DEF EmptyTick, vars
<1>6. CASE PreWork
  <2>1. rows' \in [Id -> Row]
    BY <1>6, PreWorkType DEF PreWork
  <2>2. tick' \in Tick
    BY <1>6 DEF PreWork, Tick, Phase, Outcome, Transition, OwedStatus, DueRows,
       ReportRows, Abandoned, Oldest, SelectDue, SelectReportable, SelectPastGrace
  <2> QED
    BY <1>6, <2>1, <2>2 DEF PreWork
<1>7. CASE WriteReceipts
  BY <1>7 DEF WriteReceipts, Tick, Phase
<1>8. CASE Skip
  BY <1>8 DEF Skip, Tick
<1>9. CASE Dispatch
  <2>1. PICK r \in tick.deliveries :
           /\ tick' = [tick EXCEPT !.phase = "sending", !.current = r, !.deliveries = @ \ {r}]
           /\ seen' = [seen EXCEPT ![r].dispatched = @ + 1]
    BY <1>9 DEF Dispatch, Oldest
  <2>2. r \in Id /\ tick' \in Tick
    BY <2>1 DEF Tick, Phase
  <2>3. seen' \in [Id -> Seen]
    BY <2>1, <2>2 DEF Seen
  <2> QED
    <3>1. tick'.phase = "sending" /\ tick'.current # NoId
      BY <2>1, <2>2 DEF Tick, Id, NoId
    <3> QED
      BY <1>9, <2>2, <2>3, <3>1 DEF Dispatch
<1>10. ASSUME NEW o \in Outcome, Transmit(o) PROVE TypeOK'
  <2>1. tick' \in Tick
    BY <1>10 DEF Transmit, Tick, Phase
  <2>2. seen' \in [Id -> Seen]
    BY <1>10, HistoryType DEF Transmit, Tick, NoticesSent
  <2> QED
    BY <1>10, <2>1, <2>2 DEF Transmit
<1>11. CASE RecordRetry
  <2>1. tick' \in Tick
    BY <1>11 DEF RecordRetry, Tick, Phase
  <2> tick.instant + RetryFloor \in Nat
    BY DEF Tick
  <2>2. rows' \in [Id -> Row]
    BY <1>11, WritersType DEF RecordRetry
  <2> QED
    BY <1>11, <2>1, <2>2 DEF RecordRetry
<1>12. CASE RecordDelivery
  <2>1. tick' \in Tick
    BY <1>12 DEF RecordDelivery, Tick, Phase
  <2> tick.instant \in Nat /\ Late(tick.current) \in BOOLEAN
    BY DEF Tick, Late
  <2>2. rows' \in [Id -> Row]
    BY <1>12, WritersType DEF RecordDelivery
  <2>3. audit' \subseteq Id \X Transition
    BY <1>12 DEF RecordDelivery, MarkDelivered, Transition, DeliveredStatus, Row, Tick
  <2> QED
    BY <1>12, <2>1, <2>2, <2>3 DEF RecordDelivery
<1>13. CASE StartSummary
  BY <1>13 DEF StartSummary, Tick, Phase
<1>14. ASSUME NEW o \in Outcome, TransmitSummary(o) PROVE TypeOK'
  <2>1. tick' \in Tick
    BY <1>14 DEF TransmitSummary, Tick, Phase
  <2>2. seen' \in [Id -> Seen]
    BY <1>14, HistoryType DEF TransmitSummary
  <2> QED
    BY <1>14, <2>1, <2>2 DEF TransmitSummary
<1>15. CASE RecordSummary
  <2> tick.instant + RetryFloor \in Nat
    BY DEF Tick
  <2>1. \A r \in Id : /\ MarkReported(rows[r]) \in Row
                      /\ ScheduleRetry(rows[r], tick.instant + RetryFloor) \in Row
    BY WritersType
  <2> QED
    BY <1>15, <2>1 DEF RecordSummary, Tick, NoTick, Phase, Outcome
<1>16. CASE EndTick
  BY <1>16 DEF EndTick, NoTick, Tick, Phase, Outcome
<1>17. CASE Advance
  BY <1>17 DEF Advance
<1>18. CASE StoreFault
  BY <1>18 DEF StoreFault, NoTick, Tick, Phase, Outcome
<1>19. CASE Crash
  BY <1>19 DEF Crash, NoTick, Tick, Phase, Outcome
<1>20. CASE UNCHANGED vars
  BY <1>20 DEF vars
<1> QED
  BY <1>1, <1>2, <1>3, <1>4, <1>5, <1>6, <1>7, <1>8, <1>9, <1>10, <1>11, <1>12, <1>13,
     <1>14, <1>15, <1>16, <1>17, <1>18, <1>19, <1>20
     DEF Next, Owner, Scheduler, Deliver, Report

\* Every variable keeps its type (the columns of the reminders table, the tick).
THEOREM TypeCorrect == Spec => []TypeOK
<1>1. Init => TypeOK
  BY DEF Init, TypeOK, NoRow, Row, NoTick, Tick, Seen, Status, Phase, Outcome
<1> QED
  BY <1>1, TypeStep, PTL DEF Spec

-----------------------------------------------------------------------------
(* The safety properties *)

\* The types the arithmetic below needs, field by field.
Typed ==
  /\ clock \in Nat /\ crashes \in Nat /\ faults \in Nat
  /\ tick.instant \in Nat /\ tick.deliveries \subseteq Id /\ tick.report \subseteq Id
  /\ tick.current \in Id \cup {NoId} /\ NoId \notin Id
  /\ tick.phase \in {"sending", "sent"} <=> tick.current # NoId
  /\ \A r \in Id :
       /\ rows[r].due \in Nat /\ rows[r].attempts \in Nat
       /\ rows[r].delivered \in Int
       /\ seen[r].confirmed \in Nat /\ seen[r].named \in Nat

LEMMA TypedOK == /\ TypeOK => Typed
                 /\ TypeOK' => Typed'
<1>1. NoId \notin Id
  BY DEF NoId, Id
<1>2. TypeOK => Typed
  BY <1>1 DEF TypeOK, Typed, Row, Tick, Seen, Never
<1>3. TypeOK' => Typed'
  BY <1>1 DEF TypeOK, Typed, Row, Tick, Seen, Never
<1> QED
  BY <1>2, <1>3

\* The row is what it was, to the properties below.
Unmoved(r) ==
  /\ rows'[r].status = rows[r].status /\ rows'[r].due = rows[r].due
  /\ rows'[r].attempts = rows[r].attempts /\ rows'[r].delivered = rows[r].delivered
  /\ rows'[r].reported = rows[r].reported

\* What an owner's operation does to a row.
OwnerMove(r) ==
  \/ Unmoved(r)
  \/ /\ rows[r].status = "none" /\ rows'[r].status = "pending"
     /\ rows'[r].attempts = 0 /\ ~rows'[r].reported
  \/ /\ rows[r].status = "pending" /\ rows'[r].status = "cancelled"
     /\ rows'[r].due = rows[r].due /\ rows'[r].attempts = rows[r].attempts
     /\ rows'[r].reported = rows[r].reported
  \/ /\ rows[r].status = "cancelled" /\ rows'[r].status = "pending"
     /\ rows'[r].due = rows[r].due /\ rows'[r].due > clock
     /\ rows'[r].attempts = rows[r].attempts /\ rows'[r].reported = rows[r].reported

\* The scheduler's fields that an owner's operation leaves alone.
LEMMA OwnerMovesPreserve ==
  ASSUME IInv, TypeOK', UNCHANGED <<clock, tick, seen, crashes, faults>>,
         \A r \in Id : OwnerMove(r),
         audit' \subseteq audit \cup (Id \X {"cancelled", "reinstated"})
  PROVE  IInv'
<1> USE RemindersAssumption DEF IInv, Unmoved, OwnerMove
<1>0. Typed /\ Typed'
  BY TypedOK
<1>1. TickOK'
  BY <1>0 DEF Typed, TickOK, ToSend, OwedStatus, TypeOK, Tick, NoId
<1>2. ASSUME NEW r \in Id PROVE RowOK(r)'
  BY <1>0 DEF Typed, RowOK, TickOK, ToSend, Charge, Copy, ConfirmedNow, Delivered, Interruptions,
     OwedStatus, DeliveredStatus
<1>3. DeliveredInWindow'
  BY <1>0 DEF Typed, DeliveredInWindow, Delivered, DeliveredStatus
<1>4. NoSilentLoss'
  BY <1>0 DEF Typed, NoSilentLoss, Delivered, DeliveredStatus, Interruptions
<1>5. OutageNeverAbandons'
  BY <1>0 DEF Typed, OutageNeverAbandons, Interruptions
<1>6. ReceiptsAreCommitted'
  <2> SUFFICES ASSUME NEW r \in Id, NEW t \in DeliveredStatus \cup OwedStatus, <<r, t>> \in audit'
               PROVE  rows'[r].status = t
    BY DEF ReceiptsAreCommitted
  <2>1. t \notin {"pending", "cancelled", "reinstated", "none"}
    BY DEF DeliveredStatus, OwedStatus
  <2>2. <<r, t>> \in audit
    BY <2>1
  <2>3. rows[r].status = t
    BY <2>2 DEF ReceiptsAreCommitted
  <2> QED
    BY <2>1, <2>3
<1> QED
  BY <1>1, <1>2, <1>3, <1>4, <1>5, <1>6

LEMMA OwnerSteps ==
  ASSUME IInv, TypeOK', Owner
  PROVE  IInv'
<1> USE DEF IInv
<1>1. CASE Schedule
  <2>1. PICK r0 \in Id, due \in 0..Horizon :
           rows[r0].status = "none" /\ rows' = [rows EXCEPT ![r0] = NewRow(due)]
    BY <1>1 DEF Schedule
  <2>2. ASSUME NEW r \in Id PROVE OwnerMove(r)
    <3>1. rows'[r] = IF r = r0 THEN NewRow(due) ELSE rows[r]
      BY <2>1 DEF TypeOK
    <3> QED
      BY <2>1, <3>1 DEF OwnerMove, Unmoved, NewRow, TypeOK
  <2> QED
    BY <1>1, <2>2, OwnerMovesPreserve DEF Schedule
<1>2. ASSUME NEW r0 \in Id, Cancel(r0) PROVE IInv'
  <2>1. ASSUME NEW r \in Id PROVE OwnerMove(r)
    BY <1>2 DEF Cancel, OwnerMove, Unmoved, TypeOK, Row
  <2> QED
    BY <1>2, <2>1, OwnerMovesPreserve DEF Cancel
<1>3. ASSUME NEW r0 \in Id, Reinstate(r0) PROVE IInv'
  <2>1. ASSUME NEW r \in Id PROVE OwnerMove(r)
    <3>1. rows'[r] = IF r = r0 THEN ToPending(rows[r0]) ELSE rows[r]
      BY <1>3 DEF Reinstate, TypeOK
    <3> QED
      BY <1>3, <3>1 DEF Reinstate, OwnerMove, Unmoved, ToPending, TypeOK, Row
  <2> QED
    BY <1>3, <2>1, OwnerMovesPreserve DEF Reinstate
<1>4. CASE Surface
  <2>1. ASSUME NEW r \in Id PROVE OwnerMove(r)
    <3>1. rows'[r] = rows[r] \/ rows'[r] = [rows[r] EXCEPT !.surfaced = TRUE]
      BY <1>4 DEF Surface
    <3> QED
      BY <3>1 DEF OwnerMove, Unmoved, TypeOK, Row
  <2> QED
    BY <1>4, <2>1, OwnerMovesPreserve DEF Surface
<1> QED
  BY <1>1, <1>2, <1>3, <1>4 DEF Owner

LEMMA WriteReceiptsPreserves ==
  ASSUME IInv, TypeOK', WriteReceipts
  PROVE  IInv'
<1> USE RemindersAssumption DEF IInv
<1>0. Typed /\ Typed'
  BY TypedOK
<1>1. /\ tick.phase = "receipts" /\ tick'.phase = "deliver" /\ tick'.instant = tick.instant
      /\ tick'.report = tick.report /\ tick'.receipts = {}
      /\ tick'.deliveries = tick.deliveries /\ tick'.current = tick.current
  BY DEF WriteReceipts, TypeOK, Tick
<1>2. UNCHANGED <<clock, rows, seen, crashes, faults>> /\ audit' = audit \cup tick.receipts
  BY DEF WriteReceipts
<1>3. TickOK'
  BY <1>0, <1>1, <1>2 DEF Typed, TickOK, ToSend, OwedStatus, NoTick
<1>4. ASSUME NEW r \in Id PROVE RowOK(r)'
  <2> RowOK(r)
    OBVIOUS
  <2>1. rows'[r].reported => rows'[r].status \in OwedStatus
    BY <1>0, <1>1, <1>2 DEF Typed, RowOK, TickOK, ToSend, OwedStatus
  <2>2. \/ rows'[r].attempts <= Interruptions' + Charge(r)'
        \/ rows'[r].status = "cancelled" /\ rows'[r].due <= clock'
    BY <1>0, <1>1, <1>2 DEF Typed, RowOK, TickOK, ToSend, Charge, Interruptions, NoTick
  <2>3. seen'[r].confirmed <= Interruptions' + Copy(r)'
    BY <1>0, <1>1, <1>2 DEF Typed, RowOK, TickOK, ToSend, Copy, ConfirmedNow, Delivered, DeliveredStatus, Interruptions, NoTick
  <2>4. ConfirmedNow(r)' => seen'[r].confirmed > 0
    BY <1>0, <1>1, <1>2 DEF Typed, RowOK, ConfirmedNow, NoTick
  <2> QED
    BY <2>1, <2>2, <2>3, <2>4 DEF RowOK
<1>5. DeliveredInWindow'
  BY <1>0, <1>1, <1>2 DEF Typed, DeliveredInWindow, Delivered, DeliveredStatus, TickOK, ToSend
<1>6. NoSilentLoss'
  BY <1>0, <1>1, <1>2 DEF Typed, NoSilentLoss, RowOK, ConfirmedNow, Delivered, DeliveredStatus, TickOK, Interruptions
<1>7. OutageNeverAbandons'
  BY <1>0, <1>1, <1>2 DEF Typed, OutageNeverAbandons, Interruptions
<1>8. ReceiptsAreCommitted'
  BY <1>0, <1>1, <1>2 DEF ReceiptsAreCommitted, TickOK, ToSend, OwedStatus, DeliveredStatus, Transition
<1> QED
  BY <1>3, <1>4, <1>5, <1>6, <1>7, <1>8

LEMMA SkipPreserves ==
  ASSUME IInv, TypeOK', Skip
  PROVE  IInv'
<1> USE RemindersAssumption DEF IInv
<1>0. Typed /\ Typed'
  BY TypedOK
<1>1. PICK r0 \in tick.deliveries :
         /\ rows[r0].status # "pending"
         /\ tick' = [tick EXCEPT !.deliveries = @ \ {r0}]
  BY DEF Skip, Oldest
<1>2. /\ UNCHANGED <<clock, rows, seen, audit, crashes, faults>>
      /\ tick.phase = "deliver" /\ tick'.phase = "deliver"
      /\ tick'.instant = tick.instant /\ tick'.current = tick.current
      /\ tick'.deliveries = tick.deliveries \ {r0}
      /\ tick'.report = tick.report /\ tick'.receipts = tick.receipts
  BY <1>1 DEF Skip, TypeOK, Tick
<1>3. TickOK'
  BY <1>0, <1>1, <1>2 DEF Typed, TickOK, ToSend, OwedStatus, NoTick
<1>4. ASSUME NEW r \in Id PROVE RowOK(r)'
  <2> RowOK(r)
    OBVIOUS
  <2>1. rows'[r].reported => rows'[r].status \in OwedStatus
    BY <1>0, <1>1, <1>2 DEF Typed, RowOK, TickOK, ToSend, OwedStatus
  <2>2. \/ rows'[r].attempts <= Interruptions' + Charge(r)'
        \/ rows'[r].status = "cancelled" /\ rows'[r].due <= clock'
    BY <1>0, <1>1, <1>2 DEF Typed, RowOK, TickOK, ToSend, Charge, Interruptions, NoTick
  <2>3. seen'[r].confirmed <= Interruptions' + Copy(r)'
    BY <1>0, <1>1, <1>2 DEF Typed, RowOK, TickOK, ToSend, Copy, ConfirmedNow, Delivered, DeliveredStatus, Interruptions, NoTick
  <2>4. ConfirmedNow(r)' => seen'[r].confirmed > 0
    BY <1>0, <1>1, <1>2 DEF Typed, RowOK, ConfirmedNow, NoTick
  <2> QED
    BY <2>1, <2>2, <2>3, <2>4 DEF RowOK
<1>5. DeliveredInWindow'
  BY <1>0, <1>1, <1>2 DEF Typed, DeliveredInWindow, Delivered, DeliveredStatus, TickOK, ToSend
<1>6. NoSilentLoss'
  BY <1>0, <1>1, <1>2 DEF Typed, NoSilentLoss, RowOK, ConfirmedNow, Delivered, DeliveredStatus, TickOK, Interruptions
<1>7. OutageNeverAbandons'
  BY <1>0, <1>1, <1>2 DEF Typed, OutageNeverAbandons, Interruptions
<1>8. ReceiptsAreCommitted'
  BY <1>0, <1>1, <1>2 DEF ReceiptsAreCommitted, TickOK, ToSend, OwedStatus, DeliveredStatus, Transition
<1> QED
  BY <1>3, <1>4, <1>5, <1>6, <1>7, <1>8

LEMMA DispatchPreserves ==
  ASSUME IInv, TypeOK', Dispatch
  PROVE  IInv'
<1> USE RemindersAssumption DEF IInv
<1>0. Typed /\ Typed'
  BY TypedOK
<1>1. PICK r0 \in tick.deliveries :
         /\ rows[r0].status = "pending"
         /\ tick' = [tick EXCEPT !.phase = "sending", !.current = r0, !.deliveries = @ \ {r0}]
         /\ seen' = [seen EXCEPT ![r0].dispatched = @ + 1]
  BY DEF Dispatch, Oldest
<1>2. /\ UNCHANGED <<clock, rows, audit, crashes, faults>>
      /\ tick.phase = "deliver" /\ tick'.phase = "sending"
      /\ tick'.instant = tick.instant /\ tick.current = NoId /\ tick'.current = r0
      /\ tick'.deliveries = tick.deliveries \ {r0}
      /\ tick'.report = tick.report /\ tick'.receipts = tick.receipts
      /\ \A r \in Id : seen'[r].confirmed = seen[r].confirmed /\ seen'[r].named = seen[r].named
  BY <1>1 DEF Dispatch, TypeOK, Tick, Seen
<1>3. TickOK'
  BY <1>0, <1>1, <1>2 DEF Typed, TickOK, ToSend, OwedStatus, NoTick
<1>4. ASSUME NEW r \in Id PROVE RowOK(r)'
  <2> RowOK(r)
    OBVIOUS
  <2>1. rows'[r].reported => rows'[r].status \in OwedStatus
    BY <1>0, <1>1, <1>2 DEF Typed, RowOK, TickOK, ToSend, OwedStatus
  <2>2. \/ rows'[r].attempts <= Interruptions' + Charge(r)'
        \/ rows'[r].status = "cancelled" /\ rows'[r].due <= clock'
    BY <1>0, <1>1, <1>2 DEF Typed, RowOK, TickOK, ToSend, Charge, Interruptions, NoTick
  <2>3. seen'[r].confirmed <= Interruptions' + Copy(r)'
    BY <1>0, <1>1, <1>2 DEF Typed, RowOK, TickOK, ToSend, Copy, ConfirmedNow, Delivered, DeliveredStatus, Interruptions, NoTick
  <2>4. ConfirmedNow(r)' => seen'[r].confirmed > 0
    BY <1>0, <1>1, <1>2 DEF Typed, RowOK, ConfirmedNow, NoTick
  <2> QED
    BY <2>1, <2>2, <2>3, <2>4 DEF RowOK
<1>5. DeliveredInWindow'
  BY <1>0, <1>1, <1>2 DEF Typed, DeliveredInWindow, Delivered, DeliveredStatus, TickOK, ToSend
<1>6. NoSilentLoss'
  BY <1>0, <1>1, <1>2 DEF Typed, NoSilentLoss, RowOK, ConfirmedNow, Delivered, DeliveredStatus, TickOK, Interruptions
<1>7. OutageNeverAbandons'
  BY <1>0, <1>1, <1>2 DEF Typed, OutageNeverAbandons, Interruptions
<1>8. ReceiptsAreCommitted'
  BY <1>0, <1>1, <1>2 DEF ReceiptsAreCommitted, TickOK, ToSend, OwedStatus, DeliveredStatus, Transition
<1> QED
  BY <1>3, <1>4, <1>5, <1>6, <1>7, <1>8

LEMMA TransmitPreserves ==
  ASSUME IInv, TypeOK', NEW o \in Outcome, Transmit(o)
  PROVE  IInv'
<1> USE RemindersAssumption DEF IInv
<1>0. Typed /\ Typed'
  BY TypedOK
<1>1. /\ UNCHANGED <<clock, rows, audit, crashes, faults>>
      /\ tick.phase = "sending" /\ tick'.phase = "sent" /\ tick'.outcome = o
      /\ tick'.instant = tick.instant /\ tick'.current = tick.current
      /\ tick'.deliveries = tick.deliveries
      /\ tick'.report = tick.report /\ tick'.receipts = tick.receipts
  BY DEF Transmit, TypeOK, Tick
<1>2. /\ tick.current \in Id
      /\ \A r \in Id :
           /\ seen'[r].named = seen[r].named
           /\ seen'[r].confirmed = IF r = tick.current /\ o # "FAILED"
                                     THEN seen[r].confirmed + 1 ELSE seen[r].confirmed
  BY DEF Transmit, TypeOK, Tick, Seen, Heard
<1>3. TickOK'
  BY <1>0, <1>1, <1>2 DEF Typed, TickOK, ToSend, OwedStatus, NoTick
<1>4. ASSUME NEW r \in Id PROVE RowOK(r)'
  <2> RowOK(r)
    OBVIOUS
  <2>1. rows'[r].reported => rows'[r].status \in OwedStatus
    BY <1>0, <1>1, <1>2 DEF Typed, RowOK, TickOK, ToSend, OwedStatus
  <2>2. \/ rows'[r].attempts <= Interruptions' + Charge(r)'
        \/ rows'[r].status = "cancelled" /\ rows'[r].due <= clock'
    BY <1>0, <1>1, <1>2 DEF Typed, RowOK, TickOK, ToSend, Charge, Interruptions, NoTick
  <2>3. seen'[r].confirmed <= Interruptions' + Copy(r)'
    <3>1. ~ConfirmedNow(r)
      BY <1>1 DEF ConfirmedNow
    <3>2. CASE r = tick.current
      <4>1. ~Delivered(r)
        BY <1>0, <1>1, <3>2 DEF Typed, TickOK, ToSend, Delivered, DeliveredStatus
      <4>2. seen[r].confirmed <= Interruptions
        BY <1>0, <3>1, <4>1 DEF RowOK, Copy, Typed, Interruptions
      <4> QED
        BY <1>0, <1>1, <1>2, <3>2, <4>2 DEF Typed, Copy, ConfirmedNow, Interruptions
    <3>3. CASE r # tick.current
      BY <1>0, <1>1, <1>2, <3>1, <3>3 DEF Typed, RowOK, Copy, ConfirmedNow, Delivered, Interruptions
    <3> QED
      BY <3>2, <3>3
  <2>4. ConfirmedNow(r)' => seen'[r].confirmed > 0
    BY <1>0, <1>1, <1>2 DEF Typed, RowOK, ConfirmedNow, NoTick
  <2> QED
    BY <2>1, <2>2, <2>3, <2>4 DEF RowOK
<1>5. DeliveredInWindow'
  BY <1>0, <1>1, <1>2 DEF Typed, DeliveredInWindow, Delivered, DeliveredStatus, TickOK, ToSend
<1>6. NoSilentLoss'
  BY <1>0, <1>1, <1>2 DEF Typed, NoSilentLoss, RowOK, ConfirmedNow, Delivered, DeliveredStatus, TickOK, Interruptions
<1>7. OutageNeverAbandons'
  BY <1>0, <1>1, <1>2 DEF Typed, OutageNeverAbandons, Interruptions
<1>8. ReceiptsAreCommitted'
  BY <1>0, <1>1, <1>2 DEF ReceiptsAreCommitted, TickOK, ToSend, OwedStatus, DeliveredStatus, Transition
<1> QED
  BY <1>3, <1>4, <1>5, <1>6, <1>7, <1>8

LEMMA RecordRetryPreserves ==
  ASSUME IInv, TypeOK', RecordRetry
  PROVE  IInv'
<1> USE RemindersAssumption DEF IInv
<1>0. Typed /\ Typed'
  BY TypedOK
<1>1. /\ UNCHANGED <<clock, seen, audit, crashes, faults>>
      /\ tick.phase = "sent" /\ tick.outcome = "FAILED" /\ tick'.phase = "deliver"
      /\ tick'.instant = tick.instant /\ tick'.current = NoId /\ tick.current \in Id
      /\ tick'.deliveries = tick.deliveries
      /\ tick'.report = tick.report /\ tick'.receipts = tick.receipts
  BY DEF RecordRetry, TypeOK, Tick
<1>2. \A r \in Id : IF r = tick.current
        THEN /\ rows'[r].status = rows[r].status /\ rows'[r].due = rows[r].due
             /\ rows'[r].attempts = 0 /\ rows'[r].delivered = rows[r].delivered
             /\ rows'[r].reported = rows[r].reported
        ELSE rows'[r] = rows[r]
  BY DEF RecordRetry, ScheduleRetry, TypeOK, Row
<1>3. TickOK'
  <2>1. ToSend' \subseteq ToSend
    BY <1>1 DEF ToSend
  <2>2. \A r \in ToSend' : /\ rows'[r].status \in {"pending", "cancelled"}
                          /\ rows'[r].due <= tick'.instant
                          /\ tick'.instant <= rows'[r].due + Grace
    <3>1. ToSend \subseteq Id
      BY <1>0 DEF Typed, ToSend
    <3> QED
      BY <1>1, <1>2, <2>1, <3>1 DEF TickOK
  <2>3. \A r \in tick'.report : rows'[r].status \in OwedStatus /\ ~rows'[r].reported
    BY <1>0, <1>1, <1>2 DEF Typed, TickOK
  <2> QED
    BY <1>0, <1>1, <1>2, <2>2, <2>3 DEF Typed, TickOK, NoTick
<1>4. ASSUME NEW r \in Id PROVE RowOK(r)'
  <2> RowOK(r)
    OBVIOUS
  <2>1. rows'[r].reported => rows'[r].status \in OwedStatus
    BY <1>0, <1>1, <1>2 DEF Typed, RowOK, TickOK, ToSend, OwedStatus
  <2>2. \/ rows'[r].attempts <= Interruptions' + Charge(r)'
        \/ rows'[r].status = "cancelled" /\ rows'[r].due <= clock'
    BY <1>0, <1>1, <1>2 DEF Typed, RowOK, TickOK, ToSend, Charge, Interruptions, NoTick
  <2>3. seen'[r].confirmed <= Interruptions' + Copy(r)'
    BY <1>0, <1>1, <1>2 DEF Typed, RowOK, TickOK, ToSend, Copy, ConfirmedNow, Delivered, DeliveredStatus, Interruptions, NoTick
  <2>4. ConfirmedNow(r)' => seen'[r].confirmed > 0
    BY <1>0, <1>1, <1>2 DEF Typed, RowOK, ConfirmedNow, NoTick
  <2> QED
    BY <2>1, <2>2, <2>3, <2>4 DEF RowOK
<1>5. DeliveredInWindow'
  BY <1>0, <1>1, <1>2 DEF Typed, DeliveredInWindow, Delivered, DeliveredStatus, TickOK, ToSend
<1>6. NoSilentLoss'
  BY <1>0, <1>1, <1>2 DEF Typed, NoSilentLoss, RowOK, ConfirmedNow, Delivered, DeliveredStatus, TickOK, Interruptions
<1>7. OutageNeverAbandons'
  BY <1>0, <1>1, <1>2 DEF Typed, OutageNeverAbandons, Interruptions
<1>8. ReceiptsAreCommitted'
  BY <1>1, <1>2 DEF ReceiptsAreCommitted
<1> QED
  BY <1>3, <1>4, <1>5, <1>6, <1>7, <1>8

LEMMA RecordDeliveryPreserves ==
  ASSUME IInv, TypeOK', RecordDelivery
  PROVE  IInv'
<1> USE RemindersAssumption DEF IInv
<1>0. Typed /\ Typed'
  BY TypedOK
<1>1. /\ UNCHANGED <<clock, seen, crashes, faults>>
      /\ tick.phase = "sent" /\ tick.outcome # "FAILED" /\ tick'.phase = "deliver"
      /\ tick'.instant = tick.instant /\ tick'.current = NoId /\ tick.current \in Id
      /\ tick'.deliveries = tick.deliveries
      /\ tick'.report = tick.report /\ tick'.receipts = tick.receipts
      /\ audit' = audit \cup {<<tick.current, rows'[tick.current].status>>}
  BY DEF RecordDelivery, TypeOK, Tick
<1>2. \A r \in Id : IF r = tick.current
        THEN /\ rows'[r].status = IF tick.instant > rows[r].due + LateThreshold
                                    THEN "delivered-late" ELSE "delivered"
             /\ rows'[r].due = rows[r].due
             /\ rows'[r].attempts = 0 /\ rows'[r].delivered = tick.instant
             /\ rows'[r].reported = rows[r].reported
        ELSE Unmoved(r)
  BY DEF RecordDelivery, MarkDelivered, Late, TypeOK, Row, Unmoved
<1>3. TickOK'
  BY <1>0, <1>1, <1>2 DEF Typed, Unmoved, TickOK, ToSend, OwedStatus, NoTick
<1>4. ASSUME NEW r \in Id PROVE RowOK(r)'
  <2> RowOK(r)
    OBVIOUS
  <2>1. rows'[r].reported => rows'[r].status \in OwedStatus
    BY <1>0, <1>1, <1>2 DEF Typed, Unmoved, RowOK, TickOK, ToSend, OwedStatus
  <2>2. \/ rows'[r].attempts <= Interruptions' + Charge(r)'
        \/ rows'[r].status = "cancelled" /\ rows'[r].due <= clock'
    BY <1>0, <1>1, <1>2 DEF Typed, Unmoved, RowOK, TickOK, ToSend, Charge, Interruptions, NoTick
  <2>3. seen'[r].confirmed <= Interruptions' + Copy(r)'
    BY <1>0, <1>1, <1>2 DEF Typed, Unmoved, RowOK, TickOK, ToSend, Copy, ConfirmedNow, Delivered, DeliveredStatus, Interruptions, NoTick
  <2>4. ConfirmedNow(r)' => seen'[r].confirmed > 0
    BY <1>0, <1>1, <1>2 DEF Typed, Unmoved, RowOK, ConfirmedNow, NoTick
  <2> QED
    BY <2>1, <2>2, <2>3, <2>4 DEF RowOK
<1>5. DeliveredInWindow'
  BY <1>0, <1>1, <1>2 DEF Typed, Unmoved, DeliveredInWindow, Delivered, DeliveredStatus, TickOK, ToSend
<1>6. NoSilentLoss'
  BY <1>0, <1>1, <1>2 DEF Typed, Unmoved, NoSilentLoss, RowOK, ConfirmedNow, Delivered, DeliveredStatus, TickOK, Interruptions
<1>7. OutageNeverAbandons'
  BY <1>0, <1>1, <1>2 DEF Typed, Unmoved, OutageNeverAbandons, Interruptions
<1>8. ReceiptsAreCommitted'
  <2> SUFFICES ASSUME NEW r \in Id, NEW t \in DeliveredStatus \cup OwedStatus, <<r, t>> \in audit'
               PROVE  rows'[r].status = t
    BY DEF ReceiptsAreCommitted
  <2>1. CASE <<r, t>> \in audit
    <3>1. rows[r].status = t
      BY <2>1 DEF ReceiptsAreCommitted
    <3>2. rows[tick.current].status \in {"pending", "cancelled"}
      BY <1>0, <1>1 DEF Typed, TickOK, ToSend
    <3> QED
      BY <1>2, <3>1, <3>2 DEF Unmoved, DeliveredStatus, OwedStatus
  <2>2. CASE <<r, t>> = <<tick.current, rows'[tick.current].status>>
    BY <2>2
  <2> QED
    BY <1>1, <2>1, <2>2
<1> QED
  BY <1>3, <1>4, <1>5, <1>6, <1>7, <1>8

LEMMA StartSummaryPreserves ==
  ASSUME IInv, TypeOK', StartSummary
  PROVE  IInv'
<1> USE RemindersAssumption DEF IInv
<1>0. Typed /\ Typed'
  BY TypedOK
<1>1. /\ tick.phase = "deliver" /\ tick.deliveries = {} /\ tick'.phase = "summarizing"
      /\ tick'.instant = tick.instant /\ tick'.current = tick.current
      /\ tick'.deliveries = tick.deliveries
      /\ tick'.report = tick.report /\ tick'.receipts = tick.receipts
  BY DEF StartSummary, TypeOK, Tick
<1>2. UNCHANGED <<clock, rows, seen, audit, crashes, faults>>
  BY DEF StartSummary
<1>3. TickOK'
  BY <1>0, <1>1, <1>2 DEF Typed, TickOK, ToSend, OwedStatus, NoTick
<1>4. ASSUME NEW r \in Id PROVE RowOK(r)'
  <2> RowOK(r)
    OBVIOUS
  <2>1. rows'[r].reported => rows'[r].status \in OwedStatus
    BY <1>0, <1>1, <1>2 DEF Typed, RowOK, TickOK, ToSend, OwedStatus
  <2>2. \/ rows'[r].attempts <= Interruptions' + Charge(r)'
        \/ rows'[r].status = "cancelled" /\ rows'[r].due <= clock'
    BY <1>0, <1>1, <1>2 DEF Typed, RowOK, TickOK, ToSend, Charge, Interruptions, NoTick
  <2>3. seen'[r].confirmed <= Interruptions' + Copy(r)'
    BY <1>0, <1>1, <1>2 DEF Typed, RowOK, TickOK, ToSend, Copy, ConfirmedNow, Delivered, DeliveredStatus, Interruptions, NoTick
  <2>4. ConfirmedNow(r)' => seen'[r].confirmed > 0
    BY <1>0, <1>1, <1>2 DEF Typed, RowOK, ConfirmedNow, NoTick
  <2> QED
    BY <2>1, <2>2, <2>3, <2>4 DEF RowOK
<1>5. DeliveredInWindow'
  BY <1>0, <1>1, <1>2 DEF Typed, DeliveredInWindow, Delivered, DeliveredStatus, TickOK, ToSend
<1>6. NoSilentLoss'
  BY <1>0, <1>1, <1>2 DEF Typed, NoSilentLoss, RowOK, ConfirmedNow, Delivered, DeliveredStatus, TickOK, Interruptions
<1>7. OutageNeverAbandons'
  BY <1>0, <1>1, <1>2 DEF Typed, OutageNeverAbandons, Interruptions
<1>8. ReceiptsAreCommitted'
  BY <1>0, <1>1, <1>2 DEF ReceiptsAreCommitted, TickOK, ToSend, OwedStatus, DeliveredStatus, Transition
<1> QED
  BY <1>3, <1>4, <1>5, <1>6, <1>7, <1>8

LEMMA TransmitSummaryPreserves ==
  ASSUME IInv, TypeOK', NEW o \in Outcome, TransmitSummary(o)
  PROVE  IInv'
<1> USE RemindersAssumption DEF IInv
<1>0. Typed /\ Typed'
  BY TypedOK
<1>1. /\ UNCHANGED <<clock, rows, audit, crashes, faults>>
      /\ tick.phase = "summarizing" /\ tick'.phase = "summarized" /\ tick'.outcome = o
      /\ tick'.instant = tick.instant /\ tick'.current = tick.current
      /\ tick'.deliveries = tick.deliveries
      /\ tick'.report = tick.report /\ tick'.receipts = tick.receipts
  BY DEF TransmitSummary, TypeOK, Tick
<1>2. \A r \in Id :
        /\ seen'[r].confirmed = seen[r].confirmed
        /\ seen'[r].named = IF r \in tick.report /\ o # "FAILED"
                              THEN seen[r].named + 1 ELSE seen[r].named
  BY DEF TransmitSummary, TypeOK, Seen, Named
<1>3. TickOK'
  BY <1>0, <1>1, <1>2 DEF Typed, TickOK, ToSend, OwedStatus, NoTick
<1>4. ASSUME NEW r \in Id PROVE RowOK(r)'
  <2> RowOK(r)
    OBVIOUS
  <2>1. rows'[r].reported => rows'[r].status \in OwedStatus
    BY <1>0, <1>1, <1>2 DEF Typed, RowOK, TickOK, ToSend, OwedStatus
  <2>2. \/ rows'[r].attempts <= Interruptions' + Charge(r)'
        \/ rows'[r].status = "cancelled" /\ rows'[r].due <= clock'
    BY <1>0, <1>1, <1>2 DEF Typed, RowOK, TickOK, ToSend, Charge, Interruptions, NoTick
  <2>3. seen'[r].confirmed <= Interruptions' + Copy(r)'
    BY <1>0, <1>1, <1>2 DEF Typed, RowOK, TickOK, ToSend, Copy, ConfirmedNow, Delivered, DeliveredStatus, Interruptions, NoTick
  <2>4. ConfirmedNow(r)' => seen'[r].confirmed > 0
    BY <1>0, <1>1, <1>2 DEF Typed, RowOK, ConfirmedNow, NoTick
  <2> QED
    BY <2>1, <2>2, <2>3, <2>4 DEF RowOK
<1>5. DeliveredInWindow'
  BY <1>0, <1>1, <1>2 DEF Typed, DeliveredInWindow, Delivered, DeliveredStatus, TickOK, ToSend
<1>6. NoSilentLoss'
  BY <1>0, <1>1, <1>2 DEF Typed, NoSilentLoss, RowOK, ConfirmedNow, Delivered, DeliveredStatus, TickOK, Interruptions
<1>7. OutageNeverAbandons'
  BY <1>0, <1>1, <1>2 DEF Typed, OutageNeverAbandons, Interruptions
<1>8. ReceiptsAreCommitted'
  BY <1>0, <1>1, <1>2 DEF ReceiptsAreCommitted, TickOK, ToSend, OwedStatus, DeliveredStatus, Transition
<1> QED
  BY <1>3, <1>4, <1>5, <1>6, <1>7, <1>8

LEMMA RecordSummaryPreserves ==
  ASSUME IInv, TypeOK', RecordSummary
  PROVE  IInv'
<1> USE RemindersAssumption DEF IInv
<1>0. Typed /\ Typed'
  BY TypedOK
<1>1. /\ UNCHANGED <<clock, seen, audit, crashes, faults>>
      /\ tick.phase = "summarized" /\ tick' = NoTick
  BY DEF RecordSummary
<1>2. /\ tick.outcome = "FAILED" => Retired = {}
      /\ Retired \subseteq tick.report
      /\ \A r \in Id : IF r \in tick.report
          THEN /\ rows'[r].status = rows[r].status /\ rows'[r].due = rows[r].due
               /\ rows'[r].attempts = 0 /\ rows'[r].delivered = rows[r].delivered
               /\ rows'[r].reported = (rows[r].reported \/ r \in Retired)
          ELSE rows'[r] = rows[r]
  <2>1. (tick.outcome = "FAILED" => Retired = {}) /\ Retired \subseteq tick.report
    BY DEF Retired, TypeOK, Tick, Outcome
  <2>2. ASSUME NEW r \in Id, r \in tick.report
        PROVE  /\ rows'[r].status = rows[r].status /\ rows'[r].due = rows[r].due
               /\ rows'[r].attempts = 0 /\ rows'[r].delivered = rows[r].delivered
               /\ rows'[r].reported = (rows[r].reported \/ r \in Retired)
    <3>1. CASE r \in Retired
      <4>1. rows'[r] = MarkReported(rows[r])
        BY <3>1 DEF RecordSummary
      <4>2. rows[r] \in Row
        BY DEF TypeOK
      <4> QED
        BY <3>1, <4>1, <4>2 DEF MarkReported, Row
    <3>2. CASE r \notin Retired
      <4>1. rows'[r] = ScheduleRetry(rows[r], tick.instant + RetryFloor)
        BY <2>2, <3>2 DEF RecordSummary
      <4> QED
        BY <3>2, <4>1 DEF ScheduleRetry, TypeOK, Row
    <3> QED
      BY <3>1, <3>2
  <2> QED
    BY <2>1, <2>2 DEF RecordSummary, TypeOK, Row
<1>3. TickOK'
  BY <1>0, <1>1, <1>2 DEF Typed, TickOK, ToSend, OwedStatus, NoTick
<1>4. ASSUME NEW r \in Id PROVE RowOK(r)'
  <2> RowOK(r)
    OBVIOUS
  <2>1. rows'[r].reported => rows'[r].status \in OwedStatus
    BY <1>0, <1>1, <1>2 DEF Typed, RowOK, TickOK, ToSend, OwedStatus
  <2>2. \/ rows'[r].attempts <= Interruptions' + Charge(r)'
        \/ rows'[r].status = "cancelled" /\ rows'[r].due <= clock'
    <3>1. Charge(r)' = 0
      BY <1>1 DEF Charge, ToSend, NoTick
    <3>2. CASE r \in tick.report
      BY <1>0, <1>1, <1>2, <3>1, <3>2 DEF Typed, Interruptions
    <3>3. CASE r \notin tick.report
      <4>1. tick.deliveries = {} /\ tick.current = NoId
        BY <1>0, <1>1 DEF Typed, TickOK
      <4>2. Charge(r) = 0
        BY <3>3, <4>1 DEF Charge, ToSend
      <4> QED
        BY <1>1, <1>2, <3>1, <3>3, <4>2 DEF RowOK, Interruptions
    <3> QED
      BY <3>2, <3>3
  <2>3. seen'[r].confirmed <= Interruptions' + Copy(r)'
    BY <1>0, <1>1, <1>2 DEF Typed, RowOK, TickOK, ToSend, Copy, ConfirmedNow, Delivered, DeliveredStatus, Interruptions, NoTick
  <2>4. ConfirmedNow(r)' => seen'[r].confirmed > 0
    BY <1>0, <1>1, <1>2 DEF Typed, RowOK, ConfirmedNow, NoTick
  <2> QED
    BY <2>1, <2>2, <2>3, <2>4 DEF RowOK
<1>5. DeliveredInWindow'
  BY <1>0, <1>1, <1>2 DEF Typed, DeliveredInWindow, Delivered, DeliveredStatus, TickOK, ToSend
<1>6. NoSilentLoss'
  BY <1>0, <1>1, <1>2 DEF Typed, NoSilentLoss, RowOK, ConfirmedNow, Delivered, DeliveredStatus, TickOK, Interruptions
<1>7. OutageNeverAbandons'
  BY <1>0, <1>1, <1>2 DEF Typed, OutageNeverAbandons, Interruptions
<1>8. ReceiptsAreCommitted'
  BY <1>1, <1>2 DEF ReceiptsAreCommitted
<1> QED
  BY <1>3, <1>4, <1>5, <1>6, <1>7, <1>8

LEMMA EndTickPreserves ==
  ASSUME IInv, TypeOK', EndTick
  PROVE  IInv'
<1> USE RemindersAssumption DEF IInv
<1>0. Typed /\ Typed'
  BY TypedOK
<1>1. tick.deliveries = {} /\ tick.report = {} /\ tick' = NoTick /\ tick.phase = "deliver"
  BY DEF EndTick
<1>2. UNCHANGED <<clock, rows, seen, audit, crashes, faults>>
  BY DEF EndTick
<1>3. TickOK'
  BY <1>0, <1>1, <1>2 DEF Typed, TickOK, ToSend, OwedStatus, NoTick
<1>4. ASSUME NEW r \in Id PROVE RowOK(r)'
  <2> RowOK(r)
    OBVIOUS
  <2>1. rows'[r].reported => rows'[r].status \in OwedStatus
    BY <1>0, <1>1, <1>2 DEF Typed, RowOK, TickOK, ToSend, OwedStatus
  <2>2. \/ rows'[r].attempts <= Interruptions' + Charge(r)'
        \/ rows'[r].status = "cancelled" /\ rows'[r].due <= clock'
    <3>1. tick.current = NoId
      BY <1>0, <1>1 DEF Typed
    <3>2. Charge(r) = 0 /\ Charge(r)' = 0
      BY <1>1, <3>1 DEF Charge, ToSend, NoTick
    <3> QED
      BY <1>2, <3>2 DEF RowOK, Interruptions
  <2>3. seen'[r].confirmed <= Interruptions' + Copy(r)'
    BY <1>0, <1>1, <1>2 DEF Typed, RowOK, TickOK, ToSend, Copy, ConfirmedNow, Delivered, DeliveredStatus, Interruptions, NoTick
  <2>4. ConfirmedNow(r)' => seen'[r].confirmed > 0
    BY <1>0, <1>1, <1>2 DEF Typed, RowOK, ConfirmedNow, NoTick
  <2> QED
    BY <2>1, <2>2, <2>3, <2>4 DEF RowOK
<1>5. DeliveredInWindow'
  BY <1>0, <1>1, <1>2 DEF Typed, DeliveredInWindow, Delivered, DeliveredStatus, TickOK, ToSend
<1>6. NoSilentLoss'
  BY <1>0, <1>1, <1>2 DEF Typed, NoSilentLoss, RowOK, ConfirmedNow, Delivered, DeliveredStatus, TickOK, Interruptions
<1>7. OutageNeverAbandons'
  BY <1>0, <1>1, <1>2 DEF Typed, OutageNeverAbandons, Interruptions
<1>8. ReceiptsAreCommitted'
  BY <1>0, <1>1, <1>2 DEF ReceiptsAreCommitted, TickOK, ToSend, OwedStatus, DeliveredStatus, Transition
<1> QED
  BY <1>3, <1>4, <1>5, <1>6, <1>7, <1>8

LEMMA AdvancePreserves ==
  ASSUME IInv, TypeOK', Advance
  PROVE  IInv'
<1> USE RemindersAssumption DEF IInv
<1>0. Typed /\ Typed'
  BY TypedOK
<1>1. clock' = clock + 1
  BY DEF Advance
<1>2. UNCHANGED <<rows, tick, seen, audit, crashes, faults>>
  BY DEF Advance
<1>3. TickOK'
  BY <1>0, <1>1, <1>2 DEF Typed, TickOK, ToSend, OwedStatus, NoTick
<1>4. ASSUME NEW r \in Id PROVE RowOK(r)'
  <2> RowOK(r)
    OBVIOUS
  <2>1. rows'[r].reported => rows'[r].status \in OwedStatus
    BY <1>0, <1>1, <1>2 DEF Typed, RowOK, TickOK, ToSend, OwedStatus
  <2>2. \/ rows'[r].attempts <= Interruptions' + Charge(r)'
        \/ rows'[r].status = "cancelled" /\ rows'[r].due <= clock'
    BY <1>0, <1>1, <1>2 DEF Typed, RowOK, TickOK, ToSend, Charge, Interruptions, NoTick
  <2>3. seen'[r].confirmed <= Interruptions' + Copy(r)'
    BY <1>0, <1>1, <1>2 DEF Typed, RowOK, TickOK, ToSend, Copy, ConfirmedNow, Delivered, DeliveredStatus, Interruptions, NoTick
  <2>4. ConfirmedNow(r)' => seen'[r].confirmed > 0
    BY <1>0, <1>1, <1>2 DEF Typed, RowOK, ConfirmedNow, NoTick
  <2> QED
    BY <2>1, <2>2, <2>3, <2>4 DEF RowOK
<1>5. DeliveredInWindow'
  BY <1>0, <1>1, <1>2 DEF Typed, DeliveredInWindow, Delivered, DeliveredStatus, TickOK, ToSend
<1>6. NoSilentLoss'
  BY <1>0, <1>1, <1>2 DEF Typed, NoSilentLoss, RowOK, ConfirmedNow, Delivered, DeliveredStatus, TickOK, Interruptions
<1>7. OutageNeverAbandons'
  BY <1>0, <1>1, <1>2 DEF Typed, OutageNeverAbandons, Interruptions
<1>8. ReceiptsAreCommitted'
  BY <1>0, <1>1, <1>2 DEF ReceiptsAreCommitted, TickOK, ToSend, OwedStatus, DeliveredStatus, Transition
<1> QED
  BY <1>3, <1>4, <1>5, <1>6, <1>7, <1>8

LEMMA InterruptionPreserves ==
  ASSUME IInv, TypeOK', StoreFault \/ Crash
  PROVE  IInv'
<1> USE RemindersAssumption DEF IInv
<1>0. Typed /\ Typed'
  BY TypedOK
<1>1. tick' = NoTick /\ UNCHANGED <<clock, rows, seen, audit>>
  BY DEF StoreFault, Crash
<1>2. Interruptions' = Interruptions + 1 /\ Interruptions \in Nat
  <2>1. crashes \in Nat /\ faults \in Nat
    BY <1>0 DEF Typed
  <2>2. CASE StoreFault
    BY <2>1, <2>2 DEF StoreFault, Interruptions
  <2>3. CASE Crash
    BY <2>1, <2>3 DEF Crash, Interruptions
  <2> QED
    BY <2>2, <2>3
<1>3. TickOK'
  BY <1>0, <1>1, <1>2 DEF Typed, TickOK, ToSend, OwedStatus, NoTick
<1>4. ASSUME NEW r \in Id PROVE RowOK(r)'
  <2> RowOK(r)
    OBVIOUS
  <2>1. rows'[r].reported => rows'[r].status \in OwedStatus
    BY <1>0, <1>1, <1>2 DEF Typed, RowOK, TickOK, ToSend, OwedStatus
  <2>2. \/ rows'[r].attempts <= Interruptions' + Charge(r)'
        \/ rows'[r].status = "cancelled" /\ rows'[r].due <= clock'
    <3>1. Charge(r) \in {0, 1} /\ Charge(r)' = 0
      BY <1>1 DEF Charge, ToSend, NoTick
    <3> QED
      BY <1>0, <1>1, <1>2, <3>1 DEF Typed, RowOK
  <2>3. seen'[r].confirmed <= Interruptions' + Copy(r)'
    <3>1. Copy(r) \in {0, 1} /\ Copy(r)' \in {0, 1}
      BY DEF Copy
    <3>2. seen[r].confirmed <= Interruptions + Copy(r) /\ seen[r].confirmed \in Nat
      BY <1>0 DEF Typed, RowOK
    <3> QED
      BY <1>1, <1>2, <3>1, <3>2
  <2>4. ConfirmedNow(r)' => seen'[r].confirmed > 0
    BY <1>0, <1>1, <1>2 DEF Typed, RowOK, ConfirmedNow, NoTick
  <2> QED
    BY <2>1, <2>2, <2>3, <2>4 DEF RowOK
<1>5. DeliveredInWindow'
  BY <1>0, <1>1, <1>2 DEF Typed, DeliveredInWindow, Delivered, DeliveredStatus, TickOK, ToSend
<1>6. NoSilentLoss'
  BY <1>1, <1>2 DEF NoSilentLoss, Delivered
<1>7. OutageNeverAbandons'
  BY <1>1, <1>2 DEF OutageNeverAbandons
<1>8. ReceiptsAreCommitted'
  BY <1>0, <1>1, <1>2 DEF ReceiptsAreCommitted, TickOK, ToSend, OwedStatus, DeliveredStatus, Transition
<1> QED
  BY <1>3, <1>4, <1>5, <1>6, <1>7, <1>8

\* What the grace pass and the selection that follows it find, row by row.
LEMMA SelectionFacts ==
  ASSUME IInv, NEW r \in Id, NEW now \in Nat
  PROVE  /\ IF r \in SelectPastGrace(rows, now)
              THEN /\ rows[r].status = "pending"
                   /\ AfterGrace(now)[r].status = "missed" /\ AfterGrace(now)[r].attempts = 0
                   /\ ~AfterGrace(now)[r].reported
                   /\ AfterGrace(now)[r].due = rows[r].due
                   /\ AfterGrace(now)[r].delivered = rows[r].delivered
              ELSE AfterGrace(now)[r] = rows[r]
         /\ r \in DueRows(now) =>
              /\ rows[r].status = "pending" /\ AfterGrace(now)[r] = rows[r]
              /\ rows[r].due <= now /\ now <= rows[r].due + Grace
         /\ r \in ReportRows(now) =>
              AfterGrace(now)[r].status \in OwedStatus /\ ~AfterGrace(now)[r].reported
<1> USE RemindersAssumption DEF IInv
<1>0. Typed
  BY TypedOK
<1>1. IF r \in SelectPastGrace(rows, now)
        THEN /\ rows[r].status = "pending"
             /\ AfterGrace(now)[r].status = "missed" /\ AfterGrace(now)[r].attempts = 0
             /\ ~AfterGrace(now)[r].reported
             /\ AfterGrace(now)[r].due = rows[r].due
             /\ AfterGrace(now)[r].delivered = rows[r].delivered
        ELSE AfterGrace(now)[r] = rows[r]
  BY DEF AfterGrace, GiveUpOn, SelectPastGrace, TypeOK, Row
<1>2. ASSUME r \in DueRows(now)
      PROVE  /\ rows[r].status = "pending" /\ AfterGrace(now)[r] = rows[r]
             /\ rows[r].due <= now /\ now <= rows[r].due + Grace
  <2>1. AfterGrace(now)[r].status = "pending" /\ AfterGrace(now)[r].due <= now
    BY <1>2 DEF DueRows, Oldest, SelectDue
  <2>2. r \notin SelectPastGrace(rows, now)
    BY <1>1, <2>1
  <2> QED
    BY <1>0, <1>1, <2>1, <2>2 DEF SelectPastGrace, Typed
<1>3. ASSUME r \in ReportRows(now)
      PROVE  AfterGrace(now)[r].status \in OwedStatus /\ ~AfterGrace(now)[r].reported
  BY <1>3 DEF ReportRows, SelectReportable
<1> QED
  BY <1>1, <1>2, <1>3

\* What the pre-work transaction does to one row, and what the tick may rely on.
PreWorkMove(r) ==
  /\ rows'[r].due = rows[r].due /\ rows'[r].delivered = rows[r].delivered
  /\ IF rows[r].status = "pending"
       THEN rows'[r].status \in {"pending", "missed", "abandoned"}
       ELSE rows'[r].status = rows[r].status
  /\ rows'[r].reported =>
       /\ rows'[r].status \in OwedStatus
       /\ rows[r].reported \/ Interruptions >= CrashLimit - 1
  /\ rows'[r].status = "abandoned" =>
       rows[r].status = "abandoned" \/ Interruptions >= CrashLimit - 1
  /\ \/ rows'[r].attempts <= Interruptions
     \/ /\ rows'[r].attempts <= Interruptions + 1
        /\ r \in tick'.deliveries \cup tick'.report
     \/ rows'[r].status = "cancelled" /\ rows[r].due <= clock
  /\ r \in tick'.deliveries =>
       /\ rows'[r].status = "pending"
       /\ rows[r].due <= clock /\ clock <= rows[r].due + Grace
  /\ r \in tick'.report => rows'[r].status \in OwedStatus /\ ~rows'[r].reported
  /\ <<r, "missed">> \in tick'.receipts => rows'[r].status = "missed"
  /\ <<r, "abandoned">> \in tick'.receipts => rows'[r].status = "abandoned"

LEMMA PreWorkMoves ==
  ASSUME IInv, PreWork, NEW r \in Id
  PROVE  PreWorkMove(r)
<1> DEFINE g == AfterGrace(clock)[r]
           exhausted == r \in Exhausted(AfterGrace(clock))
<1> USE RemindersAssumption DEF IInv
<1>0. Typed /\ clock \in Nat
  BY TypedOK DEF TypeOK
<1>1. /\ tick'.deliveries = DueRows(clock) \ Abandoned(clock)
      /\ tick'.report = (ReportRows(clock) \ Unreportable(clock)) \cup Abandoned(clock)
      /\ tick'.receipts = (SelectPastGrace(rows, clock) \X {"missed"})
                            \cup (Abandoned(clock) \X {"abandoned"})
  BY DEF PreWork
<1>2. /\ r \in Abandoned(clock) <=> r \in DueRows(clock) /\ exhausted
      /\ r \in Unreportable(clock) <=> r \in ReportRows(clock) /\ exhausted
  BY DEF Abandoned, Unreportable
<1>3. /\ IF r \in SelectPastGrace(rows, clock)
           THEN /\ rows[r].status = "pending" /\ g.status = "missed" /\ g.attempts = 0
                /\ ~g.reported /\ g.due = rows[r].due /\ g.delivered = rows[r].delivered
           ELSE g = rows[r]
      /\ r \in DueRows(clock) =>
           /\ rows[r].status = "pending" /\ g = rows[r]
           /\ rows[r].due <= clock /\ clock <= rows[r].due + Grace
      /\ r \in ReportRows(clock) => g.status \in OwedStatus /\ ~g.reported
  BY <1>0, SelectionFacts
<1>4. \/ rows[r].attempts <= Interruptions
      \/ rows[r].status = "cancelled" /\ rows[r].due <= clock
  <2>1. tick = NoTick
    BY DEF PreWork, TickOK
  <2>2. Charge(r) = 0
    BY <2>1 DEF Charge, ToSend, NoTick
  <2> QED
    BY <1>0, <2>2 DEF RowOK, Typed, Interruptions
<1>5. Interruptions \in Nat /\ g.attempts \in Nat /\ rows[r].attempts \in Nat
  BY <1>0, <1>3 DEF Interruptions, Typed
<1>6. exhausted <=> g.attempts + 1 >= CrashLimit
  BY DEF Exhausted
<1>7. g.status # "cancelled" => g.attempts <= Interruptions
  BY <1>3, <1>4, <1>5
<1>8. g \in Row
  <2>1. AfterGrace(clock) \in [Id -> Row]
    BY <1>0, WritersType DEF TypeOK, AfterGrace
  <2> QED
    BY <2>1
<1>9. rows[r].reported => rows[r].status \in OwedStatus
  BY DEF RowOK
<1>10. CASE r \in Abandoned(clock)
  <2>0. r \notin Unreportable(clock)
    BY <1>2, <1>3, <1>10 DEF OwedStatus
  <2>1. rows'[r] = GiveUpOn(g, "abandoned", clock)
    BY <1>10, <2>0 DEF PreWork, AfterPreWork
  <2>2. /\ rows'[r].status = "abandoned" /\ rows'[r].attempts = 0 /\ ~rows'[r].reported
        /\ rows'[r].due = g.due /\ rows'[r].delivered = g.delivered
    BY <1>8, <2>1 DEF GiveUpOn, Row
  <2>3. r \in DueRows(clock) /\ Interruptions >= CrashLimit - 1
    BY <1>2, <1>3, <1>5, <1>6, <1>7, <1>10
  <2>4. r \notin SelectPastGrace(rows, clock) /\ r \notin tick'.deliveries
    BY <1>1, <1>3, <1>10, <2>3
  <2> QED
    BY <1>1, <1>3, <1>5, <2>2, <2>3, <2>4 DEF PreWorkMove, OwedStatus
<1>11. CASE r \in Unreportable(clock)
  <2>1. r \in ReportRows(clock) /\ r \notin DueRows(clock) /\ r \notin Abandoned(clock)
    BY <1>2, <1>3, <1>11 DEF OwedStatus
  <2>2. rows'[r] = MarkReported(g)
    BY <1>11, <2>1 DEF PreWork, AfterPreWork
  <2>3. /\ rows'[r].status = g.status /\ rows'[r].attempts = 0
        /\ rows'[r].due = g.due /\ rows'[r].delivered = g.delivered
    BY <1>8, <2>2 DEF MarkReported, Row
  <2>4. Interruptions >= CrashLimit - 1
    BY <1>2, <1>3, <1>5, <1>6, <1>7, <1>11, <2>1 DEF OwedStatus
  <2>5. r \notin tick'.deliveries /\ r \notin tick'.report
    BY <1>1, <1>11, <2>1
  <2> QED
    BY <1>1, <1>3, <1>5, <2>1, <2>3, <2>4, <2>5 DEF PreWorkMove, OwedStatus
<1>12. CASE r \in (DueRows(clock) \cup ReportRows(clock)) \ (Abandoned(clock) \cup Unreportable(clock))
  <2>1. rows'[r] = [g EXCEPT !.attempts = @ + 1]
    BY <1>12 DEF PreWork, AfterPreWork
  <2>2. /\ rows'[r].status = g.status /\ rows'[r].attempts = g.attempts + 1
        /\ rows'[r].reported = g.reported
        /\ rows'[r].due = g.due /\ rows'[r].delivered = g.delivered
    BY <1>8, <2>1 DEF Row
  <2>3. r \in tick'.deliveries \cup tick'.report
    BY <1>1, <1>12
  <2>4. g.attempts <= Interruptions
    BY <1>3, <1>7, <1>12 DEF OwedStatus
  <2>5. r \in tick'.deliveries => r \in DueRows(clock)
    BY <1>1
  <2>6. r \in tick'.report => r \in ReportRows(clock)
    BY <1>1, <1>12
  <2> QED
    BY <1>1, <1>3, <1>5, <1>9, <1>12, <2>2, <2>3, <2>4, <2>5, <2>6 DEF PreWorkMove, OwedStatus
<1>13. CASE r \notin Abandoned(clock) /\ r \notin Unreportable(clock)
            /\ r \notin DueRows(clock) /\ r \notin ReportRows(clock)
  <2>1. rows'[r] = g
    BY <1>13 DEF PreWork, AfterPreWork
  <2>2. r \notin tick'.deliveries /\ r \notin tick'.report
    BY <1>1, <1>13
  <2> QED
    BY <1>1, <1>3, <1>4, <1>5, <1>9, <1>13, <2>1, <2>2 DEF PreWorkMove, OwedStatus
<1> QED
  BY <1>10, <1>11, <1>12, <1>13

LEMMA PreWorkPreserves ==
  ASSUME IInv, TypeOK', PreWork
  PROVE  IInv'
<1> USE RemindersAssumption DEF IInv
<1>0. Typed /\ Typed'
  BY TypedOK
<1>1. \A r \in Id : PreWorkMove(r)
  BY PreWorkMoves
<1>2. /\ UNCHANGED <<clock, seen, audit, crashes, faults>>
      /\ tick'.phase = "receipts" /\ tick'.instant = clock /\ tick'.current = NoId
      /\ tick.phase = "idle"
      /\ ToSend' = tick'.deliveries
  BY DEF PreWork, ToSend
<1>3. TickOK'
  <2>1. \A r \in Id, t \in Transition :
          <<r, t>> \in tick'.receipts => t \in OwedStatus /\ rows'[r].status = t
    <3>1. tick'.receipts \subseteq Id \X {"missed", "abandoned"}
      BY DEF PreWork, SelectPastGrace, Abandoned, Exhausted
    <3> QED
      BY <1>1, <3>1 DEF PreWorkMove, OwedStatus
  <2>2. tick'.deliveries \subseteq Id /\ tick'.report \subseteq Id
    BY <1>0 DEF Typed
  <2>3. \A r \in ToSend' :
          /\ rows'[r].status \in {"pending", "cancelled"}
          /\ rows'[r].due <= tick'.instant /\ tick'.instant <= rows'[r].due + Grace
    BY <1>1, <1>2, <2>2 DEF PreWorkMove
  <2>4. \A r \in tick'.report : rows'[r].status \in OwedStatus /\ ~rows'[r].reported
    BY <1>1, <2>2 DEF PreWorkMove
  <2>5. tick'.instant <= clock' /\ tick'.current \notin tick'.deliveries
    BY <1>0, <1>2, <2>2 DEF Typed
  <2> QED
    BY <1>2, <2>1, <2>3, <2>4, <2>5 DEF TickOK
<1>4. ASSUME NEW r \in Id PROVE RowOK(r)'
  <2>1. PreWorkMove(r) /\ RowOK(r)
    BY <1>1
  <2>2. \/ rows'[r].attempts <= Interruptions' + Charge(r)'
        \/ rows'[r].status = "cancelled" /\ rows'[r].due <= clock'
    BY <1>0, <1>2, <2>1 DEF PreWorkMove, Charge, Interruptions, Typed
  <2>3. Delivered(r)' <=> Delivered(r)
    BY <2>1 DEF PreWorkMove, Delivered, DeliveredStatus
  <2>4. ~ConfirmedNow(r) /\ ~ConfirmedNow(r)'
    BY <1>2 DEF ConfirmedNow
  <2> QED
    BY <1>2, <2>1, <2>2, <2>3, <2>4 DEF RowOK, PreWorkMove, Copy, Interruptions
<1>5. \A r \in Id : Delivered(r)' => Delivered(r) /\ rows'[r].status = rows[r].status
  BY <1>1 DEF PreWorkMove, Delivered, DeliveredStatus
<1>6. DeliveredInWindow'
  BY <1>1, <1>5 DEF DeliveredInWindow, PreWorkMove
<1>7. NoSilentLoss'
  BY <1>1, <1>2, <1>5 DEF NoSilentLoss, PreWorkMove, Interruptions
<1>8. OutageNeverAbandons'
  BY <1>1, <1>2 DEF OutageNeverAbandons, PreWorkMove, Interruptions
<1>9. ReceiptsAreCommitted'
  BY <1>1, <1>2 DEF ReceiptsAreCommitted, PreWorkMove, OwedStatus, DeliveredStatus
<1> QED
  BY <1>3, <1>4, <1>6, <1>7, <1>8, <1>9

\* IInv is inductive.
LEMMA Inductive == IInv /\ [Next]_vars => IInv'
<1> SUFFICES ASSUME IInv, [Next]_vars PROVE IInv'
  OBVIOUS
<1>0. TypeOK'
  BY TypeStep DEF IInv
<1>1. CASE Owner
  BY <1>0, <1>1, OwnerSteps
<1>2. CASE EmptyTick \/ UNCHANGED vars
  <2>1. UNCHANGED vars
    BY <1>2 DEF EmptyTick
  <2> QED
    BY <2>1 DEF IInv, vars, TypeOK, TickOK, ToSend, RowOK, Charge, Copy, ConfirmedNow, Delivered,
       Interruptions, DeliveredInWindow, NoSilentLoss, OutageNeverAbandons, ReceiptsAreCommitted
<1>3. CASE PreWork
  BY <1>0, <1>3, PreWorkPreserves
<1>4. CASE WriteReceipts
  BY <1>0, <1>4, WriteReceiptsPreserves
<1>5. CASE Deliver
  BY <1>0, <1>5, SkipPreserves, DispatchPreserves, TransmitPreserves, RecordRetryPreserves,
     RecordDeliveryPreserves DEF Deliver
<1>6. CASE Report
  BY <1>0, <1>6, StartSummaryPreserves, TransmitSummaryPreserves, RecordSummaryPreserves DEF Report
<1>7. CASE EndTick
  BY <1>0, <1>7, EndTickPreserves
<1>8. CASE Advance
  BY <1>0, <1>8, AdvancePreserves
<1>9. CASE StoreFault \/ Crash
  BY <1>0, <1>9, InterruptionPreserves
<1> QED
  BY <1>1, <1>2, <1>3, <1>4, <1>5, <1>6, <1>7, <1>8, <1>9 DEF Next, Scheduler

LEMMA InitHolds == Init => IInv
<1> SUFFICES ASSUME Init PROVE IInv
  OBVIOUS
<1>1. TypeOK
  BY DEF Init, TypeOK, NoRow, Row, NoTick, Tick, Seen, Status, Phase, Outcome
<1>2. /\ clock = 0 /\ tick = NoTick /\ audit = {} /\ Interruptions = 0
      /\ \A r \in Id : /\ rows[r].status = "none" /\ rows[r].attempts = 0 /\ ~rows[r].reported
                       /\ seen[r].confirmed = 0
  BY DEF Init, NoRow, Interruptions
<1>3. TickOK
  BY <1>2 DEF TickOK, NoTick, ToSend
<1>4. \A r \in Id : RowOK(r)
  BY <1>2 DEF RowOK, Charge, Copy, ConfirmedNow, NoTick, Delivered, DeliveredStatus, ToSend
<1>5. DeliveredInWindow /\ NoSilentLoss /\ OutageNeverAbandons /\ ReceiptsAreCommitted
  BY <1>2 DEF DeliveredInWindow, NoSilentLoss, OutageNeverAbandons, ReceiptsAreCommitted,
     Delivered, DeliveredStatus
<1> QED
  BY <1>1, <1>3, <1>4, <1>5 DEF IInv

\* The inductive invariant holds in every reachable state.
THEOREM Invariance == Spec => []IInv
  BY InitHolds, Inductive, PTL DEF Spec

\* Reminders are recorded as delivered only within [due, due + grace], with the
\* right lateness (scheduler.py _pre_work, _deliver), for any configuration.
THEOREM DeliveryWindow == Spec => []DeliveredInWindow
<1>1. IInv => DeliveredInWindow
  BY DEF IInv
<1> QED
  BY <1>1, Invariance, PTL

\* No overdue reminder is lost silently, short of the crash bound (_pre_work, _report).
THEOREM SilentLoss == Spec => []NoSilentLoss
<1>1. IInv => NoSilentLoss
  BY DEF IInv
<1> QED
  BY <1>1, Invariance, PTL

\* Channel outages alone never abandon a reminder (charge_attempt, schedule_retry).
THEOREM Abandonment == Spec => []OutageNeverAbandons
<1>1. IInv => OutageNeverAbandons
  BY DEF IInv
<1> QED
  BY <1>1, Invariance, PTL

\* A confirmed reminder is repeated at most once per interrupted tick (_deliver).
THEOREM Duplicates == Spec => []NoDuplicateUnlessInterrupted
<1>1. IInv => NoDuplicateUnlessInterrupted
  <2> SUFFICES ASSUME IInv, NEW r \in Id PROVE seen[r].confirmed <= 1 + Interruptions
    BY DEF NoDuplicateUnlessInterrupted
  <2>1. Typed /\ Interruptions \in Nat
    BY TypedOK DEF IInv, Interruptions, Typed
  <2>2. seen[r].confirmed <= Interruptions + Copy(r) /\ Copy(r) \in {0, 1}
    BY DEF IInv, RowOK, Copy
  <2> QED
    BY <2>1, <2>2 DEF Typed
<1> QED
  BY <1>1, Invariance, PTL

\* The audit log claims only exits the store committed (_Tick.receipts, _receipt).
THEOREM Receipts == Spec => []ReceiptsAreCommitted
<1>1. IInv => ReceiptsAreCommitted
  BY DEF IInv
<1> QED
  BY <1>1, Invariance, PTL

-----------------------------------------------------------------------------
(* The pending cap *)

\* Only the owner's operations make a reminder pending.
LEMMA SchedulerAddsNoPending ==
  ASSUME IInv, TypeOK', Scheduler \/ Advance \/ StoreFault \/ Crash
  PROVE  Pending(rows') \subseteq Pending(rows)
<1> USE DEF IInv
<1>0. Typed
  BY TypedOK
<1> SUFFICES ASSUME NEW r \in Id, rows'[r].status = "pending"
             PROVE  rows[r].status = "pending"
  BY DEF Pending
<1>1. CASE UNCHANGED rows
  BY <1>1
<1>2. CASE PreWork
  BY <1>2, PreWorkMoves DEF PreWorkMove
<1>3. CASE RecordRetry
  BY <1>0, <1>3 DEF RecordRetry, ScheduleRetry, TypeOK, Row
<1>4. CASE RecordDelivery
  BY <1>0, <1>4 DEF RecordDelivery, MarkDelivered, TypeOK, Row
<1>5. CASE RecordSummary
  <2>1. \/ rows'[r] = rows[r] \/ rows'[r] = MarkReported(rows[r])
        \/ rows'[r] = ScheduleRetry(rows[r], tick.instant + RetryFloor)
    BY <1>5 DEF RecordSummary
  <2> QED
    BY <2>1 DEF MarkReported, ScheduleRetry, TypeOK, Row
<1>6. (Scheduler \/ Advance \/ StoreFault \/ Crash) =>
        UNCHANGED rows \/ PreWork \/ RecordRetry \/ RecordDelivery \/ RecordSummary
  BY DEF Scheduler, EmptyTick, vars, WriteReceipts, Deliver, Skip, Dispatch, Transmit, Report,
     StartSummary, TransmitSummary, EndTick, Advance, StoreFault, Crash
<1> QED
  BY <1>1, <1>2, <1>3, <1>4, <1>5, <1>6

LEMMA PendingFinite == \A rs : IsFiniteSet(Pending(rs)) /\ Cardinality(Pending(rs)) \in Nat
<1>1. IsFiniteSet(Id)
  BY FS_Interval, RemindersAssumption DEF Id
<1> QED
  BY <1>1, FS_Subset, FS_CardinalityType DEF Pending

\* The cap on pending reminders holds for any number of rows and any
\* interleaving: the check and the write are one transaction (schedule, reinstate).
THEOREM PendingCap == Spec => []PendingCapHolds
<1>1. Init => PendingCapHolds
  <2> SUFFICES ASSUME Init PROVE Cardinality(Pending(rows)) <= MaxPending
    BY DEF PendingCapHolds
  <2>1. Pending(rows) = {}
    BY DEF Init, Pending, NoRow
  <2> QED
    BY <2>1, FS_EmptySet, RemindersAssumption
<1>2. IInv /\ IInv' /\ PendingCapHolds /\ [Next]_vars => PendingCapHolds'
  <2> SUFFICES ASSUME IInv, IInv', PendingCapHolds, [Next]_vars PROVE PendingCapHolds'
    OBVIOUS
  <2> USE RemindersAssumption
  <2>0. TypeOK /\ TypeOK'
    BY DEF IInv
  <2>1. CASE Pending(rows') \subseteq Pending(rows)
    <3>1. Cardinality(Pending(rows')) <= Cardinality(Pending(rows))
      BY <2>1, PendingFinite, FS_Subset
    <3> QED
      BY <3>1, PendingFinite DEF PendingCapHolds
  <2>2. ASSUME NEW r \in Id, Pending(rows') \subseteq Pending(rows) \cup {r},
               Cardinality(Pending(rows)) < MaxPending
        PROVE  PendingCapHolds'
    <3>1. /\ IsFiniteSet(Pending(rows) \cup {r})
          /\ Cardinality(Pending(rows) \cup {r}) <= Cardinality(Pending(rows)) + 1
      BY PendingFinite, FS_AddElement
    <3>2. Cardinality(Pending(rows')) <= Cardinality(Pending(rows) \cup {r})
      BY <2>2, <3>1, FS_Subset
    <3> QED
      BY <2>2, <3>1, <3>2, PendingFinite, FS_CardinalityType DEF PendingCapHolds
  <2>3. CASE Schedule
    <3>1. PICK r \in Id, due \in 0..Horizon : rows' = [rows EXCEPT ![r] = NewRow(due)]
      BY <2>3 DEF Schedule
    <3>2. Pending(rows') \subseteq Pending(rows) \cup {r}
      BY <2>0, <3>1 DEF Pending, TypeOK
    <3> QED
      BY <2>2, <2>3, <3>2 DEF Schedule
  <2>4. ASSUME NEW r \in Id, Cancel(r) PROVE PendingCapHolds'
    <3>1. Pending(rows') \subseteq Pending(rows)
      BY <2>0, <2>4 DEF Cancel, Pending, TypeOK, Row
    <3> QED
      BY <2>1, <3>1
  <2>5. ASSUME NEW r \in Id, Reinstate(r) PROVE PendingCapHolds'
    <3>1. Pending(rows') \subseteq Pending(rows) \cup {r}
      BY <2>0, <2>5 DEF Reinstate, Pending, TypeOK
    <3> QED
      BY <2>2, <2>5, <3>1 DEF Reinstate
  <2>6. CASE Surface
    <3>1. \A r \in Id : rows'[r] = rows[r] \/ rows'[r] = [rows[r] EXCEPT !.surfaced = TRUE]
      BY <2>6 DEF Surface
    <3>2. Pending(rows') \subseteq Pending(rows)
      BY <2>0, <3>1 DEF Pending, TypeOK, Row
    <3> QED
      BY <2>1, <3>2
  <2>7. CASE Scheduler \/ Advance \/ StoreFault \/ Crash
    BY <2>0, <2>1, <2>7, SchedulerAddsNoPending
  <2>8. CASE UNCHANGED vars
    BY <2>8 DEF vars, PendingCapHolds
  <2> QED
    BY <2>3, <2>4, <2>5, <2>6, <2>7, <2>8 DEF Next, Owner
<1> QED
  BY <1>1, <1>2, Invariance, PTL DEF Spec

-----------------------------------------------------------------------------
(* The owner's cancellation *)

\* A cancelled reminder is never dispatched, even when the tick had selected it
\* before the owner cancelled it (scheduler.py _deliver's re-read).
THEOREM CancelledUnsent == Spec => CancelledStaysUnsent
<1>1. ASSUME IInv, [Next]_vars, NEW r \in Id, rows[r].status = "cancelled"
      PROVE  seen'[r].dispatched = seen[r].dispatched
  <2> TypeOK
    BY <1>1 DEF IInv
  <2>1. CASE UNCHANGED seen
    BY <2>1
  <2>2. CASE Dispatch
    <3>1. PICK s \in tick.deliveries :
             rows[s].status = "pending" /\ seen' = [seen EXCEPT ![s].dispatched = @ + 1]
      BY <2>2 DEF Dispatch, Oldest
    <3>2. r # s
      BY <1>1, <3>1
    <3> QED
      BY <3>1, <3>2 DEF TypeOK
  <2>3. ASSUME NEW o \in Outcome, Transmit(o)
        PROVE  seen'[r].dispatched = seen[r].dispatched
    BY <2>3 DEF Transmit, Heard, TypeOK, Seen
  <2>4. ASSUME NEW o \in Outcome, TransmitSummary(o)
        PROVE  seen'[r].dispatched = seen[r].dispatched
    BY <2>4 DEF TransmitSummary, Named, TypeOK, Seen
  <2>5. \/ UNCHANGED seen \/ Dispatch
        \/ \E o \in Outcome : Transmit(o) \/ TransmitSummary(o)
    BY <1>1 DEF Next, Owner, Schedule, Cancel, Reinstate, Surface, Scheduler, EmptyTick, PreWork,
       WriteReceipts, Deliver, Skip, RecordRetry, RecordDelivery, Report, StartSummary,
       RecordSummary, EndTick, Advance, StoreFault, Crash, vars
  <2> QED
    BY <2>1, <2>2, <2>3, <2>4, <2>5
<1>2. IInv /\ [Next]_vars =>
        [\A r \in Id : rows[r].status = "cancelled" =>
           seen'[r].dispatched = seen[r].dispatched]_vars
  BY <1>1
<1> QED
  BY <1>2, Invariance, PTL DEF Spec, CancelledStaysUnsent

-----------------------------------------------------------------------------
(* What one pre-work transaction makes of a row *)

\* Nothing; given up; charged with a delivery; or, already owed, charged with a
\* report or closed.  A row missed now is closed in the same transaction only if
\* one attempt is all there is.
Untouched(r) == rows'[r] = rows[r] /\ r \notin tick'.deliveries \cup tick'.report

GivenUp(r) ==
  /\ rows[r].status = "pending" /\ rows[r].due <= clock
  /\ rows'[r].status \in OwedStatus /\ rows'[r].due = rows[r].due /\ rows'[r].next = clock
  /\ rows'[r].reported => CrashLimit = 1
  /\ r \notin tick'.deliveries

Selected(r) ==
  /\ rows[r].status = "pending" /\ rows[r].due <= clock
  /\ rows'[r].status = "pending" /\ rows'[r].due = rows[r].due
  /\ rows'[r].next = rows[r].next /\ rows'[r].reported = rows[r].reported
  /\ rows'[r].attempts = rows[r].attempts + 1 /\ rows[r].attempts + 1 < CrashLimit
  /\ r \in tick'.deliveries /\ r \notin tick'.report

Considered(r) ==
  /\ Owed(r) /\ rows[r].next <= clock
  /\ rows'[r].status = rows[r].status /\ rows'[r].due = rows[r].due
  /\ rows'[r].next = rows[r].next
  /\ r \notin tick'.deliveries
  /\ r \in tick'.report => ~rows'[r].reported

PreWorkFate(r) == Untouched(r) \/ GivenUp(r) \/ Selected(r) \/ Considered(r)

LEMMA PreWorkFates ==
  ASSUME IInv, PreWork, NEW r \in Id
  PROVE  PreWorkFate(r) /\ (r \in tick'.notice => rows[r].next <= rows[r].due)
<1> DEFINE g == AfterGrace(clock)[r]
           exhausted == g.attempts + 1 >= CrashLimit
<1> USE RemindersAssumption DEF IInv
<1>0. Typed /\ clock \in Nat
  BY TypedOK DEF TypeOK
<1>1. /\ tick'.deliveries = DueRows(clock) \ Abandoned(clock)
      /\ tick'.report = (ReportRows(clock) \ Unreportable(clock)) \cup Abandoned(clock)
      /\ tick'.notice = {s \in DueRows(clock) : rows[s].next <= rows[s].due}
  BY DEF PreWork
<1>2. /\ r \in Abandoned(clock) <=> r \in DueRows(clock) /\ exhausted
      /\ r \in Unreportable(clock) <=> r \in ReportRows(clock) /\ exhausted
  BY DEF Abandoned, Unreportable, Exhausted
<1>3. g \in Row
  <2>1. AfterGrace(clock) \in [Id -> Row]
    BY <1>0, WritersType DEF TypeOK, AfterGrace
  <2> QED
    BY <2>1
<1>4. IF r \in SelectPastGrace(rows, clock)
        THEN /\ rows[r].status = "pending" /\ rows[r].due <= clock
             /\ g.status = "missed" /\ g.attempts = 0 /\ ~g.reported
             /\ g.due = rows[r].due /\ g.next = clock
        ELSE g = rows[r]
  BY <1>0 DEF AfterGrace, GiveUpOn, SelectPastGrace, TypeOK, Row, Typed
<1>5. /\ r \in DueRows(clock) =>
           rows[r].status = "pending" /\ g = rows[r] /\ rows[r].due <= clock
      /\ r \in ReportRows(clock) => g.status \in OwedStatus /\ ~g.reported
  BY <1>0, SelectionFacts
<1>6. r \in ReportRows(clock) => g.next <= clock
  BY DEF ReportRows, SelectReportable
<1>7. CASE r \in Abandoned(clock)
  <2>0. r \notin Unreportable(clock)
    BY <1>2, <1>5, <1>7 DEF OwedStatus
  <2>1. rows'[r] = GiveUpOn(g, "abandoned", clock)
    BY <1>7, <2>0 DEF PreWork, AfterPreWork
  <2>2. /\ rows'[r].status = "abandoned" /\ ~rows'[r].reported
        /\ rows'[r].due = g.due /\ rows'[r].next = clock
    BY <1>3, <2>1 DEF GiveUpOn, Row
  <2> QED
    BY <1>1, <1>2, <1>5, <1>7, <2>2 DEF PreWorkFate, GivenUp, OwedStatus
<1>8. CASE r \in Unreportable(clock)
  <2>1. r \in ReportRows(clock) /\ r \notin DueRows(clock) /\ r \notin Abandoned(clock)
    BY <1>2, <1>5, <1>8 DEF OwedStatus
  <2>2. rows'[r] = MarkReported(g)
    BY <1>8, <2>1 DEF PreWork, AfterPreWork
  <2>3. rows'[r].status = g.status /\ rows'[r].due = g.due /\ rows'[r].next = g.next
    BY <1>3, <2>2 DEF MarkReported, Row
  <2>4. r \notin tick'.deliveries /\ r \notin tick'.report
    BY <1>1, <1>8, <2>1
  <2>5. CASE r \in SelectPastGrace(rows, clock)
    <3>1. CrashLimit = 1
      BY <1>2, <1>4, <1>8, <2>5
    <3> QED
      BY <1>1, <1>5, <1>4, <2>3, <2>4, <2>5, <3>1, <2>1 DEF PreWorkFate, GivenUp, OwedStatus
  <2>6. CASE r \notin SelectPastGrace(rows, clock)
    BY <1>4, <1>5, <1>6, <2>1, <2>3, <2>4, <2>6, <1>1 DEF PreWorkFate, Considered, Owed
  <2> QED
    BY <2>5, <2>6
<1>9. CASE r \in (DueRows(clock) \cup ReportRows(clock)) \ (Abandoned(clock) \cup Unreportable(clock))
  <2>1. rows'[r] = [g EXCEPT !.attempts = @ + 1]
    BY <1>9 DEF PreWork, AfterPreWork
  <2>2. /\ rows'[r].status = g.status /\ rows'[r].attempts = g.attempts + 1
        /\ rows'[r].reported = g.reported /\ rows'[r].due = g.due /\ rows'[r].next = g.next
    BY <1>3, <2>1 DEF Row
  <2>3. CASE r \in DueRows(clock)
    <3>1. r \notin ReportRows(clock)
      BY <1>5, <2>3 DEF OwedStatus
    <3>2. rows[r].attempts + 1 < CrashLimit
      BY <1>0, <1>2, <1>5, <1>9, <2>3 DEF Typed
    <3>3. r \in tick'.deliveries /\ r \notin tick'.report
      BY <1>1, <1>9, <2>3, <3>1
    <3> QED
      BY <1>1, <1>5, <2>2, <2>3, <3>2, <3>3 DEF PreWorkFate, Selected
  <2>4. CASE r \notin DueRows(clock)
    <3>1. r \in ReportRows(clock) /\ r \notin tick'.deliveries
      BY <1>1, <1>9, <2>4
    <3>2. CASE r \in SelectPastGrace(rows, clock)
      BY <1>1, <1>4, <1>5, <2>2, <2>4, <3>1, <3>2 DEF PreWorkFate, GivenUp, OwedStatus
    <3>3. CASE r \notin SelectPastGrace(rows, clock)
      BY <1>1, <1>4, <1>5, <1>6, <2>2, <2>4, <3>1, <3>3 DEF PreWorkFate, Considered, Owed
    <3> QED
      BY <3>2, <3>3
  <2> QED
    BY <2>3, <2>4
<1>10. CASE /\ r \notin Abandoned(clock) /\ r \notin Unreportable(clock)
            /\ r \notin DueRows(clock) /\ r \notin ReportRows(clock)
  <2>1. rows'[r] = g
    BY <1>10 DEF PreWork, AfterPreWork
  <2>2. r \notin tick'.deliveries /\ r \notin tick'.report
    BY <1>1, <1>10
  <2> QED
    BY <1>1, <1>4, <1>10, <2>1, <2>2 DEF PreWorkFate, Untouched, GivenUp, OwedStatus
<1> QED
  BY <1>7, <1>8, <1>9, <1>10

-----------------------------------------------------------------------------
(* How often the owner hears of a failing reminder *)

Alive(r) == rows[r].status \in {"pending", "cancelled"}

\* No attempt at it has been recorded: only such a row's failure has a notice.
Fresh(r) == rows[r].next <= rows[r].due

Unsent(r) == r \in ToSend /\ ~(tick.phase = "sent" /\ tick.current = r)

\* A notice costs an attempt, and the attempts stay below the crash bound.
NoticeOK(r) ==
  /\ seen[r].notices <= CrashLimit - 1
  /\ seen[r].notices > 0 => rows[r].due <= clock /\ rows[r].status # "none"
  /\ rows[r].status = "none" => rows[r].attempts = 0
  /\ Alive(r) => rows[r].attempts <= CrashLimit - 1
  /\ Alive(r) /\ Fresh(r) => seen[r].notices <= rows[r].attempts
  /\ Unsent(r) /\ r \in tick.notice => seen[r].notices + 1 <= rows[r].attempts

\* Floor intervals from a due instant to the end of its report horizon.
Intervals == (Grace + ReportHorizon) \div RetryFloor

JustNamed(r) ==
  IF tick.phase = "summarized" /\ tick.outcome # "FAILED" /\ r \in tick.report THEN 1 ELSE 0

\* The namings of r that were recorded, less those interruptions account for.
Rounds(r) == seen[r].named - JustNamed(r) - Interruptions

\* Each recorded naming that leaves a row owed moves its next one a floor on.
NamingOK(r) ==
  /\ seen[r].named > 0 => rows[r].status \in OwedStatus
  /\ r \in tick.report => rows[r].next <= tick.instant
  /\ Owed(r) => /\ Rounds(r) <= Intervals + 1
                /\ Rounds(r) * RetryFloor <= rows[r].next - rows[r].due
  /\ seen[r].named <= Intervals + 2 + Interruptions

CountsOK == \A r \in Id : NoticeOK(r) /\ NamingOK(r)

\* The columns and counters this section is about.
CountsTyped ==
  /\ Typed /\ tick.notice \subseteq Id
  /\ \A r \in Id : rows[r].next \in Nat /\ seen[r].notices \in Nat

LEMMA CountsTypedOK == (TypeOK => CountsTyped) /\ (TypeOK' => CountsTyped')
<1>1. TypeOK => CountsTyped
  BY TypedOK DEF TypeOK, CountsTyped, Row, Tick, Seen
<1>2. TypeOK' => CountsTyped'
  BY TypedOK DEF TypeOK, CountsTyped, Row, Tick, Seen
<1> QED
  BY <1>1, <1>2

\* As many floor intervals as fit below n are at most n \div RetryFloor.
LEMMA FloorsBelow ==
  ASSUME NEW n \in Nat, NEW x \in Int, x * RetryFloor <= n
  PROVE  x <= n \div RetryFloor
<1> DEFINE q == n \div RetryFloor
<1>1. RetryFloor \in Nat \ {0}
  BY RemindersAssumption
<1>2. q \in Nat /\ n < (q + 1) * RetryFloor
  <2>1. q \in Nat /\ n = q * RetryFloor + (n % RetryFloor) /\ n % RetryFloor \in 0..RetryFloor - 1
    BY <1>1
  <2> HIDE DEF q
  <2>2. (q + 1) * RetryFloor = q * RetryFloor + RetryFloor
    BY <1>1, <2>1
  <2>3. q * RetryFloor \in Int /\ (q + 1) * RetryFloor \in Int /\ n % RetryFloor \in Int
    BY <1>1, <2>1
  <2> QED
    BY <1>1, <2>1, <2>2, <2>3
<1>3. SUFFICES ASSUME x >= q + 1 PROVE FALSE
  BY <1>2
<1>4. x * RetryFloor >= (q + 1) * RetryFloor
  BY <1>1, <1>2, <1>3
<1> QED
  BY <1>1, <1>2, <1>4

LEMMA IntervalsType == Intervals \in Nat
<1>1. RetryFloor \in Nat \ {0} /\ Grace + ReportHorizon \in Nat
  BY RemindersAssumption
<1> QED
  BY <1>1 DEF Intervals

\* A step that sends nothing to the owner and records nothing.
LEMMA QuietNotices ==
  ASSUME CountsTyped, CountsTyped', NEW r \in Id, NoticeOK(r), rows' = rows, clock <= clock',
         seen'[r].notices = seen[r].notices,
         Unsent(r)' /\ r \in tick'.notice => Unsent(r) /\ r \in tick.notice
  PROVE  NoticeOK(r)'
  BY DEF NoticeOK, Alive, Fresh, CountsTyped, Typed

LEMMA NoticeKept ==
  ASSUME IInv, TypeOK', [Next]_vars, NEW r \in Id, NoticeOK(r)
  PROVE  NoticeOK(r)'
<1> USE RemindersAssumption
<1>0. CountsTyped /\ CountsTyped' /\ TypeOK /\ TickOK
  BY CountsTypedOK DEF IInv
<1>q. ASSUME rows' = rows, clock <= clock', seen'[r].notices = seen[r].notices,
             Unsent(r)' /\ r \in tick'.notice => Unsent(r) /\ r \in tick.notice
      PROVE  NoticeOK(r)'
  BY <1>0, <1>q, QuietNotices
<1>1. CASE Schedule
  <2>1. PICK s \in Id, due \in 0..Horizon :
           rows[s].status = "none" /\ rows' = [rows EXCEPT ![s] = NewRow(due)]
    BY <1>1 DEF Schedule
  <2>2. CASE r = s
    <3>1. rows'[r] = NewRow(due) /\ seen'[r].notices = 0 /\ ~Unsent(r)'
      BY <1>0, <1>1, <2>1, <2>2 DEF TypeOK, Schedule, NoticeOK, TickOK, Unsent, ToSend, CountsTyped
    <3> QED
      BY <3>1 DEF NoticeOK, NewRow, Alive, Fresh
  <2>3. CASE r # s
    BY <1>0, <1>1, <2>1, <2>3 DEF Schedule, TypeOK, NoticeOK, Alive, Fresh, Unsent, ToSend
  <2> QED
    BY <2>2, <2>3
<1>2. ASSUME NEW s \in Id, Cancel(s) PROVE NoticeOK(r)'
  <2>1. /\ rows'[r].due = rows[r].due /\ rows'[r].next = rows[r].next
        /\ rows'[r].attempts = rows[r].attempts
        /\ Alive(r)' <=> Alive(r)
        /\ rows'[r].status = "none" <=> rows[r].status = "none"
    BY <1>0, <1>2 DEF Cancel, TypeOK, Row, Alive
  <2> QED
    BY <1>2, <2>1 DEF Cancel, NoticeOK, Fresh, Unsent, ToSend
<1>3. ASSUME NEW s \in Id, Reinstate(s) PROVE NoticeOK(r)'
  <2>1. CASE r = s
    <3>1. /\ rows'[r].due = rows[r].due /\ rows'[r].attempts = rows[r].attempts
          /\ rows'[r].status = "pending" /\ rows[r].status = "cancelled"
          /\ rows[r].due > clock /\ seen' = seen
      BY <1>0, <1>3, <2>1 DEF Reinstate, ToPending, TypeOK, Row
    <3>2. seen[r].notices = 0 /\ r \notin ToSend /\ tick' = tick /\ clock' = clock
      BY <1>0, <1>3, <3>1 DEF NoticeOK, TickOK, CountsTyped, Typed, Reinstate
    <3> QED
      BY <1>0, <3>1, <3>2 DEF NoticeOK, Alive, Fresh, Unsent, ToSend, CountsTyped, Typed
  <2>2. CASE r # s
    BY <1>0, <1>3, <2>2 DEF Reinstate, TypeOK, NoticeOK, Alive, Fresh, Unsent, ToSend
  <2> QED
    BY <2>1, <2>2
<1>4. CASE Surface
  <2>1. rows'[r] = rows[r] \/ rows'[r] = [rows[r] EXCEPT !.surfaced = TRUE]
    BY <1>4 DEF Surface
  <2>2. /\ rows'[r].due = rows[r].due /\ rows'[r].next = rows[r].next
        /\ rows'[r].attempts = rows[r].attempts /\ rows'[r].status = rows[r].status
    BY <1>0, <2>1 DEF TypeOK, Row
  <2> QED
    BY <1>4, <2>2 DEF Surface, NoticeOK, Alive, Fresh, Unsent, ToSend
<1>5. CASE PreWork
  <2>1. PreWorkFate(r) /\ (r \in tick'.notice => rows[r].next <= rows[r].due)
    BY <1>5, PreWorkFates
  <2>2. /\ clock' = clock /\ seen' = seen /\ (Unsent(r)' <=> r \in tick'.deliveries)
    BY <1>0, <1>5 DEF PreWork, Unsent, ToSend, CountsTyped, Typed, NoId
  <2> QED
    BY <1>0, <2>1, <2>2 DEF PreWorkFate, Untouched, GivenUp, Selected, Considered, Owed, OwedStatus,
       NoticeOK, Alive, Fresh, CountsTyped, Typed
<1>6. CASE Dispatch
  <2>1. PICK s \in tick.deliveries :
           /\ tick' = [tick EXCEPT !.phase = "sending", !.current = s, !.deliveries = @ \ {s}]
           /\ seen' = [seen EXCEPT ![s].dispatched = @ + 1]
    BY <1>6 DEF Dispatch, Oldest
  <2>2. seen'[r].notices = seen[r].notices
    BY <1>0, <2>1 DEF TypeOK, Seen
  <2>3. /\ tick'.deliveries = tick.deliveries \ {s} /\ tick'.current = s
        /\ tick'.notice = tick.notice /\ tick'.phase = "sending"
        /\ tick.phase = "deliver"
    BY <1>0, <1>6, <2>1 DEF TypeOK, Tick, Dispatch
  <2>4. Unsent(r)' => Unsent(r)
    BY <2>1, <2>3 DEF Unsent, ToSend
  <2> QED
    BY <1>0, <1>6, <1>q, <2>2, <2>3, <2>4 DEF Dispatch, CountsTyped, Typed
<1>7. ASSUME NEW o \in Outcome, Transmit(o) PROVE NoticeOK(r)'
  <2>1. /\ tick.phase = "sending" /\ tick'.phase = "sent" /\ tick'.current = tick.current
        /\ tick'.deliveries = tick.deliveries /\ tick'.notice = tick.notice
        /\ tick.current \in Id /\ UNCHANGED <<rows, clock>>
        /\ seen' = [seen EXCEPT ![tick.current] = Heard(@, o, NoticesSent(o))]
    BY <1>0, <1>7 DEF Transmit, TypeOK, Tick
  <2>2. CASE r # tick.current
    BY <1>0, <1>q, <2>1, <2>2 DEF TypeOK, Unsent, ToSend, CountsTyped, Typed
  <2>3. CASE r = tick.current
    <3>1. seen'[r].notices = seen[r].notices + NoticesSent(o)
      BY <1>0, <2>1, <2>3 DEF TypeOK, Seen, Heard
    <3>2. Unsent(r) /\ ~Unsent(r)' /\ NoticesSent(o) \in {0, 1}
          /\ (NoticesSent(o) = 1 => r \in tick.notice)
      BY <1>0, <2>1, <2>3 DEF Unsent, ToSend, NoticesSent, CountsTyped, Typed, NoId
    <3>3. Alive(r) /\ rows[r].due <= clock /\ rows[r].status # "none"
      BY <1>0, <3>2 DEF TickOK, Alive, Unsent, CountsTyped, Typed
    <3> QED
      BY <1>0, <2>1, <3>1, <3>2, <3>3 DEF NoticeOK, Alive, Fresh, CountsTyped, Typed
  <2> QED
    BY <2>2, <2>3
<1>8. CASE RecordRetry
  <2>1. /\ tick'.current = NoId /\ tick'.deliveries = tick.deliveries /\ tick'.notice = tick.notice
        /\ tick'.phase = "deliver" /\ tick.current \in Id /\ tick.phase = "sent"
        /\ UNCHANGED <<clock, seen>>
        /\ rows' = [rows EXCEPT ![tick.current] = ScheduleRetry(@, tick.instant + RetryFloor)]
    BY <1>0, <1>8 DEF RecordRetry, TypeOK, Tick
  <2>2. CASE r = tick.current
    <3>1. /\ rows'[r].due = rows[r].due /\ rows'[r].attempts = 0
          /\ rows'[r].next = tick.instant + RetryFloor /\ rows'[r].status = rows[r].status
      BY <1>0, <2>1, <2>2 DEF ScheduleRetry, TypeOK, Row
    <3>2. rows[r].due <= tick.instant /\ ~Unsent(r)'
      BY <1>0, <2>1, <2>2 DEF TickOK, ToSend, CountsTyped, Typed, Unsent
    <3>3. ~Fresh(r)'
      BY <1>0, <3>1, <3>2 DEF Fresh, CountsTyped, Typed
    <3> QED
      BY <1>0, <2>1, <3>1, <3>2, <3>3 DEF NoticeOK, Alive, CountsTyped, Typed
  <2>3. CASE r # tick.current
    <3>1. rows'[r] = rows[r] /\ (Unsent(r)' => Unsent(r))
      BY <1>0, <2>1, <2>3 DEF TypeOK, Unsent, ToSend
    <3> QED
      BY <2>1, <3>1 DEF NoticeOK, Alive, Fresh
  <2> QED
    BY <2>2, <2>3
<1>9. CASE RecordDelivery
  <2>1. /\ tick'.current = NoId /\ tick'.deliveries = tick.deliveries /\ tick'.notice = tick.notice
        /\ tick'.phase = "deliver" /\ tick.current \in Id /\ tick.phase = "sent"
        /\ UNCHANGED <<clock, seen>>
        /\ rows' = [rows EXCEPT
             ![tick.current] = MarkDelivered(@, tick.instant, Late(tick.current))]
    BY <1>0, <1>9 DEF RecordDelivery, TypeOK, Tick
  <2>2. CASE r = tick.current
    <3>1. /\ rows'[r].due = rows[r].due /\ rows'[r].status \in DeliveredStatus
          /\ rows[r].due <= clock /\ ~Unsent(r)'
      BY <1>0, <2>1, <2>2 DEF MarkDelivered, TypeOK, Row, DeliveredStatus, TickOK, ToSend, Unsent,
         CountsTyped, Typed
    <3> QED
      BY <2>1, <3>1 DEF NoticeOK, Alive, DeliveredStatus
  <2>3. CASE r # tick.current
    <3>1. rows'[r] = rows[r] /\ (Unsent(r)' => Unsent(r))
      BY <1>0, <2>1, <2>3 DEF TypeOK, Unsent, ToSend
    <3> QED
      BY <2>1, <3>1 DEF NoticeOK, Alive, Fresh
  <2> QED
    BY <2>2, <2>3
<1>10. CASE RecordSummary
  <2>1. /\ \/ rows'[r] = rows[r]
           \/ /\ r \in tick.report
              /\ \/ rows'[r] = MarkReported(rows[r])
                 \/ rows'[r] = ScheduleRetry(rows[r], tick.instant + RetryFloor)
        /\ UNCHANGED <<clock, seen>> /\ ~Unsent(r)'
    <3>1. Retired \subseteq tick.report
      BY <1>0 DEF Retired, TypeOK, Tick, Outcome
    <3> QED
      BY <1>10, <3>1 DEF RecordSummary, NoTick, Unsent, ToSend, NoId
  <2>2. CASE rows'[r] = rows[r]
    BY <2>1, <2>2 DEF NoticeOK, Alive, Fresh
  <2>3. CASE rows'[r] # rows[r]
    <3>1. /\ rows'[r].status = rows[r].status /\ rows'[r].due = rows[r].due
          /\ rows[r].status \in OwedStatus
      <4>1. rows[r] \in Row /\ rows[r].status \in OwedStatus
        BY <1>0, <2>1, <2>3 DEF TypeOK, TickOK
      <4> QED
        BY <2>1, <2>3, <4>1 DEF MarkReported, ScheduleRetry, Row
    <3> QED
      BY <2>1, <3>1 DEF NoticeOK, Alive, OwedStatus
  <2> QED
    BY <2>2, <2>3
<1>11. ASSUME NEW o \in Outcome, TransmitSummary(o) PROVE NoticeOK(r)'
  <2>1. seen'[r].notices = seen[r].notices
    BY <1>0, <1>11 DEF TransmitSummary, Named, TypeOK, Seen
  <2>2. Unsent(r)' => Unsent(r)
    BY <1>0, <1>11 DEF TransmitSummary, Unsent, ToSend, TypeOK, Tick
  <2> QED
    BY <1>0, <1>11, <1>q, <2>1, <2>2 DEF TransmitSummary, CountsTyped, Typed, TypeOK, Tick
<1>12. CASE WriteReceipts \/ Skip \/ StartSummary
  <2>1. /\ UNCHANGED <<clock, rows, seen>>
        /\ tick'.deliveries \subseteq tick.deliveries /\ tick'.current = tick.current
        /\ tick'.notice = tick.notice
        /\ tick.phase # "sent" 
    <3>1. CASE WriteReceipts
      BY <1>0, <3>1 DEF WriteReceipts, TypeOK, Tick
    <3>2. CASE Skip
      BY <1>0, <3>2 DEF Skip, TypeOK, Tick
    <3>3. CASE StartSummary
      BY <1>0, <3>3 DEF StartSummary, TypeOK, Tick
    <3> QED
      BY <1>12, <3>1, <3>2, <3>3
  <2> QED
    BY <1>0, <1>q, <2>1 DEF Unsent, ToSend, CountsTyped, Typed
<1>13. CASE EndTick \/ StoreFault \/ Crash
  BY <1>0, <1>13, <1>q DEF EndTick, StoreFault, Crash, NoTick, Unsent, ToSend, CountsTyped, Typed
<1>14. CASE Advance
  BY <1>0, <1>14, <1>q DEF Advance, Unsent, ToSend, CountsTyped, Typed
<1>15. CASE EmptyTick \/ UNCHANGED vars
  BY <1>15 DEF EmptyTick, vars, NoticeOK, Alive, Fresh, Unsent, ToSend
<1> QED
  BY <1>1, <1>2, <1>3, <1>4, <1>5, <1>6, <1>7, <1>8, <1>9, <1>10, <1>11, <1>12, <1>13, <1>14, <1>15
     DEF Next, Owner, Scheduler, Deliver, Report

\* The columns and counters namings depend on are what they were.
LEMMA QuietNamings ==
  ASSUME NEW r \in Id, NamingOK(r), seen'[r].named = seen[r].named, Interruptions' = Interruptions,
         rows'[r].status = rows[r].status, rows'[r].reported = rows[r].reported,
         rows'[r].next = rows[r].next, rows'[r].due = rows[r].due,
         JustNamed(r)' = JustNamed(r),
         r \in tick'.report => r \in tick.report /\ tick'.instant = tick.instant
  PROVE  NamingOK(r)'
  BY DEF NamingOK, Rounds, Owed

LEMMA NamingKept ==
  ASSUME IInv, TypeOK', [Next]_vars, NEW r \in Id, NamingOK(r)
  PROVE  NamingOK(r)'
<1> USE RemindersAssumption
<1>0. CountsTyped /\ CountsTyped' /\ TypeOK /\ TickOK /\ RowOK(r)
  BY CountsTypedOK DEF IInv
<1>i. Intervals \in Nat /\ Interruptions \in Nat /\ JustNamed(r) \in {0, 1}
  BY <1>0, IntervalsType DEF Interruptions, CountsTyped, Typed, JustNamed
<1>q. ASSUME seen'[r].named = seen[r].named, UNCHANGED <<crashes, faults>>,
             rows'[r].status = rows[r].status, rows'[r].reported = rows[r].reported,
             rows'[r].next = rows[r].next, rows'[r].due = rows[r].due,
             tick'.report = tick.report, tick'.instant = tick.instant,
             tick.phase # "summarized", tick'.phase # "summarized"
      PROVE  NamingOK(r)'
  BY <1>q, QuietNamings DEF JustNamed, Interruptions
<1>1. CASE Owner
  <2>1. UNCHANGED <<tick, seen, crashes, faults>> /\ tick.phase # "summarized"
    BY <1>1 DEF Owner, LoopFree, Schedule, Cancel, Reinstate, Surface
  <2>2. \/ /\ rows'[r].status = rows[r].status /\ rows'[r].reported = rows[r].reported
           /\ rows'[r].next = rows[r].next /\ rows'[r].due = rows[r].due
        \/ rows[r].status \notin OwedStatus /\ rows'[r].status \notin OwedStatus
    <3>1. CASE Schedule
      <4>1. PICK s \in Id, due \in 0..Horizon :
               rows[s].status = "none" /\ rows' = [rows EXCEPT ![s] = NewRow(due)]
        BY <3>1 DEF Schedule
      <4> QED
        BY <1>0, <4>1 DEF NewRow, TypeOK, Row, OwedStatus
    <3>2. ASSUME NEW s \in Id, Cancel(s) PROVE <2>2!2 \/ <2>2!1
      BY <1>0, <3>2 DEF Cancel, TypeOK, Row, OwedStatus
    <3>3. ASSUME NEW s \in Id, Reinstate(s) PROVE <2>2!2 \/ <2>2!1
      BY <1>0, <3>3 DEF Reinstate, ToPending, TypeOK, Row, OwedStatus
    <3>4. CASE Surface
      <4>1. rows'[r] = rows[r] \/ rows'[r] = [rows[r] EXCEPT !.surfaced = TRUE]
        BY <3>4 DEF Surface
      <4> QED
        BY <1>0, <4>1 DEF TypeOK, Row
    <3> QED
      BY <1>1, <3>1, <3>2, <3>3, <3>4 DEF Owner
  <2>3. CASE rows[r].status \notin OwedStatus /\ rows'[r].status \notin OwedStatus
    <3>1. seen[r].named = 0 /\ r \notin tick.report
      BY <1>0, <2>3 DEF NamingOK, TickOK, CountsTyped, Typed
    <3> QED
      BY <1>i, <2>1, <2>3, <3>1 DEF NamingOK, Owed, Interruptions
  <2> QED
    BY <1>q, <2>1, <2>2, <2>3
<1>2. CASE PreWork
  <2>1. PreWorkFate(r) /\ (r \in tick'.report => rows'[r].status \in OwedStatus)
    BY <1>2, PreWorkFates, PreWorkMoves DEF PreWorkMove
  <2>2. /\ UNCHANGED <<clock, seen, crashes, faults>> /\ tick'.instant = clock
        /\ tick.phase = "idle" /\ tick'.phase = "receipts"
    BY <1>2 DEF PreWork
  <2>3. JustNamed(r) = 0 /\ JustNamed(r)' = 0 /\ Interruptions' = Interruptions
    BY <2>2 DEF JustNamed, Interruptions
  <2>4. CASE GivenUp(r)
    <3>1. seen[r].named = 0
      BY <1>0, <2>4 DEF GivenUp, NamingOK, OwedStatus, CountsTyped, Typed
    <3>2. Rounds(r)' <= 0
      BY <1>i, <2>2, <2>3, <3>1 DEF Rounds
    <3>3. Rounds(r)' \in Int /\ Rounds(r)' * RetryFloor <= 0
      BY <1>i, <2>2, <2>3, <3>1, <3>2 DEF Rounds
    <3> QED
      BY <1>0, <1>i, <2>2, <2>3, <2>4, <3>1, <3>2, <3>3
         DEF GivenUp, NamingOK, OwedStatus, Owed, CountsTyped, Typed
  <2>5. CASE ~GivenUp(r)
    <3>1. Rounds(r)' = Rounds(r)
      BY <2>2, <2>3 DEF Rounds
    <3> QED
      BY <1>0, <2>1, <2>2, <2>3, <2>5, <3>1 DEF PreWorkFate, Untouched, Selected, Considered, Owed,
         OwedStatus, NamingOK, CountsTyped, Typed
  <2> QED
    BY <2>4, <2>5
<1>3. CASE RecordRetry \/ RecordDelivery
  <2>1. /\ tick.current \in Id /\ tick.phase = "sent" /\ tick'.phase = "deliver"
        /\ tick'.report = tick.report /\ tick'.instant = tick.instant
        /\ UNCHANGED <<seen, crashes, faults>>
    BY <1>0, <1>3 DEF RecordRetry, RecordDelivery, TypeOK, Tick
  <2>2. CASE r # tick.current
    <3>1. rows'[r] = rows[r]
      BY <1>0, <1>3, <2>1, <2>2 DEF RecordRetry, RecordDelivery, TypeOK
    <3> QED
      BY <1>q, <2>1, <3>1
  <2>3. CASE r = tick.current
    <3>1. rows[r].status \in {"pending", "cancelled"}
      BY <1>0, <2>1, <2>3 DEF TickOK, ToSend, CountsTyped, Typed
    <3>2. rows'[r].status \notin OwedStatus
      <4>1. CASE RecordRetry
        BY <1>0, <2>1, <2>3, <3>1, <4>1 DEF RecordRetry, ScheduleRetry, TypeOK, Row, OwedStatus
      <4>2. CASE RecordDelivery
        BY <1>0, <2>1, <2>3, <4>2 DEF RecordDelivery, MarkDelivered, TypeOK, Row, OwedStatus
      <4> QED
        BY <1>3, <4>1, <4>2
    <3>3. seen[r].named = 0 /\ r \notin tick.report
      BY <1>0, <3>1 DEF NamingOK, TickOK, OwedStatus, CountsTyped, Typed
    <3> QED
      BY <1>i, <2>1, <3>2, <3>3 DEF NamingOK, Owed, Interruptions
  <2> QED
    BY <2>2, <2>3
<1>4. ASSUME NEW o \in Outcome, TransmitSummary(o) PROVE NamingOK(r)'
  <2>1. /\ tick.phase = "summarizing" /\ tick'.phase = "summarized" /\ tick'.outcome = o
        /\ tick'.report = tick.report /\ tick'.instant = tick.instant
        /\ UNCHANGED <<rows, crashes, faults>>
    BY <1>0, <1>4 DEF TransmitSummary, TypeOK, Tick
  <2>2. seen'[r].named = seen[r].named + JustNamed(r)' /\ JustNamed(r) = 0 /\ JustNamed(r)' \in {0, 1}
    BY <1>0, <1>4, <2>1 DEF TransmitSummary, Named, TypeOK, Seen, JustNamed
  <2>3. Rounds(r)' = Rounds(r) /\ Interruptions' = Interruptions
    BY <1>0, <1>i, <2>1, <2>2 DEF Rounds, Interruptions, CountsTyped, Typed
  <2>4. JustNamed(r)' = 1 => Owed(r)
    BY <1>0, <2>1 DEF JustNamed, Owed, TickOK
  <2>5. seen'[r].named <= Intervals + 2 + Interruptions
    <3>1. CASE JustNamed(r)' = 0
      BY <1>0, <2>2, <3>1 DEF NamingOK, CountsTyped, Typed
    <3>2. CASE JustNamed(r)' = 1
      BY <1>0, <1>i, <2>2, <2>4, <3>2 DEF NamingOK, Rounds, CountsTyped, Typed
    <3> QED
      BY <2>2, <3>1, <3>2
  <2>6. seen'[r].named > 0 => rows'[r].status \in OwedStatus
    BY <1>0, <2>1, <2>2, <2>4 DEF NamingOK, Owed, CountsTyped, Typed
  <2> QED
    BY <2>1, <2>3, <2>5, <2>6 DEF NamingOK, Owed
<1>5. CASE RecordSummary
  <2>1. /\ tick.phase = "summarized" /\ tick' = NoTick /\ UNCHANGED <<seen, crashes, faults>>
        /\ Retired \subseteq tick.report
        /\ \/ r \notin tick.report /\ rows'[r] = rows[r]
           \/ r \in Retired /\ r \in tick.report /\ rows'[r] = MarkReported(rows[r])
           \/ /\ r \in tick.report \ Retired
              /\ rows'[r] = ScheduleRetry(rows[r], tick.instant + RetryFloor)
    <3>1. Retired \subseteq tick.report
      BY <1>0 DEF Retired, TypeOK, Tick, Outcome
    <3> QED
      BY <1>5, <3>1 DEF RecordSummary
  <2>2. JustNamed(r)' = 0 /\ Interruptions' = Interruptions /\ r \notin tick'.report
    BY <2>1 DEF JustNamed, Interruptions, NoTick
  <2>3. CASE r \notin tick.report
    BY <2>1, <2>2, <2>3, QuietNamings DEF JustNamed
  <2>4. CASE r \in Retired
    <3>0. rows[r] \in Row /\ rows'[r] = MarkReported(rows[r])
      BY <1>0, <2>1, <2>4 DEF TypeOK
    <3>1. rows'[r].status = rows[r].status /\ rows'[r].reported
      BY <3>0 DEF MarkReported, Row
    <3> QED
      BY <1>0, <2>1, <2>2, <3>1 DEF NamingOK, Owed, CountsTyped, Typed
  <2>5. CASE r \in tick.report \ Retired
    <3>1. /\ rows'[r].status = rows[r].status /\ rows'[r].due = rows[r].due
          /\ rows'[r].next = tick.instant + RetryFloor
      BY <1>0, <2>1, <2>5 DEF ScheduleRetry, TypeOK, Row
    <3>2. /\ Owed(r) /\ rows[r].next <= tick.instant
          /\ Rounds(r) \in Int /\ Rounds(r)' = Rounds(r) + JustNamed(r)
          /\ Rounds(r) * RetryFloor <= rows[r].next - rows[r].due
      <4>1. Owed(r) /\ rows[r].next <= tick.instant
        BY <1>0, <2>5 DEF Owed, TickOK, NamingOK
      <4>2. Rounds(r) \in Int /\ Rounds(r)' = Rounds(r) + JustNamed(r)
        BY <1>0, <1>i, <2>1, <2>2 DEF Rounds, CountsTyped, Typed
      <4> QED
        BY <4>1, <4>2 DEF NamingOK
    <3>3. Rounds(r) * RetryFloor <= tick.instant - rows[r].due
      BY <1>0, <3>2 DEF CountsTyped, Typed
    <3>4. Rounds(r)' * RetryFloor = Rounds(r) * RetryFloor + JustNamed(r) * RetryFloor
      BY <1>i, <3>2
    <3>5. Rounds(r)' * RetryFloor <= rows'[r].next - rows'[r].due
      BY <1>0, <1>i, <3>1, <3>2, <3>3, <3>4 DEF CountsTyped, Typed
    <3>6. Rounds(r)' <= Intervals + 1
      <4>1. CASE JustNamed(r) = 0
        BY <1>0, <1>i, <3>2, <4>1 DEF NamingOK
      <4>2. CASE JustNamed(r) = 1
        <5>1. tick.outcome = "PARTIAL"
          BY <1>0, <2>5, <4>2 DEF JustNamed, Retired, TypeOK, Tick, Outcome
        <5>2. tick.instant <= rows[r].due + Grace + ReportHorizon
          BY <1>0, <2>5, <5>1 DEF Retired, CountsTyped, Typed
        <5>3. Rounds(r) * RetryFloor <= Grace + ReportHorizon
          BY <1>0, <3>2, <3>3, <5>2 DEF CountsTyped, Typed
        <5>4. Rounds(r) <= Intervals
          BY <3>2, <5>3, FloorsBelow DEF Intervals
        <5> QED
          BY <1>i, <3>2, <4>2, <5>4
      <4> QED
        BY <1>i, <4>1, <4>2
    <3> QED
      BY <2>1, <2>2, <3>1, <3>5, <3>6 DEF NamingOK, Owed
  <2> QED
    BY <2>1, <2>3, <2>4, <2>5
<1>6. CASE StoreFault \/ Crash
  <2>1. tick' = NoTick /\ UNCHANGED <<rows, seen>> /\ Interruptions' = Interruptions + 1
    <3>1. CASE StoreFault
      BY <1>0, <3>1 DEF StoreFault, Interruptions, CountsTyped, Typed
    <3>2. CASE Crash
      BY <1>0, <3>2 DEF Crash, Interruptions, CountsTyped, Typed
    <3> QED
      BY <1>6, <3>1, <3>2
  <2>2. r \notin tick'.report /\ JustNamed(r)' = 0
    BY <2>1 DEF JustNamed, NoTick
  <2>3. Rounds(r) \in Int /\ Rounds(r)' \in Int /\ Rounds(r)' <= Rounds(r)
    BY <1>0, <1>i, <2>1, <2>2 DEF Rounds, CountsTyped, Typed
  <2>4. Rounds(r)' * RetryFloor <= Rounds(r) * RetryFloor
    BY <2>3
  <2>5. Rounds(r) * RetryFloor \in Int /\ Rounds(r)' * RetryFloor \in Int
    BY <2>3
  <2> QED
    BY <1>0, <1>i, <2>1, <2>2, <2>3, <2>4, <2>5 DEF NamingOK, Owed, CountsTyped, Typed
<1>7. CASE EndTick
  BY <1>0, <1>i, <1>7 DEF EndTick, NoTick, NamingOK, Owed, Rounds, JustNamed, Interruptions
<1>8. CASE WriteReceipts \/ Skip \/ StartSummary
  <2>1. /\ UNCHANGED <<rows, seen, crashes, faults>>
        /\ tick'.report = tick.report /\ tick'.instant = tick.instant
        /\ tick.phase # "summarized" /\ tick'.phase # "summarized"
    <3>1. CASE WriteReceipts
      BY <1>0, <3>1 DEF WriteReceipts, TypeOK, Tick
    <3>2. CASE Skip
      BY <1>0, <3>2 DEF Skip, TypeOK, Tick
    <3>3. CASE StartSummary
      BY <1>0, <3>3 DEF StartSummary, TypeOK, Tick
    <3> QED
      BY <1>8, <3>1, <3>2, <3>3
  <2> QED
    BY <1>q, <2>1
<1>9. CASE Dispatch
  <2>1. /\ tick.phase = "deliver" /\ tick'.phase = "sending"
        /\ tick'.report = tick.report /\ tick'.instant = tick.instant
        /\ UNCHANGED <<rows, crashes, faults>>
        /\ seen'[r].named = seen[r].named
    BY <1>0, <1>9 DEF Dispatch, Oldest, TypeOK, Tick, Seen
  <2> QED
    BY <1>q, <2>1
<1>10. ASSUME NEW o \in Outcome, Transmit(o) PROVE NamingOK(r)'
  <2>1. /\ tick.phase = "sending" /\ tick'.phase = "sent"
        /\ tick'.report = tick.report /\ tick'.instant = tick.instant
        /\ UNCHANGED <<rows, crashes, faults>>
        /\ seen'[r].named = seen[r].named
    BY <1>0, <1>10 DEF Transmit, Heard, TypeOK, Tick, Seen
  <2> QED
    BY <1>q, <2>1
<1>11. CASE Advance \/ EmptyTick \/ UNCHANGED vars
  BY <1>11, QuietNamings DEF Advance, EmptyTick, vars, JustNamed, Interruptions
<1> QED
  BY <1>1, <1>2, <1>3, <1>4, <1>5, <1>6, <1>7, <1>8, <1>9, <1>10, <1>11
     DEF Next, Scheduler, Deliver, Report

\* Notices and namings are bounded whatever the crashes, the store errors and the
\* outages (scheduler.py _notice_for, _report, charge_attempt), for any settings.
THEOREM OwnerIsNotPestered == Spec => []OwnerNotPestered
<1>1. Init => CountsOK
  <2> SUFFICES ASSUME Init, NEW r \in Id PROVE NoticeOK(r) /\ NamingOK(r)
    BY DEF CountsOK
  <2>1. /\ rows[r] = NoRow /\ tick = NoTick /\ Interruptions = 0
        /\ seen[r].notices = 0 /\ seen[r].named = 0
    BY DEF Init, Interruptions
  <2> QED
    BY <2>1, IntervalsType, RemindersAssumption DEF NoticeOK, NamingOK, NoRow, NoTick, Alive, Fresh,
       Unsent, ToSend, NoId, Owed, OwedStatus
<1>2. IInv /\ IInv' /\ CountsOK /\ [Next]_vars => CountsOK'
  BY NoticeKept, NamingKept DEF CountsOK, IInv
<1>3. IInv /\ CountsOK => OwnerNotPestered
  <2> SUFFICES ASSUME IInv, CountsOK, NEW r \in Id
               PROVE  /\ seen[r].notices <= CrashLimit
                      /\ seen[r].named <= Intervals + 2 + Interruptions
    BY DEF OwnerNotPestered, NoticesBounded, NamingsBounded, Intervals
  <2>1. seen[r].notices \in Nat
    BY CountsTypedOK DEF IInv, CountsTyped
  <2> QED
    BY <2>1, RemindersAssumption DEF CountsOK, NoticeOK, NamingOK
<1> QED
  BY <1>1, <1>2, <1>3, Invariance, PTL DEF Spec

-----------------------------------------------------------------------------
(* Refinement of ReminderPromise *)

\* One edge of a promise's life, or none.
Edge(r) ==
  \/ Promise!Make(r) \/ Promise!Withdraw(r) \/ Promise!Renew(r)
  \/ Promise!Keep(r) \/ Promise!Miss(r) \/ Promise!Settle(r) \/ Promise!Stay(r)

\* The same, read off the columns of the row.
RowEdge(r) ==
  \/ rows[r].status = "none" /\ rows'[r].status = "pending"
  \/ /\ rows'[r].due = rows[r].due
     /\ \/ rows[r].status = "pending" /\ rows'[r].status = "cancelled"
        \/ /\ rows[r].status = "cancelled" /\ rows'[r].status = "pending"
           /\ clock < rows[r].due
        \/ /\ rows[r].status \in {"pending", "cancelled"}
           /\ rows'[r].status \in DeliveredStatus /\ rows[r].due <= clock
        \/ /\ rows[r].status = "pending" /\ rows'[r].status \in OwedStatus
           /\ ~rows'[r].reported /\ rows[r].due <= clock
        \/ /\ rows[r].status \in OwedStatus /\ rows'[r].status = rows[r].status
           /\ rows[r].reported => rows'[r].reported
        \/ /\ rows[r].status \notin OwedStatus /\ rows'[r].status = rows[r].status

LEMMA RowEdgeIsEdge ==
  ASSUME NEW r \in Id, RowEdge(r), rows[r] \in Row, rows'[r] \in Row
  PROVE  Edge(r)
<1>1. /\ [s \in Id |-> StandingOf(s)][r] = StandingOf(r)
      /\ [s \in Id |-> StandingOf(s)]'[r] = StandingOf(r)'
      /\ [s \in Id |-> rows[s].due][r] = rows[r].due
      /\ [s \in Id |-> rows[s].due]'[r] = rows'[r].due
  OBVIOUS
<1>2. /\ rows[r].status = "none" => StandingOf(r) = "unmade"
      /\ rows[r].status = "pending" => StandingOf(r) = "open"
      /\ rows[r].status = "cancelled" => StandingOf(r) = "withdrawn"
      /\ rows[r].status \in OwedStatus /\ ~rows[r].reported => StandingOf(r) = "owed"
      /\ rows[r].status \in OwedStatus /\ rows[r].reported => StandingOf(r) = "settled"
  BY DEF StandingOf, DeliveredStatus, OwedStatus
<1>3. /\ rows'[r].status = "pending" => StandingOf(r)' = "open"
      /\ rows'[r].status = "cancelled" => StandingOf(r)' = "withdrawn"
      /\ rows'[r].status \in DeliveredStatus => StandingOf(r)' = "kept"
      /\ rows'[r].status \in OwedStatus /\ ~rows'[r].reported => StandingOf(r)' = "owed"
      /\ rows'[r].status \in OwedStatus /\ rows'[r].reported => StandingOf(r)' = "settled"
  BY DEF StandingOf, DeliveredStatus, OwedStatus
<1>4. CASE rows[r].status = "none" /\ rows'[r].status = "pending"
  BY <1>1, <1>2, <1>3, <1>4 DEF Edge, Promise!Make
<1>5. CASE rows'[r].due = rows[r].due /\ rows[r].status = "pending" /\ rows'[r].status = "cancelled"
  BY <1>1, <1>2, <1>3, <1>5 DEF Edge, Promise!Withdraw
<1>6. CASE /\ rows'[r].due = rows[r].due /\ clock < rows[r].due
           /\ rows[r].status = "cancelled" /\ rows'[r].status = "pending"
  BY <1>1, <1>2, <1>3, <1>6 DEF Edge, Promise!Renew
<1>7. CASE /\ rows'[r].due = rows[r].due /\ rows[r].due <= clock
           /\ rows[r].status \in {"pending", "cancelled"} /\ rows'[r].status \in DeliveredStatus
  BY <1>1, <1>2, <1>3, <1>7 DEF Edge, Promise!Keep
<1>8. CASE /\ rows'[r].due = rows[r].due /\ rows[r].due <= clock /\ ~rows'[r].reported
           /\ rows[r].status = "pending" /\ rows'[r].status \in OwedStatus
  BY <1>1, <1>2, <1>3, <1>8 DEF Edge, Promise!Miss
<1>9. CASE /\ rows'[r].due = rows[r].due /\ rows[r].status \in OwedStatus
           /\ rows'[r].status = rows[r].status /\ (rows[r].reported => rows'[r].reported)
  <2>1. CASE rows[r].reported /\ rows'[r].reported
    BY <1>1, <1>2, <1>3, <1>9, <2>1 DEF Edge, Promise!Stay
  <2>2. CASE ~rows[r].reported /\ rows'[r].reported
    BY <1>1, <1>2, <1>3, <1>9, <2>2 DEF Edge, Promise!Settle
  <2>3. CASE ~rows[r].reported /\ ~rows'[r].reported
    BY <1>1, <1>2, <1>3, <1>9, <2>3 DEF Edge, Promise!Stay
  <2> QED
    BY <1>9, <2>1, <2>2, <2>3
<1>10. CASE /\ rows'[r].due = rows[r].due /\ rows[r].status \notin OwedStatus
            /\ rows'[r].status = rows[r].status
  <2>1. StandingOf(r)' = StandingOf(r)
    BY <1>10 DEF StandingOf
  <2> QED
    BY <1>1, <1>10, <2>1 DEF Edge, Promise!Stay
<1> QED
  BY <1>4, <1>5, <1>6, <1>7, <1>8, <1>9, <1>10 DEF RowEdge

\* Every step moves every row along one edge.
LEMMA RowsMoveByEdges ==
  ASSUME IInv, TypeOK', [Next]_vars, CrashLimit > 1, NEW r \in Id
  PROVE  RowEdge(r)
<1>0. TypeOK /\ TickOK /\ Typed /\ rows[r] \in Row /\ rows'[r] \in Row
  BY TypedOK DEF IInv, TypeOK
<1>1. CASE rows' = rows
  BY <1>0, <1>1 DEF RowEdge
<1>2. CASE Schedule
  <2>1. PICK s \in Id, due \in 0..Horizon :
           rows[s].status = "none" /\ rows' = [rows EXCEPT ![s] = NewRow(due)]
    BY <1>2 DEF Schedule
  <2> QED
    BY <1>0, <2>1 DEF RowEdge, NewRow, TypeOK
<1>3. ASSUME NEW s \in Id, Cancel(s) PROVE RowEdge(r)
  BY <1>0, <1>3 DEF Cancel, RowEdge, TypeOK, Row
<1>4. ASSUME NEW s \in Id, Reinstate(s) PROVE RowEdge(r)
  BY <1>0, <1>4 DEF Reinstate, ToPending, RowEdge, TypeOK, Row
<1>5. CASE Surface
  <2>1. rows'[r] = rows[r] \/ rows'[r] = [rows[r] EXCEPT !.surfaced = TRUE]
    BY <1>5 DEF Surface
  <2> QED
    BY <1>0, <2>1 DEF RowEdge, Row
<1>6. CASE PreWork
  <2>1. PreWorkFate(r) /\ PreWorkMove(r)
    BY <1>6, PreWorkFates, PreWorkMoves
  <2>2. CASE Considered(r)
    BY <2>2 DEF Considered, Owed, RowEdge
  <2> QED
    BY <1>0, <2>1, <2>2 DEF PreWorkFate, Untouched, GivenUp, Selected, RowEdge, OwedStatus
<1>7. CASE RecordRetry
  <2>1. \/ rows'[r] = rows[r]
        \/ rows'[r] = ScheduleRetry(rows[r], tick.instant + RetryFloor)
    BY <1>0, <1>7 DEF RecordRetry, TypeOK
  <2> QED
    BY <1>0, <2>1 DEF ScheduleRetry, RowEdge, Row
<1>8. CASE RecordDelivery
  <2>1. CASE r = tick.current
    <3>1. /\ rows[r].status \in {"pending", "cancelled"} /\ rows[r].due <= clock
      BY <1>0, <1>8, <2>1 DEF TickOK, ToSend, Typed
    <3>2. rows'[r] = MarkDelivered(rows[r], tick.instant, Late(r))
      BY <1>0, <1>8, <2>1 DEF RecordDelivery, TypeOK
    <3>3. rows'[r].due = rows[r].due /\ rows'[r].status \in DeliveredStatus
      BY <1>0, <3>2 DEF MarkDelivered, Row, DeliveredStatus
    <3> QED
      BY <3>1, <3>3 DEF RowEdge
  <2>2. CASE r # tick.current
    <3>1. rows'[r] = rows[r]
      BY <1>0, <1>8, <2>2 DEF RecordDelivery, TypeOK
    <3> QED
      BY <1>0, <3>1 DEF RowEdge
  <2> QED
    BY <2>1, <2>2
<1>9. CASE RecordSummary
  <2>1. \/ rows'[r] = rows[r] \/ rows'[r] = MarkReported(rows[r])
        \/ rows'[r] = ScheduleRetry(rows[r], tick.instant + RetryFloor)
    BY <1>9 DEF RecordSummary
  <2> QED
    BY <1>0, <2>1 DEF MarkReported, ScheduleRetry, RowEdge, Row
<1>10. \/ rows' = rows \/ Schedule \/ (\E s \in Id : Cancel(s) \/ Reinstate(s)) \/ Surface
       \/ PreWork \/ RecordRetry \/ RecordDelivery \/ RecordSummary
  BY DEF Next, Owner, Scheduler, EmptyTick, vars, WriteReceipts, Deliver, Skip, Dispatch,
     Transmit, Report, StartSummary, TransmitSummary, EndTick, Advance, StoreFault, Crash
<1> QED
  BY <1>1, <1>2, <1>3, <1>4, <1>5, <1>6, <1>7, <1>8, <1>9, <1>10

\* The clock never steps back.
LEMMA ClockMoves ==
  ASSUME TypeOK, [Next]_vars
  PROVE  clock' >= clock
<1>1. clock \in Nat
  BY DEF TypeOK
<1>2. CASE Advance
  BY <1>1, <1>2 DEF Advance
<1>3. clock' = clock \/ Advance
  BY DEF Next, Owner, Schedule, Cancel, Reinstate, Surface, Scheduler, EmptyTick, PreWork,
     WriteReceipts, Deliver, Skip, Dispatch, Transmit, RecordRetry, RecordDelivery, Report,
     StartSummary, TransmitSummary, RecordSummary, EndTick, StoreFault, Crash, vars
<1> QED
  BY <1>1, <1>2, <1>3

\* The store, the scheduler and the commands implement the abstract promise for
\* every configuration that allows more than one attempt (store/reminders.py
\* _transition, scheduler.py _pre_work): with one, a row may be missed and closed
\* in the same transaction.
THEOREM PromiseKept == ASSUME CrashLimit > 1 PROVE Spec => KeepsPromise
<1>1. Init => Promise!PromiseInit
  <2> SUFFICES ASSUME Init PROVE Promise!PromiseInit
    OBVIOUS
  <2>1. \A r \in Id : rows[r].status = "none" /\ rows[r].due = 0
    BY DEF Init, NoRow
  <2>2. \A r \in Id : StandingOf(r) = "unmade"
    BY <2>1 DEF StandingOf, DeliveredStatus, OwedStatus
  <2> QED
    BY <2>1, <2>2 DEF Init, Promise!PromiseInit
<1>2. IInv /\ IInv' /\ PendingCapHolds' /\ [Next]_vars =>
        [Promise!PromiseNext]_(Promise!promiseVars)
  <2> SUFFICES ASSUME IInv, IInv', PendingCapHolds', [Next]_vars PROVE Promise!PromiseNext
    OBVIOUS
  <2>0. TypeOK /\ TypeOK'
    BY DEF IInv
  <2>1. clock' >= clock
    BY <2>0, ClockMoves
  <2>2. [r \in Id |-> rows[r].due]' \in [Id -> Nat]
    BY <2>0 DEF TypeOK, Row
  <2>3. [r \in Id |-> StandingOf(r)]' \in [Id -> Promise!Standing]
    <3>1. \A r \in Id : StandingOf(r)' \in Promise!Standing
      BY DEF StandingOf, Promise!Standing
    <3> QED
      BY <3>1
  <2>4. \A r \in Id : Edge(r)
    BY <2>0, RowsMoveByEdges, RowEdgeIsEdge DEF TypeOK
  <2>5. Promise!Cardinality(Promise!Open') <= MaxPending
    <3>1. \A r \in Id : StandingOf(r)' = "open" <=> rows'[r].status = "pending"
      BY DEF StandingOf, DeliveredStatus, OwedStatus
    <3>2. Promise!Open' = Pending(rows)'
      BY <3>1 DEF Promise!Open, Pending
    <3>3. Promise!Cardinality(Promise!Open') = Cardinality(Promise!Open')
      BY DEF Cardinality, Promise!Cardinality
    <3> QED
      BY <3>2, <3>3 DEF PendingCapHolds
  <2>6. \A r \in Id : \/ Promise!Make(r) \/ Promise!Withdraw(r) \/ Promise!Renew(r)
                        \/ Promise!Keep(r) \/ Promise!Miss(r) \/ Promise!Settle(r)
                        \/ Promise!Stay(r)
    BY <2>4 DEF Edge
  <2> QED
    BY <2>1, <2>2, <2>3, <2>5, <2>6 DEF Promise!PromiseNext
<1> QED
  BY <1>1, <1>2, Invariance, PendingCap, PTL DEF Spec, KeepsPromise, Promise!PromiseSpec

=============================================================================
