------------------------ MODULE MaintenanceCalendar -------------------------
(***************************************************************************)
(* The maintenance calendar (henk/calendar, henk/tools/calendar.py): the   *)
(* owner edits a calendar at Google; the window provider reads it in a     *)
(* loop, keeps a snapshot in memory and on disk and says which windows     *)
(* hold alerts now; the two tools read and write it inside a turn.  Both   *)
(* go through one client with one cached access token.                     *)
(*                                                                         *)
(* Every await is a step: signing in, the request, its answer.  Google may *)
(* refuse the token, refuse the insert, answer an error, or lose an answer *)
(* to a request it carried out.  Time is counted in ticks.  The paging of  *)
(* one list is one read: an event there throughout is in it, and a list of *)
(* too many pages fails.                                                   *)
(***************************************************************************)
EXTENDS Integers, FiniteSets, Functions

CONSTANTS
  OwnerItems,      \* what the owner, Pam or a stranger may put on the calendar
  Proposals,       \* what the model may propose
  Lookahead, Refresh, Grace, MaxWindow, Stale,  \* the calendar's settings
  PastTolerance, MaxAhead,  \* what the create tool accepts
  MaxListed,       \* events that fit four pages
  MaxClock, MaxEdits, MaxApprovals, MaxFaults, MaxRevocations, MaxCrashes,
  MaxTrouble       \* bounds, the last on all of them together

Event == [id : Int, creator : {"allowed", "henk", "stranger"}, homelab : BOOLEAN,
          allDay : BOOLEAN, start : Int, end : Int]
Proposal == [start : Int, end : Int, unreadable : BOOLEAN]

ASSUME CalendarAssumption ==
  /\ OwnerItems \subseteq Event /\ Proposals \subseteq Proposal
  /\ {Lookahead, Refresh, MaxWindow, Stale} \subseteq Nat \ {0}
  /\ {Grace, PastTolerance, MaxAhead, MaxListed, MaxClock, MaxApprovals} \subseteq Nat
  /\ Stale < Lookahead

VARIABLES
  clock,
  calendar,   \* at Google: each event there, and since when
  gone,       \* at Google: what was there, and until when
  made,       \* at Google: how many events each approval's run created
  revoked,    \* how many times Google dropped the tokens it issued
  token,      \* the cached token: the revocations before it was issued
  call,       \* the request each caller has under way
  due,        \* when the loop refreshes next
  snapshot,   \* the provider's snapshot
  file,       \* the file beside the audit log
  holding,    \* calendar.hold_alerts of the running process
  approved,   \* the proposal behind each approval, by its reference
  slot,       \* the reference kept for the create tool
  turn,       \* the approval whose run the turn has reached, or 0
  results,    \* what the tools answered
  receipts,   \* the calendar records of the audit log
  budget      \* how often each bounded thing has happened

google == <<calendar, gone, made, revoked>>
provider == <<due, snapshot, file, holding>>
tool == <<approved, slot, turn, results, receipts>>
vars == <<clock, google, token, call, provider, tool, budget>>

-----------------------------------------------------------------------------
(* Events, admission and the one predicate *)

None == -1
Idle == [at |-> "idle"]
NoSnapshot == [read |-> -1, windows |-> {}, under |-> TRUE]
Damaged == [read |-> -2, windows |-> {}, under |-> TRUE]
Later(x, y) == IF x > y THEN x ELSE y

\* Henk's own events and those of an allowlisted creator, if the title begins
\* as it must; a cancelled event is one no longer on the calendar.
Admit(item) == item.homelab /\ item.creator \in {"allowed", "henk"}

Holds(item, on) ==
  /\ on
  /\ ~item.allDay
  /\ item.end - item.start \in 0..MaxWindow

\* Google's filters: the end after timeMin, the start before timeMax.
Between(from, to) == {i \in DOMAIN calendar : i.end > from /\ i.start < to}

\* list_window, answered now: the admitted ones, or a list of too many pages.
TooMany(from, to) == Cardinality(Between(from, to)) > MaxListed
ListWindow(from, to) == {i \in Between(from, to) : Admit(i)}

Usable == IF snapshot.read < 0 \/ clock - snapshot.read > Stale THEN {} ELSE snapshot.windows
Active == {w \in Usable : w.start <= clock /\ clock < w.end + Grace}

Callers == {"loop", "tool"}
LoopCall == [at : {"token", "signing", "sent"}, tries : {1, 2}, token : Int, now : Nat]
ToolCall == [at : {"token", "signing", "sent"}, tries : {1, 2}, token : Int, reference : Nat]
Snapshot == [read : Int, windows : SUBSET Event, under : BOOLEAN]
Sayings == {"created", "nothing was created", "could not be confirmed"}
Bounded == {"edits", "faults", "revocations", "crashes"}

TypeOK ==
  /\ clock \in Nat /\ due \in Nat /\ revoked \in Nat /\ token \in Nat \cup {None}
  /\ DOMAIN calendar \subseteq Event /\ calendar \in [DOMAIN calendar -> Int]
  /\ gone \subseteq [item : Event, at : Nat]
  /\ made \in [1..MaxApprovals -> Nat]
  /\ call \in [Callers -> {Idle} \cup LoopCall \cup ToolCall]
  /\ call["loop"] \in {Idle} \cup LoopCall /\ call["tool"] \in {Idle} \cup ToolCall
  /\ snapshot \in Snapshot /\ file \in Snapshot
  /\ holding \in BOOLEAN
  /\ \E n \in 0..MaxApprovals : approved \in [1..n -> Proposals]
  /\ slot \in Nat \cup {None} /\ turn \in Nat
  /\ results \subseteq [run : Nat, told : Sayings, reference : Nat \cup {None}]
  /\ receipts \subseteq [reference : Nat, item : Event]
  /\ budget \in [Bounded -> Nat]

-----------------------------------------------------------------------------
(* The calendar at Google *)

\* A bounded thing happens once more.
Spent(kind, most) ==
  /\ budget[kind] < most
  /\ SumFunction(budget) + Cardinality(DOMAIN approved) < MaxTrouble
  /\ budget' = [budget EXCEPT ![kind] = @ + 1]

Placed(item) == [i \in DOMAIN calendar \cup {item} |->
                   IF i = item THEN clock ELSE calendar[i]]
Without(item) == [i \in DOMAIN calendar \ {item} |-> calendar[i]]
Left(item) == {g \in gone : g.item # item} \cup {[item |-> item, at |-> clock]}

Add(item) ==
  /\ \A i \in DOMAIN calendar : i.id # item.id
  /\ Spent("edits", MaxEdits)
  /\ calendar' = Placed(item)
  /\ UNCHANGED <<gone, made, revoked, clock, token, call, provider, tool>>

\* Deleted, or cancelled: also one of Henk's.
Remove(item) ==
  /\ item \in DOMAIN calendar
  /\ Spent("edits", MaxEdits)
  /\ calendar' = Without(item)
  /\ gone' = Left(item)
  /\ UNCHANGED <<made, revoked, clock, token, call, provider, tool>>

Revoke ==
  /\ Spent("revocations", MaxRevocations)
  /\ revoked' = revoked + 1
  /\ UNCHANGED <<calendar, gone, made, clock, token, call, provider, tool>>

-----------------------------------------------------------------------------
(* The client: _call, _send and AccessTokenSource.token *)

Sent(c, issued) == [call EXCEPT ![c].at = "sent", ![c].token = issued]

\* The cached token, if there is one and it is not about to expire; else sign in.
\* The lock lets one caller sign in while the other waits.
Token(c, expiring) ==
  /\ call[c].at = "token"
  /\ \A other \in Callers : call[other].at # "signing"
  /\ IF token # None /\ ~expiring
     THEN call' = Sent(c, token) /\ UNCHANGED token
     ELSE call' = [call EXCEPT ![c].at = "signing"] /\ token' = None
  /\ IF token # None /\ expiring THEN Spent("revocations", MaxRevocations) ELSE UNCHANGED budget
  /\ UNCHANGED <<clock, google, provider, tool>>

SignIn(c) ==
  /\ call[c].at = "signing"
  /\ token' = revoked
  /\ call' = Sent(c, revoked)
  /\ UNCHANGED <<clock, google, provider, tool, budget>>

Refused(c) == call[c].at = "sent" /\ call[c].token < revoked
Answered(c) == call[c].at = "sent" /\ call[c].token = revoked

\* A first 401 drops the cached token, whoever put it there, and tries again.
TryAgain(c) ==
  /\ Refused(c) /\ call[c].tries = 1
  /\ token' = None
  /\ call' = [call EXCEPT ![c].at = "token", ![c].tries = 2]
  /\ UNCHANGED <<clock, google, provider, tool, budget>>

\* What ends a call without an answer to use, and the status, 0 without one.
Fault(c) == Spent("faults", MaxFaults) /\ call[c].at \in {"signing", "sent"}
Failure(c, status) ==
  \/ status = 401 /\ Refused(c) /\ call[c].tries = 2 /\ UNCHANGED budget
  \/ status = 0 /\ Fault(c)
  \/ status \in {403, 400, 500} /\ Fault(c) /\ Answered(c)

-----------------------------------------------------------------------------
(* The window provider *)

\* One reading of the clock serves the list window and fetched_at.
StartRefresh ==
  /\ call["loop"] = Idle /\ clock >= due
  /\ call' = [call EXCEPT !["loop"] =
                [at |-> "token", tries |-> 1, token |-> None, now |-> clock]]
  /\ UNCHANGED <<clock, google, token, provider, tool, budget>>

Rested == call' = [call EXCEPT !["loop"] = Idle] /\ due' = clock + Refresh

\* Slip: what has ended is no longer of interest.
FromNow(now) == now

From(now) == now - (MaxWindow + Grace)

Fetched(now) ==
  [read |-> now, under |-> holding,
   windows |-> {i \in ListWindow(From(now), now + Lookahead) : Holds(i, holding)}]

\* Replaced in memory even if the file keeps its old, whole content.
RefreshDone(written) ==
  LET now == call["loop"].now
  IN  /\ Answered("loop")
      /\ ~TooMany(From(now), now + Lookahead)
      /\ snapshot' = Fetched(now)
      /\ IF written THEN file' = snapshot' /\ UNCHANGED budget
         ELSE UNCHANGED file /\ Spent("faults", MaxFaults)
      /\ Rested
      /\ UNCHANGED <<clock, google, token, holding, tool>>

\* Slip: a failed refresh counts as one.
KeptFresh(now) == [snapshot EXCEPT !.read = now]

\* The snapshot and its age stay.
Kept(now) == snapshot

RefreshFailed ==
  /\ \/ \E status \in {0, 401, 403, 500} : Failure("loop", status)
     \/ /\ Answered("loop")
        /\ TooMany(From(call["loop"].now), call["loop"].now + Lookahead)
        /\ UNCHANGED budget
  /\ snapshot' = IF snapshot.read < 0 THEN snapshot ELSE Kept(call["loop"].now)
  /\ Rested
  /\ UNCHANGED <<clock, google, token, file, holding, tool>>

-----------------------------------------------------------------------------
(* The tools *)

\* Slip: an approval not yet taken keeps its place.
RecordFirst(reference) == IF slot = None THEN reference ELSE slot

\* The gate reports an approval: the reference is kept before the inner recorder
\* is asked, and a decision that cannot be recorded is not allowed to run.  The
\* next call is decided once this one has its answer: the CLI, outside this
\* repository, runs one mutating call at a time.
Record(reference) == reference

Approve(proposal, recorded) ==
  LET reference == Cardinality(DOMAIN approved) + 1
  IN  /\ turn = 0 /\ call["tool"] = Idle
      /\ reference <= MaxApprovals
      /\ SumFunction(budget) + reference <= MaxTrouble
      /\ approved' = [r \in 1..reference |-> IF r = reference THEN proposal ELSE approved[r]]
      /\ slot' = Record(reference)
      /\ IF recorded THEN turn' = reference /\ UNCHANGED budget
         ELSE turn' = 0 /\ Spent("faults", MaxFaults)
      /\ UNCHANGED <<results, receipts, clock, google, token, call, provider>>

Item(reference) ==
  [id |-> reference, creator |-> "henk", homelab |-> TRUE, allDay |-> FALSE,
   start |-> approved[reference].start, end |-> approved[reference].end]

Insert(item) ==
  /\ calendar' = Placed(item)
  /\ made' = [made EXCEPT ![item.id] = @ + 1]

\* Nobody waits for the answer any more: a request already sent may still be
\* carried out.
Abandoned ==
  \/ UNCHANGED <<calendar, made>>
  \/ Answered("tool") /\ Insert(Item(turn))

\* The turn is cancelled between the approval and its run, or within the run.
TurnDies ==
  /\ turn # 0
  /\ turn' = 0
  /\ call' = [call EXCEPT !["tool"] = Idle]
  /\ Spent("faults", MaxFaults)
  /\ Abandoned
  /\ UNCHANGED <<approved, slot, results, receipts, gone, revoked, clock, token, provider>>

Told(what, reference) == [run |-> turn, told |-> what, reference |-> reference]
Answer(result) ==
  /\ results' = results \cup {result}
  /\ turn' = 0
  /\ call' = [call EXCEPT !["tool"] = Idle]

\* _wall_time, title_problem and _timing_problem: the rule the proposal breaks.
Problem(proposal) ==
  \/ proposal.unreadable
  \/ proposal.end <= proposal.start
  \/ proposal.end - proposal.start > MaxWindow
  \/ proposal.start < clock - PastTolerance
  \/ proposal.start > clock + MaxAhead

\* The reference is taken whatever happens next.
Refuse ==
  /\ turn # 0 /\ call["tool"] = Idle
  /\ Problem(approved[turn]) \/ slot = None
  /\ slot' = None
  /\ Answer(Told("nothing was created", slot))
  /\ UNCHANGED <<approved, receipts, clock, google, token, provider, budget>>

Run ==
  /\ turn # 0 /\ call["tool"] = Idle
  /\ ~Problem(approved[turn]) /\ slot # None
  /\ slot' = None
  /\ call' = [call EXCEPT !["tool"] =
                [at |-> "token", tries |-> 1, token |-> None, reference |-> slot]]
  /\ UNCHANGED <<approved, turn, results, receipts, clock, google, token, provider, budget>>

\* Confirmed; a record that cannot be written is loud, and changes nothing else.
Created(written) ==
  LET reference == call["tool"].reference
  IN  /\ Answered("tool") /\ reference # None
      /\ Insert(Item(turn))
      /\ IF written
         THEN receipts' = receipts \cup {[reference |-> reference, item |-> Item(turn)]}
              /\ UNCHANGED budget
         ELSE UNCHANGED receipts /\ Spent("faults", MaxFaults)
      /\ Answer(Told("created", reference))
      /\ UNCHANGED <<approved, slot, gone, revoked, clock, token, provider>>

\* Slip: an error is an error.
InsertFailureFlat(status) == "nothing was created"

\* _insert_failure: Google's own refusal is one; a 5xx or no answer is not.
InsertFailure(status) ==
  IF status \in 400..499 THEN "nothing was created" ELSE "could not be confirmed"

NotCreated(status) ==
  /\ call["tool"] # Idle /\ call["tool"].reference # None
  /\ Failure("tool", status)
  /\ \/ UNCHANGED <<calendar, made>>
     \/ status \in {0, 500} /\ Answered("tool") /\ Insert(Item(turn))
  /\ Answer(Told(InsertFailure(status), call["tool"].reference))
  /\ UNCHANGED <<approved, slot, receipts, gone, revoked, clock, token, provider>>

\* One insert, and what it told the owner, is the whole run.
Submit == Run \/ Refuse \/ \E written \in BOOLEAN : Created(written)
            \/ \E status \in {0, 400, 401, 403, 500} : NotCreated(status)

-----------------------------------------------------------------------------
(* Time and restarts *)

Tick ==
  /\ clock < MaxClock
  /\ clock' = clock + 1
  \* What no property looks back to is forgotten.
  /\ calendar' = [i \in DOMAIN calendar |-> Later(calendar[i], clock - Stale - 1)]
  /\ gone' = {g \in gone : g.at >= clock - Stale}
  /\ UNCHANGED <<made, revoked, token, call, provider, tool, budget>>

\* A damaged file is absent; windows that no longer hold are dropped.
Load(on) ==
  IF file.read < 0 THEN NoSnapshot
  ELSE [file EXCEPT !.windows = {w \in @ : Holds(w, on)}]

Restart(on) ==
  /\ Spent("crashes", MaxCrashes)
  /\ holding' = on
  /\ snapshot' = Load(on)
  /\ due' = clock
  /\ token' = None
  /\ call' = [c \in Callers |-> Idle]
  /\ slot' = None /\ turn' = 0
  /\ Abandoned
  /\ UNCHANGED <<clock, gone, revoked, file, approved, results, receipts>>

Damage ==
  /\ file.read >= 0
  /\ Spent("faults", MaxFaults)
  /\ file' = Damaged
  /\ UNCHANGED <<clock, google, token, call, due, snapshot, holding, tool>>

-----------------------------------------------------------------------------
Init ==
  /\ clock = 0
  /\ \E on \in SUBSET OwnerItems :
       /\ \A i, j \in on : i.id = j.id => i = j
       /\ calendar = [i \in on |-> -1]
  /\ gone = {} /\ made = [r \in 1..MaxApprovals |-> 0] /\ revoked = 0
  /\ token = None
  /\ call = [c \in Callers |-> Idle]
  /\ due = 0
  /\ snapshot = NoSnapshot /\ file = NoSnapshot
  /\ holding = TRUE
  /\ approved = [r \in {} |-> None]
  /\ slot = None /\ turn = 0
  /\ results = {} /\ receipts = {}
  /\ budget = [kind \in Bounded |-> 0]

Next ==
  \/ \E item \in OwnerItems : Add(item)
  \/ \E item \in DOMAIN calendar : Remove(item)
  \/ Revoke
  \/ \E c \in Callers : SignIn(c) \/ TryAgain(c) \/ \E expiring \in BOOLEAN : Token(c, expiring)
  \/ StartRefresh \/ RefreshFailed \/ \E written \in BOOLEAN : RefreshDone(written)
  \/ \E proposal \in Proposals, recorded \in BOOLEAN : Approve(proposal, recorded)
  \/ TurnDies \/ Submit
  \/ Tick \/ Damage
  \/ \E on \in BOOLEAN : Restart(on)

Spec == Init /\ [][Next]_vars

-----------------------------------------------------------------------------
(* Properties *)

\* What holds alerts now is a window somebody allowed to plan one did plan, and
\* that was on the calendar no longer ago than a snapshot may be old: through
\* failed refreshes, a file from before a restart and a configuration changed
\* since (windows.py refresh, load, _usable).
HeldWasPlanned ==
  \A w \in Active :
    /\ Admit(w) /\ Holds(w, holding)
    /\ w \in DOMAIN calendar \/ \E g \in gone : g.item = w /\ g.at >= clock - Stale

\* An admitted window that was on the calendar before the snapshot in use was
\* read, and still is, holds alerts from its start to the end of its grace,
\* whichever part of it the read fell in (windows.py time_min, time_max).  The
\* snapshot must be fresh, and read by a process that held alerts.
PlannedIsHeld ==
  snapshot.read >= 0 /\ clock - snapshot.read <= Stale /\ snapshot.under /\ holding =>
    \A i \in DOMAIN calendar :
      /\ Admit(i) /\ Holds(i, holding)
      /\ calendar[i] < snapshot.read
      /\ i.start <= clock /\ clock < i.end + Grace
      => i \in Active

\* What the owner is told of a creation is so: nothing was created when he is told
\* that, one event when he is told that, and never two from one approval
\* (tools/calendar.py _insert_failure, client.py _call).
ResultsAreTrue ==
  /\ \A r \in results :
       /\ r.told = "nothing was created" => made[r.run] = 0
       /\ r.told = "created" => made[r.run] = 1
  /\ \A reference \in DOMAIN made : made[reference] <= 1

\* A calendar record names the approval whose very arguments were written, also
\* after approvals whose turn died before their run (tools/calendar.py
\* ApprovalReferences); no approval has two.
ReceiptsTellTheWrite ==
  \A r \in receipts :
    /\ r.item = Item(r.reference) /\ made[r.item.id] > 0
    /\ \A s \in receipts : s.reference = r.reference => s = r
=============================================================================
