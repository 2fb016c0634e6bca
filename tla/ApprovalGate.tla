---------------------------- MODULE ApprovalGate ----------------------------
(***************************************************************************)
(* How a tool call of the model comes to run: the approval gate            *)
(* (henk/gate/approval.py), the dispatcher that routes what the owner      *)
(* sends to it (henk/app.py), the permission callback of the model's       *)
(* session (henk/agent/permission.py) and the framing of turns and the     *)
(* taint of sessions by the core (henk/agent/core.py).                     *)
(*                                                                         *)
(* The calls of one assistant message may be in the gate together, and a   *)
(* turn may end under them.  Everything runs on one asyncio loop: what a   *)
(* coroutine does between two awaits that suspend it is one action.  The   *)
(* text of prompts, receipts and reasons is left out.  Timeouts are those  *)
(* of Python 3.12, which the image is built from: an expiry that precedes  *)
(* the waiter's resumption wins, also over an answer already given.        *)
(***************************************************************************)
EXTENDS Naturals, FiniteSets

CONSTANTS
  Calls,         \* tool calls of the model, each made at most once
  Tools,         \* the registered tools
  None,          \* no context, no pending approval, no reference, ...
  MaxQueued      \* bound on the owner's messages waiting in the core's queue

TurnType == {"owner", "event"}
Kind == {"free",           \* read-only or notify-only
         "standing",       \* mutating, authorized without asking
         "per-instance"}   \* mutating, the owner is asked each time
Tool == [kind : Kind, scope : SUBSET TurnType, taints : BOOLEAN]

Outcome == {"authorized", "approved", "denied", "cancelled", "timeout",
            "suppressed", "out-of-scope", "rejected-busy"}
Executing == {"authorized", "approved"}
Answer == {"approved", "denied", "cancelled"}
How == {"keyword", "reaction", None}

Context == [type : TurnType, announceable : BOOLEAN, tainted : BOOLEAN]
Unframed == [type |-> "owner", announceable |-> TRUE, tainted |-> FALSE]

Pending == [call : Calls, ref : Calls \cup {None}, answer : Answer \cup {None},
            by : How, expired : BOOLEAN]
Receipt == [outcome : Outcome, by : How]
Act == [answer : Answer, by : How, late : BOOLEAN]

Phase == {"new",       \* not made yet
          "sending",   \* its prompt is being sent
          "waiting",   \* its prompt was sent
          "editing",   \* decided; the prompt is being edited
          "permitted",   \* authorize returned: the session runs the tool
          "refused",     \* authorize returned: it does not
          "dropped"}   \* the task that waited for the decision was cancelled

ASSUME GateAssumption ==
  /\ None \notin Calls /\ None \notin Tools
  /\ None \notin Context /\ None \notin Pending /\ None \notin Receipt
  /\ None \notin Act /\ None \notin Answer \cup {"keyword", "reaction"}
  /\ Tools \subseteq Tool
  /\ MaxQueued \in Nat

VARIABLES
  demote,     \* the kill-switch: standing tools ask too
  running,    \* is the core running a turn
  tainted,    \* taint of the open session
  turn,       \* the gate's turn context
  pending,    \* the gate's pending approval
  phase,      \* phase[c]: how far call c is
  tool,       \* tool[c]: the tool it calls
  framed,     \* framed[c]: was a turn framed when it was made
  receipt,    \* receipt[c]: what was reported for it
  shown,      \* calls whose prompt is in the conversation (its reference is the call)
  queued,     \* owner's messages waiting in the core's queue
  \* History, read by the properties only:
  firstAct,   \* firstAct[c]: the first answer the owner gave while c was pending
  exposed     \* has the session met an incident, or a source a turn of it ran

coreVars == <<running, tainted>>
vars == <<demote, running, tainted, turn, pending, phase, tool, framed,
          receipt, shown, queued, firstAct, exposed>>

TypeOK ==
  /\ demote \in BOOLEAN /\ running \in BOOLEAN /\ tainted \in BOOLEAN
  /\ turn \in Context \cup {None}
  /\ pending \in Pending \cup {None}
  /\ phase \in [Calls -> Phase]
  /\ tool \in [Calls -> Tools \cup {None}]
  /\ framed \in [Calls -> BOOLEAN]
  /\ receipt \in [Calls -> Receipt \cup {None}]
  /\ shown \subseteq Calls
  /\ queued \in 0..MaxQueued
  /\ firstAct \in [Calls -> Act \cup {None}]
  /\ exposed \in BOOLEAN

Init ==
  /\ demote \in BOOLEAN
  /\ running = FALSE /\ tainted = FALSE /\ turn = None
  /\ pending = None
  /\ phase = [c \in Calls |-> "new"]
  /\ tool = [c \in Calls |-> None]
  /\ framed = [c \in Calls |-> FALSE]
  /\ receipt = [c \in Calls |-> None]
  /\ shown = {}
  /\ queued = 0
  /\ firstAct = [c \in Calls |-> None]
  /\ exposed = FALSE
-----------------------------------------------------------------------------
(* Turns of the core                                                       *)

\* A turn of the owner, in the open session or in a fresh one (there was
\* none, /new closed it, or it was idle for too long).
StartOwnerTurn(fresh) ==
  /\ ~running /\ queued > 0
  /\ running' = TRUE /\ queued' = queued - 1
  /\ tainted' = (tainted /\ ~fresh)
  /\ exposed' = (exposed /\ ~fresh)
  /\ turn' = [type |-> "owner", announceable |-> TRUE, tainted |-> tainted']
  /\ UNCHANGED <<demote, pending, phase, tool, framed, receipt, shown,
                 firstAct>>

\* A turn for an incident, always in a session of its own; it is announceable
\* unless the alert cap suppressed it.
StartEventTurn(announceable) ==
  /\ ~running
  /\ running' = TRUE
  /\ tainted' = TRUE /\ exposed' = TRUE
  /\ turn' = [type |-> "event", announceable |-> announceable, tainted |-> TRUE]
  /\ UNCHANGED <<demote, pending, phase, tool, framed, receipt, shown, queued,
                 firstAct>>

\* Slip: the taint a tool raised is dropped with the turn's context.
EndTurnForgets ==
  /\ running
  /\ running' = FALSE /\ turn' = None
  /\ UNCHANGED <<demote, tainted, pending, phase, tool, framed, receipt, shown,
                 queued, firstAct, exposed>>

\* The turn returns or fails, perhaps with calls still in the gate.
EndTurn ==
  /\ running
  /\ running' = FALSE
  /\ tainted' = (tainted \/ turn.tainted)
  /\ turn' = None
  /\ UNCHANGED <<demote, pending, phase, tool, framed, receipt, shown, queued,
                 firstAct, exposed>>
-----------------------------------------------------------------------------
(* One call in the gate                                                    *)

CallContext == IF turn = None THEN Unframed ELSE turn

Mutating(t) == t.kind # "free"
EffectiveKind(t) == IF demote /\ t.kind = "standing" THEN "per-instance" ELSE t.kind

OutOfScope(t) ==
  \/ "event" \notin t.scope /\ (CallContext.type = "event" \/ CallContext.tainted)
  \/ CallContext.type \notin t.scope

\* The context after a permitted call of tool t, made under a turn or not.
RaiseTaint(t, wasFramed) ==
  CASE ~t.taints \/ (turn = None /\ wasFramed) -> turn
    [] OTHER -> [CallContext EXCEPT !.tainted = TRUE]

Finished(outcome) == IF outcome \in Executing THEN "permitted" ELSE "refused"

\* authorize returns for a call of tool t with this outcome.
Return(c, t, wasFramed, outcome) ==
  /\ phase' = [phase EXCEPT ![c] = Finished(outcome)]
  /\ IF outcome \in Executing
       THEN /\ turn' = RaiseTaint(t, wasFramed)
            /\ exposed' = (exposed \/ (running /\ t.taints))
       ELSE UNCHANGED <<turn, exposed>>

Report(c, outcome, by) ==
  receipt' = [receipt EXCEPT ![c] = [outcome |-> outcome, by |-> by]]

\* What every call does first.
Enters(c, t) ==
  /\ phase[c] = "new"
  /\ tool' = [tool EXCEPT ![c] = t]
  /\ framed' = [framed EXCEPT ![c] = turn # None]
  /\ UNCHANGED <<demote, coreVars, shown, queued, firstAct>>

\* authorize decides at once, with a receipt.
DecideNow(c, t, outcome) ==
  /\ Enters(c, t)
  /\ Report(c, outcome, None)
  /\ Return(c, t, turn # None, outcome)
  /\ UNCHANGED pending

Bypass(c, t) ==
  /\ ~Mutating(t)
  /\ Enters(c, t)
  /\ Return(c, t, turn # None, "approved")
  /\ UNCHANGED <<pending, receipt>>

InScope(t) == Mutating(t) /\ ~OutOfScope(t)

DenyScope(c, t) ==
  /\ Mutating(t) /\ OutOfScope(t)
  /\ DecideNow(c, t, "out-of-scope")

Authorize(c, t) ==
  /\ InScope(t) /\ EffectiveKind(t) = "standing"
  /\ DecideNow(c, t, "authorized")

Asks(t) == InScope(t) /\ EffectiveKind(t) = "per-instance"

Silent == CallContext.type = "event" /\ ~CallContext.announceable

Suppress(c, t) ==
  /\ Asks(t) /\ Silent
  /\ DecideNow(c, t, "suppressed")

\* An argument key the tool does not declare.
RefuseUndeclared(c, t) ==
  /\ Asks(t) /\ ~Silent
  /\ DecideNow(c, t, "cancelled")

RejectBusy(c, t) ==
  /\ Asks(t) /\ ~Silent /\ pending # None
  /\ DecideNow(c, t, "rejected-busy")

SlotFree == pending = None

Ask(c, t) ==
  /\ Asks(t) /\ ~Silent /\ SlotFree
  /\ Enters(c, t)
  /\ pending' = [call |-> c, ref |-> None, answer |-> None, by |-> None,
                 expired |-> FALSE]
  /\ phase' = [phase EXCEPT ![c] = "sending"]
  /\ UNCHANGED <<turn, receipt, exposed>>

Request(c, t) ==
  \/ Bypass(c, t) \/ DenyScope(c, t) \/ Authorize(c, t) \/ Suppress(c, t)
  \/ RefuseUndeclared(c, t) \/ RejectBusy(c, t) \/ Ask(c, t)
-----------------------------------------------------------------------------
(* The prompt                                                              *)

ReleaseSlot == None

\* The wait is over: the slot is released, then the receipt is written, then
\* the prompt is edited if it has a reference.
Decide(c, outcome, ref) ==
  /\ pending' = ReleaseSlot
  /\ Report(c, outcome, IF outcome \in {"approved", "denied"} THEN pending.by ELSE None)
  /\ IF ref # None
       THEN /\ phase' = [phase EXCEPT ![c] = "editing"]
            /\ UNCHANGED <<turn, exposed>>
       ELSE Return(c, tool[c], framed[c], outcome)
  /\ UNCHANGED <<demote, coreVars, tool, framed, shown, queued, firstAct>>

\* The bridge has put the prompt in the conversation; its response may still
\* be lost.
ShowPrompt(c) ==
  /\ phase[c] = "sending" /\ c \notin shown
  /\ shown' = shown \cup {c}
  /\ UNCHANGED <<demote, coreVars, turn, pending, phase, tool, framed, receipt,
                 queued, firstAct, exposed>>

\* The send is confirmed, with a reference or without a usable one.  If a
\* keyword came before, wait_for returns at once.
PromptSent(c, ref) ==
  /\ phase[c] = "sending" /\ c \in shown /\ ref \in {c, None}
  /\ \/ /\ pending.answer # None
        /\ Decide(c, pending.answer, ref)
     \/ /\ pending.answer = None
        /\ pending' = [pending EXCEPT !.ref = ref]
        /\ phase' = [phase EXCEPT ![c] = "waiting"]
        /\ UNCHANGED <<demote, coreVars, turn, tool, framed, receipt, shown,
                       queued, firstAct, exposed>>

\* The send is not confirmed, or the prompt does not fit one message.
PromptFailed(c) ==
  /\ phase[c] = "sending"
  /\ Decide(c, "cancelled", None)

Done == pending.answer # None \/ pending.expired

\* The timer of wait_for cancels the waiting task.
Expire(c) ==
  /\ phase[c] = "waiting" /\ ~pending.expired
  /\ pending' = [pending EXCEPT !.expired = TRUE]
  /\ UNCHANGED <<demote, coreVars, turn, phase, tool, framed, receipt, shown,
                 queued, firstAct, exposed>>

\* The waiting task resumes.
Resume(c) ==
  /\ phase[c] = "waiting" /\ Done
  /\ Decide(c, IF pending.expired THEN "timeout" ELSE pending.answer, pending.ref)

\* The edit was made, refused or failed: the decision returns.
EditDone(c) ==
  /\ phase[c] = "editing"
  /\ Return(c, tool[c], framed[c], receipt[c].outcome)
  /\ UNCHANGED <<demote, coreVars, pending, tool, framed, receipt, shown,
                 queued, firstAct>>

\* Slip: the slot is released on the normal path only.
CancelTaskHolding(c) ==
  /\ phase[c] \in {"sending", "waiting", "editing"}
  /\ phase' = [phase EXCEPT ![c] = "dropped"]
  /\ UNCHANGED <<demote, coreVars, turn, pending, tool, framed, receipt, shown,
                 queued, firstAct, exposed>>

\* The task that awaits the decision is cancelled.
CancelTask(c) ==
  /\ phase[c] \in {"sending", "waiting", "editing"}
  /\ phase' = [phase EXCEPT ![c] = "dropped"]
  /\ pending' = IF phase[c] = "editing" THEN pending ELSE ReleaseSlot
  /\ UNCHANGED <<demote, coreVars, turn, tool, framed, receipt, shown, queued,
                 firstAct, exposed>>
-----------------------------------------------------------------------------
(* The owner                                                               *)

\* Slip: a later answer overwrites.
AnsweredLast(answer, by) == [pending EXCEPT !.answer = answer, !.by = by]

\* The first answer wins, and says how it was given.
Answered(answer, by) ==
  IF Done THEN pending ELSE [pending EXCEPT !.answer = answer, !.by = by]

\* History: the first answer given while this approval is pending.  It is late
\* if the prompt is not in the conversation yet, and an earlier one timed out.
Remember(answer, by) ==
  LET late == /\ pending.call \notin shown
              /\ \E d \in Calls : receipt[d] # None /\ receipt[d].outcome = "timeout"
  IN  firstAct' = [firstAct EXCEPT ![pending.call] =
                     IF @ # None THEN @
                     ELSE [answer |-> answer, by |-> by, late |-> late]]

\* The message becomes a turn of the owner's.
Submit == queued < MaxQueued /\ queued' = queued + 1

\* A message of the owner.  While an approval is pending, a keyword answers it
\* and any other text ("cancelled") fails it and is queued as a turn.
Message(answer) ==
  /\ IF pending = None
       THEN /\ Submit
            /\ UNCHANGED <<pending, firstAct>>
       ELSE LET by == IF answer = "cancelled" THEN None ELSE "keyword" IN
            /\ pending' = Answered(answer, by)
            /\ Remember(answer, by)
            /\ IF answer = "cancelled" THEN Submit ELSE UNCHANGED queued
  /\ UNCHANGED <<demote, coreVars, turn, phase, tool, framed, receipt, shown,
                 exposed>>

\* Slip: a thumb on any prompt counts for the pending one.
AnswersAny(d, removed) ==
  /\ pending # None
  /\ ~removed /\ pending.ref # None /\ ~Done

\* Does a reaction on prompt d, or its removal, answer the pending approval.
Answers(d, removed) ==
  /\ pending # None
  /\ ~removed /\ pending.ref # None /\ d = pending.ref /\ ~Done

\* The owner puts a thumb on a prompt in the conversation, or takes it back.
\* Whatever does not answer is ignored.
React(d, removed, answer) ==
  /\ d \in shown
  /\ Answers(d, removed)
  /\ pending' = Answered(answer, "reaction")
  /\ IF d = pending.call /\ ~removed
       THEN Remember(answer, "reaction")
       ELSE UNCHANGED firstAct
  /\ UNCHANGED <<demote, coreVars, turn, phase, tool, framed, receipt, shown,
                 queued, exposed>>
-----------------------------------------------------------------------------
CallStep(c) ==
  \/ \E t \in Tools : Request(c, t)
  \/ ShowPrompt(c) \/ PromptSent(c, c) \/ PromptSent(c, None) \/ PromptFailed(c)
  \/ Expire(c) \/ Resume(c) \/ EditDone(c) \/ CancelTask(c)

OwnerStep ==
  \/ \E answer \in Answer : Message(answer)
  \/ \E d \in Calls, removed \in BOOLEAN, answer \in {"approved", "denied"} :
       React(d, removed, answer)

TurnStep ==
  \/ \E fresh \in BOOLEAN : StartOwnerTurn(fresh)
  \/ \E announceable \in BOOLEAN : StartEventTurn(announceable)
  \/ EndTurn

Next == TurnStep \/ OwnerStep \/ \E c \in Calls : CallStep(c)

Spec == Init /\ [][Next]_vars

\* What a call in the gate does of itself.
Proceed(c) ==
  \/ PromptSent(c, c) \/ PromptSent(c, None) \/ PromptFailed(c)
  \/ Expire(c) \/ Resume(c) \/ EditDone(c)

\* Sends and edits are bounded by the bridge's timeouts, the wait by its timer,
\* and the loop resumes a task whose future is done.
Fairness == \A c \in Calls : WF_vars(Proceed(c))

FairSpec == Spec /\ Fairness
-----------------------------------------------------------------------------
(* Properties                                                              *)

AtPrompt(c) == phase[c] \in {"sending", "waiting"}

\* The slot is held by the one call whose approval is undecided, and by no
\* other: authorize and its finally keep it so whatever is cancelled, rejected
\* as busy or decided meanwhile.
SlotIsItsPrompts ==
  \A c \in Calls : AtPrompt(c) <=> (pending # None /\ pending.call = c)

\* A tool the owner must be asked about runs only if the first answer the owner
\* gave while that very call was pending approved it (deliver, deliver_reaction).
RunsOnlyOnOwnersWord ==
  \A c \in Calls :
    /\ phase[c] = "permitted"
    /\ EffectiveKind(tool[c]) = "per-instance"
    => firstAct[c] # None /\ firstAct[c].answer = "approved"

\* A receipt that says the owner approved or denied says what the owner answered
\* first, and how: that answer decides outcome and detail alike (_answer).
ReceiptTellsTheAnswer ==
  \A c \in Calls :
    receipt[c] # None /\ receipt[c].outcome \in {"approved", "denied"}
    => /\ firstAct[c] # None
       /\ receipt[c] = [outcome |-> firstAct[c].answer, by |-> firstAct[c].by]

\* Nothing mutating is permitted, and no outcome edit awaited, before the
\* receipt of the decision: a turn cancelled during the edit keeps it
\* (authorize).
ReceiptComesFirst ==
  \A c \in Calls :
    /\ phase[c] = "editing" => receipt[c] # None
    /\ phase[c] = "permitted" /\ Mutating(tool[c])
       => receipt[c] # None /\ receipt[c].outcome \in Executing

\* The pending approval as its call and the owner's acts see it.
PendingKept ==
  pending # None =>
    /\ receipt[pending.call] = None
    /\ pending.ref \in {pending.call, None}
    /\ phase[pending.call] = "sending" => ~pending.expired /\ pending.ref = None
    /\ pending.answer = None /\ ~pending.expired => firstAct[pending.call] = None
    /\ pending.answer # None =>
         /\ firstAct[pending.call] # None
         /\ firstAct[pending.call].answer = pending.answer
         /\ firstAct[pending.call].by = pending.by

\* A call has a tool once made, no act nor receipt before, and is authorized
\* without asking only if its tool is standing.
CallsKept ==
  \A c \in Calls :
    /\ phase[c] = "new" => receipt[c] = None /\ firstAct[c] = None
    /\ phase[c] # "new" => tool[c] \in Tools
    /\ AtPrompt(c) \/ phase[c] = "editing" => EffectiveKind(tool[c]) = "per-instance"
    /\ receipt[c] # None /\ receipt[c].outcome = "authorized"
       => EffectiveKind(tool[c]) = "standing"

\* Exposure of the session shows in its taint, in a turn and between turns.
TaintKept ==
  /\ running => turn # None
  /\ exposed => IF running THEN turn.tainted ELSE tainted

\* The inductive invariant: types, the slot, and what ties the pending approval,
\* the receipts and the taint to what the owner and the session really did.
IInv ==
  /\ TypeOK /\ SlotIsItsPrompts /\ PendingKept /\ CallsKept /\ TaintKept
  /\ ReceiptTellsTheAnswer /\ ReceiptComesFirst

\* A call made now, in a turn of an exposed session, with a mutating tool that
\* excludes event turns, is refused.
ExposedCallRefused(c) ==
  /\ phase[c] = "new" /\ phase'[c] # "new"
  /\ running /\ exposed
  /\ Mutating(tool'[c]) /\ "event" \notin tool'[c].scope
  => phase'[c] = "refused"

ExposedCallsRefused == \A c \in Calls : ExposedCallRefused(c)

\* Once a session met an incident or a taint source, a call made in a turn of
\* it does not write with a tool that excludes event turns (_framed_turn,
\* _raise_taint, _scope_denial_reason).
ExposedSessionNeverWrites == [][ExposedCallsRefused]_vars

\* No approval holds the slot for ever: it is free again and again, however the
\* send, the wait and the edit end (_prompt_and_wait).
SlotIsFreed == []<>(pending = None)

\* After a timeout the owner's next message is a normal message, not a late
\* approval (spec of the gate, "Owner does not respond"): it approves no call
\* whose prompt the owner cannot have seen.  deliver answers from the moment the
\* slot is taken, also while the prompt is still being sent.
NoLateApproval ==
  \A c \in Calls :
    phase[c] = "permitted" /\ receipt[c] # None /\ receipt[c].outcome = "approved"
    => ~firstAct[c].late
=============================================================================
