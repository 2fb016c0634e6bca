------------------------- MODULE ApprovalGateProofs -------------------------
(***************************************************************************)
(* Proofs about ApprovalGate, for any set of calls, any registered tools   *)
(* and any bound on the core's queue: the inductive invariant, and the     *)
(* safety properties that follow from it.                                  *)
(***************************************************************************)
EXTENDS ApprovalGate, TLAPS

USE GateAssumption DEF GateAssumption, TurnType, Kind, Executing, Answer, How

\* The gate starts with an empty slot, no call and an untainted session.
LEMMA InitKeeps == Init => IInv
  <1>. SUFFICES ASSUME Init PROVE IInv
    OBVIOUS
  <1>1. TypeOK
    <2>1. /\ demote \in BOOLEAN /\ running \in BOOLEAN /\ tainted \in BOOLEAN
          /\ exposed \in BOOLEAN
      BY DEF Init
    <2>2. /\ turn \in Context \cup {None} /\ pending \in Pending \cup {None}
          /\ shown \subseteq Calls
      BY DEF Init
    <2>3. /\ phase \in [Calls -> Phase] /\ tool \in [Calls -> Tools \cup {None}]
          /\ framed \in [Calls -> BOOLEAN]
          /\ receipt \in [Calls -> Receipt \cup {None}]
          /\ firstAct \in [Calls -> Act \cup {None}]
      BY DEF Init, Phase
    <2>4. queued \in 0..MaxQueued
      BY DEF Init
    <2>. QED  BY <2>1, <2>2, <2>3, <2>4 DEF TypeOK
  <1>2. SlotIsItsPrompts /\ PendingKept /\ TaintKept
    BY DEF Init, SlotIsItsPrompts, PendingKept, TaintKept, AtPrompt
  <1>3. CallsKept /\ ReceiptTellsTheAnswer /\ ReceiptComesFirst
    BY DEF Init, CallsKept, ReceiptTellsTheAnswer, ReceiptComesFirst, AtPrompt
  <1>. QED  BY <1>1, <1>2, <1>3 DEF IInv

\* The context a call is judged in is always one.
LEMMA CallContextType == TypeOK => CallContext \in Context
  BY DEF TypeOK, CallContext, Unframed, Context

\* Raising taint leaves a context, taints it, and never clears one that is.
LEMMA RaiseTaintKeeps ==
  ASSUME TypeOK, NEW t \in Tools, NEW wasFramed \in BOOLEAN
  PROVE  /\ RaiseTaint(t, wasFramed) \in Context \cup {None}
         /\ turn # None => /\ RaiseTaint(t, wasFramed) # None
                           /\ turn.tainted => RaiseTaint(t, wasFramed).tainted
                           /\ t.taints => RaiseTaint(t, wasFramed).tainted
  <1>1. t.taints \in BOOLEAN /\ turn \in Context \cup {None}
    BY DEF Tool, TypeOK
  <1>2. CallContext \in Context
    BY CallContextType
  <1>3. [CallContext EXCEPT !.tainted = TRUE] \in Context
        /\ [CallContext EXCEPT !.tainted = TRUE].tainted
    BY <1>2 DEF Context
  <1>4. CASE ~t.taints \/ (turn = None /\ wasFramed)
    BY <1>1, <1>4 DEF RaiseTaint
  <1>5. CASE ~(~t.taints \/ (turn = None /\ wasFramed))
    <2>1. RaiseTaint(t, wasFramed) = [CallContext EXCEPT !.tainted = TRUE]
      BY <1>5 DEF RaiseTaint
    <2>. QED  BY <1>3, <2>1
  <1>. QED  BY <1>4, <1>5

\* What a call's return leaves of the turn's context and of the exposure.
LEMMA ReturnKeeps ==
  ASSUME TypeOK, TaintKept, NEW c \in Calls, NEW t \in Tools,
         NEW wasFramed \in BOOLEAN, NEW outcome \in Outcome,
         Return(c, t, wasFramed, outcome), UNCHANGED <<running, tainted>>
  PROVE  /\ turn' \in Context \cup {None} /\ exposed' \in BOOLEAN
         /\ TaintKept'
         /\ phase' = [phase EXCEPT ![c] = Finished(outcome)]
         /\ phase' \in [Calls -> Phase]
  <1>1. /\ phase' = [phase EXCEPT ![c] = Finished(outcome)]
        /\ phase' \in [Calls -> Phase]
    BY DEF Return, Finished, TypeOK, Phase
  <1>2. CASE outcome \in Executing
    <2>1. turn' = RaiseTaint(t, wasFramed) /\ exposed' = (exposed \/ (running /\ t.taints))
      BY <1>2 DEF Return
    <2>2. running \in BOOLEAN /\ exposed \in BOOLEAN /\ t.taints \in BOOLEAN
      BY DEF TypeOK, Tool
    <2>. QED  BY <1>1, <2>1, <2>2, RaiseTaintKeeps DEF TaintKept
  <1>3. CASE outcome \notin Executing
    BY <1>1, <1>3 DEF Return, TaintKept, TypeOK
  <1>. QED  BY <1>2, <1>3
-----------------------------------------------------------------------------
(* Turns                                                                   *)

\* Turns begin and end (_framed_turn, _ensure_session): the session's taint goes
\* into the turn's context and the context's taint back into the session.
LEMMA TurnStepKeeps ==
  ASSUME IInv, TurnStep
  PROVE  IInv'
  <1>. USE DEF IInv
  <1>1. UNCHANGED <<demote, pending, phase, tool, framed, receipt, shown, firstAct>>
    BY DEF TurnStep, StartOwnerTurn, StartEventTurn, EndTurn
  <1>2. /\ running' \in BOOLEAN /\ tainted' \in BOOLEAN /\ exposed' \in BOOLEAN
        /\ turn' \in Context \cup {None}
        /\ queued' \in 0..MaxQueued
        /\ TaintKept'
    <2>1. CASE \E fresh \in BOOLEAN : StartOwnerTurn(fresh)
      <3>1. PICK fresh \in BOOLEAN : StartOwnerTurn(fresh)
        BY <2>1
      <3>2. tainted' \in BOOLEAN /\ exposed' \in BOOLEAN
        BY <3>1 DEF StartOwnerTurn, TypeOK
      <3>3. queued' \in 0..MaxQueued
        BY <3>1 DEF StartOwnerTurn, TypeOK
      <3>4. turn' \in Context /\ turn'.tainted = tainted' /\ running' = TRUE
        BY <3>1, <3>2 DEF StartOwnerTurn, Context
      <3>5. exposed' => tainted'
        BY <3>1 DEF StartOwnerTurn, TaintKept
      <3>. QED  BY <3>2, <3>3, <3>4, <3>5 DEF TaintKept
    <2>2. CASE \E announceable \in BOOLEAN : StartEventTurn(announceable)
      <3>1. PICK announceable \in BOOLEAN : StartEventTurn(announceable)
        BY <2>2
      <3>2. queued' \in 0..MaxQueued
        BY <3>1 DEF StartEventTurn, TypeOK
      <3>3. turn' \in Context /\ turn'.tainted /\ running' = TRUE
        BY <3>1 DEF StartEventTurn, Context
      <3>4. tainted' = TRUE /\ exposed' = TRUE
        BY <3>1 DEF StartEventTurn
      <3>. QED  BY <3>2, <3>3, <3>4 DEF TaintKept
    <2>3. CASE EndTurn
      <3>1. turn \in Context
        BY <2>3 DEF EndTurn, TaintKept, TypeOK
      <3>2. tainted' \in BOOLEAN /\ exposed' \in BOOLEAN
        BY <2>3, <3>1 DEF EndTurn, TypeOK, Context
      <3>3. queued' \in 0..MaxQueued
        BY <2>3 DEF EndTurn, TypeOK
      <3>4. running' = FALSE /\ turn' = None /\ (exposed' => tainted')
        BY <2>3, <3>2 DEF EndTurn, TaintKept
      <3>. QED  BY <3>2, <3>3, <3>4 DEF TaintKept
    <2>. QED  BY <2>1, <2>2, <2>3 DEF TurnStep
  <1>3. TypeOK'
    BY <1>1, <1>2 DEF TypeOK
  <1>4. /\ SlotIsItsPrompts' /\ PendingKept' /\ CallsKept'
        /\ ReceiptTellsTheAnswer' /\ ReceiptComesFirst'
    BY <1>1 DEF SlotIsItsPrompts, PendingKept, CallsKept, ReceiptTellsTheAnswer,
                ReceiptComesFirst, AtPrompt, EffectiveKind
  <1>. QED  BY <1>2, <1>3, <1>4
-----------------------------------------------------------------------------
(* Calls decided at once                                                   *)

\* What Enters leaves alone, and what it makes of the call's own entries.
LEMMA EntersKeeps ==
  ASSUME IInv, NEW c \in Calls, NEW t \in Tools, Enters(c, t)
  PROVE  /\ phase[c] = "new" /\ receipt[c] = None /\ firstAct[c] = None
         /\ pending # None => pending.call \in Calls \ {c}
         /\ tool' = [tool EXCEPT ![c] = t] /\ tool'[c] = t
         /\ tool' \in [Calls -> Tools \cup {None}]
         /\ framed' \in [Calls -> BOOLEAN]
         /\ UNCHANGED <<demote, running, tainted, shown, queued,
                        firstAct>>
  <1>1. phase[c] = "new" /\ receipt[c] = None /\ firstAct[c] = None
    BY DEF Enters, IInv, CallsKept
  <1>2. pending # None => pending.call \in Calls \ {c}
    BY <1>1 DEF IInv, TypeOK, SlotIsItsPrompts, AtPrompt, Pending
  <1>. QED  BY <1>1, <1>2 DEF Enters, coreVars, IInv, TypeOK

\* A decision without a prompt: its receipt never claims an answer of the owner,
\* and authorizes only what needs no asking.
LEMMA DecideNowKeeps ==
  ASSUME IInv, NEW c \in Calls, NEW t \in Tools,
         NEW outcome \in Outcome \ {"approved", "denied"},
         outcome = "authorized" => EffectiveKind(t) = "standing",
         DecideNow(c, t, outcome)
  PROVE  IInv'
  <1>. DEFINE wasFramed == turn # None
  <1>1. /\ Enters(c, t) /\ Return(c, t, wasFramed, outcome)
        /\ receipt' = [receipt EXCEPT ![c] = [outcome |-> outcome, by |-> None]]
        /\ pending' = pending
    BY DEF DecideNow, Report
  <1>2. TypeOK /\ SlotIsItsPrompts /\ PendingKept /\ CallsKept /\ TaintKept
        /\ ReceiptTellsTheAnswer /\ ReceiptComesFirst
    BY DEF IInv
  <1>3. /\ phase[c] = "new" /\ receipt[c] = None /\ firstAct[c] = None
        /\ pending # None => pending.call \in Calls \ {c}
        /\ tool' = [tool EXCEPT ![c] = t] /\ tool'[c] = t
        /\ tool' \in [Calls -> Tools \cup {None}]
        /\ framed' \in [Calls -> BOOLEAN]
        /\ UNCHANGED <<demote, running, tainted, shown, queued,
                       firstAct>>
    BY <1>1, EntersKeeps
  <1>4. /\ turn' \in Context \cup {None} /\ exposed' \in BOOLEAN
        /\ TaintKept'
        /\ phase' = [phase EXCEPT ![c] = Finished(outcome)]
        /\ phase' \in [Calls -> Phase]
    BY <1>1, <1>2, <1>3, ReturnKeeps
  <1>5. receipt' \in [Calls -> Receipt \cup {None}]
    BY <1>1, <1>2 DEF TypeOK, Receipt
  <1>6. TypeOK'
    BY <1>1, <1>2, <1>3, <1>4, <1>5 DEF TypeOK
  <1>7. phase'[c] \in {"permitted", "refused"} /\ phase'[c] = Finished(outcome)
    BY <1>2, <1>4 DEF TypeOK, Finished
  <1>8. \A d \in Calls \ {c} : /\ phase'[d] = phase[d] /\ receipt'[d] = receipt[d]
                               /\ tool'[d] = tool[d]
    BY <1>1, <1>2, <1>3, <1>4 DEF TypeOK
  <1>9. receipt'[c] = [outcome |-> outcome, by |-> None] /\ receipt'[c] # None
    BY <1>1, <1>2, <1>5 DEF TypeOK, Receipt
  <1>10. SlotIsItsPrompts' /\ PendingKept'
    BY <1>1, <1>2, <1>3, <1>7, <1>8 DEF SlotIsItsPrompts, PendingKept, AtPrompt
  <1>11. CallsKept'
    BY <1>2, <1>3, <1>7, <1>8, <1>9 DEF CallsKept, AtPrompt, EffectiveKind
  <1>12. ReceiptTellsTheAnswer'
    BY <1>2, <1>3, <1>8, <1>9 DEF ReceiptTellsTheAnswer
  <1>13. ReceiptComesFirst'
    BY <1>2, <1>7, <1>8, <1>9 DEF ReceiptComesFirst, Finished
  <1>. QED  BY <1>4, <1>6, <1>10, <1>11, <1>12, <1>13 DEF IInv

\* A free tool passes the gate without a receipt.
LEMMA BypassKeeps ==
  ASSUME IInv, NEW c \in Calls, NEW t \in Tools, Bypass(c, t)
  PROVE  IInv'
  <1>. DEFINE wasFramed == turn # None
  <1>1. /\ Enters(c, t) /\ Return(c, t, wasFramed, "approved") /\ ~Mutating(t)
        /\ receipt' = receipt /\ pending' = pending
    BY DEF Bypass
  <1>2. TypeOK /\ SlotIsItsPrompts /\ PendingKept /\ CallsKept /\ TaintKept
        /\ ReceiptTellsTheAnswer /\ ReceiptComesFirst
    BY DEF IInv
  <1>3. /\ phase[c] = "new" /\ receipt[c] = None /\ firstAct[c] = None
        /\ pending # None => pending.call \in Calls \ {c}
        /\ tool' = [tool EXCEPT ![c] = t] /\ tool'[c] = t
        /\ tool' \in [Calls -> Tools \cup {None}]
        /\ framed' \in [Calls -> BOOLEAN]
        /\ UNCHANGED <<demote, running, tainted, shown, queued,
                       firstAct>>
    BY <1>1, EntersKeeps
  <1>4. /\ turn' \in Context \cup {None} /\ exposed' \in BOOLEAN
        /\ TaintKept'
        /\ phase' = [phase EXCEPT ![c] = Finished("approved")]
        /\ phase' \in [Calls -> Phase]
    <2>. "approved" \in Outcome
      BY DEF Outcome
    <2>. QED  BY <1>1, <1>2, <1>3, ReturnKeeps
  <1>5. TypeOK'
    BY <1>1, <1>2, <1>3, <1>4 DEF TypeOK
  <1>6. phase'[c] = "permitted"
    BY <1>2, <1>4 DEF TypeOK, Finished
  <1>7. \A d \in Calls \ {c} : phase'[d] = phase[d] /\ tool'[d] = tool[d]
    BY <1>2, <1>3, <1>4 DEF TypeOK
  <1>8. SlotIsItsPrompts' /\ PendingKept'
    BY <1>1, <1>2, <1>3, <1>6, <1>7 DEF SlotIsItsPrompts, PendingKept, AtPrompt
  <1>9. CallsKept'
    BY <1>1, <1>2, <1>3, <1>6, <1>7 DEF CallsKept, AtPrompt, EffectiveKind
  <1>10. ReceiptTellsTheAnswer'
    BY <1>1, <1>2, <1>3 DEF ReceiptTellsTheAnswer
  <1>11. ReceiptComesFirst'
    BY <1>1, <1>2, <1>3, <1>6, <1>7 DEF ReceiptComesFirst, Mutating
  <1>. QED  BY <1>4, <1>5, <1>8, <1>9, <1>10, <1>11 DEF IInv

\* The call takes the empty slot and its prompt is being sent.
LEMMA AskKeeps ==
  ASSUME IInv, NEW c \in Calls, NEW t \in Tools, Ask(c, t)
  PROVE  IInv'
  <1>1. /\ Enters(c, t) /\ Asks(t) /\ pending = None
        /\ pending' = [call |-> c, ref |-> None, answer |-> None, by |-> None,
                       expired |-> FALSE]
        /\ phase' = [phase EXCEPT ![c] = "sending"]
        /\ UNCHANGED <<turn, receipt, exposed>>
    BY DEF Ask, SlotFree
  <1>2. TypeOK /\ SlotIsItsPrompts /\ CallsKept /\ TaintKept
        /\ ReceiptTellsTheAnswer /\ ReceiptComesFirst
    BY DEF IInv
  <1>3. /\ phase[c] = "new" /\ receipt[c] = None /\ firstAct[c] = None
        /\ tool' = [tool EXCEPT ![c] = t] /\ tool'[c] = t
        /\ tool' \in [Calls -> Tools \cup {None}]
        /\ framed' \in [Calls -> BOOLEAN]
        /\ UNCHANGED <<demote, running, tainted, shown, queued,
                       firstAct>>
    BY <1>1, EntersKeeps
  <1>4. /\ pending' \in Pending /\ pending' # None /\ pending'.call = c
        /\ pending'.ref = None /\ pending'.answer = None /\ ~pending'.expired
    <2>1. pending' \in Pending
      BY <1>1 DEF Pending
    <2>. QED  BY <1>1, <2>1
  <1>5. phase' \in [Calls -> Phase] /\ phase'[c] = "sending"
    BY <1>1, <1>2 DEF TypeOK, Phase
  <1>6. TypeOK'
    BY <1>1, <1>2, <1>3, <1>4, <1>5 DEF TypeOK
  <1>7. \A d \in Calls \ {c} : phase'[d] = phase[d] /\ tool'[d] = tool[d]
    BY <1>1, <1>2, <1>3 DEF TypeOK
  <1>8. SlotIsItsPrompts'
    BY <1>1, <1>2, <1>4, <1>5, <1>7 DEF SlotIsItsPrompts, AtPrompt
  <1>9. PendingKept'
    BY <1>1, <1>3, <1>4 DEF PendingKept
  <1>10. CallsKept'
    BY <1>1, <1>2, <1>3, <1>5, <1>7 DEF CallsKept, AtPrompt, EffectiveKind, Asks
  <1>11. TaintKept'
    BY <1>1, <1>2, <1>3 DEF TaintKept
  <1>12. ReceiptTellsTheAnswer'
    BY <1>1, <1>2, <1>3 DEF ReceiptTellsTheAnswer
  <1>13. ReceiptComesFirst'
    BY <1>1, <1>2, <1>3, <1>5, <1>7 DEF ReceiptComesFirst
  <1>. QED  BY <1>6, <1>8, <1>9, <1>10, <1>11, <1>12, <1>13 DEF IInv

\* Whatever authorize does first for a new call.
LEMMA RequestKeeps ==
  ASSUME IInv, NEW c \in Calls, NEW t \in Tools, Request(c, t)
  PROVE  IInv'
  <1>1. CASE Bypass(c, t)
    BY <1>1, BypassKeeps
  <1>2. CASE DenyScope(c, t)
    BY <1>2, DecideNowKeeps DEF DenyScope, Outcome
  <1>3. CASE Authorize(c, t)
    BY <1>3, DecideNowKeeps DEF Authorize, Outcome
  <1>4. CASE Suppress(c, t)
    BY <1>4, DecideNowKeeps DEF Suppress, Outcome
  <1>5. CASE RefuseUndeclared(c, t)
    BY <1>5, DecideNowKeeps DEF RefuseUndeclared, Outcome
  <1>6. CASE RejectBusy(c, t)
    BY <1>6, DecideNowKeeps DEF RejectBusy, Outcome
  <1>7. CASE Ask(c, t)
    BY <1>7, AskKeeps
  <1>. QED  BY <1>1, <1>2, <1>3, <1>4, <1>5, <1>6, <1>7 DEF Request
-----------------------------------------------------------------------------
(* The prompt                                                              *)

\* The slot's call, when a call is at its prompt.
LEMMA PromptOwnsSlot ==
  ASSUME IInv, NEW c \in Calls, AtPrompt(c)
  PROVE  /\ pending \in Pending /\ pending.call = c
         /\ tool[c] \in Tools /\ framed[c] \in BOOLEAN
         /\ EffectiveKind(tool[c]) = "per-instance"
         /\ receipt[c] = None
         /\ \A d \in Calls \ {c} : ~AtPrompt(d)
  BY DEF IInv, TypeOK, SlotIsItsPrompts, PendingKept, CallsKept, AtPrompt

\* Deciding the pending approval, with the owner's answer or none.
LEMMA DecideKeeps ==
  ASSUME IInv, NEW c \in Calls, AtPrompt(c),
         NEW outcome \in {"cancelled", "timeout"} \cup Answer,
         outcome \in {"approved", "denied"} => outcome = pending.answer,
         NEW ref, Decide(c, outcome, ref)
  PROVE  IInv'
  <1>. DEFINE by == IF outcome \in {"approved", "denied"} THEN pending.by ELSE None
              r == [outcome |-> outcome, by |-> by]
  <1>1. TypeOK /\ SlotIsItsPrompts /\ PendingKept /\ CallsKept /\ TaintKept
        /\ ReceiptTellsTheAnswer /\ ReceiptComesFirst
    BY DEF IInv
  <1>2. /\ pending \in Pending /\ pending.call = c
        /\ tool[c] \in Tools /\ framed[c] \in BOOLEAN
        /\ EffectiveKind(tool[c]) = "per-instance"
        /\ receipt[c] = None
        /\ \A d \in Calls \ {c} : ~AtPrompt(d)
    BY PromptOwnsSlot
  <1>3. /\ pending' = None /\ receipt' = [receipt EXCEPT ![c] = r]
        /\ UNCHANGED <<demote, running, tainted, tool, framed, shown,
                       queued, firstAct>>
    BY DEF Decide, ReleaseSlot, Report, coreVars
  <1>4. /\ turn' \in Context \cup {None} /\ exposed' \in BOOLEAN /\ TaintKept'
        /\ \/ phase' = [phase EXCEPT ![c] = "editing"]
           \/ phase' = [phase EXCEPT ![c] = Finished(outcome)]
        /\ phase' \in [Calls -> Phase]
    <2>1. CASE ref # None
      BY <1>1, <1>3, <2>1 DEF Decide, TaintKept, TypeOK, Phase
    <2>2. CASE ref = None
      <3>. outcome \in Outcome
        BY DEF Outcome
      <3>. Return(c, tool[c], framed[c], outcome)
        BY <2>2 DEF Decide
      <3>. QED  BY <1>1, <1>2, <1>3, ReturnKeeps
    <2>. QED  BY <2>1, <2>2
  <1>5. r \in Receipt
    BY <1>2 DEF Receipt, Outcome, Pending
  <1>6. receipt' \in [Calls -> Receipt \cup {None}] /\ receipt'[c] = r /\ r # None
    BY <1>1, <1>3, <1>5 DEF TypeOK
  <1>7. TypeOK'
    BY <1>1, <1>3, <1>4, <1>6 DEF TypeOK
  <1>8. /\ phase'[c] \in {"editing", "permitted", "refused"}
        /\ phase'[c] = "permitted" => outcome \in Executing
        /\ \A d \in Calls \ {c} : phase'[d] = phase[d] /\ receipt'[d] = receipt[d]
    BY <1>1, <1>3, <1>4 DEF TypeOK, Finished
  <1>9. SlotIsItsPrompts'
    BY <1>2, <1>3, <1>8 DEF SlotIsItsPrompts, AtPrompt
  <1>10. PendingKept'
    BY <1>3 DEF PendingKept
  <1>11. CallsKept'
    BY <1>1, <1>2, <1>3, <1>6, <1>8 DEF CallsKept, AtPrompt, EffectiveKind
  <1>12. ReceiptTellsTheAnswer'
    BY <1>1, <1>2, <1>3, <1>6, <1>8 DEF ReceiptTellsTheAnswer, PendingKept
  <1>13. ReceiptComesFirst'
    BY <1>1, <1>3, <1>6, <1>8 DEF ReceiptComesFirst
  <1>. QED  BY <1>4, <1>7, <1>9, <1>10, <1>11, <1>12, <1>13 DEF IInv

\* The confirmed send: it learns the prompt's reference, or decides on a keyword
\* that came before it.
LEMMA PromptSentKeeps ==
  ASSUME IInv, NEW c \in Calls, NEW ref \in {c, None}, PromptSent(c, ref)
  PROVE  IInv'
  <1>1. AtPrompt(c) /\ phase[c] = "sending"
    BY DEF PromptSent, AtPrompt
  <1>2. /\ pending \in Pending /\ pending.call = c
        /\ tool[c] \in Tools /\ framed[c] \in BOOLEAN
        /\ EffectiveKind(tool[c]) = "per-instance"
        /\ receipt[c] = None
        /\ \A d \in Calls \ {c} : ~AtPrompt(d)
    BY <1>1, PromptOwnsSlot
  <1>3. CASE pending.answer # None /\ Decide(c, pending.answer, ref)
    <2>1. pending.answer \in Answer
      BY <1>2, <1>3 DEF Pending
    <2>. QED  BY <1>1, <1>3, <2>1, DecideKeeps
  <1>4. CASE /\ pending.answer = None
             /\ pending' = [pending EXCEPT !.ref = ref]
             /\ phase' = [phase EXCEPT ![c] = "waiting"]
             /\ UNCHANGED <<demote, coreVars, turn, tool, framed, receipt, shown,
                            queued, firstAct, exposed>>
    <2>1. /\ pending' \in Pending /\ pending' # None /\ pending'.call = c
          /\ pending'.ref = ref /\ pending'.answer = None
          /\ pending'.expired = pending.expired
      BY <1>2, <1>4 DEF Pending
    <2>2. /\ phase' \in [Calls -> Phase] /\ phase'[c] = "waiting"
          /\ \A d \in Calls \ {c} : phase'[d] = phase[d]
      BY <1>4 DEF IInv, TypeOK, Phase
    <2>3. UNCHANGED <<demote, running, tainted, turn, tool, framed, receipt,
                      shown, queued, firstAct, exposed>>
      BY <1>4 DEF coreVars
    <2>4. TypeOK'
      BY <2>1, <2>2, <2>3 DEF IInv, TypeOK
    <2>5. SlotIsItsPrompts'
      BY <1>2, <2>1, <2>2 DEF SlotIsItsPrompts, AtPrompt
    <2>6. PendingKept'
      BY <1>2, <1>4, <2>1, <2>2, <2>3 DEF IInv, PendingKept
    <2>7. CallsKept'
      BY <1>1, <1>2, <2>2, <2>3 DEF IInv, CallsKept, AtPrompt, EffectiveKind
    <2>8. TaintKept' /\ ReceiptTellsTheAnswer' /\ ReceiptComesFirst'
      BY <2>2, <2>3 DEF IInv, TaintKept, ReceiptTellsTheAnswer, ReceiptComesFirst
    <2>. QED  BY <2>4, <2>5, <2>6, <2>7, <2>8 DEF IInv
  <1>. QED  BY <1>3, <1>4 DEF PromptSent

\* The waiting task resumes: an expiry is a timeout, otherwise the answer counts.
LEMMA ResumeKeeps ==
  ASSUME IInv, NEW c \in Calls, Resume(c)
  PROVE  IInv'
  <1>1. AtPrompt(c)
    BY DEF Resume, AtPrompt
  <1>2. pending \in Pending
    BY <1>1, PromptOwnsSlot
  <1>3. CASE pending.expired
    BY <1>1, <1>3, DecideKeeps DEF Resume
  <1>4. CASE ~pending.expired
    <2>1. pending.answer \in Answer
      BY <1>2, <1>4 DEF Resume, Done, Pending
    <2>. QED  BY <1>1, <1>4, <2>1, DecideKeeps DEF Resume
  <1>. QED  BY <1>3, <1>4

\* A prompt that was not delivered is decided as cancelled.
LEMMA PromptFailedKeeps ==
  ASSUME IInv, NEW c \in Calls, PromptFailed(c)
  PROVE  IInv'
  BY DecideKeeps DEF PromptFailed, AtPrompt

\* The prompt appears in the conversation: the gate does not know it yet.
LEMMA ShowPromptKeeps ==
  ASSUME IInv, NEW c \in Calls, ShowPrompt(c)
  PROVE  IInv'
  <1>1. /\ shown' = shown \cup {c}
        /\ UNCHANGED <<demote, running, tainted, turn, pending, phase, tool,
                       framed, receipt, queued, firstAct, exposed>>
    BY DEF ShowPrompt, coreVars
  <1>2. TypeOK'
    BY <1>1 DEF IInv, TypeOK
  <1>. QED
    BY <1>1, <1>2 DEF IInv, SlotIsItsPrompts, PendingKept, CallsKept, TaintKept, AtPrompt,
                      EffectiveKind, ReceiptTellsTheAnswer, ReceiptComesFirst

\* The timer marks the pending approval and leaves an answer it has.
LEMMA ExpireKeeps ==
  ASSUME IInv, NEW c \in Calls, Expire(c)
  PROVE  IInv'
  <1>1. AtPrompt(c) /\ phase[c] = "waiting"
    BY DEF Expire, AtPrompt
  <1>2. pending \in Pending /\ pending.call = c
    BY <1>1, PromptOwnsSlot
  <1>3. /\ pending' \in Pending /\ pending' # None /\ pending'.call = pending.call
        /\ pending'.ref = pending.ref /\ pending'.answer = pending.answer
        /\ pending'.by = pending.by /\ pending'.expired
    BY <1>2 DEF Expire, Pending
  <1>4. UNCHANGED <<demote, running, tainted, turn, phase, tool, framed,
                    receipt, shown, queued, firstAct, exposed>>
    BY DEF Expire, coreVars
  <1>5. TypeOK'
    BY <1>3, <1>4 DEF IInv, TypeOK
  <1>6. SlotIsItsPrompts' /\ PendingKept'
    BY <1>1, <1>2, <1>3, <1>4 DEF IInv, SlotIsItsPrompts, PendingKept, AtPrompt
  <1>7. /\ CallsKept' /\ TaintKept' /\ ReceiptTellsTheAnswer' /\ ReceiptComesFirst'
    BY <1>4 DEF IInv, CallsKept, TaintKept, AtPrompt, EffectiveKind,
                ReceiptTellsTheAnswer, ReceiptComesFirst
  <1>. QED  BY <1>5, <1>6, <1>7 DEF IInv

\* The outcome edit is over: the decision on the receipt is returned.
LEMMA EditDoneKeeps ==
  ASSUME IInv, NEW c \in Calls, EditDone(c)
  PROVE  IInv'
  <1>1. TypeOK /\ SlotIsItsPrompts /\ PendingKept /\ CallsKept /\ TaintKept
        /\ ReceiptTellsTheAnswer /\ ReceiptComesFirst
    BY DEF IInv
  <1>2. /\ phase[c] = "editing" /\ receipt[c] # None
        /\ tool[c] \in Tools /\ framed[c] \in BOOLEAN
        /\ receipt[c].outcome \in Outcome
        /\ pending # None => pending.call \in Calls \ {c}
    BY <1>1 DEF EditDone, ReceiptComesFirst, CallsKept, TypeOK, Receipt,
                SlotIsItsPrompts, AtPrompt, Pending
  <1>3. UNCHANGED <<demote, running, tainted, pending, tool, framed, receipt,
                    shown, queued, firstAct>>
    BY DEF EditDone, coreVars
  <1>4. /\ turn' \in Context \cup {None} /\ exposed' \in BOOLEAN /\ TaintKept'
        /\ phase' = [phase EXCEPT ![c] = Finished(receipt[c].outcome)]
        /\ phase' \in [Calls -> Phase]
    BY <1>1, <1>2, <1>3, ReturnKeeps DEF EditDone
  <1>5. /\ phase'[c] \in {"permitted", "refused"}
        /\ phase'[c] = "permitted" => receipt[c].outcome \in Executing
        /\ \A d \in Calls \ {c} : phase'[d] = phase[d]
    BY <1>1, <1>4 DEF TypeOK, Finished
  <1>6. TypeOK'
    BY <1>1, <1>3, <1>4 DEF TypeOK
  <1>7. SlotIsItsPrompts' /\ PendingKept'
    BY <1>1, <1>2, <1>3, <1>5 DEF SlotIsItsPrompts, PendingKept, AtPrompt
  <1>8. CallsKept'
    BY <1>1, <1>2, <1>3, <1>5 DEF CallsKept, AtPrompt, EffectiveKind
  <1>9. ReceiptTellsTheAnswer' /\ ReceiptComesFirst'
    BY <1>1, <1>2, <1>3, <1>5 DEF ReceiptTellsTheAnswer, ReceiptComesFirst
  <1>. QED  BY <1>4, <1>6, <1>7, <1>8, <1>9 DEF IInv

\* The task is cancelled: its slot is released if it had not decided.
LEMMA CancelTaskKeeps ==
  ASSUME IInv, NEW c \in Calls, CancelTask(c)
  PROVE  IInv'
  <1>1. TypeOK /\ SlotIsItsPrompts /\ PendingKept /\ CallsKept /\ TaintKept
        /\ ReceiptTellsTheAnswer /\ ReceiptComesFirst
    BY DEF IInv
  <1>2. UNCHANGED <<demote, running, tainted, turn, tool, framed, receipt,
                    shown, queued, firstAct, exposed>>
    BY DEF CancelTask, coreVars
  <1>3. /\ phase' \in [Calls -> Phase] /\ phase'[c] = "dropped" /\ phase[c] # "new"
        /\ \A d \in Calls \ {c} : phase'[d] = phase[d]
    BY <1>1 DEF CancelTask, TypeOK, Phase
  <1>4. /\ AtPrompt(c) => pending' = None
        /\ ~AtPrompt(c) => pending' = pending
    BY DEF CancelTask, ReleaseSlot, AtPrompt
  <1>5. SlotIsItsPrompts' /\ PendingKept'
    <2>1. CASE AtPrompt(c)
      BY <1>1, <1>3, <1>4, <2>1, PromptOwnsSlot DEF SlotIsItsPrompts, PendingKept, AtPrompt
    <2>2. CASE ~AtPrompt(c)
      <3>1. pending # None => pending.call \in Calls \ {c}
        BY <1>1, <2>2 DEF SlotIsItsPrompts, TypeOK, Pending
      <3>. QED  BY <1>1, <1>2, <1>3, <1>4, <2>2, <3>1
                DEF SlotIsItsPrompts, PendingKept, AtPrompt
    <2>. QED  BY <2>1, <2>2
  <1>6. TypeOK'
    BY <1>1, <1>2, <1>3, <1>4 DEF TypeOK
  <1>7. CallsKept'
    BY <1>1, <1>2, <1>3 DEF CallsKept, AtPrompt, EffectiveKind
  <1>8. TaintKept' /\ ReceiptTellsTheAnswer' /\ ReceiptComesFirst'
    BY <1>1, <1>2, <1>3 DEF TaintKept, ReceiptTellsTheAnswer, ReceiptComesFirst
  <1>. QED  BY <1>5, <1>6, <1>7, <1>8 DEF IInv
-----------------------------------------------------------------------------
(* The owner                                                               *)

\* An answer to the pending approval: it sets the answer and the history
\* together, or finds it decided and leaves both.
LEMMA AnswerKeeps ==
  ASSUME IInv, pending # None, NEW answer \in Answer, NEW by \in How,
         pending' = Answered(answer, by), Remember(answer, by),
         UNCHANGED <<demote, coreVars, turn, phase, tool, framed, receipt, shown,
                     exposed>>,
         queued' \in 0..MaxQueued
  PROVE  IInv'
  <1>. DEFINE k == pending.call
  <1>1. TypeOK /\ SlotIsItsPrompts /\ PendingKept /\ CallsKept /\ TaintKept
        /\ ReceiptTellsTheAnswer /\ ReceiptComesFirst
    BY DEF IInv
  <1>2. pending \in Pending /\ k \in Calls /\ AtPrompt(k) /\ receipt[k] = None
    BY <1>1 DEF TypeOK, Pending, SlotIsItsPrompts, PendingKept
  <1>3. UNCHANGED <<demote, running, tainted, turn, phase, tool, framed,
                    receipt, shown, exposed>>
    BY DEF coreVars
  <1>4. PICK late \in BOOLEAN :
          firstAct' = [firstAct EXCEPT ![k] =
                         IF @ # None THEN @
                         ELSE [answer |-> answer, by |-> by, late |-> late]]
    BY DEF Remember
  <1>5. [answer |-> answer, by |-> by, late |-> late] \in Act
    BY DEF Act
  <1>6. /\ firstAct' \in [Calls -> Act \cup {None}]
        /\ \A d \in Calls \ {k} : firstAct'[d] = firstAct[d]
        /\ firstAct[k] # None => firstAct'[k] = firstAct[k]
        /\ firstAct[k] = None => /\ firstAct'[k] # None
                                 /\ firstAct'[k].answer = answer
                                 /\ firstAct'[k].by = by
    BY <1>1, <1>2, <1>4, <1>5 DEF TypeOK
  <1>7. /\ pending' \in Pending /\ pending' # None /\ pending'.call = k
        /\ pending'.ref = pending.ref /\ pending'.expired = pending.expired
        /\ Done => pending' = pending
        /\ ~Done => pending'.answer = answer /\ pending'.by = by
    BY <1>2 DEF Answered, Pending
  <1>8. TypeOK'
    BY <1>1, <1>3, <1>6, <1>7 DEF TypeOK
  <1>9. SlotIsItsPrompts'
    BY <1>1, <1>3, <1>7 DEF SlotIsItsPrompts, AtPrompt
  <1>10. PendingKept'
    <2>1. /\ receipt'[k] = None /\ pending'.ref \in {k, None}
          /\ phase'[k] = "sending" => ~pending'.expired /\ pending'.ref = None
      BY <1>1, <1>2, <1>3, <1>7 DEF PendingKept
    <2>2. CASE Done
      BY <1>1, <1>6, <1>7, <2>1, <2>2 DEF PendingKept, Done
    <2>3. CASE ~Done
      BY <1>1, <1>6, <1>7, <2>1, <2>3 DEF PendingKept, Done
    <2>. QED  BY <2>2, <2>3
  <1>11. CallsKept'
    BY <1>1, <1>2, <1>3, <1>6 DEF CallsKept, AtPrompt, EffectiveKind
  <1>12. ReceiptTellsTheAnswer'
    BY <1>1, <1>2, <1>3, <1>6 DEF ReceiptTellsTheAnswer
  <1>13. TaintKept' /\ ReceiptComesFirst'
    BY <1>1, <1>3 DEF TaintKept, ReceiptComesFirst
  <1>. QED  BY <1>8, <1>9, <1>10, <1>11, <1>12, <1>13 DEF IInv

\* A message answers the pending approval, or is queued as a turn.
LEMMA MessageKeeps ==
  ASSUME IInv, NEW answer \in Answer, Message(answer)
  PROVE  IInv'
  <1>1. /\ queued' \in 0..MaxQueued
        /\ UNCHANGED <<demote, coreVars, turn, phase, tool, framed, receipt, shown,
                       exposed>>
    BY DEF Message, Submit, IInv, TypeOK
  <1>2. CASE pending # None
    <2>1. PICK by \in How : pending' = Answered(answer, by) /\ Remember(answer, by)
      BY <1>2 DEF Message
    <2>. QED  BY <1>1, <1>2, <2>1, AnswerKeeps
  <1>3. CASE pending = None
    <2>1. UNCHANGED <<demote, running, tainted, turn, pending, phase, tool,
                      framed, receipt, shown, firstAct, exposed>>
      BY <1>1, <1>3 DEF Message, coreVars
    <2>2. TypeOK'
      BY <1>1, <2>1 DEF IInv, TypeOK
    <2>. QED
      BY <2>1, <2>2 DEF IInv, SlotIsItsPrompts, PendingKept, CallsKept, TaintKept,
                        AtPrompt, EffectiveKind, ReceiptTellsTheAnswer,
                        ReceiptComesFirst
  <1>. QED  BY <1>2, <1>3

\* A reaction that answers is one on the pending approval's own prompt.
LEMMA ReactKeeps ==
  ASSUME IInv, NEW d \in Calls, NEW removed \in BOOLEAN,
         NEW answer \in {"approved", "denied"}, React(d, removed, answer)
  PROVE  IInv'
  <1>1. pending # None /\ d = pending.call /\ ~removed
    BY DEF React, Answers, IInv, PendingKept
  <1>2. pending' = Answered(answer, "reaction") /\ Remember(answer, "reaction")
    BY <1>1 DEF React
  <1>3. /\ queued' \in 0..MaxQueued
        /\ UNCHANGED <<demote, coreVars, turn, phase, tool, framed, receipt, shown,
                       exposed>>
    BY DEF React, IInv, TypeOK
  <1>. QED  BY <1>1, <1>2, <1>3, AnswerKeeps
-----------------------------------------------------------------------------
(* The invariant and what follows from it                                  *)

\* Every step of a call keeps the invariant.
LEMMA CallStepKeeps ==
  ASSUME IInv, NEW c \in Calls, CallStep(c)
  PROVE  IInv'
  BY RequestKeeps, ShowPromptKeeps, PromptSentKeeps, PromptFailedKeeps, ExpireKeeps,
     ResumeKeeps, EditDoneKeeps, CancelTaskKeeps DEF CallStep

\* A step that changes nothing keeps the invariant.
LEMMA StutterKeeps == IInv /\ UNCHANGED vars => IInv'
  <1>. SUFFICES ASSUME IInv, UNCHANGED vars PROVE IInv'
    OBVIOUS
  <1>1. TypeOK'
    BY DEF IInv, TypeOK, vars
  <1>. QED
    BY <1>1 DEF vars, IInv, SlotIsItsPrompts, PendingKept, CallsKept, TaintKept,
                AtPrompt, EffectiveKind, ReceiptTellsTheAnswer, ReceiptComesFirst

\* The inductive invariant holds in every state, for every set of calls and
\* tools: types, the slot (authorize and its finally), what ties the pending
\* approval to the owner's answers (_answer) and the taint to the exposure of
\* the session (_framed_turn).
THEOREM GateInvariant == Spec => []IInv
  <1>1. ASSUME IInv, [Next]_vars PROVE IInv'
    <2>1. CASE TurnStep
      BY <1>1, <2>1, TurnStepKeeps
    <2>2. CASE OwnerStep
      BY <1>1, <2>2, MessageKeeps, ReactKeeps DEF OwnerStep
    <2>3. CASE \E c \in Calls : CallStep(c)
      BY <1>1, <2>3, CallStepKeeps
    <2>4. CASE UNCHANGED vars
      BY <1>1, <2>4, StutterKeeps
    <2>. QED  BY <1>1, <2>1, <2>2, <2>3, <2>4 DEF Next
  <1>. QED  BY InitKeeps, <1>1, PTL DEF Spec

\* The slot is held by the one call whose approval is undecided, whatever is
\* cancelled, rejected as busy or decided meanwhile (authorize's finally).
THEOREM SlotIsAlwaysItsPrompts == Spec => []SlotIsItsPrompts
  <1>1. IInv => SlotIsItsPrompts
    BY DEF IInv
  <1>. QED  BY <1>1, GateInvariant, PTL

\* A tool the owner must be asked about runs only if the owner's first answer
\* while that call was pending approved it (deliver, deliver_reaction).
THEOREM RunsAlwaysOnOwnersWord == Spec => []RunsOnlyOnOwnersWord
  <1>1. ASSUME IInv PROVE RunsOnlyOnOwnersWord
    <2>. SUFFICES ASSUME NEW c \in Calls, phase[c] = "permitted",
                         EffectiveKind(tool[c]) = "per-instance"
                  PROVE  firstAct[c] # None /\ firstAct[c].answer = "approved"
      BY DEF RunsOnlyOnOwnersWord
    <2>1. Mutating(tool[c])
      BY DEF EffectiveKind, Mutating
    <2>2. receipt[c] # None /\ receipt[c].outcome \in Executing
      BY <1>1, <2>1 DEF IInv, ReceiptComesFirst
    <2>3. receipt[c].outcome = "approved"
      BY <1>1, <2>2 DEF IInv, CallsKept
    <2>4. /\ firstAct[c] # None
          /\ receipt[c] = [outcome |-> firstAct[c].answer, by |-> firstAct[c].by]
      BY <1>1, <2>2, <2>3 DEF IInv, ReceiptTellsTheAnswer
    <2>5. receipt[c].outcome = firstAct[c].answer
      BY <2>4
    <2>. QED  BY <2>3, <2>4, <2>5
  <1>. QED  BY <1>1, GateInvariant, PTL

\* A receipt that says the owner answered tells the first answer and how it was
\* given (_answer, answered_by).
THEOREM ReceiptAlwaysTells == Spec => []ReceiptTellsTheAnswer
  <1>1. IInv => ReceiptTellsTheAnswer
    BY DEF IInv
  <1>. QED  BY <1>1, GateInvariant, PTL

\* The receipt of a decision is written before its edit is awaited and before
\* the tool runs (authorize).
THEOREM ReceiptAlwaysFirst == Spec => []ReceiptComesFirst
  <1>1. IInv => ReceiptComesFirst
    BY DEF IInv
  <1>. QED  BY <1>1, GateInvariant, PTL

\* No call of a turn writes in a session that met an incident or a taint
\* source, with a tool that event turns may not use (_scope_denial_reason).
THEOREM ExposedNeverWrites == Spec => ExposedSessionNeverWrites
  <1>1. ASSUME IInv, [Next]_vars PROVE [ExposedCallsRefused]_vars
    <2>. SUFFICES ASSUME NEW c \in Calls, phase[c] = "new", phase'[c] # "new",
                         running, exposed, Mutating(tool'[c]),
                         "event" \notin tool'[c].scope
                  PROVE  phase'[c] = "refused"
      BY DEF ExposedCallsRefused, ExposedCallRefused
    <2>1. phase' # phase
      OBVIOUS
    <2>2. PICK d \in Calls : CallStep(d)
      BY <1>1, <2>1 DEF Next, vars, TurnStep, StartOwnerTurn, StartEventTurn, EndTurn,
                        OwnerStep, Message, React
    <2>3. PICK t \in Tools : c = d /\ Request(c, t)
      <3>0. phase \in [Calls -> Phase]
        BY <1>1 DEF IInv, TypeOK
      <3>5. ASSUME NEW answer, NEW ref, phase[d] # "new", Decide(d, answer, ref)
            PROVE  FALSE
        <4>1. \/ phase' = [phase EXCEPT ![d] = "editing"]
              \/ phase' = [phase EXCEPT ![d] = Finished(answer)]
          BY <3>5, Zenon DEF Decide, Return
        <4> QED
          BY <3>0, <3>5, <4>1
      <3>6. ~ShowPrompt(d)
        BY DEF ShowPrompt
      <3>7. ~(PromptSent(d, d) \/ PromptSent(d, None) \/ PromptFailed(d))
        BY <3>0, <3>5 DEF PromptSent, PromptFailed
      <3>1. ~(ShowPrompt(d) \/ PromptSent(d, d) \/ PromptSent(d, None) \/ PromptFailed(d))
        BY <3>6, <3>7
      <3>2. ~(Expire(d) \/ Resume(d) \/ EditDone(d) \/ CancelTask(d))
        BY <1>1 DEF IInv, TypeOK, Expire, Resume, EditDone, CancelTask, Decide, Return
      <3>3. PICK t \in Tools : Request(d, t)
        BY <2>2, <3>1, <3>2 DEF CallStep
      <3>4. c = d
        BY <1>1, <3>3 DEF IInv, TypeOK, Request, Bypass, DenyScope, Authorize, Suppress,
             RefuseUndeclared, RejectBusy, Ask, DecideNow, Return
      <3> QED
        BY <3>3, <3>4
    <2>4. Enters(c, t)
      BY <2>3 DEF Request, Bypass, DenyScope, Authorize, Suppress, RefuseUndeclared,
                  RejectBusy, DecideNow, Ask
    <2>5. tool'[c] = t
      BY <1>1, <2>4, EntersKeeps
    <2>6. turn # None /\ turn.tainted
      BY <1>1 DEF IInv, TaintKept
    <2>7. Mutating(t) /\ OutOfScope(t)
      BY <2>5, <2>6 DEF OutOfScope, CallContext
    <2>8. DecideNow(c, t, "out-of-scope")
      BY <2>3, <2>7 DEF Request, Bypass, DenyScope, Authorize, Suppress,
                        RefuseUndeclared, RejectBusy, Ask, Asks, InScope
    <2>. QED  BY <1>1, <2>8 DEF DecideNow, Return, Finished, IInv, TypeOK
  <1>. QED  BY <1>1, GateInvariant, PTL DEF Spec, ExposedSessionNeverWrites
=============================================================================
