---------------------------- MODULE Conversation ----------------------------
(***************************************************************************)
(* The agent core (henk/agent/core.py): one serial queue of owner messages *)
(* and incidents, the model's sessions they open, continue and displace,   *)
(* and the audit records, answers and hand-offs each of them leaves.       *)
(*                                                                         *)
(* A session may outlive a turn, its record may be written before it ends  *)
(* and its tools may finish after the turn that called them: the record's  *)
(* accounting and the incidents a hand-off is filed under are read at      *)
(* other moments than the calls they describe.  The queue's durability     *)
(* against the event source is in EventPath, the approval in ApprovalGate. *)
(***************************************************************************)
EXTENDS Naturals, Sequences, FiniteSets, SequencesExt

CONSTANTS
  Remembered,    \* what the memory store holds at first, 0 when it is empty
  MaxTurns,      \* bound on what arrives: messages and incidents
  MaxOf,         \* bound on each kind of it
  MaxCalls,      \* bound on the tool calls and hand-offs
  MaxWaiting,    \* bound on the queue
  MaxFaults,     \* bound on failures and on deaths of the process
  MaxTrouble     \* bound on what arrives, fails and dies, together

Kind == {"say",       \* a message for the model
         "reset",     \* /new
         "command",   \* an owner command; the one modelled stores a memory
         "incident",  \* an event turn that will be announced
         "capped"}    \* an event turn past the announcement cap
ASSUME ConversationAssumption ==
  /\ Remembered \in Nat /\ MaxTurns \in Nat \ {0} /\ MaxWaiting \in Nat \ {0}
  /\ MaxCalls \in Nat /\ MaxFaults \in Nat /\ MaxTrouble \in Nat
  /\ MaxOf \in [Kind -> Nat]

Event == {"incident", "capped"}
Word == {"reply", "error", "confirmation", "result", "triage", "notice"}
Ending == {"completed", "error", "refused", "no-reply"}
Receipt == {"approved", "denied", "out-of-scope", "rejected-busy"}

VARIABLES
  sent,          \* the kind of each turn that ever arrived, by its number
  inbox,         \* the queue: numbers of turns
  turn,          \* the number of the turn being processed, 0 for none
  phase,         \* "idle", "closing", "working", "speaking"
  word,          \* while speaking: what is being sent, and whether to stamp
  session,       \* the open session: a sequence of none or one
  leaving,       \* the session whose close is awaited: likewise
  sessions,      \* how many sessions were created
  acc,           \* the record being accumulated: a sequence of none or one
  idle,          \* the idle timeout passed since the last activity
  recallGiven,
  incidents,     \* the incident context: an incident's number, 0 when empty
  memory,        \* how often the memory store changed; 0 is an empty store
  pending,       \* index of the session's call that holds the approval slot
  publishing,    \* hand-offs being posted: the context each was read under
  checkpoint,    \* number of the last event turn on the durable cursor
  blocked,       \* the durability latch
  faults,
  called,        \* tool calls so far
  \* History, for the properties only.
  log,           \* session records, in the order they were built
  told,          \* what the owner was sent of each turn: words, with the turn's end
  ended,         \* how the model ended a turn: turn -> [ending, text]
  given,         \* the recall blocks a session received, by its number
  filed,         \* published hand-offs: the session's incident, what was filed
  excused        \* turns that died with the process or never got a session

core == <<turn, phase, word, session, leaving, sessions, acc, idle,
          recallGiven, incidents>>
outside == <<pending, publishing, called>>
durable == <<memory, checkpoint, blocked>>
history == <<log, told, ended, given, filed, excused>>
vars == <<sent, inbox, core, outside, durable, faults, history>>

(***************************************************************************)
(* Sessions and the record each turn adds to.                              *)
(***************************************************************************)
Opened == session # <<>>
Session == session[1]
Acc == acc[1]

Call == [permitted : BOOLEAN, receipted : BOOLEAN]
NewSession(n, event) == [id |-> n, event |-> event, calls |-> <<>>]
NewAcc(trigger, profile) ==
  [trigger |-> trigger, profile |-> profile, turns |-> 0,
   outcome |-> "completed", flushed |-> FALSE, approvals |-> <<>>,
   hash |-> 0, baseline |-> 0]

\* A triage's record is written when it ends.  An owner who goes on talking in
\* its session gets a record that starts from there.
\* Slip: the new record counts the session's calls from the start.
ContinuedFromStart(a, s) ==
  [NewAcc("owner", a.profile) EXCEPT !.hash = a.hash]
Continued(a, s) ==
  [NewAcc("owner", a.profile) EXCEPT !.hash = a.hash, !.baseline = Len(s.calls)]

(***************************************************************************)
(* The end of a turn, from the stream's signals before its text.           *)
(***************************************************************************)
Signal == {"none", "fault", "refusal"}
ClassifyEnding(signal, raised, text) ==
  IF signal = "fault" \/ raised THEN "error"
  ELSE IF signal = "refusal"    THEN "refused"
  ELSE IF ~text                 THEN "no-reply"
  ELSE "completed"

\* One record covers a session: a later turn never masks an earlier error.
\* Slip: a later turn's ending replaces an earlier error.
LatestEnding(old, ending) == IF ending # "completed" THEN ending ELSE old
Worse(old, ending) == IF ending # "completed" /\ old # "error" THEN ending ELSE old

(***************************************************************************)
(* The audit record of acc: the session's calls since its baseline, each   *)
(* with whether it was permitted, which is the next receipt's word.  A     *)
(* call without a receipt left is recorded as not executed.                *)
(***************************************************************************)
StatsSince(s, a) == SubSeq(s.calls, a.baseline + 1, Len(s.calls))
Executed(calls, approvals) ==
  [i \in DOMAIN calls |-> i <= Len(approvals) /\ approvals[i] = "approved"]

Record(s, a, written) ==
  [session |-> s.id, trigger |-> a.trigger, profile |-> a.profile,
   calls |-> StatsSince(s, a),
   executed |-> Executed(StatsSince(s, a), a.approvals),
   approvals |-> a.approvals, turns |-> a.turns, outcome |-> a.outcome,
   hash |-> a.hash, event |-> s.event, written |-> written]

\* What the bounds allow to go wrong.
Tolerable(many) == many <= MaxFaults /\ Len(sent) + many <= MaxTrouble

\* The write is attempted once; a failure is logged and the record is lost.
WriteRecord(s, a, written) ==
  /\ written \/ Tolerable(faults + 1)
  /\ log' = Append(log, Record(s, a, written))

(***************************************************************************)
(* Arrivals, and time, of which only the idle timeout matters.             *)
(***************************************************************************)
\* A message that arrives while an approval waits for the owner cancels it first.
Submit(kind) ==
  /\ Len(sent) < MaxTurns /\ Len(inbox) < MaxWaiting
  /\ Len(sent) + faults < MaxTrouble
  /\ Cardinality({n \in DOMAIN sent : sent[n] = kind}) < MaxOf[kind]
  /\ kind \in Event \/ pending = <<>>
  /\ sent' = Append(sent, kind)
  /\ inbox' = Append(inbox, Len(sent) + 1)
  /\ UNCHANGED <<core, outside, durable, faults, history>>

\* It is read when a turn is taken up, and every turn's end restarts it.
GrowIdle ==
  /\ phase = "idle" /\ Opened /\ ~idle
  /\ idle' = TRUE
  /\ UNCHANGED <<sent, inbox, turn, phase, word, session, leaving, sessions, acc,
                 recallGiven, incidents, outside, durable, faults, history>>

(***************************************************************************)
(* Speaking: a send is awaited, and nothing of the turn's state is read    *)
(* after it except where an error is answered, which stamps the activity.  *)
(***************************************************************************)
Say(w, stamp) == phase' = "speaking" /\ word' = <<w, stamp>>

Spoken ==
  /\ phase = "speaking"
  /\ told' = [told EXCEPT ![turn] = Append(@, <<word[1], ended[turn][1]>>)]
  /\ idle' = (idle /\ ~word[2])
  /\ turn' = 0 /\ phase' = "idle" /\ word' = <<>>
  /\ UNCHANGED <<sent, inbox, session, leaving, sessions, acc, recallGiven,
                 incidents, outside, durable, faults, log, ended, given, filed,
                 excused>>

Silent == phase' = "idle" /\ word' = <<>> /\ turn' = 0

(***************************************************************************)
(* Closing a session: the incident context is emptied first, the record is *)
(* written unless a triage's already was, and the client is disconnected,  *)
(* which ends the tools a failed turn left running.                        *)
(***************************************************************************)
BeginClose(written) ==
  /\ phase' = "closing"
  /\ session' = <<>> /\ leaving' = session
  /\ acc' = <<>> /\ recallGiven' = FALSE
  /\ incidents' = 0
  /\ IF Acc.flushed THEN written /\ UNCHANGED log
                    ELSE WriteRecord(Session, Acc, written)

(***************************************************************************)
(* The recall block of a session's first turn: given once, unless the      *)
(* store could not be read, which leaves it for the next turn.             *)
(***************************************************************************)
\* Slip: the block is composed again on every turn.
TakeRecallAgain(a, already, readable) ==
  /\ readable \/ Tolerable(faults + 1)
  /\ recallGiven' = (already \/ readable)
  /\ IF ~readable \/ memory = 0
       THEN acc' = <<a>> /\ UNCHANGED given
       ELSE /\ acc' = <<[a EXCEPT !.hash = memory]>>
            /\ given' = given \cup {<<session'[1].id, memory>>}
TakeRecall(a, already, readable) ==
  /\ readable \/ (~already /\ Tolerable(faults + 1))
  /\ recallGiven' = (already \/ readable)
  /\ IF already \/ ~readable \/ memory = 0
       THEN acc' = <<a>> /\ UNCHANGED given
       ELSE /\ acc' = <<[a EXCEPT !.hash = memory]>>
            /\ given' = given \cup {<<session'[1].id, memory>>}

(***************************************************************************)
(* Opening: what follows once no session stands in the way, for turn n.    *)
(***************************************************************************)
Reset ==
  /\ idle' = FALSE /\ incidents' = 0
  /\ Say("confirmation", FALSE)
  /\ session' = <<>> /\ acc' = <<>> /\ recallGiven' = FALSE
  /\ UNCHANGED <<sessions, faults, log, ended, given, filed, excused>>

OpenSession(n, readable) ==
  LET event == sent[n] \in Event
      a == NewAcc(IF event THEN "event" ELSE "owner",
                  IF event THEN "event" ELSE "chat")
  IN /\ sessions' = sessions + 1
     /\ session' = <<NewSession(sessions + 1, IF event THEN n ELSE 0)>>
     /\ incidents' = IF event THEN n ELSE 0
     /\ idle' = FALSE
     /\ TakeRecall(a, FALSE, readable)
     /\ faults' = faults + (IF readable THEN 0 ELSE 1)
     /\ phase' = "working" /\ word' = <<>>
     /\ UNCHANGED <<log, ended, filed, excused>>

\* The factory raises: the owner gets an error; an event's handler is left by
\* the exception, which is logged and answers nobody.
OpenFails(n) ==
  /\ Tolerable(faults + 1) /\ faults' = faults + 1
  /\ session' = <<>> /\ acc' = <<>> /\ recallGiven' = FALSE /\ incidents' = 0
  /\ IF sent[n] \in Event
       THEN /\ phase' = "idle" /\ word' = <<>>
            /\ excused' = excused \cup {n}
       ELSE Say("error", FALSE) /\ UNCHANGED excused
  /\ UNCHANGED <<idle, sessions, log, ended, given, filed>>

Open(n) ==
  /\ \/ sent[n] = "reset" /\ Reset
     \/ sent[n] # "reset" /\ \E readable \in BOOLEAN : OpenSession(n, readable)
     \/ sent[n] # "reset" /\ OpenFails(n)
  /\ turn' = IF phase' = "idle" THEN 0 ELSE n
  /\ UNCHANGED checkpoint

\* The next turn of the queue.  A command is answered without a session; a
\* message continues the session unless it is gone or idle for too long; a
\* reset and an event displace it.
Reuses(n) == sent[n] = "say" /\ Opened /\ ~idle

Take(n) ==
  /\ phase = "idle" /\ inbox # <<>> /\ n = Head(inbox)
  /\ inbox' = Tail(inbox)

Command ==
  \E n \in DOMAIN sent :
    /\ Take(n) /\ sent[n] = "command"
    /\ memory' = memory + 1
    /\ turn' = n /\ Say("result", FALSE)
    /\ UNCHANGED <<sent, session, leaving, sessions, acc, idle,
                   recallGiven, incidents, outside, checkpoint, blocked, faults,
                   history>>

Continue ==
  \E n \in DOMAIN sent, readable \in BOOLEAN :
    /\ Take(n) /\ Reuses(n)
    /\ turn' = n /\ phase' = "working" /\ word' = <<>>
    /\ UNCHANGED session
    /\ TakeRecall(IF Acc.flushed THEN Continued(Acc, Session) ELSE Acc,
                  recallGiven, readable)
    /\ faults' = faults + (IF readable THEN 0 ELSE 1)
    /\ UNCHANGED <<sent, leaving, sessions, idle, incidents, outside,
                   durable, log, told, ended, filed, excused>>

Start ==
  \E n \in DOMAIN sent :
    /\ Take(n) /\ sent[n] # "command" /\ ~Opened
    /\ Open(n)
    /\ UNCHANGED <<sent, leaving, outside, memory, blocked, told>>

Displace ==
  \E n \in DOMAIN sent, written \in BOOLEAN :
    /\ Take(n) /\ sent[n] # "command" /\ Opened /\ ~Reuses(n)
    /\ turn' = n /\ word' = <<>>
    /\ BeginClose(written)
    /\ faults' = faults + (IF written THEN 0 ELSE 1)
    /\ UNCHANGED <<sent, sessions, idle, outside, durable, told,
                   ended, given, filed, excused>>

\* The disconnect returned, or raised, which is swallowed.
Closed ==
  /\ phase = "closing"
  /\ leaving' = <<>> /\ pending' = <<>> /\ publishing' = {} /\ UNCHANGED called
  /\ Open(turn)
  /\ UNCHANGED <<sent, inbox, memory, blocked, told>>

(***************************************************************************)
(* What a turn's tool calls do meanwhile.                                  *)
(***************************************************************************)
CallMade(permitted, receipted) ==
  session' = <<[Session EXCEPT
     !.calls = Append(@, [permitted |-> permitted, receipted |-> receipted])]>>

NoteReceipt(outcome) ==
  acc' = IF acc = <<>> THEN acc
         ELSE <<[Acc EXCEPT !.approvals = Append(@, outcome)]>>

\* A mutating call.  In a session an event entered it is out of scope, while
\* another waits for the owner it is refused, otherwise the owner is asked.
Ask ==
  /\ phase = "working" /\ called < MaxCalls /\ called' = called + 1
  /\ \/ /\ Session.event # 0
        /\ CallMade(FALSE, TRUE) /\ NoteReceipt("out-of-scope")
        /\ UNCHANGED pending
     \/ /\ Session.event = 0 /\ pending # <<>>
        /\ CallMade(FALSE, TRUE) /\ NoteReceipt("rejected-busy")
        /\ UNCHANGED pending
     \/ /\ Session.event = 0 /\ pending = <<>>
        /\ CallMade(FALSE, FALSE) /\ UNCHANGED acc
        /\ pending' = <<Session.id, Len(Session.calls) + 1>>
  /\ UNCHANGED <<sent, inbox, turn, phase, word, leaving, sessions,
                 idle, recallGiven, incidents, publishing, durable,
                 faults, history>>

\* The owner answers, the prompt expires, or it could not be sent.
Decide(outcome) ==
  /\ pending # <<>>
  /\ pending' = <<>> /\ UNCHANGED called
  /\ IF Opened /\ Session.id = pending[1]
       THEN session' = <<[Session EXCEPT !.calls[pending[2]] =
                [permitted |-> outcome = "approved", receipted |-> TRUE]]>>
       ELSE UNCHANGED session
  /\ NoteReceipt(outcome)
  /\ UNCHANGED <<sent, inbox, turn, phase, word, leaving, sessions,
                 idle, recallGiven, incidents, publishing, durable,
                 faults, history>>

\* publish_handoff reads the incidents before it posts.
Publish ==
  /\ phase = "working" /\ publishing = {}
  /\ called < MaxCalls /\ called' = called + 1
  /\ publishing' = {<<Session.id, Session.event, incidents>>}
  /\ UNCHANGED <<sent, inbox, core, pending, durable, faults, history>>

\* Slip: they are read when the post returned.
PublishedUnderCurrent ==
  /\ publishing # {}
  /\ \E ok \in BOOLEAN : \E p \in publishing :
       filed' = IF ok THEN filed \cup {<<p[1], p[2], incidents>>} ELSE filed
  /\ publishing' = {}
  /\ UNCHANGED <<sent, inbox, core, pending, called, durable, faults, log, told,
                 ended, given, excused>>
Published ==
  /\ publishing # {}
  /\ \E ok \in BOOLEAN : filed' = IF ok THEN filed \cup publishing ELSE filed
  /\ publishing' = {}
  /\ UNCHANGED <<sent, inbox, core, pending, called, durable, faults, log, told,
                 ended, given, excused>>

(***************************************************************************)
(* The end of an owner's turn.  A raise leaves its tools running; a result *)
(* comes once all of them answered.                                        *)
(***************************************************************************)
Answered == pending = <<>> /\ publishing = {}
Ends(signal, raised) ==
  /\ phase = "working"
  /\ raised \/ Answered
  /\ faults' = faults + (IF raised \/ signal = "fault" THEN 1 ELSE 0)
  /\ Tolerable(faults')

EndOwnerTurn(signal, raised, text) ==
  LET ending == ClassifyEnding(signal, raised, text)
  IN /\ Ends(signal, raised) /\ sent[turn] = "say"
     /\ ended' = [ended EXCEPT ![turn] = <<ending, text /\ ending # "error">>]
     /\ acc' = <<IF raised THEN [Acc EXCEPT !.outcome = "error"]
                  ELSE [Acc EXCEPT !.turns = @ + 1,
                                   !.outcome = Worse(@, ending)]>>
     /\ idle' = (idle /\ raised)
     /\ IF ending = "error" THEN Say("error", raised) /\ UNCHANGED turn
        ELSE IF text       THEN Say("reply", FALSE) /\ UNCHANGED turn
        ELSE Silent
     /\ UNCHANGED <<sent, inbox, session, leaving, sessions, recallGiven,
                    incidents, outside, durable, log, told, given, filed,
                    excused>>

(***************************************************************************)
(* The end of a triage: its record is written now, the cursor moves only   *)
(* if that succeeded and no earlier one failed, and then it is announced.  *)
(***************************************************************************)
\* Slip: a triage that did not complete announces nothing.
AnnouncedIfCompleted(n, ending) == sent[n] = "incident" /\ ending = "completed"
Announced(n, ending) == sent[n] = "incident"

EndEventTurn(signal, raised, text, written) ==
  LET ending == ClassifyEnding(signal, raised, text)
      done == [Acc EXCEPT !.outcome = ending,
                          !.turns = IF raised THEN @ ELSE @ + 1]
  IN /\ phase = "working" /\ sent[turn] \in Event
     /\ raised \/ Answered
     /\ faults' = faults + (IF raised \/ signal = "fault" THEN 1 ELSE 0)
                         + (IF written THEN 0 ELSE 1)
     /\ Tolerable(faults')
     /\ ended' = [ended EXCEPT ![turn] = <<ending, text /\ ending # "error">>]
     /\ log' = Append(log, Record(Session, done, written))
     /\ acc' = <<[done EXCEPT !.flushed = TRUE]>>
     /\ idle' = FALSE
     /\ blocked' = (blocked \/ ~written)
     /\ checkpoint' = IF written /\ ~blocked THEN turn ELSE checkpoint
     /\ IF Announced(turn, ending)
          THEN /\ Say(IF ending = "completed" THEN "triage" ELSE "notice", FALSE)
               /\ UNCHANGED turn
          ELSE Silent
     /\ UNCHANGED <<sent, inbox, session, leaving, sessions, recallGiven,
                    incidents, outside, memory, told, given, filed, excused>>

(***************************************************************************)
(* The end of the process: a kill, or a graceful stop, which cancels the   *)
(* turn and writes the open session's record on the way out.  The source   *)
(* delivers the events past the cursor again; those that a written record  *)
(* names are in their cooldown and start no triage.                        *)
(***************************************************************************)
InOrder(S) ==
  {q \in Bijection(1..Cardinality(S), S) : \A i, j \in DOMAIN q : i < j => q[i] < q[j]}

Unwritten == Opened /\ ~Acc.flushed

\* Slip: the cooldowns are not armed from the records again.
ArmedFromNothing(records) == {}
Armed(records) ==
  {n \in DOMAIN sent : sent[n] \in Event /\
     \E i \in DOMAIN records : records[i].event = n /\ records[i].written}

Down(records) ==
  LET again == {n \in DOMAIN sent : sent[n] \in Event /\ n > checkpoint} \ Armed(records)
  IN /\ inbox' \in InOrder(again)
     /\ excused' = excused \cup ((ToSet(inbox) \cup ({turn} \ {0})) \ again)
     /\ turn' = 0 /\ phase' = "idle" /\ word' = <<>>
     /\ session' = <<>> /\ leaving' = <<>> /\ acc' = <<>>
     /\ idle' = FALSE /\ recallGiven' = FALSE /\ incidents' = 0
     /\ pending' = <<>> /\ publishing' = {} /\ UNCHANGED called /\ blocked' = FALSE
     /\ log' = records
     /\ Tolerable(faults + 1) /\ faults' = faults + 1
     /\ UNCHANGED <<sent, sessions, memory, checkpoint, told, ended, given,
                    filed>>

Kill == Down(log)
Stop == Down(IF Unwritten THEN Append(log, Record(Session, Acc, TRUE)) ELSE log)

(***************************************************************************)
(* Specification.                                                          *)
(***************************************************************************)
Init ==
  /\ sent = <<>> /\ inbox = <<>>
  /\ turn = 0 /\ phase = "idle" /\ word = <<>>
  /\ session = <<>> /\ leaving = <<>> /\ sessions = 0 /\ acc = <<>>
  /\ idle = FALSE /\ recallGiven = FALSE /\ incidents = 0
  /\ memory = Remembered /\ pending = <<>> /\ publishing = {}
  /\ called = 0 /\ checkpoint = 0 /\ blocked = FALSE /\ faults = 0
  /\ log = <<>> /\ given = {} /\ filed = {} /\ excused = {}
  /\ told = [n \in 1..MaxTurns |-> <<>>]
  /\ ended = [n \in 1..MaxTurns |-> <<"none", FALSE>>]

Turns == Command \/ Continue \/ Start \/ Displace \/ Closed \/ Spoken
Tools == Ask \/ (\E o \in {"approved", "denied"} : Decide(o)) \/ Publish \/ Published
Model ==
  \E signal \in Signal, raised, text \in BOOLEAN :
    \/ EndOwnerTurn(signal, raised, text)
    \/ \E written \in BOOLEAN : EndEventTurn(signal, raised, text, written)
World == (\E k \in Kind : Submit(k)) \/ GrowIdle

Next == World \/ Turns \/ Tools \/ Model \/ Kill \/ Stop

Spec == Init /\ [][Next]_vars

(***************************************************************************)
(* Properties.                                                             *)
(***************************************************************************)
SessionType == [id : Nat, event : Nat, calls : Seq(Call)]
AccType ==
  [trigger : {"owner", "event"}, profile : {"chat", "event"}, turns : Nat,
   outcome : Ending, flushed : BOOLEAN, approvals : Seq(Receipt), hash : Nat,
   baseline : Nat]
RecordType ==
  [session : Nat, trigger : {"owner", "event"}, profile : {"chat", "event"},
   calls : Seq(Call), executed : Seq(BOOLEAN), approvals : Seq(Receipt),
   turns : Nat, outcome : Ending, hash : Nat, event : Nat, written : BOOLEAN]

TypeOK ==
  /\ sent \in Seq(Kind) /\ Len(sent) <= MaxTurns
  /\ inbox \in Seq(1..Len(sent)) /\ turn \in 0..Len(sent)
  /\ phase \in {"idle", "closing", "working", "speaking"}
  /\ phase = "speaking" => word \in Word \X BOOLEAN
  /\ session # <<>> => session = <<Session>> /\ Session \in SessionType
  /\ acc # <<>> => acc = <<Acc>> /\ Acc \in AccType
  /\ pending # <<>> => pending \in Nat \X Nat
  /\ sessions \in Nat /\ incidents \in Nat /\ memory \in Nat /\ called \in Nat
  /\ faults \in Nat /\ checkpoint \in Nat
  /\ idle \in BOOLEAN /\ recallGiven \in BOOLEAN /\ blocked \in BOOLEAN
  /\ publishing \cup filed \subseteq Nat \X Nat \X Nat
  /\ log \in Seq(RecordType)
  /\ told \in [1..MaxTurns -> Seq(Word \X (Ending \cup {"none"}))]
  /\ ended \in [1..MaxTurns -> (Ending \cup {"none"}) \X BOOLEAN]
  /\ given \subseteq Nat \X Nat /\ excused \subseteq 1..Len(sent)

\* Whoever the queue took up hears back exactly once, unless the model had
\* nothing to say, the cap silences the incident, or the process or its session
\* went under it; an incident may be heard of once more for each of its records
\* that was lost, and the text of a turn that failed is never what is sent
\* (core.py _process_owner, _process_event).
Owed(n) ==
  /\ sent[n] # "capped"
  /\ sent[n] = "say" /\ ended[n][1] # "none" =>
       ended[n][1] = "error" \/ ended[n][2]
Lost(n) == {i \in DOMAIN log : log[i].event = n /\ ~log[i].written}
NobodyIsLeftWaiting ==
  \A n \in DOMAIN sent :
    /\ n \notin ToSet(inbox) \cup {turn} \cup excused =>
         IF Owed(n) THEN Len(told[n]) \in 1..1 + Cardinality(Lost(n)) ELSE told[n] = <<>>
    /\ \A i \in DOMAIN told[n] :
         told[n][i][1] \in {"reply", "triage"} => told[n][i][2] \in {"completed", "refused"}

\* The records of a session, put together, hold each of its calls once, and
\* each is marked as executed as often as one was permitted: a receipt never
\* stands for a call of another record (core.py _write_audit_record, _stats_since).
RecordedOf(s) == UNION {{i} \X DOMAIN log[i].calls : i \in {j \in DOMAIN log : log[j].session = s}}
PermittedIn(r) == {i \in DOMAIN r.calls : r.calls[i].permitted}
ExecutedIn(r) == {i \in DOMAIN r.executed : r.executed[i]}
ReceiptedIn(r) == {i \in DOMAIN r.calls : r.calls[i].receipted}
RecordsAddUp ==
  /\ \A i \in DOMAIN log :
       /\ Cardinality(ExecutedIn(log[i])) = Cardinality(PermittedIn(log[i]))
       /\ Len(log[i].approvals) = Cardinality(ReceiptedIn(log[i]))
  /\ Opened =>
       Cardinality(RecordedOf(Session.id))
         = (IF Acc.flushed THEN Len(Session.calls) ELSE Acc.baseline)

\* A record names the recall block its session received, the session a triage
\* left open included, and no session receives two (core.py _take_recall).
HashIsTheBlock ==
  /\ \A g, h \in given : g[1] = h[1] => g = h
  /\ \A i \in DOMAIN log :
       log[i].hash # 0 => <<log[i].session, log[i].hash>> \in given
  /\ \A g \in given : Opened /\ Session.id = g[1] => Acc.hash = g[2]

\* What the audit log says of a session is what the session did and was given.
RecordsAreTrue == RecordsAddUp /\ HashIsTheBlock

\* A hand-off is filed under the incident of the session that published it,
\* also when the post returns after that session was left
\* (publish_handoff.py _run, core.py _close_session).
FiledUnderItsIncident == \A f \in filed \cup publishing : f[2] = f[3]

\* An error puts itself on its session's record, and stays on it whatever the
\* later turns of that record were (core.py _process_owner).
NewlyFailed(n) == ended'[n] # ended[n] /\ ended'[n][1] = "error"
Carrying == Opened /\ session' # <<>> /\ Acc.outcome = "error" /\ ~Acc.flushed
ErrorsAreRecorded ==
  [][(\E n \in DOMAIN sent : NewlyFailed(n)) \/ Carrying
       => acc'[1].outcome = "error"]_vars

\* "one record, written at the completion of the triage turn": a record that
\* names an incident is that of a triage that ended (openspec/specs/audit-log/spec.md:91).
RecordedWhenTriaged ==
  \A i \in DOMAIN log : log[i].event # 0 => ended[log[i].event][1] # "none"

\* "true when the invocation was permitted to proceed" (the same requirement,
\* and core.py:1035): each call's own flag, not only their number.
ExecutedMeansPermitted ==
  \A i \in DOMAIN log : \A k \in DOMAIN log[i].calls :
    log[i].executed[k] = log[i].calls[k].permitted
=============================================================================
