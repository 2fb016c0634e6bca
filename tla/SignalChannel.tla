--------------------------- MODULE SignalChannel ---------------------------
(***************************************************************************)
(* The channel to the owner: henk/channel/signal.py over a bridge that may *)
(* refuse a request, or accept it and lose the answer; the send lock that  *)
(* replies, reminders, prompts and edits share; the receive loop; and the  *)
(* acknowledgements of henk/channel/acknowledge.py, which take no lock and *)
(* are bounded by cancellation.                                            *)
(*                                                                         *)
(* Texts are sequences of characters of one or two bytes, of which a blank *)
(* and a line break are places to split at.  Time passes for what is timed *)
(* here; the backoff of a send is a sleep of unknown length.               *)
(***************************************************************************)
EXTENDS Integers, Sequences, FiniteSets, SequencesExt

CONSTANTS
  Limit,         \* signal.safe_length, in bytes
  Styled,        \* signal.styled_prompts
  MaxAttempts,   \* tries per chunk
  Refresh,       \* TYPING_REFRESH_SECONDS
  Poll,          \* PAUSE_POLL_SECONDS
  Base,          \* backoff_base of the receive loop
  MaxBackoff,    \* its max_backoff
  MaxExponent,   \* the largest n for which 2^n is a float: 1023
  Senders,       \* tasks with something to send
  Workloads,     \* what they may have to send: functions from Senders to jobs
  Arrivals,      \* what may come in
  MaxSubmitted,  \* bound on what of it is handed on
  MaxFaults,     \* bound on requests to send that fail
  MaxDrops,      \* bound on receive streams that fail
  MaxClock       \* bound on the clock

Char == {"a", "w", "*", " ", "\n"}      \* "w" stands for two bytes, "*" for a style mark
Kind == {"reply", "proactive", "prompt", "edit"}

\* signal.acknowledge_timeout_seconds may be any positive bound up to the refresh
\* interval, signal.safe_length any that fits a character.
AcceptedTimeouts == 1..Refresh
ASSUME ChannelAssumption ==
  /\ Limit \in Nat /\ Limit >= 4 /\ Styled \in BOOLEAN
  /\ MaxAttempts \in Nat \ {0} /\ Refresh \in Nat \ {0} /\ Poll \in Nat \ {0}
  /\ Base \in Nat \ {0} /\ MaxBackoff \in Nat /\ MaxExponent \in Nat
  /\ MaxFaults \in Nat /\ MaxDrops \in Nat /\ MaxClock \in Nat
  /\ \A w \in Workloads : \A s \in Senders :
       w[s].kind \in Kind /\ w[s].text \in Seq(Char) /\ w[s].notice \in BOOLEAN

VARIABLES
  \* Sending.
  job,        \* what each sender has to send: [kind, text, notice, ref]
  at,         \* where it is: "new", "queued", "posted", "asleep", "done"
  chunks,     \* its text, split
  chunk,      \* the number of the chunk being sent, 0 for the failure notice
  tries,      \* failed attempts at it
  outcome,    \* what its call returned
  lock,       \* the send lock: its holder and those waiting, in order
  requests,   \* the requests made, in order: [sender, chunk, landed]
  faults,
  \* The working indicator of one turn.
  now,
  timeout,    \* the configured bound of an acknowledgement
  bracket,    \* "none", "open", "closing", "closed", "cut-off", "cancelled"
  doing,      \* the task: "idle", "start", "pause", "stop", "waiting", "ended"
  since,      \* when its request was issued
  closing,    \* when the close began
  wake,       \* when its wait ends
  due,        \* when the next start is due, -1 for never
  paused,     \* the task's own flag
  pending,    \* gate.has_pending: when the approval was asked for, -1 for none
  asserted,   \* when the last accepted start was issued
  lost,       \* starts lost since
  last,       \* the last typing request issued
  \* Receiving.
  loop,       \* "off", "receiving", "backing-off", "receipt", "dead"
  attempt,    \* failures of the stream since it last ended cleanly
  until,      \* when the loop's wait ends
  submitted   \* the items handed to the core or the gate

sending == <<job, at, chunks, chunk, tries, outcome, lock, requests, faults>>
typing == <<bracket, closing, doing, since, wake, due, paused, pending, asserted, lost, last>>
receiving == <<loop, attempt, until, submitted>>
vars == <<sending, now, timeout, typing, receiving>>

(***************************************************************************)
(* split_message: the longest prefix that fits, cut back to the last       *)
(* paragraph break in it, or line break, or blank; a hard cut otherwise.   *)
(***************************************************************************)
\* One byte a character, two for a wide one.
Bytes(t) == Len(t) + Cardinality({n \in DOMAIN t : t[n] = "w"})
Greatest(S) == CHOOSE x \in S : \A y \in S : y <= x

CharsWithin(t) == Greatest({n \in 0..Len(t) : Bytes(SubSeq(t, 1, n)) <= Limit})

BreaksAt(t, mark) ==
  {n \in Len(mark)..CharsWithin(t) : SubSeq(t, n - Len(mark) + 1, n) = mark}
Cut(t) ==
  LET Of(mark) == BreaksAt(t, mark)
  IN IF Of(<<"\n", "\n">>) # {} THEN Greatest(Of(<<"\n", "\n">>))
     ELSE IF Of(<<"\n">>) # {} THEN Greatest(Of(<<"\n">>))
     ELSE IF Of(<<" ">>) # {} THEN Greatest(Of(<<" ">>))
     ELSE CharsWithin(t)

Split[t \in Seq(Char)] ==
  IF t = <<>> THEN <<>>
  ELSE IF Bytes(t) <= Limit THEN <<t>>
  ELSE <<SubSeq(t, 1, Cut(t))>> \o Split[SubSeq(t, Cut(t) + 1, Len(t))]

(***************************************************************************)
(* References: a message's from an integer timestamp only, a sent one's    *)
(* also from a string of digits; anything else names nothing.              *)
(***************************************************************************)
Raw == {"absent", "integer", "digits", "other"}
MintsChannelRef(raw) == raw = "integer"
MintsSentRef(raw) == raw \in {"integer", "digits"}

(***************************************************************************)
(* The send operations.  A prompt that does not fit one message, and an    *)
(* edit of a reference this module did not mint, return at once; all else  *)
(* takes the lock, a sender behind those that came first.                  *)
(***************************************************************************)
\* A prompt or its edit is one message, rendered: content is escaped when styled.
Escaped(t) == FlattenSeq([n \in DOMAIN t |-> IF t[n] = "*" THEN <<"a", "*">> ELSE <<t[n]>>])
Rendered(j) == IF j.kind \in {"prompt", "edit"} /\ Styled THEN Escaped(j.text) ELSE j.text
Oversized(j) == j.kind = "prompt" /\ Bytes(Rendered(j)) > Limit

Jobs == UNION {{w[s] : s \in Senders} : w \in Workloads}
ChunksOf ==
  [j \in Jobs |-> IF j.kind \in {"prompt", "edit"} THEN <<Rendered(j)>> ELSE Split[j.text]]
TooLarge == {j \in Jobs : Oversized(j)}
Budget(s) == IF chunk[s] = 0 \/ job[s].kind = "edit" THEN 1 ELSE MaxAttempts
HasNotice(s) == job[s].kind = "reply" \/ (job[s].kind = "proactive" /\ job[s].notice)
Holds(s) == lock # <<>> /\ Head(lock) = s

\* A sender that ends leaves the lock, which it holds, waits for or never took.
Leave(s) ==
  IF s \in ToSet(lock)
    THEN \E i \in DOMAIN lock : lock[i] = s /\ lock' = RemoveAt(lock, i)
    ELSE UNCHANGED lock

Finish(s, result) ==
  /\ at' = [at EXCEPT ![s] = "done"]
  /\ outcome' = [outcome EXCEPT ![s] = result]
  /\ Leave(s)

Send(s) ==
  /\ at[s] = "new"
  /\ IF \/ job[s] \in TooLarge
        \/ job[s].kind = "edit" /\ ~MintsSentRef(job[s].ref)
       THEN Finish(s, "failed") /\ UNCHANGED <<chunks, chunk>>
       ELSE /\ at' = [at EXCEPT ![s] = "queued"]
            /\ lock' = Append(lock, s)
            /\ chunks' = [chunks EXCEPT ![s] = ChunksOf[job[s]]]
            /\ chunk' = [chunk EXCEPT ![s] = 1]
            /\ UNCHANGED outcome
  /\ UNCHANGED <<job, tries, requests, faults, now, timeout, typing, receiving>>

\* The lock is acquired, or the sleep before the next try is over.
Post(s) ==
  /\ Holds(s) /\ at[s] \in {"queued", "asleep"} /\ chunks[s] # <<>>
  /\ at' = [at EXCEPT ![s] = "posted"]
  /\ \E landed \in BOOLEAN :
       /\ landed \/ faults < MaxFaults
       /\ requests' = Append(requests, [sender |-> s, chunk |-> chunk[s], landed |-> landed])
  /\ UNCHANGED <<job, chunks, chunk, tries, outcome, lock, faults, now, timeout,
                 typing, receiving>>

\* A text without a character has no chunk.
NothingToSend(s) ==
  /\ Holds(s) /\ at[s] = "queued" /\ chunks[s] = <<>>
  /\ Finish(s, "failed")
  /\ UNCHANGED <<job, chunks, chunk, tries, requests, faults, now, timeout, typing,
                 receiving>>

Result(s) == IF chunk[s] > 1 THEN "partial" ELSE "failed"

Accepted(s) ==
  /\ at[s] = "posted" /\ requests[Len(requests)].landed
  /\ IF chunk[s] = 0 THEN Finish(s, outcome[s]) /\ UNCHANGED <<chunk, tries>>
     ELSE IF chunk[s] = Len(chunks[s])
       THEN Finish(s, "delivered") /\ UNCHANGED <<chunk, tries>>
     ELSE /\ chunk' = [chunk EXCEPT ![s] = @ + 1] /\ tries' = [tries EXCEPT ![s] = 0]
          /\ at' = [at EXCEPT ![s] = "queued"]
          /\ UNCHANGED <<outcome, lock>>
  /\ UNCHANGED <<job, chunks, requests, faults, now, timeout, typing, receiving>>

\* After the last try: the notice, in the same sequence and with one try, whose
\* own result is discarded.
\* Slip: the lock is released before it.
GiveUpUnlocked(s) ==
  IF chunk[s] = 0 THEN Finish(s, outcome[s]) /\ UNCHANGED <<chunk, tries>>
  ELSE IF HasNotice(s)
    THEN /\ outcome' = [outcome EXCEPT ![s] = Result(s)]
         /\ chunk' = [chunk EXCEPT ![s] = 0] /\ tries' = [tries EXCEPT ![s] = 0]
         /\ at' = [at EXCEPT ![s] = "queued"]
         /\ lock' = Append(Tail(lock), s)
  ELSE Finish(s, Result(s)) /\ UNCHANGED <<chunk, tries>>
GiveUp(s) ==
  IF chunk[s] = 0 THEN Finish(s, outcome[s]) /\ UNCHANGED <<chunk, tries>>
  ELSE IF HasNotice(s)
    THEN /\ outcome' = [outcome EXCEPT ![s] = Result(s)]
         /\ chunk' = [chunk EXCEPT ![s] = 0] /\ tries' = [tries EXCEPT ![s] = 0]
         /\ at' = [at EXCEPT ![s] = "queued"]
         /\ UNCHANGED lock
  ELSE Finish(s, Result(s)) /\ UNCHANGED <<chunk, tries>>

\* The bridge refused, or the answer to what it accepted was lost.
Refused(s) ==
  /\ at[s] = "posted"
  /\ faults < MaxFaults /\ faults' = faults + 1
  /\ IF tries[s] + 1 < Budget(s)
       THEN /\ tries' = [tries EXCEPT ![s] = @ + 1]
            /\ at' = [at EXCEPT ![s] = "asleep"]
            /\ UNCHANGED <<chunk, outcome, lock>>
       ELSE GiveUp(s)
  /\ UNCHANGED <<job, chunks, requests, now, timeout, typing, receiving>>

\* The calling task is cancelled: the lock is left by the way out of its block.
\* Slip: the holder is cancelled and keeps the lock.
CancelHolding(s) ==
  /\ at[s] \in {"queued", "posted", "asleep"}
  /\ at' = [at EXCEPT ![s] = "done"]
  /\ outcome' = [outcome EXCEPT ![s] = "cancelled"]
  /\ IF Holds(s) THEN UNCHANGED lock ELSE Leave(s)
  /\ UNCHANGED <<job, chunks, chunk, tries, requests, faults, now, timeout, typing,
                 receiving>>
Cancel(s) ==
  /\ at[s] \in {"queued", "posted", "asleep"}
  /\ Finish(s, "cancelled")
  /\ UNCHANGED <<job, chunks, chunk, tries, requests, faults, now, timeout, typing,
                 receiving>>

(***************************************************************************)
(* The working indicator of a turn: one task makes all its requests, each  *)
(* after the last was answered, failed or cut off at the bound.            *)
(***************************************************************************)
Least(a, b) == IF a <= b THEN a ELSE b

\* A start is issued; the next is due an interval after it, whatever becomes of it.
Start ==
  /\ doing' = "start" /\ last' = "start"
  /\ since' = now /\ due' = now + Refresh
  /\ UNCHANGED wake
Stop(what) ==
  /\ doing' = what /\ last' = "stop"
  /\ since' = now
  /\ UNCHANGED wake
\* Slip: the next start is due an interval after this one was answered.
WaitAfterAnswer(next) ==
  /\ doing' = "waiting"
  /\ wake' = now + Least(Poll, IF next < 0 THEN Poll ELSE Refresh)
  /\ due' = IF doing = "start" THEN now + Refresh ELSE next
  /\ UNCHANGED <<since, last>>
Wait(next) ==
  /\ doing' = "waiting" /\ due' = next
  /\ wake' = now + Least(Poll, IF next < 0 THEN Poll
                               ELSE IF next <= now THEN 0 ELSE next - now)
  /\ UNCHANGED <<since, last>>

OpenBracket ==
  /\ bracket = "none" /\ bracket' = "open"
  /\ Start
  /\ UNCHANGED <<sending, now, timeout, closing, paused, pending, asserted, lost, receiving>>

\* A request was answered, failed, or ran into the bound.
Settled(accepted) ==
  /\ doing \in {"start", "pause"}
  /\ IF doing # "start" THEN UNCHANGED <<asserted, lost>>
     ELSE IF accepted THEN asserted' = since /\ lost' = 0
     ELSE lost' = Least(lost + 1, 2) /\ UNCHANGED asserted
  /\ IF bracket = "closing" THEN Stop("stop") /\ UNCHANGED due ELSE Wait(due)
  /\ UNCHANGED <<sending, now, timeout, bracket, closing, paused, pending, receiving>>

Woken ==
  /\ doing = "waiting" /\ now >= wake
  /\ IF pending >= 0 /\ ~paused
       THEN Stop("pause") /\ paused' = TRUE /\ due' = -1 /\ asserted' = -1
     ELSE /\ IF pending < 0 /\ (paused \/ now >= due) THEN Start ELSE Wait(due)
          /\ paused' = (pending >= 0)
          /\ UNCHANGED asserted
  /\ UNCHANGED <<sending, now, timeout, bracket, closing, pending, lost, receiving>>

\* The body of the turn ends: the task is woken, finishes what it is doing and
\* stops the indicator, all within one bound.
CloseBracket ==
  /\ bracket = "open" /\ bracket' = "closing" /\ closing' = now
  /\ IF doing = "waiting" THEN Stop("stop") /\ UNCHANGED due
                          ELSE UNCHANGED <<doing, last, since, wake, due>>
  /\ UNCHANGED <<sending, now, timeout, paused, pending, asserted, lost, receiving>>

EndTask(how) ==
  /\ bracket' = how /\ doing' = "ended"
  /\ UNCHANGED <<sending, now, timeout, closing, since, wake, due, paused, pending,
                 asserted, lost, last, receiving>>
Stopped == doing = "stop" /\ EndTask("closed")
CutOff == bracket = "closing" /\ now >= closing + timeout /\ EndTask("cut-off")
\* A cancellation, at shutdown, ends the task without a stop.
CancelTurn == bracket \in {"open", "closing"} /\ EndTask("cancelled")

\* A prompt waits for the owner, or is decided (gate.has_pending).
Approval ==
  /\ bracket = "open"
  /\ pending' = IF pending < 0 THEN now ELSE -1
  /\ UNCHANGED <<sending, now, timeout, bracket, closing, doing, since, wake, due,
                 paused, asserted, lost, last, receiving>>

(***************************************************************************)
(* Receiving: an item of somebody else, of a group or without content is   *)
(* dropped, a reaction goes to the gate, a message to the gate or the core *)
(* and then gets a read receipt, which the loop waits for.                 *)
(***************************************************************************)
Allowed(i) == ~i.group /\ i.sender = "owner"
Acknowledged(i) == i.what = "message" /\ MintsChannelRef(i.raw)

Arrive(i) ==
  /\ loop = "receiving"
  /\ IF i.what = "nothing" \/ ~Allowed(i) THEN UNCHANGED <<loop, until, submitted>>
     ELSE /\ Len(submitted) < MaxSubmitted
          /\ submitted' = Append(submitted, i)
          /\ IF Acknowledged(i) THEN loop' = "receipt" /\ until' = now + timeout
                                ELSE UNCHANGED <<loop, until>>
  /\ UNCHANGED <<sending, now, timeout, typing, attempt>>

ReceiptEnds ==
  /\ loop = "receipt" /\ loop' = "receiving"
  /\ UNCHANGED <<sending, now, timeout, typing, attempt, until, submitted>>

\* The stream fails: the delay doubles with every failure since a clean end, and
\* is computed in floating point before it is capped.
StreamFails ==
  /\ loop = "receiving" /\ attempt < MaxDrops
  /\ IF attempt > MaxExponent THEN loop' = "dead" /\ UNCHANGED <<attempt, until>>
     ELSE /\ loop' = "backing-off" /\ attempt' = attempt + 1
          /\ until' = now + Least(Base * 2 ^ attempt, MaxBackoff)
  /\ UNCHANGED <<sending, now, timeout, typing, submitted>>
StreamEnds ==
  /\ loop = "receiving" /\ attempt > 0
  /\ loop' = "backing-off" /\ attempt' = 0 /\ until' = now + Base
  /\ UNCHANGED <<sending, now, timeout, typing, submitted>>
Reconnect ==
  /\ loop = "backing-off" /\ now >= until
  /\ loop' = "receiving"
  /\ UNCHANGED <<sending, now, timeout, typing, attempt, until, submitted>>

(***************************************************************************)
(* Time does not pass a timer that is due.                                 *)
(***************************************************************************)
Tick ==
  /\ now < MaxClock /\ now' = now + 1
  /\ doing \in {"start", "pause"} => now < since + timeout
  /\ doing = "waiting" => now < wake
  /\ bracket = "closing" => now < closing + timeout
  /\ loop \in {"receipt", "backing-off"} => now < until
  /\ UNCHANGED <<sending, timeout, typing, receiving>>

(***************************************************************************)
(* Specification.  The sends, the indicator and the receive loop share     *)
(* nothing that changes: a behaviour has one of them.                      *)
(***************************************************************************)
Init ==
  /\ \E busy \in {"sending", "typing", "receiving"} :
       /\ job \in (IF busy = "sending" THEN Workloads
                   ELSE {CHOOSE w \in Workloads : TRUE})
       /\ at = [s \in Senders |-> IF busy = "sending" THEN "new" ELSE "done"]
       /\ bracket = (IF busy = "typing" THEN "none" ELSE "closed")
       /\ loop = (IF busy = "receiving" THEN "receiving" ELSE "off")
       /\ timeout \in (IF busy = "sending" THEN {1} ELSE AcceptedTimeouts)
  /\ chunks = [s \in Senders |-> <<>>] /\ chunk = [s \in Senders |-> 1]
  /\ tries = [s \in Senders |-> 0] /\ outcome = [s \in Senders |-> "none"]
  /\ lock = <<>> /\ requests = <<>> /\ faults = 0
  /\ now = 0 /\ doing = "idle" /\ since = 0 /\ wake = 0 /\ due = -1 /\ closing = 0
  /\ paused = FALSE /\ pending = -1 /\ asserted = -1 /\ lost = 0 /\ last = "none"
  /\ attempt = 0 /\ until = 0 /\ submitted = <<>>

SenderStep(s) == Send(s) \/ Post(s) \/ NothingToSend(s) \/ Accepted(s) \/ Refused(s)
Indicator ==
  OpenBracket \/ (\E ok \in BOOLEAN : Settled(ok)) \/ Woken \/ CloseBracket
    \/ Stopped \/ CutOff \/ CancelTurn \/ Approval
Receiver ==
  (\E i \in Arrivals : Arrive(i)) \/ ReceiptEnds \/ StreamFails \/ StreamEnds \/ Reconnect

Next == (\E s \in Senders : SenderStep(s) \/ Cancel(s)) \/ Indicator \/ Receiver \/ Tick

Spec == Init /\ [][Next]_vars
\* A request is answered or fails, a sleep ends, and the loop runs what is ready.
FairSpec == Spec /\ \A s \in Senders : WF_vars(SenderStep(s))

(***************************************************************************)
(* Properties.                                                             *)
(***************************************************************************)
Mine(s) == {i \in DOMAIN requests : requests[i].sender = s}
Landed(s) == {requests[i].chunk : i \in {j \in Mine(s) : requests[j].landed}}

\* What one caller sends is one run of requests: its chunks in order, each within
\* the limit and together its text, and the failure notice last, with no request
\* of another caller in between (signal.py _send_serialized, _send_message,
\* split_message); and the outcome never promises more than arrived: everything,
\* a beginning, or the first piece at most, and a failure the caller has a notice
\* for is not passed over in silence.
Contiguous(s) == \A i, j \in Mine(s) : i..j \subseteq Mine(s)
InOrder(s) ==
  \A i \in Mine(s) :
    IF i - 1 \in Mine(s)
      THEN LET before == requests[i - 1].chunk
           IN before > 0 /\ requests[i].chunk \in {0, before, before + 1}
      ELSE requests[i].chunk = 1
WholeText(s) ==
  at[s] = "queued" /\ requests = <<>> /\ chunks[s] # <<>> =>
    /\ FlattenSeq(chunks[s]) = Rendered(job[s])
    /\ \A c \in ToSet(chunks[s]) : Bytes(c) <= Limit \/ job[s].kind = "edit"
TruthOf(s) ==
  CASE outcome[s] = "delivered" -> Landed(s) = DOMAIN chunks[s]
    [] outcome[s] = "partial"   -> 1 \in Landed(s) /\ chunk[s] # 1
    [] outcome[s] = "failed"    -> Landed(s) \subseteq {0, 1}
    [] OTHER -> TRUE
Told(s) ==
  at[s] = "done" /\ outcome[s] \in {"partial", "failed"} /\ chunks[s] # <<>> /\ HasNotice(s)
    => \E i \in Mine(s) : requests[i].chunk = 0 /\ \A j \in Mine(s) : j <= i
WholeSequences ==
  \A s \in Senders :
    Contiguous(s) /\ InOrder(s) /\ WholeText(s) /\ TruthOf(s) /\ Told(s)

\* No caller waits for ever on the lock, whoever is refused or cancelled meanwhile
\* (signal.py _send_serialized).
EverySendEnds == \A s \in Senders : at[s] = "queued" ~> at[s] = "done"

\* With at most one start lost, the next is issued within twice the interval of
\* the last accepted one, for every bound the configuration accepts
\* (signal.py TYPING_REFRESH_SECONDS, config.py _require_acknowledge_timeout).
Fresh ==
  bracket = "open" /\ asserted >= 0 /\ lost <= 1 =>
    (IF doing = "start" THEN since ELSE now) - asserted <= 2 * Refresh
\* While an approval waits, the indicator stops within a wake-up and one request.
YieldsToPrompt ==
  bracket = "open" /\ pending >= 0 /\ now - pending > Poll + timeout => last = "stop"
\* The close takes one bound, no start is issued once it began, and the last word
\* is a stop unless it was cut off.
ClosesInBound ==
  /\ bracket \in {"closing", "closed"} /\ doing = "start" => since <= closing
  /\ bracket = "closing" => now - closing <= timeout
  /\ bracket = "closed" /\ doing = "ended" => last = "stop"
  /\ bracket = "cut-off" => now - closing >= timeout
\* The receive loop waits for a receipt no longer than the bound.
TypingIsTimely ==
  Fresh /\ YieldsToPrompt /\ ClosesInBound
    /\ (loop = "receipt" => until - now <= timeout /\ Acknowledged(submitted[Len(submitted)]))

\* "A transport failure never propagates: it is logged, the adapter backs off, and
\* the receive loop restarts" (henk/channel/signal.py:180).
TransportNeverPropagates == loop # "dead"
=============================================================================
