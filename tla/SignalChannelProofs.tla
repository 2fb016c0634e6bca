------------------------- MODULE SignalChannelProofs -------------------------
(***************************************************************************)
(* Theorems about SignalChannel, for every value of its constants that     *)
(* satisfies ChannelAssumption: any senders and jobs, any intervals, any   *)
(* bounds.  TypingInv is inductive for the indicator and the receipts,     *)
(* SendingInv for the sends; the two parts share no variable that both     *)
(* change, so each is kept by the other's steps.                           *)
(*                                                                         *)
(* What splitting a text yields is computed by recursion: SplitIs shows    *)
(* that Split takes its step for every text, and PiecesMakeTheText, by a   *)
(* shortest counterexample, that the pieces make up the text and fit.      *)
(***************************************************************************)
EXTENDS SignalChannel, SequenceTheorems, FiniteSetTheorems, WellFoundedInduction, TLAPS

-----------------------------------------------------------------------------
(* The indicator: what it is doing, and what its clock readings say. *)

\* Readings of the clock lie in the past, deadlines within the bounds.
Clocked ==
  /\ now \in Nat /\ timeout \in AcceptedTimeouts
  /\ since \in Nat /\ closing \in Nat /\ wake \in Nat
  /\ since <= now /\ closing <= now
  /\ due \in Int /\ pending \in Int /\ asserted \in Int /\ lost \in 0..2
  /\ pending <= now /\ paused \in BOOLEAN

\* What the task does at each stage of the turn, and how long it may take.
AtWork ==
  /\ doing \in {"idle", "start", "pause", "stop", "waiting", "ended"}
  /\ doing = "idle" => bracket \in {"none", "closed"} /\ ~paused /\ pending < 0 /\ asserted < 0
  /\ bracket = "none" => doing = "idle"
  /\ bracket = "open" => doing \in {"start", "pause", "waiting"}
  /\ bracket = "closing" => doing \in {"start", "pause", "stop"} /\ now <= closing + timeout
  /\ doing \in {"start", "pause"} => bracket \in {"open", "closing"} /\ now <= since + timeout
  /\ doing = "waiting" => bracket = "open" /\ now <= wake /\ wake <= now + Poll
  /\ doing = "start" /\ bracket = "closing" => since <= closing
  /\ doing = "stop" => bracket = "closing" /\ last = "stop"
  /\ bracket = "closed" /\ doing = "ended" => last = "stop"
  /\ bracket = "cut-off" => now >= closing + timeout

\* A paused indicator was stopped; one that is not has not seen the prompt yet.
Pausing ==
  /\ doing = "pause" => paused
  /\ doing = "start" => ~paused
  /\ paused => last = "stop" /\ asserted < 0
  /\ pending >= 0 /\ ~paused =>
       /\ doing = "start" => since <= pending
       /\ doing = "waiting" => wake <= pending + Poll + timeout

\* Starts are issued one interval apart, whatever became of the last.
Rhythm ==
  /\ doing = "start" => due = since + Refresh
  /\ doing = "waiting" /\ ~paused => wake <= due
  /\ asserted >= 0 /\ doing = "start" =>
       /\ lost = 0 => asserted + Refresh = since
       /\ lost = 1 => asserted + Refresh + Refresh = since
  /\ asserted >= 0 /\ doing = "waiting" =>
       /\ lost = 0 => asserted + Refresh = due
       /\ lost = 1 => asserted + Refresh + Refresh = due

\* A receipt is under way for the last item handed on.
ReceiptDue ==
  /\ submitted \in Seq(Arrivals)
  /\ loop = "receipt" =>
       /\ until \in Int /\ until <= now + timeout
       /\ Acknowledged(submitted[Len(submitted)])

TypingInv == Clocked /\ AtWork /\ Pausing /\ Rhythm /\ ReceiptDue

\* At the start nothing is timed.
LEMMA InitTyping == Init => TypingInv
<1> SUFFICES ASSUME Init PROVE TypingInv
  OBVIOUS
<1> USE ChannelAssumption DEF ChannelAssumption
<1>1. /\ now = 0 /\ doing = "idle" /\ since = 0 /\ wake = 0 /\ due = -1 /\ closing = 0
      /\ paused = FALSE /\ pending = -1 /\ asserted = -1 /\ lost = 0
      /\ submitted = <<>> /\ bracket \in {"none", "closed"} /\ loop # "receipt"
      /\ timeout \in AcceptedTimeouts
  BY DEF Init, AcceptedTimeouts
<1>2. Clocked
  <2>1. paused \in BOOLEAN
    BY <1>1, Zenon
  <2> QED
    BY <1>1, <2>1 DEF Clocked
<1>3. AtWork /\ Pausing /\ Rhythm
  BY <1>1 DEF AtWork, Pausing, Rhythm
<1>4. ReceiptDue
  BY <1>1 DEF ReceiptDue
<1> QED
  BY <1>2, <1>3, <1>4 DEF TypingInv

\* The steps of the indicator's task and of the turn around it.
LEMMA IndicatorStep ==
  ASSUME TypingInv, Indicator
  PROVE  TypingInv'
<1> USE ChannelAssumption DEF ChannelAssumption
<1>1. /\ Clocked /\ AtWork /\ Pausing /\ Rhythm /\ ReceiptDue
      /\ Refresh \in Nat \ {0} /\ Poll \in Nat \ {0} /\ timeout \in 1..Refresh
  BY DEF TypingInv, Clocked, AcceptedTimeouts
<1>2. UNCHANGED <<sending, now, timeout, receiving>>
  BY DEF Indicator, OpenBracket, Settled, Woken, CloseBracket, Stopped, CutOff, CancelTurn,
         EndTask, Approval
<1>3. ReceiptDue'
  BY <1>1, <1>2 DEF ReceiptDue, receiving
<1>4. CASE OpenBracket
  BY <1>1, <1>2, <1>3, <1>4
     DEF OpenBracket, Start, TypingInv, Clocked, AtWork, Pausing, Rhythm
<1>5. ASSUME NEW ok \in BOOLEAN, Settled(ok) PROVE TypingInv'
  <2>1. CASE bracket = "closing"
    <3>1. /\ doing \in {"start", "pause"} /\ doing' = "stop" /\ last' = "stop"
          /\ since' = now /\ asserted' \in {asserted, since} /\ lost' \in 0..2
          /\ doing = "pause" => asserted' = asserted
          /\ UNCHANGED <<bracket, closing, paused, pending, due, wake>>
      BY <1>1, <1>5, <2>1 DEF Settled, Stop, Least, Clocked
    <3>2. Clocked'
      BY <1>1, <1>2, <2>1, <3>1 DEF Clocked
    <3>3. AtWork'
      BY <1>1, <1>2, <2>1, <3>1 DEF Clocked, AtWork
    <3>4. Pausing'
      BY <1>1, <1>2, <2>1, <3>1 DEF Clocked, AtWork, Pausing
    <3>5. Rhythm'
      BY <1>1, <1>2, <2>1, <3>1 DEF Clocked, AtWork, Pausing, Rhythm
    <3> QED
      BY <1>3, <3>2, <3>3, <3>4, <3>5 DEF TypingInv
  <2>2. CASE bracket = "open" /\ doing = "pause"
    BY <1>1, <1>2, <1>3, <1>5, <2>2
       DEF Settled, Wait, Least, TypingInv, Clocked, AtWork, Pausing, Rhythm
  <2>3. CASE bracket = "open" /\ doing = "start"
    <3>1. /\ doing' = "waiting" /\ lost' \in 0..2
          /\ UNCHANGED <<bracket, closing, paused, pending, due, since, last>>
          /\ \/ asserted' = since /\ lost' = 0
             \/ asserted' = asserted /\ lost' # 0 /\ (lost' = 1 => lost = 0)
      BY <1>1, <1>5, <2>3 DEF Settled, Wait, Least, Clocked
    <3>7. /\ wake' \in Nat /\ wake' >= now /\ wake' <= now + Poll /\ wake' <= due
      <4>1. since <= now /\ now <= since + timeout /\ due = since + Refresh /\ now <= due
        BY <1>1, <2>3 DEF Clocked, AtWork, Rhythm
      <4>2. wake' = now + Least(Poll, IF due < 0 THEN Poll ELSE IF due <= now THEN 0 ELSE due - now)
        BY <1>5, <2>3 DEF Settled, Wait
      <4>3. (IF due < 0 THEN Poll ELSE IF due <= now THEN 0 ELSE due - now) = due - now
        BY <1>1, <4>1 DEF Clocked
      <4>4. wake' = now + Least(Poll, due - now)
        BY <4>2, <4>3
      <4>5. /\ Least(Poll, due - now) \in Nat
            /\ Least(Poll, due - now) <= Poll /\ Least(Poll, due - now) <= due - now
        BY <1>1, <4>1 DEF Least, Clocked
      <4>6. now \in Nat /\ due \in Int
        BY <1>1 DEF Clocked
      <4> QED
        BY <1>1, <4>4, <4>5, <4>6
    <3>2. Clocked'
      BY <1>1, <1>2, <2>3, <3>1, <3>7 DEF Clocked
    <3>3. AtWork'
      BY <1>1, <1>2, <2>3, <3>1, <3>7 DEF Clocked, AtWork
    <3>4. Pausing'
      BY <1>1, <1>2, <2>3, <3>1, <3>7 DEF Clocked, AtWork, Pausing
    <3>5. Rhythm'
      BY <1>1, <1>2, <2>3, <3>1, <3>7 DEF Clocked, AtWork, Pausing, Rhythm
    <3> QED
      BY <1>3, <3>2, <3>3, <3>4, <3>5 DEF TypingInv
  <2> QED
    BY <1>1, <1>5, <2>1, <2>2, <2>3 DEF Settled, AtWork
<1>6. CASE Woken
  <2>1. CASE pending >= 0 /\ ~paused
    BY <1>1, <1>2, <1>3, <1>6, <2>1
       DEF Woken, Stop, TypingInv, Clocked, AtWork, Pausing, Rhythm
  <2>2. CASE pending < 0 /\ (paused \/ now >= due)
    <3>1. /\ doing = "waiting" /\ doing' = "start" /\ last' = "start" /\ since' = now
          /\ due' = now + Refresh /\ paused' = (pending >= 0)
          /\ UNCHANGED <<bracket, closing, pending, wake, asserted, lost>>
      <4>1. ~(pending >= 0 /\ ~paused)
        BY <1>1, <2>2 DEF Clocked
      <4> QED
        BY <1>6, <2>2, <4>1, Zenon DEF Woken, Start
    <3>9. paused' \in BOOLEAN /\ ~paused'
      <4>1. ~(pending >= 0)
        BY <1>1, <2>2 DEF Clocked
      <4>2. (pending >= 0) = FALSE
        BY <4>1
      <4>3. paused' = FALSE
        BY <3>1, <4>2, Zenon
      <4> QED
        BY <4>3
    <3>7. paused => asserted < 0
      BY <1>1 DEF Pausing
    <3>8. ~paused => now = due
      BY <1>1, <2>2, <3>1 DEF Clocked, AtWork, Rhythm
    <3>2. Clocked'
      BY <1>1, <1>2, <2>2, <3>1, <3>7, <3>8, <3>9 DEF Clocked
    <3>3. AtWork'
      BY <1>1, <1>2, <2>2, <3>1, <3>7, <3>8, <3>9 DEF Clocked, AtWork
    <3>4. Pausing'
      BY <1>1, <1>2, <2>2, <3>1, <3>7, <3>8, <3>9 DEF Clocked, AtWork, Pausing
    <3>5. Rhythm'
      BY <1>1, <1>2, <2>2, <3>1, <3>7, <3>8, <3>9 DEF Clocked, AtWork, Pausing, Rhythm
    <3> QED
      BY <1>3, <3>2, <3>3, <3>4, <3>5 DEF TypingInv
  <2>3. CASE ~(pending >= 0 /\ ~paused) /\ ~(pending < 0 /\ (paused \/ now >= due))
    BY <1>1, <1>2, <1>3, <1>6, <2>3
       DEF Woken, Wait, Least, TypingInv, Clocked, AtWork, Pausing, Rhythm
  <2> QED
    BY <2>1, <2>2, <2>3
<1>7. CASE CloseBracket
  <2>1. /\ bracket = "open" /\ bracket' = "closing" /\ closing' = now
        /\ UNCHANGED <<paused, pending, asserted, lost, due, wake>>
        /\ doing = "waiting" => doing' = "stop" /\ last' = "stop" /\ since' = now
        /\ doing # "waiting" => UNCHANGED <<doing, last, since>>
    BY <1>7 DEF CloseBracket, Stop
  <2>2. Clocked'
    BY <1>1, <1>2, <2>1 DEF Clocked
  <2>3. AtWork'
    BY <1>1, <1>2, <2>1 DEF Clocked, AtWork
  <2>4. Pausing'
    BY <1>1, <1>2, <2>1 DEF Pausing
  <2>5. Rhythm'
    BY <1>1, <1>2, <2>1 DEF Rhythm
  <2> QED
    BY <1>3, <2>2, <2>3, <2>4, <2>5 DEF TypingInv
<1>8. CASE Stopped \/ CutOff \/ CancelTurn
  BY <1>1, <1>2, <1>3, <1>8
     DEF Stopped, CutOff, CancelTurn, EndTask, TypingInv, Clocked, AtWork, Pausing, Rhythm
<1>9. CASE Approval
  BY <1>1, <1>2, <1>3, <1>9
     DEF Approval, TypingInv, Clocked, AtWork, Pausing, Rhythm
<1> QED
  BY <1>4, <1>5, <1>6, <1>7, <1>8, <1>9 DEF Indicator

\* The steps of the receive loop: none touches the indicator.
LEMMA ReceiverStep ==
  ASSUME TypingInv, Receiver
  PROVE  TypingInv'
<1>1. UNCHANGED <<now, timeout, typing>>
  BY DEF Receiver, Arrive, ReceiptEnds, StreamFails, StreamEnds, Reconnect
<1>2. Clocked' /\ AtWork' /\ Pausing' /\ Rhythm'
  BY <1>1 DEF TypingInv, typing, Clocked, AtWork, Pausing, Rhythm
<1>3. ReceiptDue'
  <2>1. /\ submitted \in Seq(Arrivals) /\ now \in Nat /\ timeout \in Nat
        /\ loop = "receipt" =>
             /\ until \in Int /\ until <= now + timeout
             /\ Acknowledged(submitted[Len(submitted)])
    BY ChannelAssumption DEF TypingInv, ReceiptDue, Clocked, AcceptedTimeouts, ChannelAssumption
  <2>2. ASSUME NEW i \in Arrivals, Arrive(i) PROVE ReceiptDue'
    <3>1. CASE i.what = "nothing" \/ ~Allowed(i)
      BY <1>1, <2>1, <2>2, <3>1 DEF Arrive, ReceiptDue
    <3>2. CASE ~(i.what = "nothing" \/ ~Allowed(i))
      <4>1. /\ submitted' \in Seq(Arrivals) /\ submitted'[Len(submitted')] = i
            /\ loop = "receiving"
            /\ IF Acknowledged(i) THEN loop' = "receipt" /\ until' = now + timeout
                                  ELSE loop' = loop
        BY <2>1, <2>2, <3>2 DEF Arrive
      <4> QED
        BY <1>1, <2>1, <4>1 DEF ReceiptDue
    <3> QED
      BY <3>1, <3>2
  <2>3. CASE ReceiptEnds \/ StreamFails \/ StreamEnds \/ Reconnect
    <3>1. submitted' = submitted /\ loop' # "receipt"
      BY <2>3 DEF ReceiptEnds, StreamFails, StreamEnds, Reconnect
    <3> QED
      BY <2>1, <3>1 DEF ReceiptDue
  <2> QED
    BY <2>2, <2>3 DEF Receiver
<1> QED
  BY <1>2, <1>3 DEF TypingInv

\* Time passes no timer that is due.
LEMMA TickStep ==
  ASSUME TypingInv, Tick
  PROVE  TypingInv'
<1> USE ChannelAssumption DEF ChannelAssumption
<1>1. /\ Clocked /\ AtWork /\ Pausing /\ Rhythm /\ ReceiptDue
      /\ Refresh \in Nat \ {0} /\ Poll \in Nat \ {0} /\ timeout \in 1..Refresh
      /\ now' = now + 1 /\ UNCHANGED <<timeout, typing, receiving>>
  BY DEF TypingInv, Clocked, AcceptedTimeouts, Tick
<1>2. Clocked'
  BY <1>1 DEF Clocked, typing
<1>3. AtWork'
  BY <1>1 DEF Clocked, AtWork, Tick, typing
<1>4. Pausing' /\ Rhythm'
  BY <1>1 DEF Clocked, Pausing, Rhythm, typing
<1>5. ReceiptDue'
  BY <1>1 DEF Clocked, ReceiptDue, receiving
<1> QED
  BY <1>2, <1>3, <1>4, <1>5 DEF TypingInv

\* The indicator's invariant holds throughout.
LEMMA TypingHolds == Spec => []TypingInv
<1>1. TypingInv /\ [Next]_vars => TypingInv'
  <2> SUFFICES ASSUME TypingInv, [Next]_vars PROVE TypingInv'
    OBVIOUS
  <2>1. ASSUME UNCHANGED <<now, timeout, typing, receiving>> PROVE TypingInv'
    BY <2>1 DEF TypingInv, Clocked, AtWork, Pausing, Rhythm, ReceiptDue, typing, receiving
  <2>2. ASSUME NEW s \in Senders, SenderStep(s) \/ Cancel(s) PROVE TypingInv'
    BY <2>1, <2>2 DEF SenderStep, Send, Post, NothingToSend, Accepted, Refused, Cancel
  <2>3. CASE UNCHANGED vars
    BY <2>1, <2>3 DEF vars
  <2> QED
    BY <2>2, <2>3, IndicatorStep, ReceiverStep, TickStep DEF Next
<1> QED
  BY <1>1, InitTyping, PTL DEF Spec

\* The indicator is asserted in time although one start is lost, yields to a
\* prompt within a wake-up and one request, and closes within its bound; the
\* receive loop waits no longer for a receipt (signal.py _run_acknowledgement,
\* acknowledge.py): for every bound the configuration accepts, every interval and
\* every poll.
THEOREM TypingAlwaysTimely == Spec => []TypingIsTimely
<1>1. TypingInv => TypingIsTimely
  <2> SUFFICES ASSUME TypingInv PROVE TypingIsTimely
    OBVIOUS
  <2> USE ChannelAssumption DEF ChannelAssumption
  <2>1. /\ Clocked /\ AtWork /\ Pausing /\ Rhythm /\ ReceiptDue
        /\ Refresh \in Nat \ {0} /\ Poll \in Nat \ {0} /\ timeout \in 1..Refresh
    BY DEF TypingInv, Clocked, AcceptedTimeouts
  <2>2. Fresh
    <3> SUFFICES ASSUME bracket = "open", asserted >= 0, lost <= 1
                 PROVE  (IF doing = "start" THEN since ELSE now) - asserted <= 2 * Refresh
      BY DEF Fresh
    <3>1. ~paused /\ doing \in {"start", "waiting"} /\ lost \in {0, 1}
      BY <2>1 DEF Clocked, AtWork, Pausing
    <3>2. CASE doing = "start"
      BY <2>1, <3>1, <3>2 DEF Clocked, Rhythm
    <3>3. CASE doing = "waiting"
      BY <2>1, <3>1, <3>3 DEF Clocked, AtWork, Rhythm
    <3> QED
      BY <3>1, <3>2, <3>3
  <2>3. YieldsToPrompt
    BY <2>1 DEF YieldsToPrompt, Clocked, AtWork, Pausing
  <2>4. ClosesInBound
    BY <2>1 DEF ClosesInBound, Clocked, AtWork
  <2>5. loop = "receipt" => until - now <= timeout /\ Acknowledged(submitted[Len(submitted)])
    BY <2>1 DEF Clocked, ReceiptDue
  <2> QED
    BY <2>2, <2>3, <2>4, <2>5 DEF TypingIsTimely
<1> QED
  BY <1>1, TypingHolds, PTL
-----------------------------------------------------------------------------
(* Sequences of pieces, put together. *)

\* The pieces put together one by one.
Joined(f, s, n) ==
  /\ f = [i \in 0..n |-> f[i]] /\ f[0] = <<>>
  /\ \A i \in 1..n : f[i] = f[i - 1] \o s[i]

LEMMA JoinedExists ==
  ASSUME NEW s, NEW N \in Nat
  PROVE  \E f : Joined(f, s, N)
<1> DEFINE Missing == {n \in Nat : ~\E f : Joined(f, s, n)}
<1>1. Joined([i \in 0..0 |-> <<>>], s, 0)
  BY DEF Joined
<1>2. ASSUME NEW n \in Nat, n # 0, NEW f, Joined(f, s, n - 1)
      PROVE  \E g : Joined(g, s, n)
  <2> DEFINE latest == f[n - 1] \o s[n]
             g == [i \in 0..n |-> IF i = n THEN latest ELSE f[i]]
  <2> HIDE DEF latest
  <2>1. g[n] = latest /\ \A i \in 0..n - 1 : g[i] = f[i]
    BY <1>2
  <2>2. g = [i \in 0..n |-> g[i]]
    OBVIOUS
  <2> HIDE DEF g
  <2>3. g[0] = <<>>
    BY <1>2, <2>1 DEF Joined
  <2>4. ASSUME NEW i \in 1..n PROVE g[i] = g[i - 1] \o s[i]
    <3>1. g[i - 1] = f[i - 1]
      BY <1>2, <2>1
    <3>2. CASE i = n
      BY <2>1, <3>1, <3>2 DEF latest
    <3>3. CASE i # n
      <4>1. i \in 1..n - 1 /\ g[i] = f[i]
        BY <1>2, <2>1, <3>3
      <4> QED BY <1>2, <3>1, <4>1 DEF Joined
    <3> QED BY <3>2, <3>3
  <2> QED BY <2>2, <2>3, <2>4 DEF Joined
<1>3. Missing = {}
  <2> SUFFICES ASSUME Missing # {} PROVE FALSE
    OBVIOUS
  <2>1. PICK n \in Missing : \A m \in Missing : <<m, n>> \notin OpToRel(<, Nat)
    BY NatLessThanWellFounded, WFMin
  <2>2. \A m \in Missing : ~(m < n)
    BY <2>1 DEF OpToRel
  <2>3. n # 0
    BY <1>1
  <2>4. n - 1 \in Nat /\ n - 1 \notin Missing
    BY <2>2, <2>3
  <2> QED BY <1>2, <2>3, <2>4
<1> QED BY <1>3

\* What holds of the first and of each next holds of all.
LEMMA JoinedIs ==
  ASSUME NEW S, NEW s \in Seq(Seq(S)), NEW f, Joined(f, s, Len(s))
  PROVE  \A n \in 0..Len(s) : f[n] \in Seq(S)
<1> DEFINE Bad == {n \in Nat : n <= Len(s) /\ f[n] \notin Seq(S)}
<1>1. Len(s) \in Nat /\ \A n \in 1..Len(s) : s[n] \in Seq(S)
  OBVIOUS
<1>2. Bad = {}
  <2> SUFFICES ASSUME Bad # {} PROVE FALSE
    OBVIOUS
  <2>1. PICK n \in Bad : \A m \in Bad : <<m, n>> \notin OpToRel(<, Nat)
    BY NatLessThanWellFounded, WFMin
  <2>2. \A m \in Bad : ~(m < n)
    BY <2>1 DEF OpToRel
  <2>3. n # 0
    BY EmptySeq DEF Joined
  <2>4. n - 1 \in Nat /\ n - 1 <= Len(s) /\ f[n - 1] \in Seq(S)
    BY <1>1, <2>2, <2>3
  <2>5. n \in 1..Len(s) /\ f[n] = f[n - 1] \o s[n]
    <3>1. n \in 1..Len(s)
      BY <1>1, <2>3
    <3> QED BY <3>1 DEF Joined
  <2>6. f[n] \in Seq(S)
    BY <1>1, <2>4, <2>5, ConcatProperties
  <2> QED BY <2>6
<1> QED BY <1>1, <1>2

\* What FlattenSeq gives is what putting the pieces together gives.
LEMMA FlattenJoins ==
  ASSUME NEW S, NEW s \in Seq(Seq(S))
  PROVE  \E f : Joined(f, s, Len(s)) /\ FlattenSeq(s) = f[Len(s)]
<1> DEFINE N == Len(s)
           Body(g) == [i \in 1..N |-> IF i = 1 THEN s[i] ELSE g[i - 1] \o s[i]]
           flatten == CHOOSE g : g = Body(g)
<1>1. FlattenSeq(s) = IF N = 0 THEN s ELSE flatten[N]
  BY Zenon DEF FlattenSeq
<1>2. N \in Nat /\ (N = 0 => s = <<>>) /\ \A i \in 1..N : s[i] \in Seq(S)
  OBVIOUS
<1>3. \A g : Body(g) = [i \in 1..N |-> IF i = 1 THEN s[i] ELSE g[i - 1] \o s[i]]
  OBVIOUS
<1> HIDE DEF Body
<1>4. PICK f : Joined(f, s, N)
  BY <1>2, JoinedExists
<1>5. CASE N = 0
  BY <1>1, <1>2, <1>4, <1>5 DEF Joined
<1>6. CASE N # 0
  <2> DEFINE h == [i \in 1..N |-> f[i]]
  <2>1. h = Body(h)
    <3>1. \A i \in 1..N : h[i] = IF i = 1 THEN s[i] ELSE h[i - 1] \o s[i]
      <4> SUFFICES ASSUME NEW i \in 1..N
                   PROVE  h[i] = IF i = 1 THEN s[i] ELSE h[i - 1] \o s[i]
        OBVIOUS
      <4>1. h[i] = f[i - 1] \o s[i]
        BY <1>4 DEF Joined
      <4>2. CASE i = 1
        <5>1. f[i - 1] = <<>>
          BY <1>4, <4>2 DEF Joined
        <5>2. <<>> \o s[i] = s[i]
          BY <1>2, ConcatEmptySeq
        <5> QED BY <4>1, <4>2, <5>1, <5>2
      <4>3. CASE i # 1
        <5>1. h[i - 1] = f[i - 1]
          BY <1>2, <4>3
        <5> QED BY <4>1, <4>3, <5>1
      <4> QED BY <4>2, <4>3
    <3>2. h = [i \in 1..N |-> h[i]]
      OBVIOUS
    <3> HIDE DEF h
    <3> QED BY <1>3, <3>1, <3>2
  <2> HIDE DEF h
  <2>2. flatten = Body(flatten)
    BY <2>1
  <2> HIDE DEF flatten
  <2> DEFINE g == [i \in 0..N |-> IF i = 0 THEN <<>> ELSE flatten[i]]
  <2>3. \A i \in 1..N : flatten[i] = IF i = 1 THEN s[i] ELSE flatten[i - 1] \o s[i]
    BY <1>3, <2>2
  <2>4. g[0] = <<>> /\ \A i \in 1..N : g[i] = flatten[i]
    BY <1>2
  <2>5. g = [i \in 0..N |-> g[i]]
    OBVIOUS
  <2> HIDE DEF g
  <2>6. \A i \in 1..N : g[i] = g[i - 1] \o s[i]
    <3> SUFFICES ASSUME NEW i \in 1..N PROVE g[i] = g[i - 1] \o s[i]
      OBVIOUS
    <3>1. CASE i = 1
      <4>1. g[i] = s[i] /\ g[i - 1] = <<>>
        BY <2>3, <2>4, <3>1
      <4>2. <<>> \o s[i] = s[i]
        BY <1>2, ConcatEmptySeq
      <4> QED BY <4>1, <4>2
    <3>2. CASE i # 1
      <4>1. i - 1 \in 1..N
        BY <1>2, <3>2
      <4> QED BY <2>3, <2>4, <3>2, <4>1
    <3> QED BY <3>1, <3>2
  <2>7. Joined(g, s, N)
    BY <2>4, <2>5, <2>6 DEF Joined
  <2>8. FlattenSeq(s) = g[N]
    BY <1>1, <1>2, <1>6, <2>4
  <2> QED BY <2>7, <2>8
<1> QED BY <1>5, <1>6

\* Pieces of the same make a sequence of the same; none make nothing.
LEMMA FlattenIs ==
  ASSUME NEW S, NEW s \in Seq(Seq(S))
  PROVE  FlattenSeq(s) \in Seq(S) /\ (s = <<>> => FlattenSeq(s) = <<>>)
<1>1. PICK f : Joined(f, s, Len(s)) /\ FlattenSeq(s) = f[Len(s)]
  BY FlattenJoins
<1>2. Len(s) \in 0..Len(s) /\ (s = <<>> => Len(s) = 0)
  OBVIOUS
<1>3. f[Len(s)] \in Seq(S)
  BY <1>1, <1>2, JoinedIs
<1> QED BY <1>1, <1>2, <1>3 DEF Joined

\* A piece in front stays in front.
LEMMA FlattenFront ==
  ASSUME NEW S, NEW x \in Seq(S), NEW s \in Seq(Seq(S))
  PROVE  FlattenSeq(<<x>> \o s) = x \o FlattenSeq(s)
<1>0. \A a, b, c \in Seq(S) : (a \o b) \o c = a \o (b \o c)
  BY ConcatAssociative
<1> DEFINE all == <<x>> \o s
           N == Len(s)
<1>1. N \in Nat /\ \A i \in 1..N : s[i] \in Seq(S)
  OBVIOUS
<1>2. /\ all \in Seq(Seq(S)) /\ Len(all) = N + 1 /\ all[1] = x
      /\ \A i \in 1..N : all[i + 1] = s[i]
  OBVIOUS
<1>3. PICK f : Joined(f, s, N) /\ FlattenSeq(s) = f[N]
  BY FlattenJoins
<1> HIDE DEF all
<1>4. PICK g : Joined(g, all, N + 1) /\ FlattenSeq(all) = g[N + 1]
  BY <1>2, FlattenJoins
<1>5. \A n \in 0..N : f[n] \in Seq(S)
  BY <1>3, JoinedIs
<1> DEFINE Bad == {n \in Nat : n <= N /\ g[n + 1] # x \o f[n]}
<1>6. g[1] = x \o f[0]
  <2>1. g[1] = g[0] \o all[1] /\ g[0] = <<>> /\ f[0] = <<>>
    <3>1. 1 \in 1..N + 1 /\ 1 - 1 = 0
      BY <1>1
    <3> QED BY <1>3, <1>4, <3>1 DEF Joined
  <2>2. <<>> \o x = x /\ x \o <<>> = x
    BY ConcatEmptySeq
  <2> QED BY <1>2, <2>1, <2>2
<1>7. Bad = {}
  <2> SUFFICES ASSUME Bad # {} PROVE FALSE
    OBVIOUS
  <2>1. PICK n \in Bad : \A m \in Bad : <<m, n>> \notin OpToRel(<, Nat)
    BY NatLessThanWellFounded, WFMin
  <2>2. \A m \in Bad : ~(m < n)
    BY <2>1 DEF OpToRel
  <2>3. n # 0
    BY <1>6
  <2>4. n - 1 \in Nat /\ n - 1 <= N /\ n - 1 < n /\ n \in 1..N /\ n - 1 \in 0..N
    BY <1>1, <2>3
  <2>5. g[(n - 1) + 1] = x \o f[n - 1]
    BY <2>2, <2>4
  <2>6. g[n] = x \o f[n - 1]
    <3>1. (n - 1) + 1 = n
      BY <2>4
    <3> QED BY <2>5, <3>1
  <2>7. f[n] = f[n - 1] \o s[n]
    BY <1>3, <2>4 DEF Joined
  <2>8. g[n + 1] = g[n] \o all[n + 1]
    <3>1. n + 1 \in 1..N + 1 /\ (n + 1) - 1 = n
      BY <1>1, <2>4
    <3> QED BY <1>4, <3>1 DEF Joined
  <2>9. all[n + 1] = s[n]
    BY <1>2, <2>4
  <2>10. (x \o f[n - 1]) \o s[n] = x \o (f[n - 1] \o s[n])
    <3>1. x \in Seq(S) /\ f[n - 1] \in Seq(S) /\ s[n] \in Seq(S)
      BY <1>1, <1>5, <2>4
    <3> QED BY <1>0, <3>1, Zenon
  <2> QED BY <2>6, <2>7, <2>8, <2>9, <2>10
<1>8. g[N + 1] = x \o f[N]
  <2>1. N \in Nat /\ N <= N
    BY <1>1
  <2>2. N \notin Bad
    BY <1>7
  <2> QED BY <2>1, <2>2, Zenon
<1> QED BY <1>3, <1>4, <1>8 DEF all

-----------------------------------------------------------------------------
(* Where a text is cut. *)

\* A bounded set of naturals that is not empty has a greatest member.
LEMMA GreatestIs ==
  ASSUME NEW n \in Nat, NEW S, S \subseteq 0..n, S # {}
  PROVE  Greatest(S) \in S /\ \A y \in S : y <= Greatest(S)
<1> DEFINE left == {n - y : y \in S}
<1>1. left \in SUBSET Nat /\ left # {}
  <2>1. \A y \in S : n - y \in Nat
    OBVIOUS
  <2> QED BY <2>1
<1>2. PICK d \in left : \A e \in left : <<e, d>> \notin OpToRel(<, Nat)
  BY <1>1, NatLessThanWellFounded, WFMin
<1>3. \A e \in left : ~(e < d)
  BY <1>1, <1>2 DEF OpToRel
<1>4. PICK x \in S : d = n - x
  BY <1>2
<1>5. \A y \in S : y <= x
  BY <1>3, <1>4
<1> QED BY <1>5 DEF Greatest

\* The bytes of a text, and of its beginnings.
LEMMA BytesIs ==
  ASSUME NEW t \in Seq(Char)
  PROVE  /\ Bytes(t) \in Nat
         /\ \A n \in 0..Len(t) :
              /\ SubSeq(t, 1, n) \in Seq(Char) /\ Len(SubSeq(t, 1, n)) = n
              /\ Bytes(SubSeq(t, 1, n)) \in n..2 * n
              /\ \A m \in 0..n : Bytes(SubSeq(t, 1, m)) <= Bytes(SubSeq(t, 1, n))
<1> DEFINE Two(n) == {i \in 1..n : t[i] = "w"}
<1>1. Len(t) \in Nat /\ DOMAIN t = 1..Len(t) /\ \A i \in 1..Len(t) : t[i] \in Char
  <2> HIDE DEF Two
  <2> QED BY LenProperties, ElementOfSeq
<1>2. ASSUME NEW n \in 0..Len(t)
      PROVE  /\ SubSeq(t, 1, n) \in Seq(Char) /\ Len(SubSeq(t, 1, n)) = n
             /\ Bytes(SubSeq(t, 1, n)) = n + Cardinality(Two(n))
             /\ IsFiniteSet(Two(n)) /\ Cardinality(Two(n)) \in 0..n
  <2> DEFINE p == SubSeq(t, 1, n)
  <2>1. \A i \in 1..n : t[i] \in Char
    BY <1>1
  <2>2. p \in Seq(Char) /\ Len(p) = n /\ \A i \in 1..n : p[i] = t[i]
    <3>1. 1 \in Int /\ n \in Int
      BY <1>1
    <3>2. p \in Seq(Char) /\ Len(p) = (IF 1 <= n THEN n - 1 + 1 ELSE 0)
          /\ \A i \in 1..n - 1 + 1 : p[i] = t[1 + i - 1]
      <4> HIDE DEF Two
      <4> QED BY <2>1, <3>1, SubSeqProperties
    <3> HIDE DEF p
    <3> QED BY <1>1, <3>2
  <2> HIDE DEF p
  <2>3. DOMAIN p = 1..n
    BY <2>2, LenProperties
  <2>4. {i \in DOMAIN p : p[i] = "w"} = Two(n)
    BY <2>2, <2>3
  <2>5. IsFiniteSet(1..n) /\ Cardinality(1..n) = n
    <3>1. IsFiniteSet(1..n) /\ Cardinality(1..n) = IF 1 > n THEN 0 ELSE n - 1 + 1
      BY <1>1, FS_Interval
    <3> QED BY <1>1, <3>1
  <2>6. IsFiniteSet(Two(n)) /\ Cardinality(Two(n)) <= Cardinality(1..n)
    <3>1. Two(n) \in SUBSET (1..n)
      OBVIOUS
    <3> HIDE DEF Two
    <3> QED BY <2>5, <3>1, FS_Subset
  <2> HIDE DEF Two
  <2>7. Cardinality(Two(n)) \in Nat
    BY <2>6, FS_CardinalityType
  <2>8. Bytes(p) = n + Cardinality(Two(n))
    BY <2>2, <2>4, Zenon DEF Bytes
  <2>9. Cardinality(Two(n)) \in 0..n
    BY <1>1, <2>5, <2>6, <2>7
  <2> QED BY <2>2, <2>6, <2>8, <2>9, Zenon DEF p
<1>3. ASSUME NEW n \in 0..Len(t), NEW m \in 0..n
      PROVE  Cardinality(Two(m)) <= Cardinality(Two(n))
  <2>1. Two(m) \in SUBSET Two(n)
    BY <1>1
  <2> HIDE DEF Two
  <2> QED BY <1>2, <2>1, FS_Subset
<1>4. Bytes(t) \in Nat
  <2>1. SubSeq(t, 1, Len(t)) = t
    BY SubSeqFull
  <2>2. Len(t) \in 0..Len(t)
    BY <1>1
  <2>3. Bytes(t) = Len(t) + Cardinality(Two(Len(t))) /\ Cardinality(Two(Len(t))) \in 0..Len(t)
    <3> HIDE DEF Two
    <3> QED BY <1>2, <2>1, <2>2, Zenon
  <2> HIDE DEF Two
  <2> QED BY <1>1, <2>3
<1> HIDE DEF Two
<1>5. ASSUME NEW n \in 0..Len(t), NEW m \in 0..n
      PROVE  Bytes(SubSeq(t, 1, m)) <= Bytes(SubSeq(t, 1, n))
  <2>1. m \in 0..Len(t)
    BY <1>1
  <2>2. Bytes(SubSeq(t, 1, m)) = m + Cardinality(Two(m)) /\ Cardinality(Two(m)) \in Int
    BY <1>2, <2>1
  <2>3. Bytes(SubSeq(t, 1, n)) = n + Cardinality(Two(n)) /\ Cardinality(Two(n)) \in Int
    BY <1>2
  <2> QED BY <1>3, <2>2, <2>3
<1>6. ASSUME NEW n \in 0..Len(t)
      PROVE  Bytes(SubSeq(t, 1, n)) \in n..2 * n
  <2>1. Bytes(SubSeq(t, 1, n)) = n + Cardinality(Two(n)) /\ Cardinality(Two(n)) \in 0..n
    BY <1>2
  <2> QED BY <1>1, <2>1
<1> QED BY <1>2, <1>4, <1>5, <1>6

\* A text that does not fit is cut after its first character or later, and its
\* beginning fits.
LEMMA CutIs ==
  ASSUME NEW t \in Seq(Char), Bytes(t) > Limit
  PROVE  /\ Cut(t) \in 1..Len(t)
         /\ SubSeq(t, 1, Cut(t)) \in Seq(Char) /\ Bytes(SubSeq(t, 1, Cut(t))) <= Limit
<1> DEFINE fits == {n \in 0..Len(t) : Bytes(SubSeq(t, 1, n)) <= Limit}
           within == CharsWithin(t)
           A == BreaksAt(t, <<"\n", "\n">>)
           B == BreaksAt(t, <<"\n">>)
           C == BreaksAt(t, <<" ">>)
<1>1. Limit \in Nat /\ Limit >= 4
  BY ChannelAssumption DEF ChannelAssumption
<1>2. Len(t) \in Nat /\ Len(t) # 0
  <2>1. Len(t) \in Nat /\ SubSeq(t, 1, Len(t)) = t
    BY LenProperties, SubSeqFull
  <2>2. Len(t) \in 0..Len(t)
    BY <2>1
  <2>3. Bytes(t) <= 2 * Len(t) /\ Bytes(t) \in Nat
    <3>1. Bytes(SubSeq(t, 1, Len(t))) \in Len(t)..2 * Len(t)
      BY <2>2, BytesIs, Zenon
    <3>2. Bytes(t) \in Len(t)..2 * Len(t) /\ Bytes(t) \in Nat
      BY <2>1, <3>1, BytesIs, Zenon
    <3> QED BY <2>1, <3>2
  <2> QED BY <1>1, <2>1, <2>3
<1>3. within \in fits
  <2>1. Bytes(SubSeq(t, 1, 0)) \in 0..2 * 0
    BY <1>2, BytesIs
  <2>2. 0 \in fits
    BY <1>1, <1>2, <2>1
  <2>3. fits \subseteq 0..Len(t) /\ fits # {}
    BY <2>2
  <2>4. within = Greatest(fits)
    BY Zenon DEF CharsWithin
  <2> HIDE DEF within, fits
  <2> QED BY <1>2, <2>3, <2>4, GreatestIs
<1>4. within >= 1
  <2>1. 1 \in 0..Len(t)
    BY <1>2
  <2>2. Bytes(SubSeq(t, 1, 1)) \in 1..2 * 1
    BY <2>1, BytesIs
  <2>3. 1 \in fits
    BY <1>1, <2>1, <2>2
  <2>4. \A y \in fits : y <= Greatest(fits)
    <3>1. fits \subseteq 0..Len(t) /\ fits # {}
      BY <2>3
    <3> HIDE DEF fits
    <3> QED BY <1>2, <3>1, GreatestIs
  <2>5. within = Greatest(fits)
    BY Zenon DEF CharsWithin
  <2> HIDE DEF within, fits
  <2> QED BY <2>3, <2>4, <2>5
<1>5. within \in 1..Len(t) /\ Bytes(SubSeq(t, 1, within)) <= Limit
  BY <1>2, <1>3, <1>4
<1>6. A \subseteq 1..within /\ B \subseteq 1..within /\ C \subseteq 1..within
  <2>1. \A mark : Len(mark) \in Nat /\ Len(mark) >= 1 => BreaksAt(t, mark) \subseteq 1..within
    <3> SUFFICES ASSUME NEW mark, Len(mark) \in Nat, Len(mark) >= 1
                 PROVE  BreaksAt(t, mark) \subseteq 1..within
      OBVIOUS
    <3>1. BreaksAt(t, mark) \subseteq Len(mark)..within
      BY Zenon DEF BreaksAt
    <3> HIDE DEF within
    <3> QED BY <1>5, <3>1
  <2>2. \A x, y : Len(<<x>>) = 1 /\ Len(<<x, y>>) = 2
    OBVIOUS
  <2>3. Len(<<"\n", "\n">>) = 2 /\ Len(<<"\n">>) = 1 /\ Len(<<" ">>) = 1
    BY <2>2, Zenon
  <2>4. \A n : n = 2 \/ n = 1 => n \in Nat /\ n >= 1
    OBVIOUS
  <2> HIDE DEF within
  <2> QED BY <2>1, <2>3, <2>4, Zenon
<1>7. Cut(t) = IF A # {} THEN Greatest(A) ELSE IF B # {} THEN Greatest(B)
               ELSE IF C # {} THEN Greatest(C) ELSE within
  BY Zenon DEF Cut
<1> HIDE DEF within, fits, A, B, C
<1>8. Cut(t) \in 1..within
  <2>1. \A S : S \subseteq 1..within /\ S # {} => Greatest(S) \in 1..within
    <3> SUFFICES ASSUME NEW S, S \subseteq 1..within, S # {} PROVE Greatest(S) \in 1..within
      OBVIOUS
    <3>1. within \in Nat /\ S \subseteq 0..within
      BY <1>2, <1>5
    <3>2. Greatest(S) \in S
      BY <3>1, GreatestIs
    <3> QED BY <3>2
  <2>2. within \in 1..within
    BY <1>5
  <2> QED BY <1>6, <1>7, <2>1, <2>2
<1>9. Cut(t) \in 1..Len(t) /\ Cut(t) \in 0..within /\ within \in 0..Len(t) /\ Cut(t) \in 0..Len(t)
  BY <1>2, <1>5, <1>8
<1>10. SubSeq(t, 1, Cut(t)) \in Seq(Char)
  BY <1>9, BytesIs
<1>11. /\ Bytes(SubSeq(t, 1, Cut(t))) <= Bytes(SubSeq(t, 1, within))
       /\ Bytes(SubSeq(t, 1, Cut(t))) \in Int /\ Bytes(SubSeq(t, 1, within)) \in Int
  <2>1. Bytes(SubSeq(t, 1, Cut(t))) <= Bytes(SubSeq(t, 1, within))
    BY <1>9, BytesIs
  <2>2. \A n \in 0..Len(t) : Bytes(SubSeq(t, 1, n)) \in Int
    <3>1. \A n \in 0..Len(t) : Bytes(SubSeq(t, 1, n)) \in n..2 * n
      BY BytesIs
    <3> QED BY <3>1
  <2> QED BY <1>9, <2>1, <2>2
<1> QED BY <1>1, <1>5, <1>9, <1>10, <1>11

-----------------------------------------------------------------------------
(* The pieces of a text. *)

\* One step of the splitting, and a function that takes it for texts up to a length.
Beyond(t) == SubSeq(t, Cut(t) + 1, Len(t))
SplitOf(f, t) ==
  IF t = <<>> THEN <<>>
  ELSE IF Bytes(t) <= Limit THEN <<t>>
  ELSE <<SubSeq(t, 1, Cut(t))>> \o f[Beyond(t)]
Within(n) == {t \in Seq(Char) : Len(t) <= n}
Splits(f, n) ==
  f = [t \in Within(n) |-> f[t]] /\ \A t \in Within(n) : f[t] = SplitOf(f, t)

LEMMA BeyondIs ==
  ASSUME NEW t \in Seq(Char), ~(Bytes(t) <= Limit)
  PROVE  /\ Beyond(t) \in Seq(Char) /\ Len(Beyond(t)) \in Nat /\ Len(t) \in Nat
         /\ Len(Beyond(t)) < Len(t)
         /\ SubSeq(t, 1, Cut(t)) \o Beyond(t) = t
<1>1. Bytes(t) > Limit
  BY BytesIs, ChannelAssumption DEF ChannelAssumption
<1>2. Len(t) \in Nat /\ \A i \in 1..Len(t) : t[i] \in Char
  BY LenProperties, ElementOfSeq
<1>3. Cut(t) \in 1..Len(t) /\ SubSeq(t, 1, Cut(t)) \in Seq(Char)
  BY <1>1, CutIs
<1> DEFINE c == Cut(t)
           p == SubSeq(t, 1, c)
           q == Beyond(t)
<1> HIDE DEF c
<1>4. c \in 1..Len(t) /\ p \in Seq(Char)
  BY <1>3 DEF c
<1>5. q = SubSeq(t, c + 1, Len(t))
  BY DEF Beyond, c
<1>6. /\ q \in Seq(Char) /\ Len(q) = Len(t) - c
      /\ \A i \in 1..Len(t) - c : q[i] = t[c + i]
  <2>1. c + 1 \in Int /\ Len(t) \in Int /\ \A i \in c + 1..Len(t) : t[i] \in Char
    BY <1>2, <1>4
  <2>2. /\ SubSeq(t, c + 1, Len(t)) \in Seq(Char)
        /\ Len(SubSeq(t, c + 1, Len(t))) = IF c + 1 <= Len(t) THEN Len(t) - (c + 1) + 1 ELSE 0
        /\ \A i \in 1..Len(t) - (c + 1) + 1 : SubSeq(t, c + 1, Len(t))[i] = t[c + 1 + i - 1]
    BY <2>1, SubSeqProperties
  <2> HIDE DEF q
  <2>3. \A i \in 1..Len(t) - c : i \in 1..Len(t) - (c + 1) + 1 /\ c + 1 + i - 1 = c + i
    BY <1>2, <1>4
  <2> QED BY <1>2, <1>4, <1>5, <2>2, <2>3
<1>7. /\ Len(p) = c /\ \A i \in 1..c : p[i] = t[i]
  <2>1. 1 \in Int /\ c \in Int /\ \A i \in 1..c : t[i] \in Char
    BY <1>2, <1>4
  <2>2. /\ Len(p) = IF 1 <= c THEN c - 1 + 1 ELSE 0
        /\ \A i \in 1..c - 1 + 1 : p[i] = t[1 + i - 1]
    BY <2>1, SubSeqProperties
  <2> HIDE DEF p
  <2> QED BY <1>2, <1>4, <2>2
<1> HIDE DEF p, q
<1>8. p \o q = t
  <2>1. /\ p \o q \in Seq(Char) /\ Len(p \o q) = Len(p) + Len(q)
        /\ \A i \in 1..Len(p) + Len(q) : (p \o q)[i] = IF i <= Len(p) THEN p[i] ELSE q[i - Len(p)]
    BY <1>4, <1>6, ConcatProperties
  <2>2. Len(p \o q) = Len(t)
    BY <1>2, <1>4, <1>6, <1>7, <2>1
  <2>3. ASSUME NEW i \in 1..Len(t) PROVE (p \o q)[i] = t[i]
    <3>1. (p \o q)[i] = IF i <= c THEN p[i] ELSE q[i - c]
      BY <1>2, <1>4, <1>6, <1>7, <2>1
    <3>2. CASE i <= c
      BY <1>4, <1>7, <3>1, <3>2
    <3>3. CASE ~(i <= c)
      <4>1. i - c \in 1..Len(t) - c /\ c + (i - c) = i
        BY <1>2, <1>4, <3>3
      <4>2. q[i - c] = t[c + (i - c)]
        BY <1>6, <4>1
      <4> QED BY <3>1, <3>3, <4>1, <4>2
    <3> QED BY <3>2, <3>3
  <2> QED BY <2>1, <2>2, <2>3, SeqEqual
<1>9. Len(q) \in Nat /\ Len(q) < Len(t)
  BY <1>2, <1>4, <1>6
<1> QED BY <1>2, <1>6, <1>8, <1>9 DEF p, q, c

\* Two such functions agree wherever both are given.
LEMMA SplitsAgree ==
  ASSUME NEW f, NEW n \in Nat, Splits(f, n), NEW g, NEW m \in Nat, Splits(g, m)
  PROVE  \A t \in Within(n) \cap Within(m) : f[t] = g[t]
<1> DEFINE Bad == {k \in Nat : \E t \in Within(n) \cap Within(m) : Len(t) = k /\ f[t] # g[t]}
<1>1. Bad = {}
  <2> SUFFICES ASSUME Bad # {} PROVE FALSE
    OBVIOUS
  <2>1. PICK k \in Bad : \A j \in Bad : <<j, k>> \notin OpToRel(<, Nat)
    BY NatLessThanWellFounded, WFMin
  <2>2. \A j \in Bad : ~(j < k)
    BY <2>1 DEF OpToRel
  <2>3. PICK t \in Within(n) \cap Within(m) : Len(t) = k /\ f[t] # g[t]
    BY <2>1
  <2>4. f[t] = SplitOf(f, t) /\ g[t] = SplitOf(g, t) /\ t \in Seq(Char)
    BY <2>3 DEF Splits, Within
  <2>5. t # <<>> /\ ~(Bytes(t) <= Limit)
    BY <2>3, <2>4 DEF SplitOf
  <2>6. Beyond(t) \in Seq(Char) /\ Len(Beyond(t)) \in Nat /\ Len(Beyond(t)) < Len(t) /\ Len(t) \in Nat
    BY <2>4, <2>5, BeyondIs
  <2>7. Beyond(t) \in Within(n) \cap Within(m)
    BY <2>3, <2>6 DEF Within
  <2>8. f[Beyond(t)] = g[Beyond(t)]
    BY <2>2, <2>3, <2>6, <2>7
  <2> QED BY <2>3, <2>4, <2>5, <2>8 DEF SplitOf
<1>2. \A t \in Within(n) : Len(t) \in Nat
  BY LenProperties DEF Within
<1> QED BY <1>1, <1>2

LEMMA SplitsExist ==
  \A n \in Nat : \E f : Splits(f, n)
<1> DEFINE Missing == {n \in Nat : ~\E f : Splits(f, n)}
<1>1. ASSUME NEW n \in Nat, NEW f, n # 0 => Splits(f, n - 1)
      PROVE  \E g : Splits(g, n)
  <2> DEFINE g == [t \in Within(n) |-> SplitOf(f, t)]
  <2>1. g = [t \in Within(n) |-> g[t]]
    OBVIOUS
  <2>2. ASSUME NEW t \in Within(n) PROVE g[t] = SplitOf(g, t)
    <3>1. g[t] = SplitOf(f, t) /\ t \in Seq(Char) /\ Len(t) <= n
      BY DEF Within
    <3>2. CASE t = <<>> \/ Bytes(t) <= Limit
      BY <3>1, <3>2 DEF SplitOf
    <3>3. CASE t # <<>> /\ ~(Bytes(t) <= Limit)
      <4>1. /\ Beyond(t) \in Seq(Char) /\ Len(Beyond(t)) \in Nat /\ Len(Beyond(t)) < Len(t)
            /\ Len(t) \in Nat
        BY <3>1, <3>3, BeyondIs
      <4>2. n # 0 /\ Len(Beyond(t)) <= n - 1 /\ Len(Beyond(t)) <= n
        BY <3>1, <4>1
      <4>3. Beyond(t) \in Within(n - 1) /\ Beyond(t) \in Within(n)
        BY <4>1, <4>2 DEF Within
      <4>4. g[Beyond(t)] = SplitOf(f, Beyond(t))
        BY <4>3
      <4>5. f[Beyond(t)] = SplitOf(f, Beyond(t))
        BY <1>1, <4>2, <4>3 DEF Splits
      <4> HIDE DEF g
      <4> QED BY <3>1, <3>3, <4>4, <4>5 DEF SplitOf
    <3> QED BY <3>2, <3>3
  <2> HIDE DEF g
  <2> QED BY <2>1, <2>2 DEF Splits
<1>2. Missing = {}
  <2> SUFFICES ASSUME Missing # {} PROVE FALSE
    OBVIOUS
  <2>1. PICK n \in Missing : \A m \in Missing : <<m, n>> \notin OpToRel(<, Nat)
    BY NatLessThanWellFounded, WFMin
  <2>2. \A m \in Missing : ~(m < n)
    BY <2>1 DEF OpToRel
  <2>3. n # 0 => n - 1 \in Nat /\ n - 1 \notin Missing
    BY <2>2
  <2>4. \E f : n # 0 => Splits(f, n - 1)
    BY <2>3
  <2> QED BY <1>1, <2>4
<1> QED BY <1>2

\* Split takes that step for every text.
LEMMA SplitIs ==
  \A t \in Seq(Char) : Split[t] = SplitOf(Split, t)
<1> DEFINE For(n) == CHOOSE f : Splits(f, n)
           F == [t \in Seq(Char) |-> For(Len(t))[t]]
           Body(f) == [t \in Seq(Char) |-> SplitOf(f, t)]
<1>1. \A n \in Nat : Splits(For(n), n)
  BY SplitsExist, Zenon
<1> HIDE DEF For
<1>2. ASSUME NEW t \in Seq(Char) PROVE F[t] = SplitOf(F, t)
  <2>1. Len(t) \in Nat
    BY LenProperties
  <2>2. Splits(For(Len(t)), Len(t))
    BY <1>1, <2>1
  <2> DEFINE f == For(Len(t))
  <2>3. F[t] = f[t]
    OBVIOUS
  <2>4. t \in Within(Len(t))
    BY <2>1 DEF Within
  <2>5. f[t] = SplitOf(f, t)
    BY <2>2, <2>4 DEF Splits
  <2>6. CASE t = <<>> \/ Bytes(t) <= Limit
    <3> HIDE DEF f, F
    <3> QED BY <2>3, <2>5, <2>6 DEF SplitOf
  <2>7. CASE t # <<>> /\ ~(Bytes(t) <= Limit)
    <3> DEFINE r == Beyond(t)
    <3>1. r \in Seq(Char) /\ Len(r) \in Nat /\ Len(r) < Len(t)
      BY <2>7, BeyondIs
    <3> HIDE DEF r
    <3>2. F[r] = For(Len(r))[r]
      BY <3>1
    <3>3. Splits(For(Len(r)), Len(r))
      BY <1>1, <3>1
    <3>4. r \in Within(Len(r)) \cap Within(Len(t))
      BY <2>1, <3>1 DEF Within
    <3>5. For(Len(r))[r] = f[r]
      BY <2>1, <2>2, <3>1, <3>3, <3>4, SplitsAgree
    <3> HIDE DEF f, F
    <3>6. F[r] = f[r]
      BY <3>2, <3>5
    <3> QED BY <2>3, <2>5, <2>7, <3>6 DEF SplitOf, r
  <2> QED BY <2>6, <2>7
<1>3. F = Body(F)
  <2>1. F = [t \in Seq(Char) |-> F[t]]
    OBVIOUS
  <2> HIDE DEF F
  <2> QED BY <1>2, <2>1
<1>4. Split = CHOOSE f : f = Body(f)
  BY Zenon DEF Split, SplitOf, Beyond
<1> HIDE DEF F, Body
<1>5. Split = Body(Split)
  BY <1>3, <1>4
<1> QED BY <1>5 DEF Body

\* However a text is cut, at its breaks or within a word, its pieces are texts that
\* put together are the text, nothing lost and nothing repeated, and each fits
\* (split_message): for any text and any limit that holds one character.
THEOREM PiecesMakeTheText ==
  \A t \in Seq(Char) :
    /\ Split[t] \in Seq(Seq(Char)) /\ FlattenSeq(Split[t]) = t
    /\ \A n \in 1..Len(Split[t]) : Bytes(Split[t][n]) <= Limit
<1> DEFINE Whole(t) == /\ Split[t] \in Seq(Seq(Char)) /\ FlattenSeq(Split[t]) = t
                       /\ \A n \in 1..Len(Split[t]) : Bytes(Split[t][n]) <= Limit
           Bad == {k \in Nat : \E t \in Seq(Char) : Len(t) = k /\ ~Whole(t)}
<1>0. \A x : Len(<<x>>) = 1 /\ <<x>>[1] = x /\ <<x>> \o <<>> = <<x>>
  OBVIOUS
<1>1. ASSUME NEW t \in Seq(Char), \A u \in Seq(Char) : Len(u) < Len(t) => Whole(u)
      PROVE  Whole(t)
  <2>1. Split[t] = SplitOf(Split, t)
    BY SplitIs
  <2>2. CASE t = <<>>
    <3>1. Split[t] = <<>>
      BY <2>1, <2>2 DEF SplitOf
    <3>2. <<>> \in Seq(Seq(Char)) /\ Len(<<>>) = 0
      BY EmptySeq
    <3>3. FlattenSeq(<<>>) = <<>>
      BY <3>2, FlattenIs
    <3> QED BY <2>2, <3>1, <3>2, <3>3
  <2>3. CASE t # <<>> /\ Bytes(t) <= Limit
    <3>1. Split[t] = <<t>>
      BY <2>1, <2>3 DEF SplitOf
    <3>2. <<t>> \in Seq(Seq(Char))
      OBVIOUS
    <3>3. FlattenSeq(<<t>>) = t
      <4>1. <<>> \in Seq(Seq(Char))
        BY EmptySeq
      <4>2. FlattenSeq(<<t>> \o <<>>) = t \o FlattenSeq(<<>>)
        BY <4>1, FlattenFront
      <4>3. FlattenSeq(<<>>) = <<>>
        BY <4>1, FlattenIs
      <4>4. t \o <<>> = t
        BY ConcatEmptySeq
      <4> QED BY <1>0, <4>2, <4>3, <4>4
    <3>4. \A n \in 1..Len(<<t>>) : <<t>>[n] = t
      BY <1>0
    <3> QED BY <2>3, <3>1, <3>2, <3>3, <3>4
  <2>4. CASE t # <<>> /\ ~(Bytes(t) <= Limit)
    <3> DEFINE p == SubSeq(t, 1, Cut(t))
               r == Beyond(t)
               s == Split[r]
    <3>1. r \in Seq(Char) /\ Len(r) < Len(t) /\ p \o r = t
      BY <2>4, BeyondIs
    <3>2. p \in Seq(Char) /\ Bytes(p) <= Limit
      <4>1. Bytes(t) > Limit
        BY <2>4, BytesIs, ChannelAssumption DEF ChannelAssumption
      <4> QED BY <4>1, CutIs
    <3>3. Split[t] = <<p>> \o s
      BY <2>1, <2>4 DEF SplitOf
    <3> HIDE DEF p, r
    <3>4. s \in Seq(Seq(Char)) /\ FlattenSeq(s) = r /\ \A n \in 1..Len(s) : Bytes(s[n]) <= Limit
      BY <1>1, <3>1
    <3> HIDE DEF s
    <3>5. FlattenSeq(<<p>> \o s) = p \o r
      BY <3>2, <3>4, FlattenFront
    <3>6. /\ <<p>> \o s \in Seq(Seq(Char)) /\ Len(<<p>> \o s) = 1 + Len(s) /\ Len(s) \in Nat
          /\ \A n \in 1..1 + Len(s) : (<<p>> \o s)[n] = IF n <= 1 THEN p ELSE s[n - 1]
      BY <3>2, <3>4
    <3>7. \A n \in 1..1 + Len(s) : Bytes((<<p>> \o s)[n]) <= Limit
      <4> SUFFICES ASSUME NEW n \in 1..1 + Len(s) PROVE Bytes((<<p>> \o s)[n]) <= Limit
        OBVIOUS
      <4>1. CASE n <= 1
        BY <3>2, <3>6, <4>1
      <4>2. CASE ~(n <= 1)
        <5>1. n - 1 \in 1..Len(s)
          BY <3>6, <4>2
        <5> QED BY <3>4, <3>6, <4>2, <5>1
      <4> QED BY <4>1, <4>2
    <3> QED BY <3>1, <3>3, <3>5, <3>6, <3>7
  <2> QED BY <2>2, <2>3, <2>4
<1> HIDE DEF Whole
<1>2. Bad = {}
  <2> SUFFICES ASSUME Bad # {} PROVE FALSE
    OBVIOUS
  <2>1. PICK k \in Bad : \A j \in Bad : <<j, k>> \notin OpToRel(<, Nat)
    BY NatLessThanWellFounded, WFMin
  <2>2. \A j \in Bad : ~(j < k)
    BY <2>1 DEF OpToRel
  <2>3. PICK t \in Seq(Char) : Len(t) = k /\ ~Whole(t)
    BY <2>1
  <2>4. \A u \in Seq(Char) : Len(u) \in Nat
    BY LenProperties
  <2>5. \A u \in Seq(Char) : Len(u) < Len(t) => Whole(u)
    BY <2>2, <2>3, <2>4
  <2> QED BY <1>1, <2>3, <2>5
<1>3. \A t \in Seq(Char) : Whole(t)
  <2>1. \A u \in Seq(Char) : Len(u) \in Nat
    BY LenProperties
  <2> QED BY <1>2, <2>1
<1> QED BY <1>3 DEF Whole

\* An escaped text is a text.
LEMMA EscapedIs ==
  ASSUME NEW t \in Seq(Char)
  PROVE  Escaped(t) \in Seq(Char)
<1> DEFINE e == [n \in DOMAIN t |-> IF t[n] = "*" THEN <<"a", "*">> ELSE <<t[n]>>]
<1>1. "a" \in Char /\ "*" \in Char
  BY Zenon DEF Char
<1>2. Len(t) \in Nat /\ DOMAIN t = 1..Len(t) /\ \A i \in 1..Len(t) : t[i] \in Char
  BY LenProperties, ElementOfSeq
<1>3. e \in Seq(Seq(Char))
  <2>1. \A x, y \in Char : <<x>> \in Seq(Char) /\ <<x, y>> \in Seq(Char)
    OBVIOUS
  <2>2. \A i \in 1..Len(t) : e[i] \in Seq(Char)
    BY <1>1, <1>2, <2>1
  <2>3. e \in [1..Len(t) -> Seq(Char)]
    BY <1>2, <2>2
  <2> HIDE DEF e
  <2> QED BY <1>2, <2>3
<1>4. Escaped(t) = FlattenSeq(e)
  BY Zenon DEF Escaped
<1> HIDE DEF e
<1> QED BY <1>3, <1>4, FlattenIs

\* What is sent of a job: pieces that make up its text, each within the limit
\* unless it is an edit.
PiecesAreWhole ==
  \A j \in Jobs :
    /\ ChunksOf[j] \in Seq(Seq(Char))
    /\ FlattenSeq(ChunksOf[j]) = Rendered(j)
    /\ j \notin TooLarge => \A c \in ToSet(ChunksOf[j]) : Bytes(c) <= Limit \/ j.kind = "edit"

\* What is sent of each job: texts that make up what it says, each within the limit
\* unless it is an edit.
LEMMA PiecesMakeWhole == PiecesAreWhole
<1> SUFFICES ASSUME NEW j \in Jobs
             PROVE  /\ ChunksOf[j] \in Seq(Seq(Char))
                    /\ FlattenSeq(ChunksOf[j]) = Rendered(j)
                    /\ j \notin TooLarge =>
                         \A c \in ToSet(ChunksOf[j]) : Bytes(c) <= Limit \/ j.kind = "edit"
  BY DEF PiecesAreWhole
<1>1. j.kind \in Kind /\ j.text \in Seq(Char)
  <2>1. PICK w \in Workloads : \E s \in Senders : j = w[s]
    BY DEF Jobs
  <2>2. \A s \in Senders : w[s].kind \in Kind /\ w[s].text \in Seq(Char)
    BY ChannelAssumption DEF ChannelAssumption
  <2> QED BY <2>1, <2>2
<1>2. ChunksOf[j] = IF j.kind \in {"prompt", "edit"} THEN <<Rendered(j)>> ELSE Split[j.text]
  BY DEF ChunksOf
<1>3. CASE j.kind \in {"prompt", "edit"}
  <2> DEFINE x == Rendered(j)
  <2>1. x \in Seq(Char)
    BY <1>1, EscapedIs DEF Rendered
  <2>2. j \notin TooLarge /\ j.kind # "edit" => Bytes(x) <= Limit
    <3>1. j.kind = "prompt" /\ j \notin TooLarge => ~(Bytes(x) > Limit)
      BY DEF TooLarge, Oversized
    <3>2. Bytes(x) \in Nat /\ Limit \in Nat
      <4> HIDE DEF x
      <4> QED BY <2>1, BytesIs, ChannelAssumption DEF ChannelAssumption
    <3> HIDE DEF x
    <3> QED BY <1>3, <3>1, <3>2
  <2>3. ChunksOf[j] = <<x>>
    BY <1>2, <1>3
  <2> HIDE DEF x
  <2>4. <<x>> \in Seq(Seq(Char)) /\ \A c \in ToSet(<<x>>) : c = x
    BY <2>1 DEF ToSet
  <2>5. FlattenSeq(<<x>>) = x
    <3>1. <<>> \in Seq(Seq(Char)) /\ <<x>> \o <<>> = <<x>>
      BY EmptySeq
    <3>2. FlattenSeq(<<x>> \o <<>>) = x \o FlattenSeq(<<>>)
      BY <2>1, <3>1, FlattenFront
    <3>3. FlattenSeq(<<>>) = <<>>
      BY <3>1, FlattenIs
    <3>4. x \o <<>> = x
      BY <2>1, ConcatEmptySeq
    <3> QED BY <3>1, <3>2, <3>3, <3>4
  <2> QED BY <1>3, <2>2, <2>3, <2>4, <2>5 DEF x
<1>4. CASE j.kind \notin {"prompt", "edit"}
  <2> DEFINE s == Split[j.text]
  <2>1. s \in Seq(Seq(Char)) /\ FlattenSeq(s) = j.text /\ \A n \in 1..Len(s) : Bytes(s[n]) <= Limit
    BY <1>1, PiecesMakeTheText
  <2>2. ChunksOf[j] = s /\ Rendered(j) = j.text
    BY <1>2, <1>4 DEF Rendered
  <2> HIDE DEF s
  <2>3. \A c \in ToSet(s) : Bytes(c) <= Limit
    <3>1. DOMAIN s = 1..Len(s)
      BY <2>1, LenProperties
    <3> QED BY <2>1, <3>1 DEF ToSet
  <2> QED BY <2>1, <2>2, <2>3
<1> QED BY <1>3, <1>4

-----------------------------------------------------------------------------
(* Sending: the lock, and what each sender has sent. *)

Engaged == {"queued", "posted", "asleep"}
Request == [sender : Senders, chunk : Nat, landed : BOOLEAN]

SendingType ==
  /\ at \in [Senders -> Engaged \cup {"new", "done"}]
  /\ chunks \in [Senders -> Seq(Seq(Char))]
  /\ chunk \in [Senders -> Nat] /\ tries \in [Senders -> Nat]
  /\ outcome \in [Senders -> {"none", "delivered", "partial", "failed", "cancelled"}]
  /\ lock \in Seq(Senders) /\ requests \in Seq(Request)

\* Each sender at work is in the lock once, and only its holder has asked for
\* anything.
LockOK ==
  /\ \A i, j \in DOMAIN lock : lock[i] = lock[j] => i = j
  /\ \A s \in Senders : at[s] \in Engaged <=> s \in ToSet(lock)
  /\ \A s \in Senders : at[s] \in {"posted", "asleep"} => Holds(s)

Latest == requests[Len(requests)]

\* Where a sender at work is in its sequence.
Progressing(s) ==
  /\ at[s] = "posted" => requests # <<>> /\ Latest.sender = s /\ Latest.chunk = chunk[s]
  /\ at[s] \in {"queued", "asleep"} /\ Mine(s) = {} => chunk[s] = 1
  /\ at[s] \in {"queued", "asleep"} /\ Mine(s) # {} =>
       /\ Holds(s) /\ Latest.sender = s /\ Latest.chunk > 0
       /\ chunk[s] \in {0, Latest.chunk, Latest.chunk + 1}

\* What of a sequence has landed, and what its outcome says.
Standing(s) ==
  /\ at[s] = "new" => Mine(s) = {} /\ chunks[s] = <<>> /\ outcome[s] = "none" /\ job[s] \in Jobs
  /\ Mine(s) # {} => chunks[s] # <<>>
  /\ chunks[s] # <<>> => job[s] \in Jobs \ TooLarge /\ chunks[s] = ChunksOf[job[s]]
  /\ outcome[s] = "none" /\ at[s] \in Engaged =>
       /\ chunk[s] > 0 /\ (chunks[s] # <<>> => chunk[s] <= Len(chunks[s]))
       /\ 1..(chunk[s] - 1) \subseteq Landed(s) /\ Landed(s) \subseteq 1..chunk[s]
  /\ at[s] \in Engaged => outcome[s] \in {"none", "partial", "failed"}
  /\ at[s] \in Engaged /\ outcome[s] # "none" => chunk[s] = 0

Sound(s) ==
  Progressing(s) /\ Standing(s) /\ Contiguous(s) /\ InOrder(s) /\ TruthOf(s) /\ Told(s)

SendingInv == SendingType /\ LockOK /\ \A s \in Senders : Sound(s)

\* Membership in a sequence, by its indices.
LEMMA ToSetIs ==
  ASSUME NEW S, NEW q \in Seq(S), NEW x
  PROVE  x \in ToSet(q) <=> \E i \in 1..Len(q) : q[i] = x
BY DEF ToSet

\* What is left of a sequence after its first b elements.
LEMMA RestIs ==
  ASSUME NEW S, NEW q \in Seq(S), NEW b \in Nat, b <= Len(q)
  PROVE  /\ SubSeq(q, b + 1, Len(q)) \in Seq(S)
         /\ Len(SubSeq(q, b + 1, Len(q))) = Len(q) - b
         /\ \A k \in 1..Len(q) - b : SubSeq(q, b + 1, Len(q))[k] = q[b + k]
BY SMT

\* One element of a sequence is taken out.
LEMMA RemoveIs ==
  ASSUME NEW S, NEW q \in Seq(S), NEW i \in DOMAIN q
  PROVE  /\ RemoveAt(q, i) \in Seq(S) /\ Len(RemoveAt(q, i)) = Len(q) - 1
         /\ \A k \in 1..Len(q) - 1 : RemoveAt(q, i)[k] = IF k < i THEN q[k] ELSE q[k + 1]
<1> DEFINE u == SubSeq(q, 1, i - 1)
           v == SubSeq(q, i + 1, Len(q))
           w == u \o v
<1>1. Len(q) \in Nat /\ i \in 1..Len(q) /\ RemoveAt(q, i) = w
  BY DEF RemoveAt
<1>2. u \in Seq(S) /\ Len(u) = i - 1 /\ \A k \in 1..i - 1 : u[k] = q[k]
  BY <1>1
<1>3. v \in Seq(S) /\ Len(v) = Len(q) - i /\ \A k \in 1..Len(q) - i : v[k] = q[i + k]
  <2>1. i \in Nat /\ i <= Len(q)
    BY <1>1
  <2> QED
    BY <2>1, RestIs
<1> HIDE DEF u, v
<1>4. /\ w \in Seq(S) /\ Len(w) = Len(u) + Len(v)
      /\ \A k \in 1..Len(u) + Len(v) : w[k] = IF k <= Len(u) THEN u[k] ELSE v[k - Len(u)]
  BY <1>2, <1>3
<1> HIDE DEF w
<1>5. ASSUME NEW k \in 1..Len(q) - 1 PROVE w[k] = IF k < i THEN q[k] ELSE q[k + 1]
  <2>3. /\ k \in 1..Len(u) + Len(v) /\ k \in Int /\ k >= 1 /\ i \in Int
        /\ Len(u) = i - 1
    BY <1>1, <1>2, <1>3
  <2>4. w[k] = IF k <= Len(u) THEN u[k] ELSE v[k - Len(u)]
    BY <1>4, <2>3
  <2>1. CASE k < i
    <3>1. k <= Len(u) /\ k \in 1..i - 1
      BY <2>1, <2>3
    <3> QED
      BY <1>2, <2>1, <2>4, <3>1
  <2>2. CASE ~(k < i)
    <3>1. k - (i - 1) \in 1..Len(q) - i /\ i + (k - (i - 1)) = k + 1
      BY <1>1, <2>2
    <3> QED
      <4>2. ~(k <= Len(u)) /\ k - Len(u) = k - (i - 1)
        BY <2>2, <2>3
      <4>1. w[k] = v[k - (i - 1)]
        BY <2>4, <4>2
      <4> QED
        BY <1>3, <2>2, <3>1, <4>1
  <2> QED
    BY <2>1, <2>2
<1> QED
  BY <1>1, <1>2, <1>3, <1>4, <1>5

\* A sender that leaves the lock takes itself out and nobody's turn away.
LEMMA LeaveIs ==
  ASSUME lock \in Seq(Senders), \A i, j \in DOMAIN lock : lock[i] = lock[j] => i = j,
         NEW s \in Senders, Leave(s)
  PROVE  /\ lock' \in Seq(Senders)
         /\ \A i, j \in DOMAIN lock' : lock'[i] = lock'[j] => i = j
         /\ \A r \in Senders : r \in ToSet(lock') <=> (r \in ToSet(lock) /\ r # s)
         /\ \A r \in Senders : r # s /\ Holds(r) => Holds(r)'
<1>1. CASE s \notin ToSet(lock)
  BY <1>1 DEF Leave, Holds
<1>2. CASE s \in ToSet(lock)
  <2>1. PICK i \in DOMAIN lock : lock[i] = s /\ lock' = RemoveAt(lock, i)
    BY <1>2 DEF Leave
  <2>2. /\ lock' \in Seq(Senders) /\ Len(lock') = Len(lock) - 1 /\ Len(lock) \in Nat
        /\ DOMAIN lock = 1..Len(lock) /\ DOMAIN lock' = 1..Len(lock) - 1
        /\ \A k \in 1..Len(lock) - 1 : lock'[k] = IF k < i THEN lock[k] ELSE lock[k + 1]
    <3>1. /\ RemoveAt(lock, i) \in Seq(Senders) /\ Len(RemoveAt(lock, i)) = Len(lock) - 1
          /\ \A k \in 1..Len(lock) - 1 :
               RemoveAt(lock, i)[k] = IF k < i THEN lock[k] ELSE lock[k + 1]
      BY RemoveIs
    <3>2. lock' = RemoveAt(lock, i)
      BY <2>1
    <3>3. /\ lock' \in Seq(Senders) /\ Len(lock') = Len(lock) - 1
          /\ \A k \in 1..Len(lock) - 1 : lock'[k] = IF k < i THEN lock[k] ELSE lock[k + 1]
      BY <3>1, <3>2, Zenon
    <3>4. Len(lock) \in Nat /\ DOMAIN lock = 1..Len(lock) /\ DOMAIN lock' = 1..Len(lock')
      BY <3>3
    <3> QED
      BY <3>3, <3>4, Zenon
  <2>3. \A k, l \in DOMAIN lock' : lock'[k] = lock'[l] => k = l
    <3> SUFFICES ASSUME NEW k \in DOMAIN lock', NEW l \in DOMAIN lock', lock'[k] = lock'[l]
                 PROVE  k = l
      OBVIOUS
    <3> DEFINE k0 == IF k < i THEN k ELSE k + 1
               l0 == IF l < i THEN l ELSE l + 1
    <3>1. i \in Int /\ k \in 1..Len(lock) - 1 /\ l \in 1..Len(lock) - 1
      BY <2>1, <2>2
    <3>2. k0 \in DOMAIN lock /\ l0 \in DOMAIN lock
      BY <2>2, <3>1
    <3>3. lock'[k] = lock[k0] /\ lock'[l] = lock[l0]
      BY <2>2, <3>1
    <3>4. k0 = l0
      <4> HIDE DEF k0, l0
      <4> QED
        BY <3>2, <3>3
    <3> QED
      BY <3>1, <3>4
  <2>4. ASSUME NEW r \in Senders PROVE r \in ToSet(lock') <=> (r \in ToSet(lock) /\ r # s)
    <3>1. ASSUME NEW k \in 1..Len(lock'), lock'[k] = r PROVE r \in ToSet(lock) /\ r # s
      <4>1. PICK l \in 1..Len(lock) : lock[l] = r /\ l # i
        BY <2>1, <2>2, <3>1
      <4> QED
        BY <2>1, <4>1, ToSetIs
    <3>2. ASSUME NEW k \in 1..Len(lock), lock[k] = r, r # s PROVE \E l \in 1..Len(lock') : lock'[l] = r
      <4>1. CASE k < i
        BY <2>1, <2>2, <3>2, <4>1
      <4>2. CASE k > i
        <5>1. k - 1 \in 1..Len(lock) - 1 /\ ~(k - 1 < i) /\ (k - 1) + 1 = k
          BY <2>1, <2>2, <4>2
        <5> QED
          BY <2>2, <3>2, <5>1
      <4> QED
        BY <2>1, <2>2, <3>2, <4>1, <4>2
    <3>3. r \in ToSet(lock) <=> \E k \in 1..Len(lock) : lock[k] = r
      BY ToSetIs
    <3>4. r \in ToSet(lock') <=> \E k \in 1..Len(lock') : lock'[k] = r
      BY <2>2, ToSetIs
    <3> QED
      BY <3>1, <3>2, <3>3, <3>4, Zenon
  <2>5. ASSUME NEW r \in Senders, r # s, Holds(r) PROVE Holds(r)'
    <3>1. lock # <<>> /\ lock[1] = r
      BY <2>5 DEF Holds
    <3>2. 1 < i /\ Len(lock) >= 2
      BY <2>1, <2>2, <2>5, <3>1
    <3>3. lock' # <<>> /\ lock'[1] = r
      BY <2>2, <3>1, <3>2
    <3> QED
      BY <3>3 DEF Holds
  <2> QED
    BY <2>2, <2>3, <2>4, <2>5
<1> QED
  BY <1>1, <1>2

\* At the start nobody has sent or holds anything.
LEMMA InitSending == Init => SendingInv
<1> SUFFICES ASSUME Init PROVE SendingInv
  OBVIOUS
<1>1. /\ \A s \in Senders : at[s] \in {"new", "done"} /\ (at[s] = "new" => job[s] \in Jobs)
      /\ at \in [Senders -> {"new", "done"}]
      /\ chunks = [s \in Senders |-> <<>>] /\ chunk = [s \in Senders |-> 1]
      /\ tries = [s \in Senders |-> 0] /\ outcome = [s \in Senders |-> "none"]
      /\ lock = <<>> /\ requests = <<>>
  BY DEF Init, Jobs
<1>2. SendingType
  <2>1. <<>> \in Seq(Seq(Char))
    OBVIOUS
  <2>2. chunks \in [Senders -> Seq(Seq(Char))]
    BY <1>1, <2>1
  <2> QED
    BY <1>1, <2>2 DEF SendingType, Engaged
<1>3. LockOK
  BY <1>1 DEF LockOK, ToSet, Engaged
<1>4. ASSUME NEW s \in Senders PROVE Sound(s)
  <2>1. Mine(s) = {}
    BY <1>1 DEF Mine
  <2>2. at[s] \in {"new", "done"} /\ outcome[s] = "none" /\ chunks[s] = <<>>
        /\ (at[s] = "new" => job[s] \in Jobs)
    BY <1>1
  <2> QED
    BY <2>1, <2>2 DEF Sound, Progressing, Standing, Contiguous, InOrder, TruthOf, Told, Engaged
<1> QED
  BY <1>2, <1>3, <1>4 DEF SendingInv

\* A sender stays as it is when its own fields and the requests do, and when it
\* does not lose the lock.
LEMMA Rests ==
  ASSUME NEW r \in Senders, Sound(r), requests' = requests,
         job'[r] = job[r], at'[r] = at[r], chunks'[r] = chunks[r], chunk'[r] = chunk[r],
         outcome'[r] = outcome[r], Holds(r) => Holds(r)'
  PROVE  Sound(r)'
<1>1. Mine(r)' = Mine(r) /\ Landed(r)' = Landed(r) /\ Latest' = Latest
  BY DEF Mine, Landed, Latest
<1>2. Progressing(r)'
  BY <1>1 DEF Sound, Progressing
<1>3. Standing(r)'
  BY <1>1 DEF Sound, Standing
<1>4. Contiguous(r)' /\ InOrder(r)'
  BY <1>1 DEF Sound, Contiguous, InOrder
<1>5. TruthOf(r)'
  BY <1>1 DEF Sound, TruthOf
<1>6. Told(r)'
  BY <1>1 DEF Sound, Told, HasNotice
<1> QED
  BY <1>2, <1>3, <1>4, <1>5, <1>6 DEF Sound

\* A sender that is not heard of while another's request is made.
LEMMA Waits ==
  ASSUME NEW r \in Senders, Sound(r), NEW q \in Request, q.sender # r,
         requests \in Seq(Request), requests' = Append(requests, q),
         job'[r] = job[r], at'[r] = at[r], chunks'[r] = chunks[r], chunk'[r] = chunk[r],
         outcome'[r] = outcome[r], ~Holds(r), at[r] \notin {"posted", "asleep"}
  PROVE  Sound(r)'
<1>1. /\ Len(requests) \in Nat /\ Len(requests') = Len(requests) + 1
      /\ DOMAIN requests = 1..Len(requests) /\ DOMAIN requests' = 1..Len(requests) + 1
      /\ requests'[Len(requests) + 1] = q
      /\ \A i \in 1..Len(requests) : requests'[i] = requests[i]
  OBVIOUS
<1>2. Mine(r)' = Mine(r) /\ Mine(r) \subseteq 1..Len(requests)
  BY <1>1 DEF Mine
<1>3. Landed(r)' = Landed(r)
  BY <1>1, <1>2 DEF Landed
<1>4. \A i \in Mine(r) : requests'[i] = requests[i] /\ (i - 1 \in Mine(r) => requests'[i - 1] = requests[i - 1])
  BY <1>1, <1>2
<1>5. Progressing(r)'
  BY <1>2 DEF Sound, Progressing
<1>6. Standing(r)'
  BY <1>2, <1>3 DEF Sound, Standing
<1>7. Contiguous(r)'
  BY <1>2 DEF Sound, Contiguous
<1>8. InOrder(r)'
  BY <1>2, <1>4 DEF Sound, InOrder
<1>9. TruthOf(r)'
  BY <1>3 DEF Sound, TruthOf
<1>10. Told(r)'
  BY <1>2, <1>4 DEF Sound, Told, HasNotice
<1> QED
  BY <1>5, <1>6, <1>7, <1>8, <1>9, <1>10 DEF Sound

\* The outcome a sender may end with.
Deserved(s, result) ==
  /\ result = "delivered" => Landed(s) = DOMAIN chunks[s]
  /\ result = "partial" => 1 \in Landed(s) /\ chunk[s] # 1
  /\ result = "failed" => Landed(s) \subseteq {0, 1}
  /\ result \in {"partial", "failed"} /\ chunks[s] # <<>> /\ HasNotice(s) =>
       \E i \in Mine(s) : requests[i].chunk = 0 /\ \A j \in Mine(s) : j <= i

\* A sender that ends with an outcome it deserves breaks nothing (_send_serialized's
\* way out of the lock).
LEMMA Ends ==
  ASSUME SendingInv, NEW s \in Senders,
         NEW result \in {"none", "delivered", "partial", "failed", "cancelled"},
         Finish(s, result), Deserved(s, result),
         UNCHANGED <<job, chunks, chunk, requests>>, tries' \in [Senders -> Nat]
  PROVE  SendingInv'
<1>1. /\ SendingType /\ LockOK /\ Sound(s)
      /\ at' = [at EXCEPT ![s] = "done"] /\ outcome' = [outcome EXCEPT ![s] = result]
      /\ at'[s] = "done" /\ outcome'[s] = result
      /\ \A r \in Senders : r # s => at'[r] = at[r] /\ outcome'[r] = outcome[r]
  BY DEF SendingInv, SendingType, Finish
<1>2. /\ lock' \in Seq(Senders)
      /\ \A i, j \in DOMAIN lock' : lock'[i] = lock'[j] => i = j
      /\ \A r \in Senders : r \in ToSet(lock') <=> (r \in ToSet(lock) /\ r # s)
      /\ \A r \in Senders : r # s /\ Holds(r) => Holds(r)'
  BY <1>1, LeaveIs DEF Finish, LockOK, SendingType
<1>3. SendingType'
  BY <1>1, <1>2 DEF SendingType
<1>4. LockOK'
  <2>1. \A r \in Senders : at'[r] \in Engaged <=> r \in ToSet(lock')
    BY <1>1, <1>2 DEF LockOK, Engaged
  <2>2. \A r \in Senders : at'[r] \in {"posted", "asleep"} => Holds(r)'
    BY <1>1, <1>2 DEF LockOK
  <2> QED
    BY <1>2, <2>1, <2>2 DEF LockOK
<1>5. ASSUME NEW r \in Senders, r # s PROVE Sound(r)'
  <2>1. Sound(r)
    BY DEF SendingInv
  <2> QED
    BY <1>1, <1>2, <1>5, <2>1, Rests
<1>6. Sound(s)'
  <2>1. Mine(s)' = Mine(s) /\ Landed(s)' = Landed(s)
    BY DEF Mine, Landed
  <2>2. Progressing(s)' /\ Standing(s)'
    BY <1>1, <2>1 DEF Sound, Progressing, Standing, Engaged
  <2>3. Contiguous(s)' /\ InOrder(s)'
    BY <1>1, <2>1 DEF Sound, Contiguous, InOrder
  <2>4. TruthOf(s)'
    BY <1>1, <2>1 DEF Deserved, TruthOf
  <2>5. Told(s)'
    BY <1>1, <2>1 DEF Deserved, Told, HasNotice
  <2> QED
    BY <2>2, <2>3, <2>4, <2>5 DEF Sound
<1> QED
  BY <1>3, <1>4, <1>5, <1>6 DEF SendingInv

\* The holder goes on with its sequence.
LEMMA GoesOn ==
  ASSUME SendingInv, NEW s \in Senders, Holds(s), at[s] \in Engaged, NEW stage \in Engaged,
         at' = [at EXCEPT ![s] = stage], UNCHANGED <<job, chunks, lock, requests>>,
         \A r \in Senders : r # s => chunk'[r] = chunk[r] /\ outcome'[r] = outcome[r],
         SendingType', Sound(s)'
  PROVE  SendingInv'
<1>1. /\ SendingType /\ LockOK /\ at'[s] = stage
      /\ \A r \in Senders : r # s => at'[r] = at[r]
  BY DEF SendingInv, SendingType
<1>2. LockOK'
  <2>1. \A r \in Senders : Holds(r)' <=> Holds(r)
    BY DEF Holds
  <2> QED
    BY <1>1, <2>1 DEF LockOK
<1>3. ASSUME NEW r \in Senders, r # s PROVE Sound(r)'
  <2>1. Sound(r) /\ (Holds(r) => Holds(r)')
    BY DEF SendingInv, Holds
  <2> QED
    BY <1>1, <1>3, <2>1, Rests
<1> QED
  BY <1>2, <1>3 DEF SendingInv

\* A call begins: it is refused at once or queues for the lock (send, send_prompt,
\* edit_prompt).
LEMMA SendKeeps ==
  ASSUME SendingInv, NEW s \in Senders, Send(s)
  PROVE  SendingInv'
<1>1. SendingType /\ LockOK /\ Sound(s) /\ at[s] = "new"
      /\ Mine(s) = {} /\ chunks[s] = <<>> /\ outcome[s] = "none" /\ job[s] \in Jobs
  BY DEF SendingInv, Send, Sound, Standing
<1>2. UNCHANGED <<job, tries, requests>>
  BY DEF Send
<1>3. CASE Finish(s, "failed") /\ UNCHANGED <<chunks, chunk>>
  <2>1. Deserved(s, "failed")
    BY <1>1 DEF Deserved, Landed
  <2> QED
    BY <1>1, <1>2, <1>3, <2>1, Ends DEF SendingType
<1>4. CASE ~(Finish(s, "failed") /\ UNCHANGED <<chunks, chunk>>)
  <2>1. /\ job[s] \notin TooLarge
        /\ at' = [at EXCEPT ![s] = "queued"] /\ lock' = Append(lock, s)
        /\ chunks' = [chunks EXCEPT ![s] = ChunksOf[job[s]]] /\ chunk' = [chunk EXCEPT ![s] = 1]
        /\ UNCHANGED outcome
    BY <1>4 DEF Send
  <2>2. ChunksOf[job[s]] \in Seq(Seq(Char))
    BY <1>1, PiecesMakeWhole DEF PiecesAreWhole
  <2>3. /\ lock' \in Seq(Senders) /\ Len(lock') = Len(lock) + 1 /\ Len(lock) \in Nat
        /\ DOMAIN lock = 1..Len(lock) /\ DOMAIN lock' = 1..Len(lock) + 1
        /\ lock'[Len(lock) + 1] = s /\ \A i \in 1..Len(lock) : lock'[i] = lock[i]
    BY <1>1, <2>1 DEF SendingType
  <2>4. /\ at'[s] = "queued" /\ chunks'[s] = ChunksOf[job[s]] /\ chunk'[s] = 1
        /\ \A r \in Senders : r # s =>
             at'[r] = at[r] /\ chunks'[r] = chunks[r] /\ chunk'[r] = chunk[r]
    BY <1>1, <2>1 DEF SendingType
  <2>5. SendingType'
    BY <1>1, <1>2, <2>1, <2>2, <2>3 DEF SendingType, Engaged
  <2>6. /\ \A r \in Senders : r \in ToSet(lock') <=> (r \in ToSet(lock) \/ r = s)
        /\ \A r \in Senders : Holds(r) => Holds(r)'
    <3>1. \A r \in Senders : r \in ToSet(lock') <=> (r \in ToSet(lock) \/ r = s)
      <4> TAKE r \in Senders
      <4>1. r \in ToSet(lock) <=> \E i \in 1..Len(lock) : lock[i] = r
        BY <1>1, ToSetIs DEF SendingType
      <4>2. r \in ToSet(lock') <=> \E i \in 1..Len(lock) + 1 : lock'[i] = r
        BY <2>3, ToSetIs
      <4> QED
        BY <2>3, <4>1, <4>2
    <3>2. ASSUME NEW r \in Senders, Holds(r) PROVE Holds(r)'
      <4>1. Len(lock) >= 1 /\ lock[1] = r
        BY <1>1, <3>2 DEF SendingType, Holds
      <4>2. lock' # <<>> /\ lock'[1] = r
        BY <2>3, <4>1
      <4> QED
        BY <4>2 DEF Holds
    <3> QED
      BY <3>1, <3>2
  <2>7. LockOK'
    <3>1. s \notin ToSet(lock) /\ \A i \in 1..Len(lock) : lock[i] # s
      BY <1>1, ToSetIs DEF LockOK, Engaged, SendingType
    <3>2. \A i, j \in DOMAIN lock' : lock'[i] = lock'[j] => i = j
      BY <1>1, <2>3, <3>1 DEF LockOK
    <3>3. \A r \in Senders : at'[r] \in Engaged <=> r \in ToSet(lock')
      BY <1>1, <2>4, <2>6 DEF LockOK, Engaged
    <3>4. \A r \in Senders : at'[r] \in {"posted", "asleep"} => Holds(r)'
      BY <1>1, <2>4, <2>6 DEF LockOK
    <3> QED
      BY <3>2, <3>3, <3>4 DEF LockOK
  <2>8. ASSUME NEW r \in Senders, r # s PROVE Sound(r)'
    <3>1. Sound(r)
      BY DEF SendingInv
    <3> QED
      BY <1>2, <2>1, <2>4, <2>6, <2>8, <3>1, Rests
  <2>9. Sound(s)'
    <3>1. Mine(s)' = {} /\ Landed(s)' = {}
      BY <1>1, <1>2 DEF Mine, Landed
    <3>2. Progressing(s)'
      BY <2>4, <3>1 DEF Progressing
    <3>3. chunks'[s] # <<>> => 1 <= Len(chunks'[s])
      BY <2>2, <2>4
    <3>4. Standing(s)'
      BY <1>1, <1>2, <2>1, <2>4, <3>1, <3>3 DEF Standing, Engaged
    <3>5. Contiguous(s)' /\ InOrder(s)' /\ TruthOf(s)' /\ Told(s)'
      BY <1>1, <2>1, <2>4, <3>1 DEF Contiguous, InOrder, TruthOf, Told
    <3> QED
      BY <3>2, <3>4, <3>5 DEF Sound
  <2> QED
    BY <2>5, <2>7, <2>8, <2>9 DEF SendingInv
<1> QED
  BY <1>3, <1>4

\* A request is made: by the holder, for the chunk it is at.
LEMMA PostKeeps ==
  ASSUME SendingInv, NEW s \in Senders, Post(s)
  PROVE  SendingInv'
<1>1. /\ SendingType /\ LockOK /\ Sound(s) /\ Holds(s)
      /\ at[s] \in {"queued", "asleep"} /\ chunks[s] # <<>>
      /\ chunk[s] \in Nat
  BY DEF SendingInv, SendingType, Post
<1>2. /\ at' = [at EXCEPT ![s] = "posted"]
      /\ UNCHANGED <<job, chunks, chunk, tries, outcome, lock>>
  BY DEF Post
<1>3. PICK landed \in BOOLEAN :
        requests' = Append(requests, [sender |-> s, chunk |-> chunk[s], landed |-> landed])
  BY DEF Post
<1> DEFINE q == [sender |-> s, chunk |-> chunk[s], landed |-> landed]
           n == Len(requests) + 1
<1>4. q \in Request /\ q.sender = s /\ q.chunk = chunk[s] /\ q.landed = landed
  BY <1>1 DEF Request
<1> HIDE DEF q
<1>5. /\ requests' \in Seq(Request) /\ Len(requests') = n /\ n \in Nat /\ n > 0
      /\ DOMAIN requests = 1..n - 1 /\ DOMAIN requests' = 1..n
      /\ requests'[n] = q /\ \A i \in 1..n - 1 : requests'[i] = requests[i]
      /\ requests' # <<>> /\ requests' = Append(requests, q)
  <2>1. requests' = Append(requests, q) /\ requests \in Seq(Request)
    BY <1>1, <1>3 DEF q, SendingType
  <2> QED
    BY <1>4, <2>1
<1>6. at'[s] = "posted" /\ \A r \in Senders : r # s => at'[r] = at[r]
  BY <1>1, <1>2 DEF SendingType
<1>7. SendingType'
  BY <1>1, <1>2, <1>5 DEF SendingType, Engaged
<1>8. LockOK'
  <2>1. \A r \in Senders : Holds(r)' <=> Holds(r)
    BY <1>2 DEF Holds
  <2> QED
    BY <1>1, <1>2, <1>6, <2>1 DEF LockOK, Engaged
<1>9. ASSUME NEW r \in Senders, r # s PROVE Sound(r)'
  <2>1. Sound(r) /\ ~Holds(r) /\ at[r] \notin {"posted", "asleep"}
    BY <1>1, <1>9 DEF SendingInv, LockOK, Holds
  <2>2. requests \in Seq(Request)
    BY <1>1 DEF SendingType
  <2> QED
    BY <1>2, <1>4, <1>5, <1>6, <1>9, <2>1, <2>2, Waits
<1>10. Sound(s)'
  <2>1. Mine(s)' = Mine(s) \cup {n} /\ Mine(s) \subseteq 1..n - 1
    BY <1>4, <1>5 DEF Mine
  <2>2. Landed(s) \subseteq Landed(s)' /\ Landed(s)' \subseteq Landed(s) \cup {chunk[s]}
    <3>1. ASSUME NEW c \in Landed(s) PROVE c \in Landed(s)'
      BY <1>5, <2>1 DEF Landed
    <3>2. ASSUME NEW c \in Landed(s)' PROVE c \in Landed(s) \cup {chunk[s]}
      <4>1. PICK i \in Mine(s)' : requests'[i].landed /\ requests'[i].chunk = c
        BY DEF Landed
      <4>2. CASE i = n
        BY <1>4, <1>5, <4>1, <4>2
      <4>3. CASE i \in Mine(s)
        BY <1>5, <2>1, <4>1, <4>3 DEF Landed
      <4> QED
        BY <2>1, <4>2, <4>3
    <3> QED
      BY <3>1, <3>2
  <2>3. Latest' = q
    BY <1>5 DEF Latest
  <2>4. Progressing(s)'
    BY <1>2, <1>4, <1>5, <1>6, <2>3 DEF Progressing
  <2>5. Standing(s)'
    BY <1>1, <1>2, <1>6, <2>1, <2>2 DEF Sound, Standing, Engaged
  \* What s has asked for before, it asked for last.
  <2>6. Mine(s) # {} =>
          /\ n - 1 \in Mine(s) /\ requests[n - 1].chunk > 0
          /\ chunk[s] \in {0, requests[n - 1].chunk, requests[n - 1].chunk + 1}
    <3> SUFFICES ASSUME Mine(s) # {}
                 PROVE  /\ n - 1 \in Mine(s) /\ requests[n - 1].chunk > 0
                        /\ chunk[s] \in {0, requests[n - 1].chunk, requests[n - 1].chunk + 1}
      OBVIOUS
    <3>1. /\ Latest.sender = s /\ Latest.chunk > 0
          /\ chunk[s] \in {0, Latest.chunk, Latest.chunk + 1}
      BY <1>1 DEF Sound, Progressing
    <3>2. n - 1 \in DOMAIN requests /\ Latest = requests[n - 1]
      BY <1>5, <2>1 DEF Latest
    <3> QED
      BY <3>1, <3>2 DEF Mine
  <2>7. Contiguous(s)'
    <3> SUFFICES ASSUME NEW i \in Mine(s)', NEW j \in Mine(s)'
                 PROVE  i..j \subseteq Mine(s)'
      BY DEF Contiguous
    <3>1. CASE j \in Mine(s)
      <4>1. CASE i \in Mine(s)
        BY <1>1, <2>1, <3>1, <4>1 DEF Sound, Contiguous
      <4>2. CASE i = n
        BY <1>5, <2>1, <3>1, <4>2
      <4> QED
        BY <2>1, <4>1, <4>2
    <3>2. CASE j = n /\ i \in Mine(s)
      <4>1. i..n - 1 \subseteq Mine(s)
        BY <1>1, <2>6, <3>2 DEF Sound, Contiguous
      <4>2. i \in 1..n - 1
        BY <2>1, <3>2
      <4> QED
        BY <1>5, <2>1, <3>2, <4>1, <4>2
    <3>3. CASE j = n /\ i = n
      BY <1>5, <2>1, <3>3
    <3> QED
      BY <2>1, <3>1, <3>2, <3>3
  <2>8. InOrder(s)'
    <3> SUFFICES ASSUME NEW i \in Mine(s)'
                 PROVE  IF i - 1 \in Mine(s)'
                        THEN /\ requests'[i - 1].chunk > 0
                             /\ requests'[i].chunk \in
                                  {0, requests'[i - 1].chunk, requests'[i - 1].chunk + 1}
                        ELSE requests'[i].chunk = 1
      BY DEF InOrder
    <3>1. CASE i \in Mine(s)
      <4>1. i \in 1..n - 1 /\ (i - 1 \in Mine(s)' <=> i - 1 \in Mine(s))
        BY <1>5, <2>1, <3>1
      <4>2. requests'[i] = requests[i] /\ (i - 1 \in Mine(s) => requests'[i - 1] = requests[i - 1])
        BY <1>5, <2>1, <4>1
      <4> QED
        BY <1>1, <3>1, <4>1, <4>2 DEF Sound, InOrder
    <3>2. CASE i = n /\ Mine(s) # {}
      <4>1. n - 1 \in Mine(s)' /\ requests'[n - 1] = requests[n - 1] /\ requests'[n].chunk = chunk[s]
        BY <1>4, <1>5, <2>1, <2>6, <3>2
      <4> QED
        BY <2>6, <3>2, <4>1
    <3>3. CASE i = n /\ Mine(s) = {}
      <4>1. n - 1 \notin Mine(s)'
        <5>1. n - 1 # n
          <6>1. Len(requests) \in Nat
            BY <1>1 DEF SendingType
          <6> QED
            BY <6>1
        <5>2. Mine(s)' = {n}
          BY <2>1, <3>3
        <5> QED
          BY <5>1, <5>2
      <4>3. requests'[n].chunk = chunk[s]
        BY <1>4, <1>5
      <4>2. chunk[s] = 1
        BY <1>1, <3>3 DEF Sound, Progressing
      <4> QED
        BY <3>3, <4>1, <4>2, <4>3
    <3> QED
      BY <2>1, <3>1, <3>2, <3>3
  <2>9. TruthOf(s)'
    <3>1. outcome[s] \in {"none", "partial", "failed"} /\ (outcome[s] # "none" => chunk[s] = 0)
      BY <1>1 DEF Sound, Standing, Engaged
    <3> QED
      BY <1>1, <1>2, <2>2, <3>1 DEF Sound, TruthOf
  <2>10. Told(s)'
    BY <1>6 DEF Told
  <2> QED
    BY <2>4, <2>5, <2>7, <2>8, <2>9, <2>10 DEF Sound
<1> QED
  BY <1>7, <1>8, <1>9, <1>10 DEF SendingInv

\* An empty text holds the lock and asks for nothing (_send_message).
LEMMA NothingKeeps ==
  ASSUME SendingInv, NEW s \in Senders, NothingToSend(s)
  PROVE  SendingInv'
<1>1. /\ SendingType /\ Finish(s, "failed") /\ chunks[s] = <<>> /\ Mine(s) = {}
      /\ UNCHANGED <<job, chunks, chunk, tries, requests>>
  BY DEF SendingInv, Sound, Standing, NothingToSend
<1>2. Deserved(s, "failed")
  BY <1>1 DEF Deserved, Landed
<1>3. tries' \in [Senders -> Nat]
  BY <1>1 DEF SendingType
<1> QED
  BY <1>1, <1>2, <1>3, Ends

\* What is known of a sender whose request is out: the request is the last made,
\* and it stands for the chunk the sender is at.
LEMMA PostedIs ==
  ASSUME SendingInv, NEW s \in Senders, at[s] = "posted"
  PROVE  /\ Holds(s) /\ Len(requests) \in Mine(s) /\ Mine(s) \subseteq 1..Len(requests)
         /\ Latest.sender = s /\ Latest.chunk = chunk[s] /\ chunk[s] \in Nat
         /\ job[s] \in Jobs \ TooLarge /\ chunks[s] # <<>> /\ Len(chunks[s]) \in Nat
         /\ DOMAIN chunks[s] = 1..Len(chunks[s])
         /\ Latest.landed => chunk[s] \in Landed(s)
         /\ chunk[s] = 0 => outcome[s] \in {"partial", "failed"}
         /\ chunk[s] > 0 =>
              /\ outcome[s] = "none" /\ chunk[s] <= Len(chunks[s])
              /\ 1..(chunk[s] - 1) \subseteq Landed(s) /\ Landed(s) \subseteq 1..chunk[s]
<1>1. SendingType /\ LockOK /\ Sound(s)
  BY DEF SendingInv
<1>2. /\ Holds(s) /\ requests # <<>> /\ Latest.sender = s /\ Latest.chunk = chunk[s]
      /\ chunk[s] \in Nat /\ chunks[s] \in Seq(Seq(Char)) /\ requests \in Seq(Request)
  BY <1>1 DEF SendingType, LockOK, Sound, Progressing
<1>3. Len(requests) \in DOMAIN requests /\ DOMAIN requests = 1..Len(requests)
  BY <1>2
<1>4. Len(requests) \in Mine(s) /\ Mine(s) \subseteq 1..Len(requests)
  BY <1>2, <1>3 DEF Mine, Latest
<1>5. Latest.landed => chunk[s] \in Landed(s)
  BY <1>2, <1>4 DEF Landed, Latest
<1>6. chunks[s] # <<>> /\ job[s] \in Jobs \ TooLarge
  BY <1>1, <1>4 DEF Sound, Standing
<1>7. chunk[s] = 0 => outcome[s] \in {"partial", "failed"}
  BY <1>1 DEF Sound, Standing, Engaged
<1>8. chunk[s] > 0 => outcome[s] = "none"
  BY <1>1, <1>2 DEF Sound, Standing, Engaged
<1>9. chunk[s] > 0 => /\ chunk[s] <= Len(chunks[s])
                      /\ 1..(chunk[s] - 1) \subseteq Landed(s) /\ Landed(s) \subseteq 1..chunk[s]
  BY <1>1, <1>6, <1>8 DEF Sound, Standing, Engaged
<1> QED
  BY <1>2, <1>4, <1>5, <1>6, <1>7, <1>8, <1>9

\* The notice is out: its sender may end with what it had decided.
LEMMA NoticeEnds ==
  ASSUME SendingInv, NEW s \in Senders, at[s] = "posted", chunk[s] = 0
  PROVE  Deserved(s, outcome[s])
<1>1. /\ TruthOf(s) /\ outcome[s] \in {"partial", "failed"} /\ Latest.chunk = 0
      /\ Len(requests) \in Mine(s) /\ Mine(s) \subseteq 1..Len(requests)
  BY PostedIs DEF SendingInv, Sound
<1>2. requests[Len(requests)].chunk = 0 /\ \A j \in Mine(s) : j <= Len(requests)
  BY <1>1 DEF Latest
<1>3. \E i \in Mine(s) : requests[i].chunk = 0 /\ \A j \in Mine(s) : j <= i
  BY <1>1, <1>2
<1> QED
  BY <1>1, <1>3 DEF Deserved, TruthOf

\* What a sender that gives up returns: what arrived is a beginning, or nothing
\* certain beyond the first piece.
LEMMA ResultIsTrue ==
  ASSUME SendingInv, NEW s \in Senders, at[s] = "posted", chunk[s] > 0
  PROVE  /\ Result(s) \in {"partial", "failed"}
         /\ Result(s) = "partial" => 1 \in Landed(s) /\ chunk[s] # 1
         /\ Result(s) = "failed" => Landed(s) \subseteq {0, 1}
<1>1. /\ chunk[s] \in Nat /\ 1..(chunk[s] - 1) \subseteq Landed(s)
      /\ Landed(s) \subseteq 1..chunk[s]
  BY PostedIs
<1>2. CASE chunk[s] > 1
  BY <1>1, <1>2 DEF Result
<1>3. CASE chunk[s] = 1
  BY <1>1, <1>3 DEF Result
<1> QED
  BY <1>1, <1>2, <1>3

\* The bridge took the chunk: the next one, or the end.
LEMMA AcceptedKeeps ==
  ASSUME SendingInv, NEW s \in Senders, Accepted(s)
  PROVE  SendingInv'
<1>1. /\ SendingType /\ Sound(s) /\ at[s] = "posted" /\ Latest.landed
      /\ UNCHANGED <<job, chunks, requests>>
  BY DEF SendingInv, Accepted, Latest
<1>2. /\ Holds(s) /\ Latest.sender = s /\ Latest.chunk = chunk[s] /\ chunk[s] \in Nat
      /\ Len(chunks[s]) \in Nat /\ DOMAIN chunks[s] = 1..Len(chunks[s])
      /\ chunk[s] \in Landed(s) /\ chunks[s] # <<>> /\ job[s] \in Jobs \ TooLarge
      /\ chunk[s] > 0 =>
           /\ outcome[s] = "none" /\ chunk[s] <= Len(chunks[s])
           /\ 1..(chunk[s] - 1) \subseteq Landed(s) /\ Landed(s) \subseteq 1..chunk[s]
  BY <1>1, PostedIs
<1>3. CASE chunk[s] = 0
  <2>1. Finish(s, outcome[s]) /\ UNCHANGED <<chunk, tries>>
    BY <1>3 DEF Accepted
  <2>2. /\ outcome[s] \in {"none", "delivered", "partial", "failed", "cancelled"}
        /\ tries' \in [Senders -> Nat]
    BY <1>1, <2>1 DEF SendingType
  <2>3. Deserved(s, outcome[s])
    BY <1>1, <1>3, NoticeEnds
  <2> QED
    BY <1>1, <2>1, <2>2, <2>3, Ends
<1>4. CASE chunk[s] > 0 /\ chunk[s] = Len(chunks[s])
  <2>1. Finish(s, "delivered") /\ UNCHANGED <<chunk, tries>>
    BY <1>2, <1>4 DEF Accepted
  <2>2. Landed(s) = 1..Len(chunks[s])
    <3>1. 1..chunk[s] = 1..(chunk[s] - 1) \cup {chunk[s]}
      BY <1>2, <1>4
    <3> QED
      BY <1>2, <1>4, <3>1
  <2>3. Deserved(s, "delivered")
    BY <1>2, <2>2 DEF Deserved
  <2>4. tries' \in [Senders -> Nat]
    BY <1>1, <2>1 DEF SendingType
  <2> QED
    BY <1>1, <2>1, <2>3, <2>4, Ends
<1>5. CASE chunk[s] > 0 /\ chunk[s] # Len(chunks[s])
  <2>1. /\ chunk' = [chunk EXCEPT ![s] = @ + 1] /\ tries' = [tries EXCEPT ![s] = 0]
        /\ at' = [at EXCEPT ![s] = "queued"] /\ UNCHANGED <<outcome, lock>>
    BY <1>2, <1>5 DEF Accepted
  <2>2. /\ at'[s] = "queued" /\ chunk'[s] = chunk[s] + 1
        /\ \A r \in Senders : r # s => chunk'[r] = chunk[r]
    BY <1>1, <2>1 DEF SendingType
  <2>3. SendingType'
    BY <1>1, <2>1 DEF SendingType, Engaged
  <2>4. Mine(s)' = Mine(s) /\ Landed(s)' = Landed(s) /\ Latest' = Latest /\ Holds(s)'
    BY <1>1, <1>2, <2>1 DEF Mine, Landed, Latest, Holds
  <2>5. Mine(s) # {}
    BY <1>2 DEF Landed
  <2>6. Progressing(s)'
    BY <1>2, <1>5, <2>2, <2>4, <2>5 DEF Progressing
  <2>7. Standing(s)'
    <3>1. /\ chunk'[s] > 0 /\ chunk'[s] <= Len(chunks[s])
          /\ chunk'[s] - 1 = chunk[s]
      BY <1>2, <1>5, <2>2
    <3>2. 1..(chunk'[s] - 1) \subseteq Landed(s)
      BY <1>2, <1>5, <3>1
    <3>3. Landed(s) \subseteq 1..chunk'[s]
      BY <1>2, <1>5, <2>2
    <3>4. chunks[s] # <<>> => job[s] \in Jobs \ TooLarge /\ chunks[s] = ChunksOf[job[s]]
      BY <1>1 DEF Sound, Standing
    <3> QED
      BY <1>1, <1>2, <1>5, <2>1, <2>2, <2>4, <3>1, <3>2, <3>3, <3>4 DEF Standing
  <2>8. Contiguous(s)' /\ InOrder(s)'
    BY <1>1, <2>4 DEF Sound, Contiguous, InOrder
  <2>9. TruthOf(s)' /\ Told(s)'
    BY <1>2, <1>5, <2>1, <2>2 DEF TruthOf, Told
  <2>10. Sound(s)'
    BY <2>6, <2>7, <2>8, <2>9 DEF Sound
  <2> QED
    <3>1. "queued" \in Engaged /\ at[s] \in Engaged
      BY <1>1 DEF Engaged
    <3> QED
      BY <1>1, <1>2, <2>1, <2>2, <2>3, <2>10, <3>1, GoesOn
<1> QED
  BY <1>2, <1>3, <1>4, <1>5

\* The bridge did not: another try, the notice, or the end.
LEMMA RefusedKeeps ==
  ASSUME SendingInv, NEW s \in Senders, Refused(s)
  PROVE  SendingInv'
<1>1. /\ SendingType /\ Sound(s) /\ at[s] = "posted"
      /\ UNCHANGED <<job, chunks, requests>>
  BY DEF SendingInv, Refused
<1>2. /\ Holds(s) /\ Latest.sender = s /\ Latest.chunk = chunk[s] /\ chunk[s] \in Nat
      /\ Mine(s) # {} /\ chunks[s] # <<>> /\ job[s] \in Jobs \ TooLarge
      /\ tries[s] \in Nat
  BY <1>1, PostedIs DEF SendingType
<1>3. "queued" \in Engaged /\ "asleep" \in Engaged /\ at[s] \in Engaged
  BY <1>1 DEF Engaged
<1>4. CASE tries[s] + 1 < Budget(s)
  <2>1. /\ tries' = [tries EXCEPT ![s] = @ + 1] /\ at' = [at EXCEPT ![s] = "asleep"]
        /\ UNCHANGED <<chunk, outcome, lock>>
    BY <1>4 DEF Refused
  <2>2. chunk[s] > 0
    BY <1>2, <1>4 DEF Budget
  <2>3. at'[s] = "asleep" /\ SendingType'
    BY <1>1, <1>2, <2>1 DEF SendingType, Engaged
  <2>4. Mine(s)' = Mine(s) /\ Landed(s)' = Landed(s) /\ Latest' = Latest /\ Holds(s)'
    BY <1>1, <1>2, <2>1 DEF Mine, Landed, Latest, Holds
  <2>5. Progressing(s)'
    BY <1>2, <2>1, <2>2, <2>3, <2>4 DEF Progressing
  <2>6. Standing(s)'
    BY <1>1, <2>1, <2>3, <2>4 DEF Sound, Standing, Engaged
  <2>7. Contiguous(s)' /\ InOrder(s)' /\ TruthOf(s)' /\ Told(s)'
    BY <1>1, <2>1, <2>3, <2>4 DEF Sound, Contiguous, InOrder, TruthOf, Told
  <2>8. Sound(s)'
    BY <2>5, <2>6, <2>7 DEF Sound
  <2> QED
    BY <1>1, <1>2, <1>3, <2>1, <2>3, <2>8, GoesOn
<1>5. CASE ~(tries[s] + 1 < Budget(s)) /\ chunk[s] = 0
  <2>1. Finish(s, outcome[s]) /\ UNCHANGED <<chunk, tries>>
    BY <1>5 DEF Refused, GiveUp
  <2>2. /\ outcome[s] \in {"none", "delivered", "partial", "failed", "cancelled"}
        /\ tries' \in [Senders -> Nat]
    BY <1>1, <2>1 DEF SendingType
  <2>3. Deserved(s, outcome[s])
    BY <1>1, <1>5, NoticeEnds
  <2> QED
    BY <1>1, <2>1, <2>2, <2>3, Ends
<1>6. CASE ~(tries[s] + 1 < Budget(s)) /\ chunk[s] > 0 /\ HasNotice(s)
  <2>1. /\ outcome' = [outcome EXCEPT ![s] = Result(s)]
        /\ chunk' = [chunk EXCEPT ![s] = 0] /\ tries' = [tries EXCEPT ![s] = 0]
        /\ at' = [at EXCEPT ![s] = "queued"] /\ UNCHANGED lock
    BY <1>2, <1>6 DEF Refused, GiveUp
  <2>2. /\ Result(s) \in {"partial", "failed"}
        /\ Result(s) = "partial" => 1 \in Landed(s)
        /\ Result(s) = "failed" => Landed(s) \subseteq {0, 1}
    BY <1>1, <1>6, ResultIsTrue
  <2>3. /\ at'[s] = "queued" /\ chunk'[s] = 0 /\ outcome'[s] = Result(s)
        /\ \A r \in Senders : r # s => chunk'[r] = chunk[r] /\ outcome'[r] = outcome[r]
    BY <1>1, <2>1 DEF SendingType
  <2>4. SendingType'
    BY <1>1, <2>1, <2>2 DEF SendingType, Engaged
  <2>5. Mine(s)' = Mine(s) /\ Landed(s)' = Landed(s) /\ Latest' = Latest /\ Holds(s)'
    BY <1>1, <1>2, <2>1 DEF Mine, Landed, Latest, Holds
  <2>6. Progressing(s)'
    BY <1>2, <1>6, <2>3, <2>5 DEF Progressing
  <2>7. Standing(s)'
    BY <1>1, <1>2, <2>2, <2>3, <2>5 DEF Sound, Standing, Engaged
  <2>8. Contiguous(s)' /\ InOrder(s)'
    BY <1>1, <2>5 DEF Sound, Contiguous, InOrder
  <2>9. TruthOf(s)' /\ Told(s)'
    BY <2>2, <2>3, <2>5 DEF TruthOf, Told
  <2>10. Sound(s)'
    BY <2>6, <2>7, <2>8, <2>9 DEF Sound
  <2> QED
    BY <1>1, <1>2, <1>3, <2>1, <2>3, <2>4, <2>10, GoesOn
<1>7. CASE ~(tries[s] + 1 < Budget(s)) /\ chunk[s] > 0 /\ ~HasNotice(s)
  <2>1. Finish(s, Result(s)) /\ UNCHANGED <<chunk, tries>>
    BY <1>2, <1>7 DEF Refused, GiveUp
  <2>2. Deserved(s, Result(s)) /\ Result(s) \in {"partial", "failed"}
    BY <1>1, <1>7, ResultIsTrue DEF Deserved
  <2>3. tries' \in [Senders -> Nat]
    BY <1>1, <2>1 DEF SendingType
  <2> QED
    BY <1>1, <2>1, <2>2, <2>3, Ends
<1> QED
  BY <1>2, <1>4, <1>5, <1>6, <1>7

\* A caller is cancelled, wherever it is.
LEMMA CancelKeeps ==
  ASSUME SendingInv, NEW s \in Senders, Cancel(s)
  PROVE  SendingInv'
<1>1. /\ SendingType /\ Finish(s, "cancelled")
      /\ UNCHANGED <<job, chunks, chunk, tries, requests>>
  BY DEF SendingInv, Cancel
<1>2. Deserved(s, "cancelled") /\ tries' \in [Senders -> Nat]
  BY <1>1 DEF Deserved, SendingType
<1> QED
  BY <1>1, <1>2, Ends

\* What leaves the senders alone keeps it too.
LEMMA ElsewhereKeeps ==
  ASSUME SendingInv, UNCHANGED sending
  PROVE  SendingInv'
<1>1. UNCHANGED <<job, at, chunks, chunk, tries, outcome, lock, requests>>
  BY DEF sending
<1>2. SendingType' /\ LockOK'
  BY <1>1 DEF SendingInv, SendingType, LockOK, Holds
<1>3. ASSUME NEW s \in Senders PROVE Sound(s)'
  <2>1. Sound(s) /\ (Holds(s) => Holds(s)')
    BY <1>1 DEF SendingInv, Holds
  <2> QED
    BY <1>1, <2>1, Rests
<1> QED
  BY <1>2, <1>3 DEF SendingInv

\* The senders' invariant holds throughout.
LEMMA SendingHolds == Spec => []SendingInv
<1>1. SendingInv /\ [Next]_vars => SendingInv'
  <2> SUFFICES ASSUME SendingInv, [Next]_vars PROVE SendingInv'
    OBVIOUS
  <2>1. ASSUME NEW s \in Senders, SenderStep(s) \/ Cancel(s) PROVE SendingInv'
    BY <2>1, SendKeeps, PostKeeps, NothingKeeps, AcceptedKeeps, RefusedKeeps, CancelKeeps
       DEF SenderStep
  <2>2. CASE Indicator
    <3>1. UNCHANGED sending
      BY <2>2 DEF Indicator, OpenBracket, Settled, Woken, CloseBracket, Stopped, CutOff,
                  CancelTurn, EndTask, Approval
    <3> QED
      BY <3>1, ElsewhereKeeps
  <2>3. CASE Receiver
    <3>1. UNCHANGED sending
      BY <2>3 DEF Receiver, Arrive, ReceiptEnds, StreamFails, StreamEnds, Reconnect
    <3> QED
      BY <3>1, ElsewhereKeeps
  <2>4. CASE Tick
    BY <2>4, ElsewhereKeeps DEF Tick
  <2>5. CASE UNCHANGED vars
    BY <2>5, ElsewhereKeeps DEF vars
  <2> QED
    BY <2>1, <2>2, <2>3, <2>4, <2>5 DEF Next
<1>2. Init => SendingInv
  BY InitSending
<1> QED
  BY <1>1, <1>2, PTL DEF Spec

\* Whoever is refused, retried or cancelled meanwhile, what one caller sends stays
\* one run of requests in order, with its notice last, and its outcome promises no
\* more than arrived (signal.py _send_serialized, _send_message): for any senders,
\* any number of tries and any texts.
THEOREM SequencesStayWhole == Spec => []WholeSequences
<1>1. SendingInv => WholeSequences
  <2> SUFFICES ASSUME SendingInv, NEW s \in Senders
               PROVE  Contiguous(s) /\ InOrder(s) /\ WholeText(s) /\ TruthOf(s) /\ Told(s)
    BY DEF WholeSequences
  <2>1. Sound(s)
    BY DEF SendingInv
  <2>2. WholeText(s)
    BY <2>1, PiecesMakeWhole DEF Sound, Standing, WholeText, PiecesAreWhole
  <2> QED
    BY <2>1, <2>2 DEF Sound
<1> QED
  BY <1>1, SendingHolds, PTL
=============================================================================
