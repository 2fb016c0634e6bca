---------------------- MODULE MaintenanceCalendarProofs ----------------------
(***************************************************************************)
(* Theorems about MaintenanceCalendar, for any calendar, proposals and     *)
(* settings that satisfy CalendarAssumption.                               *)
(*                                                                         *)
(* RunsOK follows the runs of the create tool: a run has its own           *)
(* approval's reference from its approval to its answer.  SnapshotOK       *)
(* follows what was read: every way Google's side moves (Moved) leaves a   *)
(* fresh snapshot, in memory or on disk, planned and complete.             *)
(***************************************************************************)
EXTENDS MaintenanceCalendar, TLAPS, FiniteSetTheorems

-----------------------------------------------------------------------------
(* What the operators give *)

\* The settings, one by one.
LEMMA Settings ==
  /\ Lookahead \in Nat /\ Refresh \in Nat /\ MaxWindow \in Nat /\ Stale \in Nat
  /\ Grace \in Nat /\ MaxApprovals \in Nat /\ Stale < Lookahead
  /\ OwnerItems \subseteq Event /\ Proposals \subseteq Proposal
BY CalendarAssumption

\* Approvals are numbered from 1 on.
LEMMA NextReference ==
  ASSUME TypeOK
  PROVE  /\ Cardinality(DOMAIN approved) \in Nat
         /\ DOMAIN approved = 1..Cardinality(DOMAIN approved)
         /\ \A r \in DOMAIN approved : r \in Nat /\ r # 0 /\ approved[r] \in Proposal
         /\ DOMAIN approved \subseteq 1..MaxApprovals
<1>1. PICK n \in 0..MaxApprovals : approved \in [1..n -> Proposals]
  BY DEF TypeOK
<1>2. n \in Nat /\ DOMAIN approved = 1..n
  BY <1>1, Settings
<1>3. Cardinality(1..n) = n
  BY <1>2, FS_Interval
<1> QED
  BY <1>1, <1>2, <1>3, Settings

\* What a run inserts is an event of Henk's.
LEMMA ItemType ==
  ASSUME TypeOK, NEW r \in DOMAIN approved
  PROVE  Item(r) \in Event /\ Item(r).id = r
<1>1. r \in Nat /\ approved[r] \in Proposal
  BY NextReference
<1>2. approved[r].start \in Int /\ approved[r].end \in Int /\ r \in Int
  BY <1>1 DEF Proposal
<1> QED
  BY <1>2 DEF Item, Event

\* A call under way in the tool, and in the loop.
LEMMA CallFields ==
  ASSUME TypeOK
  PROVE  /\ call["tool"] # Idle => call["tool"] \in ToolCall
         /\ call["loop"] # Idle => call["loop"] \in LoopCall
         /\ call["tool"].at # "idle" <=> call["tool"] # Idle
         /\ call["loop"].at # "idle" <=> call["loop"] # Idle
BY DEF TypeOK, ToolCall, LoopCall, Idle

\* The client's own steps change neither what a call is for nor when it began.
ClientStep(c) == SignIn(c) \/ TryAgain(c) \/ \E expiring \in BOOLEAN : Token(c, expiring)
LEMMA ClientKeeps ==
  ASSUME TypeOK, NEW c \in Callers, ClientStep(c)
  PROVE  /\ call' \in [Callers -> {Idle} \cup LoopCall \cup ToolCall]
         /\ call'["loop"] \in {Idle} \cup LoopCall /\ call'["tool"] \in {Idle} \cup ToolCall
         /\ call'["tool"] = Idle <=> call["tool"] = Idle
         /\ call'["loop"] = Idle <=> call["loop"] = Idle
         /\ call["tool"] # Idle => call'["tool"].reference = call["tool"].reference
         /\ call["loop"] # Idle => call'["loop"].now = call["loop"].now
<1>1. call[c] # Idle /\ call[c].at # "idle"
  BY CallFields DEF ClientStep, SignIn, TryAgain, Token, Refused, Callers
<1>2. \A d \in Callers \ {c} : call'[d] = call[d]
  BY DEF ClientStep, SignIn, TryAgain, Token, Sent, TypeOK
<1>3. revoked \in Int /\ token \in Int
  BY DEF TypeOK, None
<1>4. ASSUME c = "tool"
      PROVE  /\ call' \in [Callers -> {Idle} \cup LoopCall \cup ToolCall]
             /\ call'["tool"] \in ToolCall /\ call'["tool"].reference = call["tool"].reference
  <2>1. call["tool"] \in ToolCall
    BY <1>1, <1>4, CallFields
  <2>2. call' = [call EXCEPT !["tool"] = call'["tool"]]
    BY <1>4 DEF ClientStep, SignIn, TryAgain, Token, Sent, TypeOK, Callers
  <2>3. \/ call'["tool"] = [call["tool"] EXCEPT !.at = "sent", !.token = revoked]
        \/ call'["tool"] = [call["tool"] EXCEPT !.at = "sent", !.token = token]
        \/ call'["tool"] = [call["tool"] EXCEPT !.at = "signing"]
        \/ call'["tool"] = [call["tool"] EXCEPT !.at = "token", !.tries = 2]
    BY <1>4 DEF ClientStep, SignIn, TryAgain, Token, Sent, TypeOK, Callers
  <2>4. call'["tool"] \in ToolCall /\ call'["tool"].reference = call["tool"].reference
    BY <1>3, <2>1, <2>3 DEF ToolCall
  <2> QED
    BY <2>2, <2>4 DEF TypeOK, Callers
<1>5. ASSUME c = "loop"
      PROVE  /\ call' \in [Callers -> {Idle} \cup LoopCall \cup ToolCall]
             /\ call'["loop"] \in LoopCall /\ call'["loop"].now = call["loop"].now
  <2>1. call["loop"] \in LoopCall
    BY <1>1, <1>5, CallFields
  <2>2. call' = [call EXCEPT !["loop"] = call'["loop"]]
    BY <1>5 DEF ClientStep, SignIn, TryAgain, Token, Sent, TypeOK, Callers
  <2>3. \/ call'["loop"] = [call["loop"] EXCEPT !.at = "sent", !.token = revoked]
        \/ call'["loop"] = [call["loop"] EXCEPT !.at = "sent", !.token = token]
        \/ call'["loop"] = [call["loop"] EXCEPT !.at = "signing"]
        \/ call'["loop"] = [call["loop"] EXCEPT !.at = "token", !.tries = 2]
    BY <1>5 DEF ClientStep, SignIn, TryAgain, Token, Sent, TypeOK, Callers
  <2>4. call'["loop"] \in LoopCall /\ call'["loop"].now = call["loop"].now
    BY <1>3, <2>1, <2>3 DEF LoopCall
  <2> QED
    BY <2>2, <2>4 DEF TypeOK, Callers
<1>6. Idle \notin ToolCall /\ Idle \notin LoopCall
  BY DEF Idle, ToolCall, LoopCall
<1>7. call["loop"] \in {Idle} \cup LoopCall /\ call["tool"] \in {Idle} \cup ToolCall
  BY DEF TypeOK
<1> QED
  BY <1>1, <1>2, <1>4, <1>5, <1>6, <1>7 DEF Callers

\* What an insert does at Google.
LEMMA InsertMoves ==
  ASSUME TypeOK, NEW r \in DOMAIN approved, Insert(Item(r))
  PROVE  /\ DOMAIN calendar' = DOMAIN calendar \cup {Item(r)}
         /\ DOMAIN calendar' \subseteq Event /\ calendar' \in [DOMAIN calendar' -> Int]
         /\ \A i \in DOMAIN calendar : calendar'[i] = calendar[i] \/ calendar'[i] = clock
         /\ calendar'[Item(r)] = clock
         /\ made' \in [1..MaxApprovals -> Nat] /\ made'[r] = made[r] + 1
         /\ \A s \in DOMAIN made : s # r => made'[s] = made[s]
<1>1. Item(r) \in Event /\ Item(r).id = r /\ r \in 1..MaxApprovals
  BY ItemType, NextReference
<1>2. calendar' = Placed(Item(r)) /\ made' = [made EXCEPT ![r] = @ + 1]
  BY <1>1 DEF Insert
<1>3. calendar' = [i \in DOMAIN calendar \cup {Item(r)} |->
                     IF i = Item(r) THEN clock ELSE calendar[i]]
  BY <1>2 DEF Placed
<1>4. clock \in Int /\ DOMAIN calendar \subseteq Event /\ calendar \in [DOMAIN calendar -> Int]
  BY DEF TypeOK
<1> HIDE DEF Item
<1>5. made \in [1..MaxApprovals -> Nat] /\ made[r] + 1 \in Nat
  BY <1>1 DEF TypeOK
<1>6. made' \in [1..MaxApprovals -> Nat] /\ made'[r] = made[r] + 1
      /\ \A s \in DOMAIN made : s # r => made'[s] = made[s]
  BY <1>1, <1>2, <1>5
<1> QED
  BY <1>1, <1>3, <1>4, <1>6

-----------------------------------------------------------------------------
(* The runs of the create tool *)

\* A run has its approval's reference, and what no run has reached was not made.
TurnOK ==
  /\ turn # 0 => turn \in DOMAIN approved /\ made[turn] = 0
  /\ turn # 0 /\ call["tool"] = Idle => slot = turn
  /\ call["tool"] # Idle => turn # 0 /\ call["tool"].reference = turn
  /\ \A r \in DOMAIN made : made[r] <= 1 /\ (r \notin DOMAIN approved => made[r] = 0)

\* A result stays true because its run is over and no other has its approval.
ResultsOK ==
  \A r \in results :
    /\ r.run \in DOMAIN approved /\ r.run # turn
    /\ r.told = "nothing was created" => made[r.run] = 0
    /\ r.told = "created" => made[r.run] = 1

ReceiptsOK ==
  \A r \in receipts :
    r.reference \in DOMAIN approved /\ r.item = Item(r.reference) /\ made[r.reference] > 0

RunsOK == TypeOK /\ TurnOK /\ ResultsOK /\ ReceiptsOK

\* A request of the tool that has an answer belongs to the run under way.
LEMMA AnsweredIsRun ==
  ASSUME TypeOK, TurnOK, Answered("tool")
  PROVE  turn \in DOMAIN approved /\ call["tool"].reference = turn
BY CallFields DEF Answered, TurnOK

\* What a run leaves at Google when it ends, whatever became of its request.
Outcome(r) == UNCHANGED <<calendar, made>> \/ Insert(Item(r))

LEMMA InitRuns == Init => RunsOK
<1> SUFFICES ASSUME Init PROVE RunsOK
  OBVIOUS
<1>1. approved = [r \in {} |-> None] /\ DOMAIN approved = {}
  BY DEF Init
<1>2. approved \in [1..0 -> Proposals] /\ 0 \in 0..MaxApprovals
  BY <1>1, Settings
<1>3. call \in [Callers -> {Idle} \cup LoopCall \cup ToolCall]
      /\ call["loop"] = Idle /\ call["tool"] = Idle
  BY DEF Init, Callers
<1>4. PICK on \in SUBSET OwnerItems : calendar = [i \in on |-> -1]
  BY DEF Init
<1>5. DOMAIN calendar \subseteq Event /\ calendar \in [DOMAIN calendar -> Int]
  BY <1>4, Settings
<1>6. NoSnapshot \in Snapshot
  BY DEF NoSnapshot, Snapshot
<1>7. made \in [1..MaxApprovals -> Nat] /\ \A r \in DOMAIN made : made[r] = 0
  BY DEF Init
<1>8. TypeOK
  BY <1>2, <1>3, <1>5, <1>6, <1>7 DEF Init, TypeOK, None
<1>9. TurnOK
  BY <1>3, <1>7 DEF Init, TurnOK
<1>10. ResultsOK /\ ReceiptsOK
  BY DEF Init, ResultsOK, ReceiptsOK
<1> QED
  BY <1>8, <1>9, <1>10 DEF RunsOK

LEMMA SpentType ==
  ASSUME TypeOK, NEW kind \in Bounded, NEW most, Spent(kind, most)
  PROVE  budget' \in [Bounded -> Nat]
BY DEF TypeOK, Spent

\* The calendar, the client and time.
LEMMA TypeAround ==
  ASSUME TypeOK,
         \/ \E item \in OwnerItems : Add(item)
         \/ \E item \in DOMAIN calendar : Remove(item)
         \/ Revoke \/ Tick
         \/ \E c \in Callers : ClientStep(c)
  PROVE  TypeOK'
<1>1. ASSUME NEW item \in OwnerItems, Add(item) PROVE TypeOK'
  <2>1. item \in Event /\ clock \in Int
    BY Settings DEF TypeOK
  <2>2. calendar' = [i \in DOMAIN calendar \cup {item} |->
                       IF i = item THEN clock ELSE calendar[i]]
    BY <1>1 DEF Add, Placed
  <2>3. DOMAIN calendar' \subseteq Event /\ calendar' \in [DOMAIN calendar' -> Int]
    BY <2>1, <2>2 DEF TypeOK
  <2>4. budget' \in [Bounded -> Nat]
    BY <1>1, SpentType DEF Add, Bounded
  <2> QED
    BY <1>1, <2>3, <2>4 DEF TypeOK, Add, provider, tool
<1>2. ASSUME NEW item \in DOMAIN calendar, Remove(item) PROVE TypeOK'
  <2>1. calendar' = [i \in DOMAIN calendar \ {item} |-> calendar[i]]
    BY <1>2 DEF Remove, Without
  <2>2. DOMAIN calendar' \subseteq Event /\ calendar' \in [DOMAIN calendar' -> Int]
    BY <2>1 DEF TypeOK
  <2>3. gone' \subseteq [item : Event, at : Nat]
    BY <1>2 DEF TypeOK, Remove, Left
  <2>4. budget' \in [Bounded -> Nat]
    BY <1>2, SpentType DEF Remove, Bounded
  <2> QED
    BY <1>2, <2>2, <2>3, <2>4 DEF TypeOK, Remove, provider, tool
<1>3. CASE Revoke
  <2>1. budget' \in [Bounded -> Nat]
    BY <1>3, SpentType DEF Revoke, Bounded
  <2> QED
    BY <1>3, <2>1 DEF TypeOK, Revoke, provider, tool
<1>4. CASE Tick
  <2>1. calendar' = [i \in DOMAIN calendar |-> Later(calendar[i], clock - Stale - 1)]
    BY <1>4 DEF Tick
  <2>2. DOMAIN calendar' \subseteq Event /\ calendar' \in [DOMAIN calendar' -> Int]
    BY <2>1, Settings DEF TypeOK, Later
  <2> QED
    BY <1>4, <2>2 DEF TypeOK, Tick, provider, tool
<1>5. ASSUME NEW c \in Callers, ClientStep(c) PROVE TypeOK'
  <2>1. /\ call' \in [Callers -> {Idle} \cup LoopCall \cup ToolCall]
        /\ call'["loop"] \in {Idle} \cup LoopCall /\ call'["tool"] \in {Idle} \cup ToolCall
    BY <1>5, ClientKeeps
  <2>2. token' \in Nat \cup {None} /\ UNCHANGED <<clock, google, provider, tool>>
    BY <1>5 DEF ClientStep, SignIn, TryAgain, Token, TypeOK
  <2>3. budget' \in [Bounded -> Nat]
    <3>1. budget' = budget \/ Spent("revocations", MaxRevocations)
      BY <1>5 DEF ClientStep, SignIn, TryAgain, Token
    <3> QED
      BY <3>1, SpentType DEF Bounded, TypeOK
  <2> QED
    BY <2>1, <2>2, <2>3 DEF TypeOK, google, provider, tool
<1> QED
  BY <1>1, <1>2, <1>3, <1>4, <1>5

\* The provider.
LEMMA RestType ==
  ASSUME TypeOK, Rested
  PROVE  /\ call' \in [Callers -> {Idle} \cup LoopCall \cup ToolCall]
         /\ call'["loop"] = Idle /\ call'["tool"] = call["tool"] /\ due' \in Nat
BY Settings DEF TypeOK, Rested, Callers

\* What a refresh reads is admitted, holds, and is on the calendar.
LEMMA FetchedIs ==
  ASSUME TypeOK, Answered("loop"), NEW now, now = call["loop"].now
  PROVE  /\ now \in Nat /\ Fetched(now) \in Snapshot
         /\ Fetched(now).read = now /\ Fetched(now).under = holding
         /\ Fetched(now).windows =
              {i \in DOMAIN calendar : /\ i.end > now - (MaxWindow + Grace)
                                       /\ i.start < now + Lookahead
                                       /\ Admit(i) /\ Holds(i, holding)}
<1>1. now \in Nat
  BY CallFields DEF Answered, LoopCall
<1>2. Fetched(now).windows =
              {i \in DOMAIN calendar : /\ i.end > now - (MaxWindow + Grace)
                                       /\ i.start < now + Lookahead
                                       /\ Admit(i) /\ Holds(i, holding)}
  BY DEF Fetched, ListWindow, Between, From
<1>3. Fetched(now).read = now /\ Fetched(now).under = holding /\ holding \in BOOLEAN
  BY DEF Fetched, TypeOK
<1>4. Fetched(now).windows \in SUBSET Event
  BY <1>2 DEF TypeOK
<1>5. Fetched(now) = [read |-> Fetched(now).read, under |-> Fetched(now).under,
                      windows |-> Fetched(now).windows]
  BY DEF Fetched
<1> QED
  BY <1>1, <1>2, <1>3, <1>4, <1>5 DEF Snapshot

LEMMA TypeProvider ==
  ASSUME TypeOK,
         StartRefresh \/ RefreshFailed \/ Damage \/ \E written \in BOOLEAN : RefreshDone(written)
  PROVE  TypeOK'
<1>1. CASE StartRefresh
  <2>1. [at |-> "token", tries |-> 1, token |-> None, now |-> clock] \in LoopCall
    BY DEF TypeOK, LoopCall, None
  <2>2. /\ call' \in [Callers -> {Idle} \cup LoopCall \cup ToolCall]
        /\ call'["loop"] \in LoopCall /\ call'["tool"] = call["tool"]
    BY <1>1, <2>1 DEF StartRefresh, TypeOK, Callers
  <2> QED
    BY <1>1, <2>2 DEF StartRefresh, TypeOK, google, provider, tool
<1>2. CASE RefreshFailed
  <2>1. budget' \in [Bounded -> Nat]
    <3>1. budget' = budget \/ Spent("faults", MaxFaults)
      BY <1>2 DEF RefreshFailed, Failure, Fault
    <3> QED
      BY <3>1, SpentType DEF Bounded, TypeOK
  <2>2. snapshot' = snapshot
    BY <1>2 DEF RefreshFailed, Kept
  <2>3. Rested
    BY <1>2 DEF RefreshFailed
  <2> QED
    BY <1>2, <2>1, <2>2, <2>3, RestType DEF RefreshFailed, TypeOK, google, tool
<1>3. CASE Damage
  <2>1. budget' \in [Bounded -> Nat]
    BY <1>3, SpentType DEF Damage, Bounded
  <2>2. file' \in Snapshot
    BY <1>3 DEF Damage, Damaged, Snapshot
  <2> QED
    BY <1>3, <2>1, <2>2 DEF Damage, TypeOK, google, tool
<1>4. ASSUME NEW written \in BOOLEAN, RefreshDone(written) PROVE TypeOK'
  <2>1. snapshot' \in Snapshot
    BY <1>4, FetchedIs DEF RefreshDone
  <2>2. file' \in Snapshot
    BY <1>4, <2>1 DEF RefreshDone, TypeOK
  <2>3. budget' \in [Bounded -> Nat]
    <3>1. budget' = budget \/ Spent("faults", MaxFaults)
      BY <1>4 DEF RefreshDone
    <3> QED
      BY <3>1, SpentType DEF Bounded, TypeOK
  <2>4. Rested
    BY <1>4 DEF RefreshDone
  <2> QED
    BY <1>4, <2>1, <2>2, <2>3, <2>4, RestType DEF RefreshDone, TypeOK, google, tool
<1> QED
  BY <1>1, <1>2, <1>3, <1>4

\* What the end of a run leaves of the calendar and of the counts.
LEMMA OutcomeMoves ==
  ASSUME TypeOK, TurnOK, turn # 0, Outcome(turn)
  PROVE  /\ DOMAIN calendar' \subseteq Event /\ calendar' \in [DOMAIN calendar' -> Int]
         /\ made' \in [1..MaxApprovals -> Nat]
         /\ turn \in DOMAIN made /\ made[turn] = 0 /\ made'[turn] \in {0, 1}
         /\ Insert(Item(turn)) => made'[turn] = 1
         /\ UNCHANGED <<calendar, made>> => made'[turn] = 0
         /\ \A r \in DOMAIN made : r # turn => made'[r] = made[r]
<1>1. turn \in DOMAIN approved /\ made[turn] = 0
  BY DEF TurnOK
<1>2. turn \in 1..MaxApprovals /\ DOMAIN made = 1..MaxApprovals
  BY <1>1, NextReference DEF TypeOK
<1>3. CASE UNCHANGED <<calendar, made>>
  <2>1. ~Insert(Item(turn))
    <3>1. SUFFICES ASSUME Insert(Item(turn)) PROVE FALSE
      OBVIOUS
    <3>2. made'[turn] = made[turn] + 1
      BY <1>1, <3>1, InsertMoves
    <3> QED
      BY <1>1, <1>3, <3>2
  <2> QED
    BY <1>1, <1>2, <1>3, <2>1 DEF TypeOK
<1>4. CASE Insert(Item(turn))
  <2>1. /\ DOMAIN calendar' \subseteq Event /\ calendar' \in [DOMAIN calendar' -> Int]
        /\ made' \in [1..MaxApprovals -> Nat] /\ made'[turn] = made[turn] + 1
        /\ \A s \in DOMAIN made : s # turn => made'[s] = made[s]
    BY <1>1, <1>4, InsertMoves
  <2> QED
    BY <1>1, <1>2, <2>1
<1> QED
  BY <1>3, <1>4 DEF Outcome

\* What is said of a run when it ends is so.
Result == [run : Nat, told : Sayings, reference : Nat \cup {None}]
SaidTruly(told) ==
  /\ told = "nothing was created" => UNCHANGED <<calendar, made>>
  /\ told = "created" => Insert(Item(turn))

\* A run ends: with what it says, and the receipt it leaves.
RunEnds(what, receipt) ==
  /\ turn # 0 /\ Outcome(turn)
  /\ turn' = 0 /\ call' = [call EXCEPT !["tool"] = Idle]
  /\ slot' \in {slot, None} /\ UNCHANGED approved
  /\ results' = results \cup what /\ receipts' = receipts \cup receipt
  /\ \A r \in what : r \in Result /\ r.run = turn /\ SaidTruly(r.told)
  /\ \A r \in receipt :
       r = [reference |-> turn, item |-> Item(turn)] /\ Insert(Item(turn))

LEMMA RunEndsKeeps ==
  ASSUME RunsOK, NEW what, NEW receipt, RunEnds(what, receipt),
         UNCHANGED <<clock, gone, revoked, token, provider>>, budget' \in [Bounded -> Nat]
  PROVE  RunsOK'
<1>0. TypeOK /\ TurnOK /\ ResultsOK /\ ReceiptsOK /\ turn # 0 /\ Outcome(turn)
  BY DEF RunsOK, RunEnds
<1>1. turn \in DOMAIN approved /\ turn \in Nat
  BY <1>0 DEF TurnOK, TypeOK
<1>2. /\ DOMAIN calendar' \subseteq Event /\ calendar' \in [DOMAIN calendar' -> Int]
      /\ made' \in [1..MaxApprovals -> Nat]
      /\ turn \in DOMAIN made /\ made[turn] = 0 /\ made'[turn] \in {0, 1}
      /\ Insert(Item(turn)) => made'[turn] = 1
      /\ UNCHANGED <<calendar, made>> => made'[turn] = 0
      /\ \A r \in DOMAIN made : r # turn => made'[r] = made[r]
  BY <1>0, OutcomeMoves
<1>3. DOMAIN made = 1..MaxApprovals /\ DOMAIN made' = DOMAIN made /\ DOMAIN approved \subseteq DOMAIN made
  BY <1>0, <1>2, NextReference DEF TypeOK
<1>4. Item(turn) \in Event /\ \A r : Item(r)' = Item(r)
  BY <1>0, <1>1, ItemType DEF RunEnds, Item
<1>5. results' \subseteq [run : Nat, told : Sayings, reference : Nat \cup {None}]
  BY <1>0, <1>1 DEF TypeOK, RunEnds, Result
<1>6. receipts' \subseteq [reference : Nat, item : Event]
  <2>1. [reference |-> turn, item |-> Item(turn)] \in [reference : Nat, item : Event]
    BY <1>1, <1>4
  <2> QED
    BY <1>0, <2>1 DEF TypeOK, RunEnds
<1>7. /\ call' \in [Callers -> {Idle} \cup LoopCall \cup ToolCall]
      /\ call'["loop"] = call["loop"] /\ call'["tool"] = Idle
  BY <1>0 DEF TypeOK, RunEnds, Callers
<1>8. TypeOK'
  BY <1>0, <1>2, <1>5, <1>6, <1>7 DEF TypeOK, RunEnds, provider, None
<1>9. TurnOK'
  <2>1. ASSUME NEW r \in DOMAIN made'
        PROVE  made'[r] <= 1 /\ (r \notin DOMAIN approved => made'[r] = 0)
    <3>1. made[r] <= 1 /\ (r \notin DOMAIN approved => made[r] = 0)
      BY <1>0, <1>3, <2>1 DEF TurnOK
    <3> QED
      BY <1>1, <1>2, <1>3, <2>1, <3>1
  <2>2. turn' = 0 /\ approved' = approved
    BY DEF RunEnds
  <2> QED
    BY <1>7, <2>1, <2>2 DEF TurnOK
<1>10. ResultsOK'
  <2>1. SUFFICES ASSUME NEW r \in results'
                 PROVE  /\ r.run \in DOMAIN approved /\ r.run # 0
                        /\ r.told = "nothing was created" => made'[r.run] = 0
                        /\ r.told = "created" => made'[r.run] = 1
    BY DEF ResultsOK, RunEnds
  <2>2. CASE r \in results
    BY <1>0, <1>2, <1>3, <2>2, NextReference DEF ResultsOK
  <2>3. CASE r \in what
    <3>1. r.run = turn
      BY <2>3 DEF RunEnds
    <3> QED
      BY <1>0, <1>1, <1>2, <2>3, <3>1 DEF RunEnds, SaidTruly
  <2> QED
    BY <2>1, <2>2, <2>3 DEF RunEnds
<1>11. ReceiptsOK'
  <2>1. SUFFICES ASSUME NEW r \in receipts'
                 PROVE  /\ r.reference \in DOMAIN approved /\ r.item = Item(r.reference)
                        /\ made'[r.reference] > 0
    BY <1>4 DEF ReceiptsOK, RunEnds
  <2>2. CASE r \in receipts
    <3>1. r.reference \in DOMAIN approved /\ made[r.reference] > 0
      BY <1>0, <2>2 DEF ReceiptsOK
    <3>2. r.reference # turn
      BY <1>2, <3>1
    <3> QED
      BY <1>0, <1>2, <1>3, <2>2, <3>1, <3>2 DEF ReceiptsOK
  <2>3. CASE r \in receipt
    <3>0. r = [reference |-> turn, item |-> Item(turn)] /\ Insert(Item(turn))
      BY <2>3 DEF RunEnds
    <3>1. r.reference = turn /\ r.item = Item(turn) /\ made'[turn] = 1
      BY <1>2, <3>0
    <3> QED
      BY <1>1, <3>1
  <2> QED
    BY <2>1, <2>2, <2>3 DEF RunEnds
<1> QED
  BY <1>8, <1>9, <1>10, <1>11 DEF RunsOK

\* Each way a run ends.
LEMMA EndsKeep ==
  ASSUME RunsOK,
         \/ TurnDies \/ Refuse
         \/ \E written \in BOOLEAN : Created(written)
         \/ \E status \in {0, 400, 401, 403, 500} : NotCreated(status)
  PROVE  RunsOK'
<1>0. TypeOK /\ TurnOK
  BY DEF RunsOK
<1>1. ASSUME Spent("faults", MaxFaults) PROVE budget' \in [Bounded -> Nat]
  BY <1>0, <1>1, SpentType DEF Bounded
<1>2. budget \in [Bounded -> Nat] /\ slot \in Nat \cup {None}
  BY <1>0 DEF TypeOK
<1>3. CASE TurnDies
  <2>1. RunEnds({}, {})
    BY <1>3 DEF TurnDies, RunEnds, Abandoned, Outcome
  <2>2. UNCHANGED <<clock, gone, revoked, token, provider>>
    BY <1>3 DEF TurnDies
  <2> QED
    BY <1>1, <1>3, <2>1, <2>2, RunEndsKeeps DEF TurnDies
<1>4. CASE Refuse
  <2>1. /\ turn # 0 /\ turn \in Nat /\ UNCHANGED <<calendar, made, approved, receipts>>
        /\ results' = results \cup {Told("nothing was created", slot)}
        /\ turn' = 0 /\ call' = [call EXCEPT !["tool"] = Idle] /\ slot' = None
    BY <1>0, <1>4 DEF Refuse, Answer, google, TypeOK
  <2>2. \A r \in {Told("nothing was created", slot)} :
          r \in Result /\ r.run = turn /\ SaidTruly(r.told)
    <3> DEFINE says == Told("nothing was created", slot)
    <3>1. PICK said \in Sayings : said = "nothing was created"
      BY Zenon DEF Sayings
    <3>2. says = [run |-> turn, told |-> said, reference |-> slot]
      BY <3>1, Zenon DEF Told
    <3>3. slot \in Nat \cup {None} /\ turn \in Nat
      BY <1>2, <2>1 DEF TypeOK
    <3> HIDE DEF says
    <3>4. says \in Result /\ says.run = turn /\ says.told = said
      BY <3>2, <3>3 DEF Result
    <3>5. SaidTruly("nothing was created")
      BY <2>1, Zenon DEF SaidTruly
    <3>6. SaidTruly(says.told)
      BY <3>1, <3>4, <3>5, ZenonT(40)
    <3>7. \A r \in {says} : r \in Result /\ r.run = turn /\ SaidTruly(r.told)
      BY <3>4, <3>6, ZenonT(40)
    <3> QED
      BY <3>7 DEF says
  <2>4. RunEnds({Told("nothing was created", slot)}, {})
    <3>1. receipts' = receipts \cup {} /\ Outcome(turn)
      BY <2>1, ZenonT(40) DEF Outcome
    <3> QED
      BY <2>1, <2>2, <3>1 DEF RunEnds
  <2>3. UNCHANGED <<clock, gone, revoked, token, provider, budget>>
    BY <1>4, ZenonT(40) DEF Refuse, google
  <2> QED
    BY <1>2, <2>3, <2>4, RunEndsKeeps
<1>5. ASSUME NEW written \in BOOLEAN, Created(written) PROVE RunsOK'
  <2>1. turn \in DOMAIN approved /\ call["tool"].reference = turn /\ turn \in Nat /\ turn # 0
    BY <1>0, <1>5, AnsweredIsRun, NextReference DEF Created
  <2>4. /\ Insert(Item(turn)) /\ results' = results \cup {Told("created", turn)}
        /\ turn' = 0 /\ call' = [call EXCEPT !["tool"] = Idle]
        /\ UNCHANGED <<approved, slot, gone, revoked, clock, token, provider>>
        /\ \/ receipts' = receipts \cup {[reference |-> turn, item |-> Item(turn)]}
              /\ UNCHANGED budget
           \/ UNCHANGED receipts /\ Spent("faults", MaxFaults)
    BY <1>5, <2>1 DEF Created, Answer
  <2>2. \A r \in {Told("created", turn)} : r \in Result /\ r.run = turn /\ SaidTruly(r.told)
    <3>1. Told("created", turn) \in Result /\ Told("created", turn).run = turn
          /\ Told("created", turn).told = "created"
      BY <2>1 DEF Told, Result, Sayings
    <3>2. SaidTruly("created")
      BY <2>4 DEF SaidTruly
    <3> QED
      BY <3>1, <3>2
  <2>3. \A r \in {[reference |-> turn, item |-> Item(turn)]} :
          r = [reference |-> turn, item |-> Item(turn)] /\ Insert(Item(turn))
    BY <2>4
  <2>5. CASE UNCHANGED budget /\ receipts' = receipts \cup {[reference |-> turn, item |-> Item(turn)]}
    <3>1. RunEnds({Told("created", turn)}, {[reference |-> turn, item |-> Item(turn)]})
      BY <2>1, <2>2, <2>3, <2>4, <2>5 DEF RunEnds, Outcome
    <3> QED
      BY <1>2, <2>4, <2>5, <3>1, RunEndsKeeps
  <2>6. CASE UNCHANGED receipts /\ Spent("faults", MaxFaults)
    <3>1. RunEnds({Told("created", turn)}, {})
      BY <2>1, <2>2, <2>3, <2>4, <2>6 DEF RunEnds, Outcome
    <3> QED
      BY <1>1, <2>4, <2>6, <3>1, RunEndsKeeps
  <2> QED
    BY <2>4, <2>5, <2>6
<1>6. ASSUME NEW status \in {0, 400, 401, 403, 500}, NotCreated(status) PROVE RunsOK'
  <2>1. call["tool"] # Idle
    BY <1>6 DEF NotCreated
  <2>2. turn # 0 /\ call["tool"].reference = turn /\ turn \in Nat
    BY <1>0, <2>1 DEF TurnOK, TypeOK
  <2> DEFINE says == Told(InsertFailure(status), turn)
  <2>3. says \in Result /\ says.run = turn
    BY <2>2 DEF Told, Result, Sayings, InsertFailure
  <2>4. /\ says.told # "created"
        /\ says.told = "nothing was created" => status \notin {0, 500}
    BY DEF Told, InsertFailure
  <2>5. /\ UNCHANGED <<calendar, made>> \/ (status \in {0, 500} /\ Insert(Item(turn)))
        /\ results' = results \cup {says}
        /\ turn' = 0 /\ call' = [call EXCEPT !["tool"] = Idle]
        /\ UNCHANGED <<approved, slot, receipts, gone, revoked, clock, token, provider>>
    BY <1>6, <2>2 DEF NotCreated, Answer
  <2>6. budget' \in [Bounded -> Nat]
    BY <1>1, <1>2, <1>6 DEF NotCreated, Failure, Fault
  <2> HIDE DEF says
  <2>8. \A r \in {says} : r \in Result /\ r.run = turn /\ SaidTruly(r.told)
    <3>1. ~(says.told = "created")
      BY <2>4
    <3>2. status \notin {0, 500} => UNCHANGED <<calendar, made>>
      BY <2>5, ZenonT(40)
    <3>3. SaidTruly(says.told)
      BY <2>4, <3>1, <3>2, ZenonT(40) DEF SaidTruly
    <3> QED
      BY <2>3, <3>3
  <2>7. RunEnds({says}, {})
    BY <2>2, <2>5, <2>8 DEF RunEnds, Outcome
  <2> QED
    BY <2>5, <2>6, <2>7, RunEndsKeeps
<1> QED
  BY <1>3, <1>4, <1>5, <1>6

LEMMA ApproveKeeps ==
  ASSUME RunsOK, NEW proposal \in Proposals, NEW recorded \in BOOLEAN, Approve(proposal, recorded)
  PROVE  RunsOK'
<1> DEFINE n == Cardinality(DOMAIN approved) + 1
<1>0. TypeOK /\ TurnOK /\ ResultsOK /\ ReceiptsOK
  BY DEF RunsOK
<1>1. /\ n \in Nat /\ n # 0 /\ n \in 1..MaxApprovals /\ n \notin DOMAIN approved
      /\ DOMAIN approved \subseteq 1..n /\ DOMAIN approved = 1..(n - 1)
  BY <1>0, NextReference, Settings DEF Approve
<1>2. /\ turn = 0 /\ call["tool"] = Idle
      /\ approved' = [r \in 1..n |-> IF r = n THEN proposal ELSE approved[r]]
      /\ slot' = n
      /\ \/ recorded /\ turn' = n /\ UNCHANGED budget
         \/ ~recorded /\ turn' = 0 /\ Spent("faults", MaxFaults)
      /\ UNCHANGED <<results, receipts, clock, google, token, call, provider>>
  BY DEF Approve, Record
<1> HIDE DEF n
<1>3. approved' \in [1..n -> Proposals] /\ DOMAIN approved' = 1..n
  <2>1. \A r \in 1..n : r # n => r \in DOMAIN approved
    BY <1>1
  <2>2. \A r \in DOMAIN approved : approved[r] \in Proposals
    BY <1>0 DEF TypeOK
  <2> QED
    BY <1>2, <2>1, <2>2
<1>4. /\ \A r \in DOMAIN approved : r \in DOMAIN approved' /\ approved'[r] = approved[r]
      /\ \A r \in DOMAIN approved : Item(r)' = Item(r) /\ r # n
  BY <1>1, <1>2, <1>3 DEF Item
<1>5. TypeOK'
  <2>1. budget' \in [Bounded -> Nat]
    BY <1>0, <1>2, SpentType DEF Bounded, TypeOK
  <2>2. n \in 0..MaxApprovals
    BY <1>1
  <2> QED
    BY <1>0, <1>1, <1>2, <1>3, <2>1, <2>2 DEF TypeOK, google, provider
<1>6. made[n] = 0 /\ DOMAIN made = 1..MaxApprovals
  BY <1>0, <1>1 DEF TurnOK, TypeOK
<1>7. TurnOK'
  BY <1>0, <1>1, <1>2, <1>3, <1>6 DEF TurnOK, google
<1>8. ResultsOK'
  BY <1>0, <1>1, <1>2, <1>4, NextReference DEF ResultsOK, google
<1>9. ReceiptsOK'
  BY <1>0, <1>2, <1>4 DEF ReceiptsOK, google
<1> QED
  BY <1>5, <1>7, <1>8, <1>9 DEF RunsOK

LEMMA RunKeeps ==
  ASSUME RunsOK, Run
  PROVE  RunsOK'
<1>0. TypeOK /\ TurnOK
  BY DEF RunsOK
<1>1. slot = turn /\ turn # 0 /\ turn \in Nat
  BY <1>0 DEF TurnOK, TypeOK, Run
<1> DEFINE request == [at |-> "token", tries |-> 1, token |-> None, reference |-> turn]
<1>2. request \in ToolCall /\ request # Idle /\ request.reference = turn
  BY <1>1 DEF ToolCall, None, Idle
<1>3. call' = [call EXCEPT !["tool"] = request]
  BY <1>1 DEF Run
<1> HIDE DEF request
<1>4. /\ call' \in [Callers -> {Idle} \cup LoopCall \cup ToolCall]
      /\ call'["tool"] = request /\ call'["loop"] = call["loop"]
  BY <1>0, <1>2, <1>3 DEF TypeOK, Callers
<1>5. TypeOK'
  BY <1>0, <1>2, <1>4 DEF TypeOK, Run, google, provider
<1>6. TurnOK'
  BY <1>0, <1>1, <1>2, <1>4 DEF TurnOK, Run, google
<1>7. \A r : Item(r)' = Item(r)
  BY DEF Run, Item
<1> QED
  BY <1>5, <1>6, <1>7 DEF RunsOK, ResultsOK, ReceiptsOK, Run, google

LEMMA LoadType ==
  ASSUME TypeOK, NEW on \in BOOLEAN
  PROVE  Load(on) \in Snapshot
<1>1. NoSnapshot \in Snapshot
  BY DEF NoSnapshot, Snapshot
<1>2. file \in Snapshot
  BY DEF TypeOK
<1> QED
  BY <1>1, <1>2 DEF Load, Snapshot

\* What only the end of a run may touch, and what a restart forgets.
LEMMA RestartKeeps ==
  ASSUME RunsOK, NEW on \in BOOLEAN, Restart(on)
  PROVE  RunsOK'
<1>0. TypeOK /\ TurnOK /\ ResultsOK /\ ReceiptsOK
  BY DEF RunsOK
<1>1. /\ budget' \in [Bounded -> Nat] /\ snapshot' \in Snapshot
      /\ call' = [c \in Callers |-> Idle] /\ slot' = None /\ turn' = 0 /\ token' = None
      /\ holding' = on /\ due' = clock
      /\ UNCHANGED <<clock, gone, revoked, file, approved, results, receipts>>
  BY <1>0, SpentType, LoadType DEF Restart, Bounded
<1>2. CASE UNCHANGED <<calendar, made>>
  <2>1. TypeOK'
    BY <1>0, <1>1, <1>2 DEF TypeOK, Callers
  <2>2. TurnOK'
    BY <1>0, <1>1, <1>2 DEF TurnOK, Callers
  <2>3. ResultsOK' /\ ReceiptsOK'
    <3>1. \A r : Item(r)' = Item(r)
      BY <1>1 DEF Item
    <3>2. \A r \in DOMAIN approved : r # 0
      BY <1>0, NextReference
    <3> QED
      BY <1>0, <1>1, <1>2, <3>1, <3>2 DEF ResultsOK, ReceiptsOK
  <2> QED
    BY <2>1, <2>2, <2>3 DEF RunsOK
<1>3. CASE Answered("tool") /\ Insert(Item(turn))
  <2>1. turn # 0 /\ turn \in DOMAIN approved
    BY <1>0, <1>3, AnsweredIsRun, NextReference
  <2> DEFINE ended == [call EXCEPT !["tool"] = Idle]
  <2>2. /\ DOMAIN calendar' \subseteq Event /\ calendar' \in [DOMAIN calendar' -> Int]
        /\ made' \in [1..MaxApprovals -> Nat]
        /\ turn \in DOMAIN made /\ made[turn] = 0 /\ made'[turn] = 1
        /\ \A r \in DOMAIN made : r # turn => made'[r] = made[r]
    BY <1>0, <1>3, <2>1, OutcomeMoves DEF Outcome
  <2>3. TypeOK'
    BY <1>0, <1>1, <2>2 DEF TypeOK, Callers
  <2>4. DOMAIN made = 1..MaxApprovals /\ DOMAIN made' = DOMAIN made /\ DOMAIN approved \subseteq DOMAIN made
    BY <1>0, <2>2, NextReference DEF TypeOK
  <2>5. TurnOK'
    <3>1. ASSUME NEW r \in DOMAIN made'
          PROVE  made'[r] <= 1 /\ (r \notin DOMAIN approved => made'[r] = 0)
      <4>1. made[r] <= 1 /\ (r \notin DOMAIN approved => made[r] = 0)
        BY <1>0, <2>4, <3>1 DEF TurnOK
      <4> QED
        BY <2>1, <2>2, <2>4, <3>1, <4>1
    <3> QED
      BY <1>1, <3>1 DEF TurnOK, Callers
  <2>6. ResultsOK'
    BY <1>0, <1>1, <2>2, <2>4, NextReference DEF ResultsOK
  <2>7. ReceiptsOK'
    <3>1. \A r : Item(r)' = Item(r)
      BY <1>1 DEF Item
    <3>2. \A r \in DOMAIN approved : made[r] > 0 => made'[r] > 0
      BY <2>2, <2>4
    <3> QED
      BY <1>0, <1>1, <3>1, <3>2 DEF ReceiptsOK
  <2> QED
    BY <2>3, <2>5, <2>6, <2>7 DEF RunsOK
<1> QED
  BY <1>2, <1>3 DEF Restart, Abandoned

\* The other actions leave the tool's own state alone.
Around ==
  \/ \E item \in OwnerItems : Add(item)
  \/ \E item \in DOMAIN calendar : Remove(item)
  \/ Revoke \/ Tick
  \/ \E c \in Callers : ClientStep(c)
Provide == StartRefresh \/ RefreshFailed \/ Damage \/ \E written \in BOOLEAN : RefreshDone(written)

LEMMA OthersKeep ==
  ASSUME RunsOK, Around \/ Provide
  PROVE  RunsOK'
<1>0. TypeOK /\ TurnOK
  BY DEF RunsOK
<1>1. TypeOK'
  BY <1>0, TypeAround, TypeProvider DEF Around, Provide
<1>2. UNCHANGED <<made, tool>>
  BY DEF Around, Provide, Add, Remove, Revoke, Tick, ClientStep, SignIn, TryAgain, Token, google,
     StartRefresh, RefreshFailed, Damage, RefreshDone
<1>3. /\ call'["tool"] = Idle <=> call["tool"] = Idle
      /\ call["tool"] # Idle => call'["tool"].reference = call["tool"].reference
  <2>1. CASE \E c \in Callers : ClientStep(c)
    BY <1>0, <2>1, ClientKeeps
  <2>2. CASE ~\E c \in Callers : ClientStep(c)
    <3>1. call'["tool"] = call["tool"]
      BY <1>0, <2>2 DEF Around, Provide, Add, Remove, Revoke, Tick, StartRefresh, RefreshFailed,
         Damage, RefreshDone, Rested, TypeOK, Callers
    <3> QED
      BY <3>1
  <2> QED
    BY <2>1, <2>2
<1>4. \A r : Item(r)' = Item(r)
  BY <1>2 DEF Item, tool
<1> QED
  BY <1>0, <1>1, <1>2, <1>3, <1>4 DEF RunsOK, TurnOK, ResultsOK, ReceiptsOK, tool

LEMMA Runs == Spec => []RunsOK
<1>1. RunsOK /\ [Next]_vars => RunsOK'
  <2> SUFFICES ASSUME RunsOK, [Next]_vars PROVE RunsOK'
    OBVIOUS
  <2>1. CASE UNCHANGED vars
    <3>1. \A r : Item(r)' = Item(r)
      BY <2>1 DEF Item, vars, tool
    <3> QED
      BY <2>1, <3>1 DEF RunsOK, TypeOK, TurnOK, ResultsOK, ReceiptsOK, vars, google, provider, tool
  <2>2. CASE Around \/ Provide
    BY <2>2, OthersKeep
  <2>3. CASE Next /\ ~(Around \/ Provide)
    <3>1. \/ \E proposal \in Proposals, recorded \in BOOLEAN : Approve(proposal, recorded)
          \/ TurnDies \/ Submit
          \/ \E on \in BOOLEAN : Restart(on)
      BY <2>3 DEF Next, Around, Provide, ClientStep
    <3> QED
      BY <3>1, ApproveKeeps, EndsKeep, RunKeeps, RestartKeeps DEF Submit
  <2> QED
    BY <2>1, <2>2, <2>3
<1> QED
  BY <1>1, InitRuns, PTL DEF Spec

\* Every variable of the calendar, the client and the tool keeps its type.
THEOREM TypeCorrect == Spec => []TypeOK
<1>1. RunsOK => TypeOK
  BY DEF RunsOK
<1> QED
  BY <1>1, Runs, PTL

\* What the owner is told of a creation is so, whatever becomes of the request
\* and of its answer: a run is over when it is told, and only a run inserts
\* (tools/calendar.py _insert_failure).
THEOREM ResultsAlwaysTrue == Spec => []ResultsAreTrue
<1>1. RunsOK => ResultsAreTrue
  BY DEF RunsOK, ResultsOK, TurnOK, ResultsAreTrue
<1> QED
  BY <1>1, Runs, PTL

\* A calendar record names the approval whose arguments were written: a run has
\* its own approval's reference, whatever a turn that died left in the slot
\* (tools/calendar.py ApprovalReferences).
THEOREM ReceiptsAlwaysTell == Spec => []ReceiptsTellTheWrite
<1>1. RunsOK => ReceiptsTellTheWrite
  <2> SUFFICES ASSUME RunsOK PROVE ReceiptsTellTheWrite
    OBVIOUS
  <2>1. TypeOK /\ ReceiptsOK
    BY DEF RunsOK
  <2>2. \A r \in receipts : r = [reference |-> r.reference, item |-> Item(r.reference)]
    BY <2>1 DEF TypeOK, ReceiptsOK
  <2>3. \A r \in receipts : r.item = Item(r.reference) /\ made[r.item.id] > 0
    BY <2>1 DEF ReceiptsOK, Item
  <2> QED
    BY <2>2, <2>3 DEF ReceiptsTellTheWrite
<1> QED
  BY <1>1, Runs, PTL

-----------------------------------------------------------------------------
(* The snapshot and the calendar *)

\* It is no older than a snapshot may be.
Fresh(s) == s.read >= 0 /\ clock - s.read <= Stale

\* What a fresh snapshot has was allowed, and was on the calendar since its read;
Planned(s) ==
  Fresh(s) => \A w \in s.windows :
    /\ Admit(w)
    /\ w \in DOMAIN calendar \/ \E g \in gone : g.item = w /\ g.at >= s.read

\* and a fresh one read to hold alerts has what was on the calendar before its read.
Complete(s) ==
  Fresh(s) => \A i \in DOMAIN calendar :
    /\ Admit(i) /\ Holds(i, TRUE)
    /\ calendar[i] < s.read
    /\ i.end > s.read - (MaxWindow + Grace) /\ i.start < s.read + Lookahead
    => i \in s.windows

SnapshotOK ==
  /\ snapshot.read <= clock /\ file.read <= clock /\ \A g \in gone : g.at <= clock
  /\ call["loop"] # Idle => call["loop"].now <= clock
  /\ \A w \in snapshot.windows : Holds(w, holding)
  /\ Planned(snapshot) /\ Planned(file)
  /\ snapshot.under /\ holding => Complete(snapshot)
  /\ file.under => Complete(file)

LEMMA InitSnapshot == Init => SnapshotOK
BY DEF Init, SnapshotOK, NoSnapshot, Planned, Complete, Fresh, Callers

\* What Google's side may do while nothing is read: events come, dated now; they
\* leave a trace when they go; and what no property looks back to is forgotten.
Moved ==
  /\ clock' = clock \/ clock' = clock + 1
  /\ \A i \in DOMAIN calendar :
       i \in DOMAIN calendar' \/ \E g \in gone' : g.item = i /\ g.at >= clock
  /\ \A i \in DOMAIN calendar' :
       \/ i \in DOMAIN calendar /\ calendar'[i] >= calendar[i]
       \/ calendar'[i] >= clock
  /\ \A g \in gone : \/ g.at < clock' - Stale
                     \/ \E h \in gone' : h.item = g.item /\ h.at >= g.at

LEMMA MovedKeeps ==
  ASSUME TypeOK, TypeOK', Moved, NEW s \in Snapshot, s.read <= clock
  PROVE  /\ Planned(s) => Planned(s)'
         /\ Complete(s) => Complete(s)'
<1>1. /\ clock \in Nat /\ clock' \in Nat /\ Stale \in Nat /\ s.read \in Int
      /\ \A g \in gone \cup gone' : g.at \in Nat
      /\ \A i \in DOMAIN calendar : calendar[i] \in Int
      /\ \A i \in DOMAIN calendar' : calendar'[i] \in Int
      /\ clock <= clock'
  <2>1. clock \in Nat /\ \A g \in gone : g.at \in Nat
    BY DEF TypeOK
  <2>2. clock' \in Nat /\ \A g \in gone' : g.at \in Nat
    BY DEF TypeOK
  <2>3. \A i \in DOMAIN calendar : calendar[i] \in Int
    BY DEF TypeOK
  <2>4. \A i \in DOMAIN calendar' : calendar'[i] \in Int
    BY DEF TypeOK
  <2>5. Stale \in Nat /\ s.read \in Int
    BY Settings DEF Snapshot
  <2> QED
    BY <2>1, <2>2, <2>3, <2>4, <2>5 DEF Moved
<1>2. Fresh(s)' => Fresh(s)
  BY <1>1 DEF Fresh
<1>3. ASSUME Planned(s), Fresh(s)', NEW w \in s.windows
      PROVE  Admit(w) /\ (w \in DOMAIN calendar' \/ \E g \in gone' : g.item = w /\ g.at >= s.read)
  <2>1. Admit(w) /\ (w \in DOMAIN calendar \/ \E g \in gone : g.item = w /\ g.at >= s.read)
    BY <1>2, <1>3 DEF Planned
  <2>2. CASE w \in DOMAIN calendar
    BY <1>1, <2>1, <2>2 DEF Moved
  <2>3. ASSUME NEW g \in gone, g.item = w, g.at >= s.read
        PROVE  \E h \in gone' : h.item = w /\ h.at >= s.read
    <3>1. g.at >= clock' - Stale
      BY <1>1, <1>3, <2>3 DEF Fresh
    <3>2. PICK h \in gone' : h.item = g.item /\ h.at >= g.at
      BY <1>1, <3>1 DEF Moved
    <3> QED
      BY <1>1, <2>3, <3>2
  <2> QED
    BY <2>1, <2>2, <2>3
<1>4. ASSUME Complete(s), Fresh(s)', NEW i \in DOMAIN calendar', calendar'[i] < s.read
      PROVE  i \in DOMAIN calendar /\ calendar[i] < s.read
  BY <1>1, <1>4 DEF Moved
<1>5. Planned(s) => Planned(s)'
  BY <1>3 DEF Planned
<1>6. Complete(s) => Complete(s)'
  BY <1>2, <1>4 DEF Complete
<1> QED
  BY <1>5, <1>6

\* What an insert, or none, does to the calendar is such a move.
LEMMA OutcomeIsMoved ==
  ASSUME TypeOK, NEW r \in DOMAIN approved, Outcome(r), UNCHANGED <<clock, gone>>
  PROVE  Moved
<1>1. /\ clock \in Nat /\ \A i \in DOMAIN calendar : calendar[i] \in Int
      /\ \A g \in gone : g.at \in Nat
  BY DEF TypeOK
<1>2. CASE UNCHANGED <<calendar, made>>
  BY <1>1, <1>2 DEF Moved
<1>3. CASE Insert(Item(r))
  <2>1. /\ DOMAIN calendar' = DOMAIN calendar \cup {Item(r)}
        /\ \A i \in DOMAIN calendar : calendar'[i] = calendar[i] \/ calendar'[i] = clock
        /\ calendar'[Item(r)] = clock
    BY <1>3, InsertMoves
  <2> HIDE DEF Item
  <2> QED
    BY <1>1, <2>1 DEF Moved
<1> QED
  BY <1>2, <1>3 DEF Outcome

\* Every step but the end of a refresh moves Google's side so.
LEMMA StepsMove ==
  ASSUME RunsOK, SnapshotOK, [Next]_vars
  PROVE  Moved
<1>0. TypeOK /\ TurnOK
  BY DEF RunsOK
<1>1. /\ clock \in Nat /\ Stale \in Nat /\ \A i \in DOMAIN calendar : calendar[i] \in Int
      /\ \A g \in gone : g.at \in Nat /\ g.at <= clock
  BY <1>0, Settings DEF TypeOK, SnapshotOK
<1>2. ASSUME UNCHANGED <<clock, calendar, gone>> PROVE Moved
  BY <1>1, <1>2 DEF Moved
<1>3. ASSUME NEW item, Add(item) PROVE Moved
  BY <1>1, <1>3 DEF Add, Placed, Moved
<1>4. ASSUME NEW item, Remove(item) PROVE Moved
  <2>1. /\ UNCHANGED clock
        /\ calendar' = [i \in DOMAIN calendar \ {item} |-> calendar[i]]
        /\ gone' = {g \in gone : g.item # item} \cup {[item |-> item, at |-> clock]}
    BY <1>4 DEF Remove, Without, Left
  <2> DEFINE trace == [item |-> item, at |-> clock]
  <2>2. trace \in gone' /\ trace.item = item /\ trace.at = clock
    BY <2>1
  <2> HIDE DEF trace
  <2>3. ASSUME NEW g \in gone PROVE \E h \in gone' : h.item = g.item /\ h.at >= g.at
    <3>1. CASE g.item = item
      BY <1>1, <2>2, <3>1
    <3>2. CASE g.item # item
      <4>1. g \in gone' /\ g.at >= g.at
        BY <1>1, <2>1, <3>2
      <4> QED
        BY <4>1
    <3> QED
      BY <3>1, <3>2
  <2>4. \A i \in DOMAIN calendar : i \in DOMAIN calendar' \/ \E g \in gone' : g.item = i /\ g.at >= clock
    <3>1. DOMAIN calendar' = DOMAIN calendar \ {item} /\ trace.at >= clock
      BY <1>1, <2>1, <2>2
    <3> QED
      BY <2>2, <3>1
  <2>5. \A i \in DOMAIN calendar' : i \in DOMAIN calendar /\ calendar'[i] >= calendar[i]
    BY <1>1, <2>1
  <2> QED
    BY <1>1, <2>1, <2>3, <2>4, <2>5 DEF Moved
<1>5. CASE Tick
  <2>1. /\ clock' = clock + 1
        /\ calendar' = [i \in DOMAIN calendar |-> Later(calendar[i], clock - Stale - 1)]
        /\ gone' = {g \in gone : g.at >= clock - Stale}
    BY <1>5 DEF Tick
  <2> QED
    BY <1>1, <2>1 DEF Moved, Later
<1>6. ASSUME turn # 0, Outcome(turn), UNCHANGED <<clock, gone>> PROVE Moved
  BY <1>0, <1>6, OutcomeIsMoved DEF TurnOK
<1>7. ASSUME Answered("tool") PROVE turn # 0
  BY <1>0, <1>7, AnsweredIsRun, NextReference
<1>8. CASE UNCHANGED vars \/ Revoke \/ Run \/ Refuse \/ Provide
           \/ (\E c \in Callers : ClientStep(c))
           \/ (\E proposal \in Proposals, recorded \in BOOLEAN : Approve(proposal, recorded))
  <2>1. UNCHANGED <<clock, calendar, gone>>
    BY <1>8 DEF vars, google, Revoke, Run, Refuse, Provide, StartRefresh, RefreshFailed, Damage,
       RefreshDone, ClientStep, SignIn, TryAgain, Token, Approve
  <2> QED
    BY <1>2, <2>1
<1>9. CASE TurnDies \/ (\E written \in BOOLEAN : Created(written))
           \/ (\E status \in {0, 400, 401, 403, 500} : NotCreated(status))
           \/ (\E on \in BOOLEAN : Restart(on))
  <2>1. UNCHANGED <<clock, gone>>
    BY <1>9 DEF TurnDies, Created, NotCreated, Restart
  <2>2. UNCHANGED <<calendar, made>> \/ (Answered("tool") /\ Insert(Item(turn)))
    BY <1>9 DEF TurnDies, Created, NotCreated, Restart, Abandoned
  <2>3. UNCHANGED calendar \/ (turn # 0 /\ Outcome(turn))
    BY <1>7, <2>2 DEF Outcome
  <2> QED
    BY <1>2, <1>6, <2>1, <2>3
<1> QED
  BY <1>3, <1>4, <1>5, <1>8, <1>9 DEF Next, Submit, Provide, ClientStep

\* A refresh that ends has read what is there, and a failed one changes nothing.
LEMMA RefreshKeeps ==
  ASSUME RunsOK, SnapshotOK, NEW written \in BOOLEAN, RefreshDone(written)
  PROVE  SnapshotOK'
<1> DEFINE now == call["loop"].now
<1>0. TypeOK
  BY DEF RunsOK
<1>1. /\ now \in Nat /\ Fetched(now) \in Snapshot
      /\ Fetched(now).read = now /\ Fetched(now).under = holding
      /\ Fetched(now).windows =
           {i \in DOMAIN calendar : /\ i.end > now - (MaxWindow + Grace)
                                    /\ i.start < now + Lookahead
                                    /\ Admit(i) /\ Holds(i, holding)}
  BY <1>0, FetchedIs DEF RefreshDone
<1>2. /\ snapshot' = Fetched(now)
      /\ file' = snapshot' \/ file' = file
      /\ UNCHANGED <<clock, calendar, gone, holding>>
      /\ call'["loop"] = Idle /\ call["loop"] # Idle
  BY <1>0, CallFields DEF RefreshDone, google, Rested, TypeOK, Callers, Answered
<1>3. now <= clock
  BY <1>2 DEF SnapshotOK
<1>4. \A w \in snapshot'.windows : Holds(w, holding)
  BY <1>1, <1>2
<1>5. Planned(snapshot)'
  BY <1>1, <1>2 DEF Planned
<1>6. (snapshot.under)' => Complete(snapshot)'
  <2>1. SUFFICES ASSUME holding PROVE Complete(snapshot)'
    BY <1>1, <1>2
  <2>2. holding = TRUE
    BY <1>0, <2>1 DEF TypeOK
  <2> QED
    BY <1>1, <1>2, <2>2 DEF Complete
<1>7. Planned(file)' /\ ((file.under)' => Complete(file)')
  <2>1. CASE file' = snapshot'
    BY <1>5, <1>6, <2>1 DEF Planned, Complete, Fresh
  <2>2. CASE file' = file
    BY <1>2, <2>2 DEF SnapshotOK, Planned, Complete, Fresh
  <2> QED
    BY <1>2, <2>1, <2>2
<1>8. snapshot'.read <= clock' /\ file'.read <= clock' /\ \A g \in gone' : g.at <= clock'
  BY <1>1, <1>2, <1>3 DEF SnapshotOK
<1> QED
  BY <1>2, <1>4, <1>5, <1>6, <1>7, <1>8 DEF SnapshotOK

\* A loaded snapshot is no worse than its file.
LEMMA LoadKeeps ==
  ASSUME RunsOK, SnapshotOK, NEW on \in BOOLEAN
  PROVE  /\ Load(on).read <= clock /\ \A w \in Load(on).windows : Holds(w, on)
         /\ Planned(Load(on))
         /\ Load(on).under /\ on => Complete(Load(on))
<1>0. TypeOK /\ file \in Snapshot /\ file.read <= clock
  BY DEF RunsOK, TypeOK, SnapshotOK
<1>1. CASE file.read < 0
  <2>1. Load(on) = NoSnapshot
    BY <1>1 DEF Load
  <2> QED
    BY <1>0, <2>1 DEF NoSnapshot, Planned, Complete, Fresh, TypeOK
<1>2. CASE ~(file.read < 0)
  <2>1. /\ Load(on).read = file.read /\ Load(on).under = file.under
        /\ Load(on).windows = {w \in file.windows : Holds(w, on)}
    BY <1>0, <1>2 DEF Load, Snapshot
  <2>2. Planned(file) /\ (file.under => Complete(file))
    BY DEF SnapshotOK
  <2>3. Planned(Load(on))
    BY <2>1, <2>2 DEF Planned, Fresh
  <2>4. on => on = TRUE
    OBVIOUS
  <2>5. Load(on).under /\ on => Complete(Load(on))
    BY <2>1, <2>2, <2>4 DEF Complete, Fresh
  <2> QED
    BY <1>0, <2>1, <2>3, <2>5
<1> QED
  BY <1>1, <1>2

\* Traces and reads are never from the future.
LEMMA PastKeeps ==
  ASSUME RunsOK, RunsOK', SnapshotOK, [Next]_vars
  PROVE  /\ clock <= clock'
         /\ \A g \in gone' : g.at <= clock'
         /\ call'["loop"] # Idle => call'["loop"].now <= clock'
<1>0. TypeOK /\ clock \in Nat /\ (\A g \in gone : g.at \in Nat /\ g.at <= clock)
  BY DEF RunsOK, TypeOK, SnapshotOK
<1>1. clock' = clock \/ clock' = clock + 1
  BY StepsMove DEF Moved
<1>2. \A g \in gone' : g.at <= clock'
  <2>1. CASE UNCHANGED gone
    BY <1>0, <1>1, <2>1
  <2>2. ASSUME NEW item, Remove(item) PROVE \A g \in gone' : g.at <= clock'
    BY <1>0, <2>2 DEF Remove, Left
  <2>3. CASE Tick
    BY <1>0, <2>3 DEF Tick
  <2> QED
    BY <2>1, <2>2, <2>3 DEF Next, Submit, vars, google, Revoke, Run, Refuse, StartRefresh, RefreshFailed,
       Damage, RefreshDone, SignIn, TryAgain, Token, Approve, TurnDies, Created, NotCreated, Restart, Add
<1>3. call["loop"] # Idle => call["loop"] \in LoopCall /\ call["loop"].now \in Nat /\ call["loop"].now <= clock
  BY <1>0, CallFields DEF SnapshotOK, LoopCall
<1>4. \/ call'["loop"] = Idle
      \/ call'["loop"] = call["loop"]
      \/ call["loop"] # Idle /\ call'["loop"].now = call["loop"].now
      \/ call'["loop"] = [at |-> "token", tries |-> 1, token |-> None, now |-> clock]
  <2>1. ASSUME NEW c \in Callers, ClientStep(c)
        PROVE  \/ call'["loop"] = Idle
               \/ call["loop"] # Idle /\ call'["loop"].now = call["loop"].now
    BY <1>0, <2>1, ClientKeeps
  <2>2. CASE StartRefresh
    BY <1>0, <2>2 DEF StartRefresh, TypeOK, Callers
  <2>3. CASE RefreshFailed \/ \E written \in BOOLEAN : RefreshDone(written)
    BY <1>0, <2>3 DEF RefreshFailed, RefreshDone, Rested, TypeOK, Callers
  <2>4. CASE \/ UNCHANGED vars \/ Revoke \/ Tick \/ Damage
             \/ (\E item \in OwnerItems : Add(item)) \/ (\E item \in DOMAIN calendar : Remove(item))
             \/ (\E proposal \in Proposals, recorded \in BOOLEAN : Approve(proposal, recorded))
    BY <2>4 DEF vars, Revoke, Tick, Damage, Add, Remove, Approve
  <2>5. CASE TurnDies \/ Submit
    <3>1. CASE Run
      BY <1>0, <3>1 DEF Run, TypeOK, Callers
    <3>2. ASSUME call' = [call EXCEPT !["tool"] = Idle] PROVE call'["loop"] = call["loop"]
      BY <1>0, <3>2 DEF TypeOK, Callers
    <3>3. TurnDies \/ (Submit /\ ~Run) => call' = [call EXCEPT !["tool"] = Idle]
      BY DEF TurnDies, Submit, Refuse, Created, NotCreated, Answer
    <3> QED
      BY <2>5, <3>1, <3>2, <3>3
  <2>6. CASE \E on \in BOOLEAN : Restart(on)
    BY <2>6 DEF Restart, Callers
  <2> QED
    BY <2>1, <2>2, <2>3, <2>4, <2>5, <2>6 DEF Next, ClientStep
<1> QED
  BY <1>0, <1>1, <1>2, <1>3, <1>4

LEMMA SnapshotStep ==
  ASSUME RunsOK, RunsOK', SnapshotOK, [Next]_vars
  PROVE  SnapshotOK'
<1>0. /\ TypeOK /\ TypeOK' /\ snapshot \in Snapshot /\ file \in Snapshot
      /\ clock \in Nat /\ clock' \in Nat /\ snapshot.read \in Int /\ file.read \in Int
      /\ snapshot.read <= clock /\ file.read <= clock
  BY DEF RunsOK, SnapshotOK, TypeOK, Snapshot
<1>1. /\ clock <= clock'
      /\ \A g \in gone' : g.at <= clock'
      /\ call'["loop"] # Idle => call'["loop"].now <= clock'
  BY PastKeeps
<1>2. Moved
  BY StepsMove
<1>3. /\ \A s \in Snapshot : s.read <= clock => (Planned(s) => Planned(s)')
      /\ \A s \in Snapshot : s.read <= clock => (Complete(s) => Complete(s)')
  BY <1>0, <1>2, MovedKeeps
<1>10. ASSUME NEW s \in Snapshot, s.read <= clock, s = file'
       PROVE  (Planned(s) => Planned(file)') /\ (Complete(s) => Complete(file)')
  <2>1. (Planned(s) => Planned(s)') /\ (Complete(s) => Complete(s)')
    BY <1>3, <1>10
  <2>2. (Planned(s)' <=> Planned(file)') /\ (Complete(s)' <=> Complete(file)')
    BY <1>10 DEF Planned, Complete, Fresh
  <2> QED
    BY <2>1, <2>2
<1>11. ASSUME NEW s \in Snapshot, s.read <= clock, s = snapshot'
       PROVE  (Planned(s) => Planned(snapshot)') /\ (Complete(s) => Complete(snapshot)')
  <2>1. (Planned(s) => Planned(s)') /\ (Complete(s) => Complete(s)')
    BY <1>3, <1>11
  <2>2. (Planned(s)' <=> Planned(snapshot)') /\ (Complete(s)' <=> Complete(snapshot)')
    BY <1>11 DEF Planned, Complete, Fresh
  <2> QED
    BY <2>1, <2>2
<1>4. UNCHANGED file => /\ file'.read <= clock' /\ Planned(file)'
                        /\ (file.under)' => Complete(file)'
  <2> SUFFICES ASSUME UNCHANGED file
               PROVE  file'.read <= clock' /\ Planned(file)' /\ ((file.under)' => Complete(file)')
    OBVIOUS
  <2>1. (Planned(file) => Planned(file)') /\ (Complete(file) => Complete(file)')
    <3>1. PICK s \in Snapshot : s = file
      BY <1>0
    <3> QED
      BY <1>0, <1>10, <3>1
  <2>2. Planned(file) /\ (file.under => Complete(file))
    BY DEF SnapshotOK
  <2> QED
    BY <1>0, <1>1, <2>1, <2>2
<1>5. UNCHANGED <<snapshot, holding>> =>
        /\ snapshot'.read <= clock' /\ \A w \in snapshot'.windows : Holds(w, holding')
        /\ Planned(snapshot)'
        /\ (snapshot.under)' /\ holding' => Complete(snapshot)'
  <2> SUFFICES ASSUME UNCHANGED <<snapshot, holding>>
               PROVE  /\ snapshot'.read <= clock' /\ \A w \in snapshot'.windows : Holds(w, holding')
                      /\ Planned(snapshot)'
                      /\ (snapshot.under)' /\ holding' => Complete(snapshot)'
    OBVIOUS
  <2>1. (Planned(snapshot) => Planned(snapshot)') /\ (Complete(snapshot) => Complete(snapshot)')
    <3>1. PICK s \in Snapshot : s = snapshot
      BY <1>0
    <3> QED
      BY <1>0, <1>11, <3>1
  <2>2. /\ Planned(snapshot) /\ (snapshot.under /\ holding => Complete(snapshot))
        /\ \A w \in snapshot.windows : Holds(w, holding)
    BY DEF SnapshotOK
  <2> QED
    BY <1>0, <1>1, <2>1, <2>2
<1>6. CASE UNCHANGED <<snapshot, holding, file>>
  BY <1>1, <1>4, <1>5, <1>6 DEF SnapshotOK
<1>7. CASE \E written \in BOOLEAN : RefreshDone(written)
  BY <1>7, RefreshKeeps
<1>8. CASE Damage
  <2>1. UNCHANGED <<snapshot, holding>> /\ file' = Damaged
    BY <1>8 DEF Damage
  <2>2. file'.read = -2
    BY <2>1 DEF Damaged
  <2>3. file'.read <= clock' /\ Planned(file)' /\ Complete(file)'
    BY <1>0, <2>2 DEF Planned, Complete, Fresh
  <2> QED
    BY <1>1, <1>5, <2>1, <2>3 DEF SnapshotOK
<1>9. ASSUME NEW on \in BOOLEAN, Restart(on) PROVE SnapshotOK'
  <2>1. snapshot' = Load(on) /\ holding' = on /\ UNCHANGED file
    BY <1>9 DEF Restart
  <2>2. Load(on) \in Snapshot
    BY <1>0, LoadType
  <2>3. /\ Load(on).read <= clock /\ \A w \in Load(on).windows : Holds(w, on)
        /\ Planned(Load(on))
        /\ Load(on).under /\ on => Complete(Load(on))
    BY LoadKeeps
  <2>4. (Planned(Load(on)) => Planned(snapshot)') /\ (Complete(Load(on)) => Complete(snapshot)')
    <3>1. PICK s \in Snapshot : s = Load(on)
      BY <2>2
    <3>2. (Planned(s) => Planned(snapshot)') /\ (Complete(s) => Complete(snapshot)')
      BY <1>11, <2>1, <2>3, <3>1
    <3> QED
      BY <3>1, <3>2
  <2>5. Load(on).read \in Int
    BY <2>2 DEF Snapshot
  <2> QED
    BY <1>0, <1>1, <1>4, <2>1, <2>3, <2>4, <2>5 DEF SnapshotOK
<1>12. CASE \/ \E item \in OwnerItems : Add(item)
            \/ \E item \in DOMAIN calendar : Remove(item)
            \/ Revoke \/ Tick
            \/ \E c \in Callers : SignIn(c) \/ TryAgain(c)
                                  \/ \E expiring \in BOOLEAN : Token(c, expiring)
  <2>1. UNCHANGED provider
    BY <1>12, Zenon DEF Add, Remove, Revoke, Tick, SignIn, TryAgain, Token
  <2> QED
    BY <1>6, <2>1 DEF provider
<1>13. CASE StartRefresh \/ RefreshFailed
  <2>1. UNCHANGED <<snapshot, holding, file>>
    BY <1>13 DEF StartRefresh, RefreshFailed, Kept, provider
  <2> QED
    BY <1>6, <2>1
<1>14. CASE (\E proposal \in Proposals, recorded \in BOOLEAN : Approve(proposal, recorded)) \/ TurnDies
  <2>1. UNCHANGED provider
    BY <1>14, Zenon DEF Approve, TurnDies
  <2> QED
    BY <1>6, <2>1 DEF provider
<1>15. CASE Submit
  <2>1. UNCHANGED provider
    BY <1>15, Zenon DEF Submit, Run, Refuse, Created, NotCreated
  <2> QED
    BY <1>6, <2>1 DEF provider
<1>16. CASE UNCHANGED vars
  BY <1>6, <1>16 DEF vars, provider
<1> QED
  BY <1>7, <1>8, <1>9, <1>12, <1>13, <1>14, <1>15, <1>16, Zenon DEF Next

LEMMA Snapshots == Spec => []SnapshotOK
<1>1. RunsOK /\ RunsOK' /\ SnapshotOK /\ [Next]_vars => SnapshotOK'
  BY SnapshotStep
<1> QED
  BY <1>1, InitSnapshot, Runs, PTL DEF Spec

\* What holds alerts now was planned by somebody allowed to, and was on the
\* calendar no longer ago than a snapshot may be old, through failed refreshes,
\* restarts and a changed configuration (windows.py refresh, load, _usable).
THEOREM HeldWasAlwaysPlanned == Spec => []HeldWasPlanned
<1>1. RunsOK /\ SnapshotOK => HeldWasPlanned
  <2> SUFFICES ASSUME RunsOK, SnapshotOK, NEW w \in Active
               PROVE  /\ Admit(w) /\ Holds(w, holding)
                      /\ w \in DOMAIN calendar \/ \E g \in gone : g.item = w /\ g.at >= clock - Stale
    BY DEF HeldWasPlanned
  <2>1. /\ clock \in Nat /\ snapshot.read \in Int /\ Stale \in Nat
        /\ \A g \in gone : g.at \in Nat
    BY Settings DEF RunsOK, TypeOK, Snapshot
  <2>2. w \in snapshot.windows /\ Fresh(snapshot)
    BY <2>1 DEF Active, Usable, Fresh
  <2> QED
    BY <2>1, <2>2 DEF SnapshotOK, Planned, Fresh
<1> QED
  BY <1>1, Runs, Snapshots, PTL

\* A window on the calendar since before the read of a fresh snapshot holds alerts
\* from its start to the end of its grace: the reads reach far enough into past and
\* future for as long as they may be used (windows.py time_min, time_max).
THEOREM PlannedIsAlwaysHeld == Spec => []PlannedIsHeld
<1>1. RunsOK /\ SnapshotOK => PlannedIsHeld
  <2> SUFFICES ASSUME RunsOK, SnapshotOK,
                      snapshot.read >= 0, clock - snapshot.read <= Stale, snapshot.under, holding,
                      NEW i \in DOMAIN calendar, Admit(i), Holds(i, holding),
                      calendar[i] < snapshot.read, i.start <= clock, clock < i.end + Grace
               PROVE  i \in Active
    BY DEF PlannedIsHeld
  <2>1. /\ clock \in Nat /\ snapshot.read \in Int /\ snapshot.read <= clock
        /\ Stale \in Nat /\ Lookahead \in Nat /\ MaxWindow \in Nat /\ Grace \in Nat /\ Stale < Lookahead
        /\ i.start \in Int /\ i.end \in Int /\ holding = TRUE
    BY Settings DEF RunsOK, TypeOK, Snapshot, SnapshotOK, Event
  <2>2. i.end > snapshot.read - (MaxWindow + Grace) /\ i.start < snapshot.read + Lookahead
    BY <2>1
  <2>3. i \in snapshot.windows
    BY <2>1, <2>2 DEF SnapshotOK, Complete, Fresh
  <2> QED
    BY <2>1, <2>3 DEF Active, Usable
<1> QED
  BY <1>1, Runs, Snapshots, PTL
=============================================================================
