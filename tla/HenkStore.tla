----------------------------- MODULE HenkStore -----------------------------
(***************************************************************************)
(* The one SQLite file behind memory, the capture inbox and the hand-off   *)
(* archive: Store.transaction with its re-entrancy and its poisoning, the  *)
(* repositories that write through it a statement at a time, the owner     *)
(* commands and tools that call them and say what they did, the reads that *)
(* are made of them, and deploy/henk-purge-handoffs.py, which works on the *)
(* same file from another process.                                         *)
(*                                                                         *)
(* A call is a program of instructions: "enter" and "leave" are the two    *)
(* ends of a transaction scope, "catch" is where a caller swallows what a  *)
(* nested scope raised, "receipt" is what a command does once its write    *)
(* has returned, and every other one is a statement on the tables.  The    *)
(* process may die between any two of them.                                *)
(***************************************************************************)
EXTENDS HandoffDigest

CONSTANTS
  Caps,          \* the cap of each type of memory
  Contents,      \* what a memory may say
  Needles,       \* what /forget may ask for: the contents it is found in
  Turns,         \* event turns: [events, refs]
  Mids,          \* message ids a publish may be given, NoId among them
  Sizes,         \* lengths of documents
  DocumentMax,   \* HANDOFF_DOCUMENT_MAX_BYTES
  MaxCount,      \* HANDOFF_MAX_COUNT
  MaxAge,        \* HANDOFF_MAX_AGE_SECONDS
  PageSize,      \* a page of the inbox
  MaxReadLimit,  \* MAX_READ_LIMIT of the tool inbox_read
  Limits,        \* how many items the tool may be asked for
  FactChars,     \* what one fact takes in the recall block
  RecallChars,   \* memory.recall_limit, less what frames the block
  Files,         \* files the program may find at its start
  MaxCalls,      \* bound on calls that write
  MaxReads,      \* bound on calls that read
  MaxFaults,     \* bound on statements that fail and on deaths
  MaxPurges,     \* bound on runs of the purge
  Clock          \* what the wall clock may read, a bound

Types == {"pinned", "agent"}
Tables == {"memories", "inbox", "handoffs"}
\* The tables of a file: the highest id each ever gave, and rows whose ids are their own.
IsFile(t) ==
  /\ t = [memories |-> t.memories, inbox |-> t.inbox, handoffs |-> t.handoffs, last |-> t.last]
  /\ t.last \in [Tables -> Nat]
  /\ t.memories \subseteq [id : Nat, type : Types, content : Contents, at : Int]
  /\ t.inbox \subseteq [id : Nat, at : Int, status : {"open", "done"}]
  /\ \A h \in t.handoffs :
       /\ h = [id |-> h.id, mid |-> h.mid, at |-> h.at, size |-> h.size,
               keys |-> h.keys, rules |-> h.rules, nodes |-> h.nodes]
       /\ h.at \in Int
  /\ \A table \in Tables :
       /\ IsFiniteSet(t[table])
       /\ \A r \in t[table] : r.id \in 1..t.last[table]
       /\ \A r, s \in t[table] : r.id = s.id => r = s

ASSUME StoreAssumption ==
  /\ \A file \in Files : IsFile(file)
  /\ Caps \in [Types -> Int] /\ DocumentMax \in Nat /\ MaxCount \in Nat \ {0} /\ MaxAge \in Nat
  /\ PageSize \in Nat \ {0} /\ MaxReadLimit \in Nat \ {0} /\ Limits \subseteq Int /\ FactChars \in Nat /\ RecallChars \in Nat
  /\ \A needle \in Needles : needle \subseteq Contents
  /\ {MaxCalls, MaxReads, MaxFaults, MaxPurges} \subseteq Nat /\ Clock \subseteq Nat

VARIABLES
  db,         \* the committed file
  work,       \* what henk's connection sees
  lock,       \* who holds the write lock: "none", "henk", "purge"
  schema,     \* whose tables the file has: "ours", or "foreign" ones of another build
  now,        \* the wall clock, which may step back
  call,       \* the call that runs: [verb, ...], or NoCall
  todo,       \* the rest of its program
  depth,      \* Store._depth
  poisoned,   \* Store._poisoned
  raising,    \* an exception is on its way out
  touched,    \* rows the call deleted or marked, as it tells
  purge,      \* the purge: [at, rows, yes]
  backup,     \* the rows of every backup written
  calls, reads, faults, purges,
  answer,     \* what the last call told or the last read gave, till the file or the clock moves
  changed,    \* the numbers of the calls whose writes were committed
  receipts,   \* the numbers of the calls with a receipt
  named,      \* the hand-offs audit records name, as they were shown
  deleted     \* the rows the purge deleted

vars == <<db, work, lock, schema, now, call, todo, depth, poisoned, raising, touched, purge,
          backup, calls, reads, faults, purges, answer, changed, receipts, named, deleted>>
running == <<call, todo, depth, poisoned, raising, touched>>
ghosts == <<changed, receipts, named, deleted>>

NoCall == [verb |-> "none"]
NoPurge == [at |-> "off", rows |-> {}, ids |-> {}, yes |-> FALSE]
Nothing == [told |-> "nothing"]

-----------------------------------------------------------------------------
(* Statements.                                                             *)

\* A slip: a bare rowid, one above the highest id the table still holds.
NextIdOfRowid(t, table) ==
  IF t[table] = {} THEN 1 ELSE 1 + (CHOOSE m \in {r.id : r \in t[table]} : \A r \in t[table] : r.id <= m)
\* INTEGER PRIMARY KEY AUTOINCREMENT: one above the highest id the table ever gave.
NextId(t, table) == t.last[table] + 1
Insert(t, table, row) ==
  LET id == NextId(t, table)
  IN [t EXCEPT ![table] = @ \cup {[row EXCEPT !.id = id]}, !.last[table] = id]
Delete(t, table, rows) == [t EXCEPT ![table] = @ \ rows]

\* A slip: the row just inserted competes with the others.
OverflowUnprotected(t, type) ==
  LET rows == {m \in t.memories : m.type = type}
      over == Cardinality(rows) - (IF Caps[type] < 1 THEN 1 ELSE Caps[type])
  IN {m \in rows : Cardinality({o \in rows : Newer(m, o)}) < over}
\* MemoryStore._trim_locked: the oldest rows of a type beyond its cap, the row just
\* inserted apart.
Overflow(t, type) ==
  LET rows == {m \in t.memories : m.type = type}
      over == Cardinality(rows) - (IF Caps[type] < 1 THEN 1 ELSE Caps[type])
      others == {m \in rows : m.id # t.last.memories}
  IN {m \in others : Cardinality({o \in others : Newer(m, o)}) < over}

\* A slip: the row just inserted is not counted.
BeyondUncounted(t) ==
  LET others == {h \in t.handoffs : h.id # t.last.handoffs}
  IN {h \in others : Cardinality({o \in others : Newer(o, h)}) >= MaxCount}
\* HandoffStore._prune_locked: by age, then by count, the row just inserted apart.
Aged(t, at) == {h \in t.handoffs : h.at < at - MaxAge /\ h.id # t.last.handoffs}
Beyond(t) ==
  LET others == {h \in t.handoffs : h.id # t.last.handoffs}
  IN {h \in others : Cardinality({o \in others : Newer(o, h)}) >= MaxCount - 1}

Bounded(size) == IF size > DocumentMax THEN DocumentMax ELSE size
\* The rows of t a statement of call c deletes or marks.
Touches(statement, c, t) ==
  CASE statement = "trim"        -> Overflow(t, c.type)
    [] statement = "forget"      -> {m \in t.memories : m.content \in c.needle}
    [] statement = "prune_age"   -> Aged(t, c.at)
    [] statement = "prune_count" -> Beyond(t)
    [] statement = "mark"        -> {i \in t.inbox : i.id = c.id /\ i.status = "open"}
    [] OTHER                     -> {}
\* The tables after a statement of call c.
Effect(statement, c, t) ==
  CASE statement = "remember" ->
         Insert(t, "memories", [id |-> 0, type |-> c.type, content |-> c.content, at |-> c.at])
    [] statement = "capture" ->
         Insert(t, "inbox", [id |-> 0, at |-> c.at, status |-> "open"])
    [] statement = "mark" ->
         LET open == Touches(statement, c, t)
         IN [t EXCEPT !.inbox = (@ \ open) \cup {[i EXCEPT !.status = "done"] : i \in open}]
    [] statement = "retain" ->
         Insert(t, "handoffs",
                [id |-> 0, mid |-> c.mid, at |-> c.at, size |-> Bounded(c.size),
                 keys |-> c.about.keys, rules |-> c.about.rules, nodes |-> c.about.nodes])
    [] statement \in {"trim", "forget"} -> Delete(t, "memories", Touches(statement, c, t))
    [] OTHER -> Delete(t, "handoffs", Touches(statement, c, t))

-----------------------------------------------------------------------------
(* Calls and their programs.                                               *)

Scope(body) == <<"enter">> \o body \o <<"leave">>
Remembering == Scope(<<"remember", "trim">>)
Capturing == Scope(<<"capture">>)
Program(c) ==
  CASE c.verb \in {"/remember", "store_memory"} -> Remembering \o <<"receipt">>
    [] c.verb = "/forget"     -> Scope(<<"forget">>) \o <<"receipt">>
    [] c.verb = "capture"     -> Capturing \o <<"receipt">>
    [] c.verb = "/inbox_done" -> Scope(<<"mark">>) \o <<"receipt">>
    [] c.verb = "retain"      -> Scope(<<"retain", "prune_age", "prune_count">>)
    \* A caller's scope around a repository call and statements of its own, as the
    \* scheduler's transitions and the holds have; this one survives the inner failure.
    [] c.verb = "both"        -> Scope(Capturing \o <<"catch", "remember", "trim">>)

IsStatement(instruction) == instruction \notin {"enter", "leave", "catch", "receipt"}

\* What a call is to do to the tables, whatever its program and what happens to it.
Whole(c, t) ==
  CASE c.verb \in {"/remember", "store_memory"} -> Effect("trim", c, Effect("remember", c, t))
    [] c.verb = "/forget"     -> Effect("forget", c, t)
    [] c.verb = "capture"     -> Effect("capture", c, t)
    [] c.verb = "/inbox_done" -> Effect("mark", c, t)
    [] c.verb = "retain"      ->
         Effect("prune_count", c, Effect("prune_age", c, Effect("retain", c, t)))
    [] c.verb = "both"        -> Effect("trim", c, Effect("remember", c, Effect("capture", c, t)))

\* The calls there are.  What is empty or too long is refused before any of this.
Requests ==
  [verb : {"/remember"}, type : {"pinned"}, content : Contents]
  \cup [verb : {"store_memory"}, type : {"agent"}, content : Contents]
  \cup [verb : {"/forget"}, needle : Needles]
  \cup [verb : {"capture"}]                                \* the command or the tool
  \cup [verb : {"/inbox_done"}, id : 1..MaxCalls]
  \cup [verb : {"both"}, type : {"pinned"}, content : Contents]
\* publish_handoff keeps what it published under the incidents of its session; a
\* session no event started has none, and keeps nothing.
Retentions ==
  {[verb |-> "retain", about |-> Context(turn.events), mid |-> mid, size |-> size] :
     turn \in {u \in Turns : u.events # {}}, mid \in Mids, size \in Sizes}

Verbs == {"/remember", "store_memory", "/forget", "capture", "/inbox_done", "retain", "both"}
Instructions ==
  {"enter", "leave", "catch", "receipt", "remember", "trim", "forget", "capture", "mark",
   "retain", "prune_age", "prune_count"}

TypeOK ==
  /\ IsFile(db) /\ IsFile(work)
  /\ lock \in {"none", "henk", "purge"} /\ schema \in {"ours", "foreign"}
  /\ now \in Clock /\ depth \in Nat /\ poisoned \in BOOLEAN /\ raising \in BOOLEAN
  /\ call = NoCall \/ call.verb \in Verbs
  /\ todo \in Seq(Instructions)
  /\ purge.at \in {"off", "selected", "backed_up"}
  /\ {calls, reads, faults, purges} \subseteq Nat
  /\ changed \subseteq Nat /\ receipts \subseteq Nat

At(c, time) == [f \in DOMAIN c \cup {"at"} |-> IF f = "at" THEN time ELSE c[f]]
Idle == call = NoCall

Call(c) ==
  /\ Idle /\ calls < MaxCalls
  /\ calls' = calls + 1
  /\ call' = At(c, now) /\ todo' = Program(c)
  /\ touched' = {} /\ answer' = Nothing
  /\ UNCHANGED <<db, work, lock, schema, now, depth, poisoned, raising, purge, backup, reads,
                 faults, purges, ghosts>>

-----------------------------------------------------------------------------
(* The transaction.                                                        *)

\* The next instruction is this one.
Reaches(instruction) == ~Idle /\ todo # <<>> /\ Head(todo) = instruction
\* Where an exception goes on: at the end of the scope it is in, past nested ones.
Raised(program) ==
  LET Count(instruction, n) == Cardinality({m \in 1..n : program[m] = instruction})
      ends == {n \in DOMAIN program : Count("leave", n) > Count("enter", n)}
  IN IF ends = {} THEN <<>>
     ELSE SubSeq(program, CHOOSE n \in ends : \A m \in ends : n <= m, Len(program))

\* The outermost scope begins a transaction, a nested one joins it.  The connection is
\* opened first, and refused when the tables are not this build's.
Begun == [work |-> db, lock |-> "henk", poisoned |-> FALSE]
Enter ==
  /\ Reaches("enter") /\ ~raising
  /\ depth = 0 => lock = "none" /\ schema = "ours"
  /\ depth' = depth + 1 /\ todo' = Tail(todo)
  /\ IF depth = 0 THEN work' = Begun.work /\ lock' = Begun.lock /\ poisoned' = Begun.poisoned
     ELSE UNCHANGED <<work, lock, poisoned>>
  /\ UNCHANGED <<db, schema, now, call, raising, touched, purge, backup, calls, reads, faults,
                 purges, answer, ghosts>>
\* Another process holds the file for longer than the busy timeout, or the file is
\* another build's: BEGIN raises and nothing was entered.
CannotEnter ==
  /\ Reaches("enter") /\ ~raising /\ depth = 0 /\ (lock = "purge" \/ schema # "ours")
  /\ raising' = TRUE /\ todo' = <<>>
  /\ UNCHANGED <<db, work, lock, schema, now, call, depth, poisoned, touched, purge, backup,
                 calls, reads, faults, purges, answer, ghosts>>

Execute ==
  /\ ~Idle /\ todo # <<>> /\ IsStatement(Head(todo)) /\ ~raising
  /\ work' = Effect(Head(todo), call, work)
  /\ touched' = touched \cup Touches(Head(todo), call, work)
  /\ todo' = Tail(todo)
  /\ UNCHANGED <<db, lock, schema, now, call, depth, poisoned, raising, purge, backup, calls,
                 reads, faults, purges, answer, ghosts>>
\* The statement fails: the exception leaves the scope it is in.
StatementFails ==
  /\ ~Idle /\ todo # <<>> /\ IsStatement(Head(todo)) /\ ~raising /\ faults < MaxFaults
  /\ faults' = faults + 1
  /\ raising' = TRUE /\ todo' = Raised(todo)
  /\ UNCHANGED <<db, work, lock, schema, now, call, depth, poisoned, touched, purge, backup,
                 calls, reads, purges, answer, ghosts>>

\* A scope that is left by an exception marks the transaction, whoever catches it.
Poisoned == poisoned \/ raising
\* Once the scope is left: the caller catches the exception, or it goes on.
Resumed(rest) ==
  IF ~raising \/ (rest # <<>> /\ Head(rest) = "catch") THEN rest ELSE Raised(rest)
LeaveNested ==
  /\ Reaches("leave") /\ depth > 1
  /\ depth' = depth - 1 /\ poisoned' = Poisoned
  /\ todo' = Resumed(Tail(todo))
  /\ UNCHANGED <<db, work, lock, schema, now, call, raising, touched, purge, backup, calls,
                 reads, faults, purges, answer, ghosts>>
\* A slip: what was caught in between is forgotten.
CommitsIfCaught == ~raising
\* The outermost scope commits or rolls back.
Commits == ~Poisoned
LeaveOutermost ==
  /\ Reaches("leave") /\ depth = 1
  /\ depth' = 0 /\ poisoned' = FALSE /\ lock' = "none"
  /\ todo' = Resumed(Tail(todo))
  /\ IF Commits
     THEN /\ db' = work /\ UNCHANGED work
          /\ changed' = IF work # db THEN changed \cup {calls} ELSE changed
     ELSE work' = db /\ UNCHANGED <<db, changed>>
  /\ UNCHANGED <<schema, now, call, raising, touched, purge, backup, calls, reads, faults,
                 purges, answer, receipts, named, deleted>>
\* COMMIT fails: the transaction is rolled back and the failure raised.
CommitFails ==
  /\ Reaches("leave") /\ depth = 1 /\ Commits /\ faults < MaxFaults
  /\ faults' = faults + 1
  /\ depth' = 0 /\ poisoned' = FALSE /\ lock' = "none"
  /\ work' = db /\ raising' = TRUE /\ todo' = <<>>
  /\ UNCHANGED <<db, schema, now, call, touched, purge, backup, calls, reads, purges, answer, ghosts>>
Catch ==
  /\ Reaches("catch")
  /\ raising' = FALSE /\ todo' = Tail(todo)
  /\ UNCHANGED <<db, work, lock, schema, now, call, depth, poisoned, touched, purge, backup,
                 calls, reads, faults, purges, answer, ghosts>>

-----------------------------------------------------------------------------
(* What the caller says.                                                   *)

\* A mutation that changed something has a receipt, written once the store returned.
Deserves == call.verb \in {"/forget", "/inbox_done"} => touched # {}
Receipt ==
  /\ Reaches("receipt") /\ ~raising
  /\ receipts' = IF Deserves THEN receipts \cup {calls} ELSE receipts
  /\ todo' = Tail(todo)
  /\ UNCHANGED <<db, work, lock, schema, now, call, depth, poisoned, raising, touched, purge,
                 backup, calls, reads, faults, purges, answer, changed, named, deleted>>

\* The reply: what was stored or touched, or that nothing was.
Reply ==
  /\ ~Idle /\ todo = <<>>
  /\ answer' = [told |-> IF raising THEN "nothing_changed" ELSE "done",
                verb |-> call.verb, touched |-> touched]
  /\ call' = NoCall /\ raising' = FALSE /\ touched' = {}
  /\ UNCHANGED <<db, work, lock, schema, now, todo, depth, poisoned, purge, backup, calls, reads,
                 faults, purges, ghosts>>

\* The process dies inside a call, and starts again; before its first step is as before it.
Crash ==
  /\ ~Idle /\ faults < MaxFaults /\ todo # Program(call)
  /\ faults' = faults + 1
  /\ call' = NoCall /\ todo' = <<>> /\ depth' = 0 /\ poisoned' = FALSE /\ raising' = FALSE
  /\ touched' = {} /\ work' = db /\ answer' = Nothing
  /\ lock' = IF lock = "henk" THEN "none" ELSE lock
  /\ UNCHANGED <<db, schema, now, purge, backup, calls, reads, purges, ghosts>>

-----------------------------------------------------------------------------
(* Reads, between calls: outside a scope they see the committed file.      *)

Read(result) ==
  /\ Idle /\ reads < MaxReads
  /\ reads' = reads + 1
  /\ answer' = IF schema = "ours" THEN result ELSE [told |-> "unreadable"]
  /\ UNCHANGED <<db, work, lock, schema, now, running, purge, backup, calls, faults, purges,
                 changed, receipts, deleted>>

\* MemoryRecall.block: oldest facts are left out until the rest fits, never the last.
Omitted(facts) ==
  LET Fits(n) == \/ FactChars * (Len(facts) - n) + (IF n > 0 THEN MarkChars ELSE 0) <= RecallChars
                 \/ n >= Len(facts) - 1
  IN CHOOSE n \in 0..Len(facts) : Fits(n) /\ \A m \in 0..n - 1 : ~Fits(m)
Recall ==
  LET Older(a, b) == Newer(b, a)
      facts == InOrder(db.memories, Older)
      omitted == Omitted(facts)
  IN /\ Read([told |-> "recall", omitted |-> omitted,
              shown |-> SubSeq(facts, omitted + 1, Len(facts))])
     /\ UNCHANGED named

\* /memories: all of them.
ListMemories == Read([told |-> "memories", shown |-> db.memories]) /\ UNCHANGED named

\* InboxStore.list_open: the oldest open items, and how many newer ones there are.
OpenPage(limit) ==
  LET Older(a, b) == Newer(b, a)
      open == InOrder({i \in db.inbox : i.status = "open"}, Older)
      newer == IF Len(open) > limit THEN Len(open) - limit ELSE 0
  IN [told |-> "inbox", omitted |-> newer, shown |-> SubSeq(open, 1, Len(open) - newer)]
\* /inbox gives a page, /inbox all every item, the tool what it is asked for, within 1
\* and MaxReadLimit.
Clamped(limit) ==
  IF limit > MaxReadLimit THEN MaxReadLimit ELSE IF limit < 1 THEN 1 ELSE limit
ListInbox(limit) == Read(OpenPage(limit)) /\ UNCHANGED named
ReadInbox(limit) == Read(OpenPage(Clamped(limit))) /\ UNCHANGED named

\* A slip: whatever is on disk is eligible.
EligibleOnDisk == db.handoffs
\* HandoffStore.eligible and find_by_message_ref: within retention, whatever is on disk.
Eligible == {h \in db.handoffs : h.at >= now - MaxAge}
FindByMessageRef(ref) ==
  LET those == {h \in Eligible : ref # NoId /\ h.mid = ref}
  IN {h \in those : \A other \in those \ {h} : Newer(h, other)}
\* An event turn reads its digest, and the audit record names what it was shown.
ShowDigest(turn) ==
  LET found == [ref \in {turn.refs[i] : i \in DOMAIN turn.refs} |-> FindByMessageRef(ref)]
      digest == ReadDigest(turn.refs, found, Eligible, Context(turn.events), now)
      ids == {digest.shown[i] : i \in DOMAIN digest.shown}
  IN /\ Read([told |-> "digest", turn |-> turn, digest |-> digest])
     /\ named' = IF schema = "ours" THEN named \cup {h \in db.handoffs : h.id \in ids} ELSE named

-----------------------------------------------------------------------------
(* deploy/henk-purge-handoffs.py, another process.                         *)

Selected(ids, t) == {h \in t.handoffs : ids = {} \/ h.mid \in ids}

\* A slip: a deferred transaction, which holds nothing until it deletes.
ReservedLater == "none"
\* The write reservation is taken before anything is selected, and without waiting.
Reserved == "purge"
PurgeBegins(ids, yes) ==
  /\ purge.at = "off" /\ purges < MaxPurges /\ lock = "none" /\ Selected(ids, db) # {}
  /\ purges' = purges + 1 /\ lock' = Reserved
  /\ purge' = [at |-> "selected", rows |-> Selected(ids, db), ids |-> ids, yes |-> yes]
  /\ UNCHANGED <<db, work, schema, now, running, backup, calls, reads, faults, answer, ghosts>>
\* A separate reader copies the committed file.
PurgeBacksUp ==
  /\ purge.at = "selected" /\ purge.yes
  /\ purge' = [purge EXCEPT !.at = "backed_up"]
  /\ backup' = backup \cup db.handoffs
  /\ UNCHANGED <<db, work, lock, schema, now, running, calls, reads, faults, purges, answer, ghosts>>
PurgeDeletes ==
  /\ purge.at = "backed_up"
  /\ db' = Delete(db, "handoffs", Selected(purge.ids, db)) /\ work' = db'
  /\ deleted' = deleted \cup Selected(purge.ids, db)
  /\ purge' = NoPurge /\ lock' = "none"
  /\ answer' = IF Idle THEN Nothing ELSE answer
  /\ UNCHANGED <<schema, now, running, backup, calls, reads, faults, purges, changed, receipts,
                 named>>
\* A dry run ends, or a run fails or is killed: the connection closes and rolls back.
PurgeEnds ==
  /\ purge.at # "off"
  /\ purge' = NoPurge /\ lock' = IF lock = "purge" THEN "none" ELSE lock
  /\ UNCHANGED <<db, work, schema, now, running, backup, calls, reads, faults, purges, answer, ghosts>>

-----------------------------------------------------------------------------
Tick ==
  /\ Idle /\ purge.at = "off"      \* no step of the purge looks at the clock
  /\ now' \in {now - 1, now + 1} \cap Clock
  /\ answer' = Nothing
  /\ UNCHANGED <<db, work, lock, schema, running, purge, backup, calls, reads, faults, purges,
                 ghosts>>

Init ==
  /\ \E file \in Files : db = file /\ work = file
  /\ schema \in {"ours", "foreign"}
  /\ lock = "none" /\ now \in Clock /\ purge = NoPurge /\ backup = {}
  /\ call = NoCall /\ todo = <<>> /\ depth = 0 /\ poisoned = FALSE /\ raising = FALSE /\ touched = {}
  /\ calls = 0 /\ reads = 0 /\ faults = 0 /\ purges = 0 /\ answer = Nothing
  /\ changed = {} /\ receipts = {} /\ named = {} /\ deleted = {}

Next ==
  \/ \E c \in Requests \cup Retentions : Call(c)
  \/ Enter \/ CannotEnter \/ Execute \/ StatementFails \/ LeaveNested \/ LeaveOutermost
  \/ CommitFails \/ Catch \/ Receipt \/ Reply \/ Crash
  \/ Recall \/ ListMemories
  \/ (\E limit \in {PageSize, Cardinality(db.inbox)} : ListInbox(limit))
  \/ (\E limit \in Limits : ReadInbox(limit)) \/ (\E turn \in Turns : ShowDigest(turn))
  \/ (\E ids \in SUBSET (Mids \ {NoId}), yes \in BOOLEAN : PurgeBegins(ids, yes))
  \/ PurgeBacksUp \/ PurgeDeletes \/ PurgeEnds \/ Tick

Spec == Init /\ [][Next]_vars

-----------------------------------------------------------------------------
(* Properties.                                                             *)

\* Whatever fails, nests, is swallowed or dies, what a caller commits is its whole call
\* or nothing of it, under tables it knows (Store.transaction, db.py:311-376); only the
\* purge deletes besides.
OneWholeCall ==
  [][\/ db' = db
     \/ depth = 1 /\ schema = "ours" /\ db' = Whole(call, db)
     \/ purge.at = "backed_up" /\ db' = Delete(db, "handoffs", deleted')]_vars

\* What a command says it did is in the file and what it says it dropped is not, what it
\* says failed changed nothing, and a receipt always stands for a committed change
\* (OwnerCommands and the two tools; "a log that claims state the store does not have is
\* worse than a log with a gap").
ClaimsAreTrue ==
  /\ receipts \subseteq changed
  /\ answer.told = "nothing_changed" => calls \notin changed
  /\ answer.told = "done" /\ answer.verb # "both" =>
       /\ (calls \in changed) = (answer.verb \in {"/forget", "/inbox_done"} => answer.touched # {})
       /\ \A table \in Tables : answer.touched \cap db[table] = {}
       /\ answer.verb \in {"/remember", "store_memory"} =>
            \E m \in db.memories : m.id = db.last.memories
       /\ answer.verb = "retain" =>
            \E h \in db.handoffs \cup deleted : h.id = db.last.handoffs

\* Every cap holds in the committed file: of each type of memory, whatever the clock did
\* between two writes, and of the archive (MemoryStore._trim_locked,
\* HandoffStore._prune_locked).
BoundsHold ==
  /\ \A type \in Types :
       LET kept == Cardinality({m \in db.memories : m.type = type})
       IN kept <= Caps[type] \/ kept <= 1
  /\ Cardinality(db.handoffs) <= MaxCount

\* What a read gives adds up: nothing is missing that is not counted, the recall keeps
\* the newest facts, the inbox page the oldest items, and the digest stays within its
\* bounds, holds only what retention allows and the turn relates to, the first reference
\* that names a hand-off apart, and says of every reference what became of it.
CountsDigest(turn, digest) ==
  LET shown == {digest.shown[i] : i \in DOMAIN digest.shown}
      about == Context(turn.events)
      retained == {h \in db.handoffs : now - h.at <= MaxAge}
      Named(i) == {h \in retained : /\ h.mid = turn.refs[i] /\ h.mid # NoId
                                    /\ \A other \in retained : other.mid = h.mid => ~Newer(other, h)}
      competing == {h \in retained :
                      \/ \E i \in DOMAIN turn.refs : h \in Named(i) /\ \A j \in 1..i - 1 : Named(j) = {}
                      \/ now - h.at \in 0..Window
                      \/ h.keys \cap about.keys # {} \/ h.rules \cap about.rules # {}
                      \/ h.nodes \cap about.nodes # {}}
  IN /\ Len(digest.shown) = Cardinality(shown) /\ Len(digest.shown) <= MaxEntries
     /\ digest.chars <= MaxChars
     /\ shown \subseteq {h.id : h \in competing}
     /\ Cardinality(shown) + digest.omitted = Cardinality(competing)
     /\ \A i \in DOMAIN turn.refs :
          digest.refs[i] = IF Named(i) = {} THEN "not retained"
                           ELSE IF \E h \in Named(i) : h.id \notin shown THEN "omitted"
                           ELSE IF \E h \in Named(i) : h.id = digest.shown[1] THEN "reference"
                           ELSE "shown"
ReadsAddUp ==
  LET shown == IF answer.told \in {"recall", "inbox"}
               THEN {answer.shown[i] : i \in DOMAIN answer.shown} ELSE {} IN
  /\ answer.told = "recall" =>
       /\ shown \subseteq db.memories /\ Cardinality(shown) + answer.omitted = Cardinality(db.memories)
       /\ \A kept \in shown : \A left \in db.memories \ shown : Newer(kept, left)
       /\ db.memories # {} => shown # {}
       /\ Len(answer.shown) * FactChars <= RecallChars \/ Len(answer.shown) = 1
  /\ answer.told = "inbox" =>
       LET open == {i \in db.inbox : i.status = "open"} IN
       /\ shown \subseteq open /\ Cardinality(shown) + answer.omitted = Cardinality(open)
       /\ \A kept \in shown : \A left \in open \ shown : Newer(left, kept)
       /\ open # {} => shown # {}
  /\ answer.told = "memories" => answer.shown = db.memories
  /\ answer.told = "digest" => CountsDigest(answer.turn, answer.digest)

\* An id in an audit record names, for ever, the hand-off the turn was shown, or nothing
\* once that one is pruned or purged (AUTOINCREMENT, db.py:91-95).
IdsNameOneHandoff ==
  \A shown \in named : \A h \in db.handoffs : h.id = shown.id => h = shown

\* Every row the purge deleted is in a backup it made before
\* (deploy/henk-purge-handoffs.py:37-76).
PurgedIsBackedUp == deleted \subseteq backup

\* The archive gives up no hand-off that cannot be named or fetched again: an id is
\* never another's, and what the purge deleted is in a backup.
ArchiveIsHonest == IdsNameOneHandoff /\ PurgedIsBackedUp
=============================================================================
