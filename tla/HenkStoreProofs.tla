-------------------------- MODULE HenkStoreProofs --------------------------
(***************************************************************************)
(* Theorems about HenkStore, for every value of its constants that         *)
(* satisfies StoreAssumption.                                              *)
(*                                                                         *)
(* Files: what a statement does to a file leaves it one (EffectKeeps).     *)
(* Programs: a call's program an instruction at a time, how many scopes    *)
(* are open before each instruction, what its statements made of the file  *)
(* so far, and where an exception goes on (ProgramShape, ValueSteps,       *)
(* RaisedFrom).  Progress: the running call is at a place of its program   *)
(* that explains its depth and, unless something failed, what its          *)
(* connection sees.  Locks and Archive complete the inductive invariant.   *)
(* Claims, on top of it: what a call has deleted or marked so far, and     *)
(* whether it has changed the file, is what it will say (TouchedSteps,     *)
(* WholeCalls).  Bounds: what a trim or a pruning leaves, counted by the   *)
(* rank of each row in its table (Ranks, TrimLeaves, CountLeaves), and so  *)
(* what a whole call leaves (WholeWithin).  Reads: what the greedy fill    *)
(* shows (FillIs), the rows of a table as a line (LineIs) and the parts of *)
(* it a page or a recall is (PartByAge), what the digest counts and says   *)
(* (ReadCounts), and that no step makes the last answer wrong              *)
(* (NextAddsUp).                                                           *)
(***************************************************************************)
EXTENDS HenkStore, TLAPS, SequenceTheorems, FiniteSetTheorems

\* What a call brings for its statements: the fields of its row, and the time it began.
CallOK(c) ==
  /\ c.verb \in Verbs /\ c.at \in Int
  /\ c.verb \in {"/remember", "store_memory", "both"} => c.type \in Types /\ c.content \in Contents

\* An insertion into each table: the row, under the next id, and still a file.
LEMMA InsertMemory ==
  ASSUME NEW t, IsFile(t), NEW type \in Types, NEW content \in Contents, NEW at \in Int
  PROVE  LET id == t.last.memories + 1
             row == [id |-> id, type |-> type, content |-> content, at |-> at]
             u == Insert(t, "memories", [id |-> 0, type |-> type, content |-> content, at |-> at])
         IN /\ u = [memories |-> t.memories \cup {row}, inbox |-> t.inbox, handoffs |-> t.handoffs,
                    last |-> [t.last EXCEPT !["memories"] = id]]
            /\ IsFile(u)
<1> DEFINE id == t.last.memories + 1
           row == [id |-> id, type |-> type, content |-> content, at |-> at]
           u == Insert(t, "memories", [id |-> 0, type |-> type, content |-> content, at |-> at])
<1>1. /\ t = [memories |-> t.memories, inbox |-> t.inbox, handoffs |-> t.handoffs, last |-> t.last]
      /\ t.last \in [Tables -> Nat] /\ t.last.memories \in Nat /\ "memories" \in Tables
  BY DEF IsFile, Tables
<1>2. [[id |-> 0, type |-> type, content |-> content, at |-> at] EXCEPT !.id = id] = row
  OBVIOUS
<1>3. u = [memories |-> t.memories \cup {row}, inbox |-> t.inbox, handoffs |-> t.handoffs,
           last |-> [t.last EXCEPT !["memories"] = id]]
  <2> DEFINE last == [t.last EXCEPT !["memories"] = id]
             a == t.memories
             b == t.inbox
             c == t.handoffs
             l == t.last
  <2>1. u = [t EXCEPT !["memories"] = @ \cup {row}, !.last["memories"] = id]
    <3> HIDE DEF row
    <3> QED BY <1>2 DEF Insert, NextId
  <2>2. t = [memories |-> a, inbox |-> b, handoffs |-> c, last |-> l]
    BY <1>1
  <2> HIDE DEF row, id, a, b, c, l
  <2>3. [t EXCEPT !["memories"] = @ \cup {row}, !.last["memories"] = id]
          = [t EXCEPT !["memories"] = @ \cup {row}, !["last"] = last]
    BY <2>2
  <2> HIDE DEF last
  <2>4. [t EXCEPT !["memories"] = @ \cup {row}, !["last"] = last]
          = [memories |-> a \cup {row}, inbox |-> b, handoffs |-> c, last |-> last]
    BY <2>2
  <2> QED BY <2>1, <2>3, <2>4 DEF a, b, c, l, last
<1>4. /\ u.memories = t.memories \cup {row} /\ u.inbox = t.inbox /\ u.handoffs = t.handoffs
      /\ u.last = [t.last EXCEPT !["memories"] = id]
  BY <1>3
<1>5. /\ u.last \in [Tables -> Nat] /\ u.last.memories = id
      /\ u.last.inbox = t.last.inbox /\ u.last.handoffs = t.last.handoffs
  BY <1>1, <1>4 DEF Tables
<1>6. IsFiniteSet(t.memories \cup {row})
  BY FS_AddElement DEF IsFile, Tables
<1> HIDE DEF u
<1>7. \A table \in Tables :
        /\ IsFiniteSet(u[table])
        /\ \A r \in u[table] : r.id \in 1..u.last[table]
        /\ \A r, s \in u[table] : r.id = s.id => r = s
  <2>1. \A r \in u.memories : r.id \in 1..u.last.memories
    BY <1>1, <1>4, <1>5 DEF IsFile, Tables
  <2>2. \A r, s \in u.memories : r.id = s.id => r = s
    BY <1>1, <1>4 DEF IsFile, Tables
  <2>3. IsFiniteSet(u.memories) /\ u.inbox = t.inbox /\ u.handoffs = t.handoffs
    BY <1>4, <1>6
  <2> QED BY <2>1, <2>2, <2>3, <1>5 DEF IsFile, Tables
<1>8. u.memories \subseteq [id : Nat, type : Types, content : Contents, at : Int]
  <2>1. row \in [id : Nat, type : Types, content : Contents, at : Int]
    BY <1>1
  <2> QED BY <2>1, <1>4 DEF IsFile
<1>9. IsFile(u)
  BY <1>3, <1>4, <1>5, <1>7, <1>8 DEF IsFile
<1> QED BY <1>3, <1>9 DEF u

LEMMA InsertItem ==
  ASSUME NEW t, IsFile(t), NEW at \in Int
  PROVE  LET id == t.last.inbox + 1
             row == [id |-> id, at |-> at, status |-> "open"]
             u == Insert(t, "inbox", [id |-> 0, at |-> at, status |-> "open"])
         IN /\ u = [memories |-> t.memories, inbox |-> t.inbox \cup {row}, handoffs |-> t.handoffs,
                    last |-> [t.last EXCEPT !["inbox"] = id]]
            /\ IsFile(u)
<1> DEFINE id == t.last.inbox + 1
           row == [id |-> id, at |-> at, status |-> "open"]
           u == Insert(t, "inbox", [id |-> 0, at |-> at, status |-> "open"])
<1>1. /\ t = [memories |-> t.memories, inbox |-> t.inbox, handoffs |-> t.handoffs, last |-> t.last]
      /\ t.last \in [Tables -> Nat] /\ t.last.inbox \in Nat /\ "inbox" \in Tables
  BY DEF IsFile, Tables
<1>2. [[id |-> 0, at |-> at, status |-> "open"] EXCEPT !.id = id] = row
  OBVIOUS
<1>3. u = [memories |-> t.memories, inbox |-> t.inbox \cup {row}, handoffs |-> t.handoffs,
           last |-> [t.last EXCEPT !["inbox"] = id]]
  <2> DEFINE last == [t.last EXCEPT !["inbox"] = id]
             a == t.memories
             b == t.inbox
             c == t.handoffs
             l == t.last
  <2>1. u = [t EXCEPT !["inbox"] = @ \cup {row}, !.last["inbox"] = id]
    <3> HIDE DEF row
    <3> QED BY <1>2 DEF Insert, NextId
  <2>2. t = [memories |-> a, inbox |-> b, handoffs |-> c, last |-> l]
    BY <1>1
  <2> HIDE DEF row, id, a, b, c, l
  <2>3. [t EXCEPT !["inbox"] = @ \cup {row}, !.last["inbox"] = id]
          = [t EXCEPT !["inbox"] = @ \cup {row}, !["last"] = last]
    BY <2>2
  <2> HIDE DEF last
  <2>4. [t EXCEPT !["inbox"] = @ \cup {row}, !["last"] = last]
          = [memories |-> a, inbox |-> b \cup {row}, handoffs |-> c, last |-> last]
    BY <2>2
  <2> QED BY <2>1, <2>3, <2>4 DEF a, b, c, l, last
<1>4. /\ u.memories = t.memories /\ u.inbox = t.inbox \cup {row} /\ u.handoffs = t.handoffs
      /\ u.last = [t.last EXCEPT !["inbox"] = id]
  BY <1>3
<1>5. /\ u.last \in [Tables -> Nat] /\ u.last.inbox = id
      /\ u.last.memories = t.last.memories /\ u.last.handoffs = t.last.handoffs
  BY <1>1, <1>4 DEF Tables
<1>6. IsFiniteSet(t.inbox \cup {row})
  BY FS_AddElement DEF IsFile, Tables
<1> HIDE DEF u
<1>7. \A table \in Tables :
        /\ IsFiniteSet(u[table])
        /\ \A r \in u[table] : r.id \in 1..u.last[table]
        /\ \A r, s \in u[table] : r.id = s.id => r = s
  <2>1. \A r \in u.inbox : r.id \in 1..u.last.inbox
    BY <1>1, <1>4, <1>5 DEF IsFile, Tables
  <2>2. \A r, s \in u.inbox : r.id = s.id => r = s
    BY <1>1, <1>4 DEF IsFile, Tables
  <2>3. IsFiniteSet(u.inbox) /\ u.memories = t.memories /\ u.handoffs = t.handoffs
    BY <1>4, <1>6
  <2> QED BY <2>1, <2>2, <2>3, <1>5 DEF IsFile, Tables
<1>8. u.inbox \subseteq [id : Nat, at : Int, status : {"open", "done"}]
  <2>1. row \in [id : Nat, at : Int, status : {"open", "done"}]
    BY <1>1
  <2> QED BY <2>1, <1>4 DEF IsFile
<1>9. IsFile(u)
  BY <1>3, <1>4, <1>5, <1>7, <1>8 DEF IsFile
<1> QED BY <1>3, <1>9 DEF u

LEMMA InsertHandoff ==
  ASSUME NEW t, IsFile(t), NEW mid, NEW at \in Int, NEW size, NEW keys, NEW rules, NEW nodes
  PROVE  LET id == t.last.handoffs + 1
             row == [id |-> id, mid |-> mid, at |-> at, size |-> size,
                     keys |-> keys, rules |-> rules, nodes |-> nodes]
             u == Insert(t, "handoffs", [id |-> 0, mid |-> mid, at |-> at, size |-> size,
                                         keys |-> keys, rules |-> rules, nodes |-> nodes])
         IN /\ u = [memories |-> t.memories, inbox |-> t.inbox, handoffs |-> t.handoffs \cup {row},
                    last |-> [t.last EXCEPT !["handoffs"] = id]]
            /\ IsFile(u)
<1> DEFINE id == t.last.handoffs + 1
           row == [id |-> id, mid |-> mid, at |-> at, size |-> size,
                   keys |-> keys, rules |-> rules, nodes |-> nodes]
           new == [id |-> 0, mid |-> mid, at |-> at, size |-> size,
                   keys |-> keys, rules |-> rules, nodes |-> nodes]
           u == Insert(t, "handoffs", new)
<1>1. /\ t = [memories |-> t.memories, inbox |-> t.inbox, handoffs |-> t.handoffs, last |-> t.last]
      /\ t.last \in [Tables -> Nat] /\ t.last.handoffs \in Nat /\ "handoffs" \in Tables
  BY DEF IsFile, Tables
<1>2. [new EXCEPT !.id = id] = row
  OBVIOUS
<1>3. u = [memories |-> t.memories, inbox |-> t.inbox, handoffs |-> t.handoffs \cup {row},
           last |-> [t.last EXCEPT !["handoffs"] = id]]
  <2> DEFINE last == [t.last EXCEPT !["handoffs"] = id]
             a == t.memories
             b == t.inbox
             c == t.handoffs
             l == t.last
  <2>1. u = [t EXCEPT !["handoffs"] = @ \cup {row}, !.last["handoffs"] = id]
    <3> HIDE DEF row, new
    <3> QED BY <1>2 DEF Insert, NextId
  <2>2. t = [memories |-> a, inbox |-> b, handoffs |-> c, last |-> l]
    BY <1>1
  <2> HIDE DEF row, id, a, b, c, l
  <2>3. [t EXCEPT !["handoffs"] = @ \cup {row}, !.last["handoffs"] = id]
          = [t EXCEPT !["handoffs"] = @ \cup {row}, !["last"] = last]
    BY <2>2
  <2> HIDE DEF last
  <2>4. [t EXCEPT !["handoffs"] = @ \cup {row}, !["last"] = last]
          = [memories |-> a, inbox |-> b, handoffs |-> c \cup {row}, last |-> last]
    BY <2>2
  <2> QED BY <2>1, <2>3, <2>4 DEF a, b, c, l, last
<1>4. /\ u.memories = t.memories /\ u.inbox = t.inbox /\ u.handoffs = t.handoffs \cup {row}
      /\ u.last = [t.last EXCEPT !["handoffs"] = id]
  BY <1>3
<1>5. /\ u.last \in [Tables -> Nat] /\ u.last.handoffs = id
      /\ u.last.memories = t.last.memories /\ u.last.inbox = t.last.inbox
  BY <1>1, <1>4 DEF Tables
<1>6. IsFiniteSet(t.handoffs \cup {row})
  BY FS_AddElement DEF IsFile, Tables
<1>0. /\ row.id = id /\ row.at \in Int
      /\ row = [id |-> row.id, mid |-> row.mid, at |-> row.at, size |-> row.size,
                keys |-> row.keys, rules |-> row.rules, nodes |-> row.nodes]
  OBVIOUS
<1> HIDE DEF u, row
<1>7. \A table \in Tables :
        /\ IsFiniteSet(u[table])
        /\ \A r \in u[table] : r.id \in 1..u.last[table]
        /\ \A r, s \in u[table] : r.id = s.id => r = s
  <2>1. \A r \in u.handoffs : r.id \in 1..u.last.handoffs
    BY <1>0, <1>1, <1>4, <1>5 DEF IsFile, Tables
  <2>2. \A r, s \in u.handoffs : r.id = s.id => r = s
    BY <1>0, <1>1, <1>4 DEF IsFile, Tables
  <2>3. IsFiniteSet(u.handoffs) /\ u.memories = t.memories /\ u.inbox = t.inbox
    BY <1>4, <1>6
  <2> QED BY <2>1, <2>2, <2>3, <1>5 DEF IsFile, Tables
<1>8. \A h \in u.handoffs :
        /\ h = [id |-> h.id, mid |-> h.mid, at |-> h.at, size |-> h.size,
                keys |-> h.keys, rules |-> h.rules, nodes |-> h.nodes]
        /\ h.at \in Int
  BY <1>0, <1>4 DEF IsFile
<1>9. IsFile(u)
  BY <1>3, <1>4, <1>5, <1>7, <1>8 DEF IsFile
<1> QED BY <1>3, <1>9 DEF u, row

\* A deletion leaves the ids given as they are.
LEMMA DeleteRows ==
  ASSUME NEW t, IsFile(t), NEW table \in {"memories", "handoffs"}, NEW rows
  PROVE  /\ Delete(t, table, rows) =
              [memories |-> IF table = "memories" THEN t.memories \ rows ELSE t.memories,
               inbox |-> t.inbox,
               handoffs |-> IF table = "handoffs" THEN t.handoffs \ rows ELSE t.handoffs,
               last |-> t.last]
         /\ IsFile(Delete(t, table, rows))
<1> DEFINE u == Delete(t, table, rows)
<1>1. t = [memories |-> t.memories, inbox |-> t.inbox, handoffs |-> t.handoffs, last |-> t.last]
  BY DEF IsFile
<1>2. u = [memories |-> IF table = "memories" THEN t.memories \ rows ELSE t.memories,
           inbox |-> t.inbox,
           handoffs |-> IF table = "handoffs" THEN t.handoffs \ rows ELSE t.handoffs,
           last |-> t.last]
  <2>1. CASE table = "memories"
    <3>1. u = [t EXCEPT !["memories"] = t.memories \ rows]
      BY <2>1 DEF Delete
    <3> QED BY <1>1, <2>1, <3>1
  <2>2. CASE table = "handoffs"
    <3>1. u = [t EXCEPT !["handoffs"] = t.handoffs \ rows]
      BY <2>2 DEF Delete
    <3> QED BY <1>1, <2>2, <3>1
  <2> QED BY <2>1, <2>2
<1> HIDE DEF u
<1>3. /\ u = [memories |-> u.memories, inbox |-> u.inbox, handoffs |-> u.handoffs, last |-> u.last]
      /\ u.memories \subseteq t.memories /\ u.inbox = t.inbox /\ u.handoffs \subseteq t.handoffs
      /\ u.last = t.last
  BY <1>2
<1>4. IsFiniteSet(u.memories) /\ IsFiniteSet(u.handoffs)
  BY <1>3, FS_Subset DEF IsFile, Tables
<1>5. \A name \in Tables :
        /\ IsFiniteSet(u[name])
        /\ \A r \in u[name] : r.id \in 1..u.last[name]
        /\ \A r, s \in u[name] : r.id = s.id => r = s
  BY <1>3, <1>4 DEF IsFile, Tables
<1>6. IsFile(u)
  BY <1>3, <1>5 DEF IsFile
<1> QED BY <1>2, <1>6 DEF u

\* /inbox done: rows change their status and keep their ids.
LEMMA MarkItems ==
  ASSUME NEW t, IsFile(t), NEW open \in SUBSET t.inbox
  PROVE  LET marked == {[i EXCEPT !.status = "done"] : i \in open}
             u == [t EXCEPT !.inbox = (@ \ open) \cup marked]
         IN /\ u = [memories |-> t.memories, inbox |-> (t.inbox \ open) \cup marked,
                    handoffs |-> t.handoffs, last |-> t.last]
            /\ IsFile(u)
<1> DEFINE Done(i) == [i EXCEPT !.status = "done"]
           marked == {Done(i) : i \in open}
           u == [t EXCEPT !.inbox = (@ \ open) \cup marked]
           Item == [id : Nat, at : Int, status : {"open", "done"}]
<1>1. /\ t = [memories |-> t.memories, inbox |-> t.inbox, handoffs |-> t.handoffs, last |-> t.last]
      /\ t.inbox \subseteq Item /\ IsFiniteSet(t.inbox)
      /\ \A i \in t.inbox : i.id \in 1..t.last.inbox
      /\ \A i, j \in t.inbox : i.id = j.id => i = j
  BY DEF IsFile, Tables
<1>2. \A i \in Item : Done(i) \in Item /\ Done(i).id = i.id
  OBVIOUS
<1>3. IsFiniteSet(open) /\ IsFiniteSet(t.inbox \ open)
  BY <1>1, FS_Subset
<1>4. IsFiniteSet(marked)
  <2> DEFINE f == [i \in open |-> Done(i)]
  <2> HIDE DEF Done
  <2>1. f \in [open -> marked] /\ \A x \in marked : \E i \in open : f[i] = x
    OBVIOUS
  <2>2. f \in Surjection(open, marked)
    BY <2>1 DEF Surjection
  <2> QED BY <1>3, <2>2, FS_Surjection
<1> HIDE DEF Done
<1>5. u = [memories |-> t.memories, inbox |-> (t.inbox \ open) \cup marked,
           handoffs |-> t.handoffs, last |-> t.last]
  <2> HIDE DEF marked
  <2> QED BY <1>1
<1> HIDE DEF u
<1>6. /\ u = [memories |-> u.memories, inbox |-> u.inbox, handoffs |-> u.handoffs, last |-> u.last]
      /\ u.memories = t.memories /\ u.inbox = (t.inbox \ open) \cup marked
      /\ u.handoffs = t.handoffs /\ u.last = t.last
  BY <1>5
<1>7. IsFiniteSet(u.inbox)
  <2> HIDE DEF marked
  <2> QED BY <1>3, <1>4, <1>6, FS_Union
<1>8. u.inbox \subseteq Item
  BY <1>1, <1>2, <1>6
<1>9. \A r \in marked : \E i \in open : r = Done(i) /\ r.id = i.id
  BY <1>1, <1>2
<1>10. \A r \in u.inbox : r.id \in 1..u.last.inbox
  BY <1>1, <1>6, <1>9
<1>11. \A r, s \in u.inbox : r.id = s.id => r = s
  <2> TAKE r, s \in u.inbox
  <2> HAVE r.id = s.id
  <2> HIDE DEF marked
  <2>1. CASE r \in t.inbox \ open /\ s \in t.inbox \ open
    BY <1>1, <2>1
  <2>2. CASE r \in marked /\ s \in t.inbox \ open
    BY <1>1, <1>9, <2>2
  <2>3. CASE r \in t.inbox \ open /\ s \in marked
    BY <1>1, <1>9, <2>3
  <2>4. CASE r \in marked /\ s \in marked
    BY <1>1, <1>9, <2>4
  <2> QED BY <1>6, <2>1, <2>2, <2>3, <2>4
<1>12. \A name \in Tables :
         /\ IsFiniteSet(u[name])
         /\ \A r \in u[name] : r.id \in 1..u.last[name]
         /\ \A r, s \in u[name] : r.id = s.id => r = s
  BY <1>6, <1>7, <1>10, <1>11 DEF IsFile, Tables
<1>13. IsFile(u)
  <2> HIDE DEF marked
  <2> QED BY <1>6, <1>8, <1>12 DEF IsFile
<1> QED BY <1>5, <1>13 DEF u, Done

Statements == {"remember", "trim", "forget", "capture", "mark", "retain", "prune_age", "prune_count"}

\* What a statement does to the file is to leave it one, and to give its archive at most a
\* row of bounded size under an id none of its rows ever had.
LEMMA EffectKeeps ==
  ASSUME NEW c, CallOK(c), NEW t, IsFile(t), NEW statement \in Statements,
         statement = "remember" => c.verb \in {"/remember", "store_memory", "both"}
  PROVE  LET u == Effect(statement, c, t)
         IN /\ IsFile(u)
            /\ u.last.handoffs >= t.last.handoffs
            /\ \A h \in u.handoffs :
                 \/ h \in t.handoffs
                 \/ h.id > t.last.handoffs /\ h.size = Bounded(c.size) /\ statement = "retain"
<1> DEFINE u == Effect(statement, c, t)
<1>0. t.last \in [Tables -> Nat] /\ t.last.handoffs \in Nat /\ t.last.handoffs >= t.last.handoffs
  BY DEF IsFile, Tables
<1>1. CASE statement = "remember"
  <2>1. u = Insert(t, "memories", [id |-> 0, type |-> c.type, content |-> c.content, at |-> c.at])
    BY <1>1 DEF Effect
  <2>2. c.type \in Types /\ c.content \in Contents /\ c.at \in Int
    BY <1>1 DEF CallOK
  <2>3. IsFile(u) /\ u.handoffs = t.handoffs
        /\ u.last = [t.last EXCEPT !["memories"] = t.last.memories + 1]
    <3> DEFINE type == c.type
               content == c.content
               at == c.at
               row == [id |-> t.last.memories + 1, type |-> type, content |-> content, at |-> at]
    <3> HIDE DEF u, type, content, at
    <3>1. /\ IsFile(u)
          /\ u = [memories |-> t.memories \cup {row}, inbox |-> t.inbox, handoffs |-> t.handoffs,
                  last |-> [t.last EXCEPT !["memories"] = t.last.memories + 1]]
      <4>1. /\ u = Insert(t, "memories", [id |-> 0, type |-> type, content |-> content, at |-> at])
            /\ type \in Types /\ content \in Contents /\ at \in Int
        BY <2>1, <2>2 DEF type, content, at
      <4> QED BY <4>1, InsertMemory
    <3> HIDE DEF row
    <3> QED BY <3>1
  <2> QED BY <1>0, <2>3 DEF Tables
<1>2. CASE statement = "capture"
  <2>1. u = Insert(t, "inbox", [id |-> 0, at |-> c.at, status |-> "open"])
    BY <1>2 DEF Effect
  <2>2. c.at \in Int
    BY DEF CallOK
  <2>3. IsFile(u) /\ u.handoffs = t.handoffs
        /\ u.last = [t.last EXCEPT !["inbox"] = t.last.inbox + 1]
    <3> DEFINE at == c.at
               row == [id |-> t.last.inbox + 1, at |-> at, status |-> "open"]
    <3> HIDE DEF u, at
    <3>1. /\ IsFile(u)
          /\ u = [memories |-> t.memories, inbox |-> t.inbox \cup {row}, handoffs |-> t.handoffs,
                  last |-> [t.last EXCEPT !["inbox"] = t.last.inbox + 1]]
      <4>1. u = Insert(t, "inbox", [id |-> 0, at |-> at, status |-> "open"]) /\ at \in Int
        BY <2>1, <2>2 DEF at
      <4> QED BY <4>1, InsertItem
    <3> HIDE DEF row
    <3> QED BY <3>1
  <2> QED BY <1>0, <2>3 DEF Tables
<1>3. CASE statement = "mark"
  <2> DEFINE open == Touches(statement, c, t)
  <2>1. u = [t EXCEPT !.inbox = (@ \ open) \cup {[i EXCEPT !.status = "done"] : i \in open}]
    BY <1>3 DEF Effect
  <2>2. open \in SUBSET t.inbox
    BY <1>3 DEF Touches
  <2> HIDE DEF open
  <2>3. IsFile(u) /\ u.handoffs = t.handoffs /\ u.last = t.last
    <3> DEFINE marked == {[i EXCEPT !.status = "done"] : i \in open}
    <3> HIDE DEF u
    <3>1. /\ IsFile(u)
          /\ u = [memories |-> t.memories, inbox |-> (t.inbox \ open) \cup marked,
                  handoffs |-> t.handoffs, last |-> t.last]
      BY <2>1, <2>2, MarkItems
    <3> HIDE DEF marked
    <3> QED BY <3>1
  <2> QED BY <1>0, <2>3
<1>4. CASE statement = "retain"
  <2> DEFINE size == Bounded(c.size)
             keys == c.about.keys
             rules == c.about.rules
             nodes == c.about.nodes
             mid == c.mid
             at == c.at
  <2>1. u = Insert(t, "handoffs", [id |-> 0, mid |-> mid, at |-> at, size |-> size,
                                   keys |-> keys, rules |-> rules, nodes |-> nodes])
    BY <1>4 DEF Effect
  <2>2. at \in Int
    BY DEF CallOK
  <2> HIDE DEF size, keys, rules, nodes, mid, at, u
  <2> DEFINE row == [id |-> t.last.handoffs + 1, mid |-> mid, at |-> at, size |-> size,
                     keys |-> keys, rules |-> rules, nodes |-> nodes]
  <2>3. /\ IsFile(u)
        /\ u = [memories |-> t.memories, inbox |-> t.inbox, handoffs |-> t.handoffs \cup {row},
                last |-> [t.last EXCEPT !["handoffs"] = t.last.handoffs + 1]]
    BY <2>1, <2>2, InsertHandoff
  <2>4. row.id = t.last.handoffs + 1 /\ row.size = size
    OBVIOUS
  <2> HIDE DEF row
  <2>5. u.handoffs = t.handoffs \cup {row} /\ u.last.handoffs = t.last.handoffs + 1
    BY <2>3, <1>0 DEF Tables
  <2>6. \A h \in u.handoffs : h \in t.handoffs \/ (h.id > t.last.handoffs /\ h.size = size)
    BY <1>0, <2>4, <2>5
  <2> QED BY <1>0, <1>4, <2>3, <2>5, <2>6 DEF u, size
<1>5. CASE statement \in {"trim", "forget"}
  <2> DEFINE rows == Touches(statement, c, t)
  <2>1. u = Delete(t, "memories", rows)
    BY <1>5 DEF Effect
  <2> HIDE DEF rows, u
  <2>2. IsFile(u) /\ u.handoffs = t.handoffs /\ u.last = t.last
    BY <2>1, DeleteRows
  <2> QED BY <1>0, <2>2 DEF u
<1>6. CASE statement \in {"prune_age", "prune_count"}
  <2> DEFINE rows == Touches(statement, c, t)
  <2>1. u = Delete(t, "handoffs", rows)
    BY <1>6 DEF Effect
  <2> HIDE DEF rows, u
  <2>2. IsFile(u) /\ u.handoffs = t.handoffs \ rows /\ u.last = t.last
    BY <2>1, DeleteRows
  <2> QED BY <1>0, <2>2 DEF u
<1> QED BY <1>1, <1>2, <1>3, <1>4, <1>5, <1>6 DEF Statements

-----------------------------------------------------------------------------
(* Programs.                                                               *)

LEMMA OneInstruction ==
  ASSUME NEW a \in Instructions
  PROVE  <<a>> \in Seq(Instructions) /\ Len(<<a>>) = 1 /\ <<a>>[1] = a
<1>1. ASSUME NEW S, NEW x \in S
      PROVE  <<x>> \in Seq(S) /\ Len(<<x>>) = 1 /\ <<x>>[1] = x
  OBVIOUS
<1> QED BY <1>1

LEMMA TwoInstructions ==
  ASSUME NEW a \in Instructions, NEW b \in Instructions
  PROVE  <<a, b>> \in Seq(Instructions) /\ Len(<<a, b>>) = 2 /\ <<a, b>>[1] = a /\ <<a, b>>[2] = b
<1>1. ASSUME NEW S, NEW x \in S, NEW y \in S
      PROVE  <<x, y>> \in Seq(S) /\ Len(<<x, y>>) = 2 /\ <<x, y>>[1] = x /\ <<x, y>>[2] = y
  OBVIOUS
<1> QED BY <1>1

LEMMA ThreeInstructions ==
  ASSUME NEW a \in Instructions, NEW b \in Instructions, NEW c \in Instructions
  PROVE  /\ <<a, b, c>> \in Seq(Instructions) /\ Len(<<a, b, c>>) = 3
         /\ <<a, b, c>>[1] = a /\ <<a, b, c>>[2] = b /\ <<a, b, c>>[3] = c
<1>1. ASSUME NEW S, NEW x \in S, NEW y \in S, NEW z \in S
      PROVE  /\ <<x, y, z>> \in Seq(S) /\ Len(<<x, y, z>>) = 3
             /\ <<x, y, z>>[1] = x /\ <<x, y, z>>[2] = y /\ <<x, y, z>>[3] = z
  OBVIOUS
<1> QED BY <1>1

\* A scope is its body between its two ends.
LEMMA ScopeIs ==
  ASSUME NEW body \in Seq(Instructions)
  PROVE  /\ Scope(body) \in Seq(Instructions)
         /\ Len(Scope(body)) = Len(body) + 2
         /\ Scope(body)[1] = "enter" /\ Scope(body)[Len(body) + 2] = "leave"
         /\ \A i \in 1..Len(body) : Scope(body)[i + 1] = body[i]
<1> DEFINE before == <<"enter">>
           after == <<"leave">>
<1>1. /\ before \in Seq(Instructions) /\ Len(before) = 1 /\ before[1] = "enter"
      /\ after \in Seq(Instructions) /\ Len(after) = 1 /\ after[1] = "leave"
  <2>1. "enter" \in Instructions /\ "leave" \in Instructions
    BY DEF Instructions
  <2> QED BY <2>1, OneInstruction
<1>2. Len(body) \in Nat
  OBVIOUS
<1> HIDE DEF before, after
<1>3. /\ before \o body \in Seq(Instructions) /\ Len(before \o body) = Len(body) + 1
      /\ \A i \in 1..Len(body) + 1 : (before \o body)[i] = IF i <= 1 THEN before[i] ELSE body[i - 1]
  BY <1>1, <1>2, ConcatProperties
<1> DEFINE first == before \o body
<1> HIDE DEF first
<1>4. /\ first \o after \in Seq(Instructions) /\ Len(first \o after) = Len(body) + 2
      /\ \A i \in 1..Len(body) + 2 :
           (first \o after)[i] = IF i <= Len(body) + 1 THEN first[i] ELSE after[i - (Len(body) + 1)]
  BY <1>1, <1>2, <1>3, ConcatProperties DEF first
<1>5. Scope(body) = first \o after
  BY DEF Scope, first, before, after
<1>6. (first \o after)[1] = "enter"
  BY <1>1, <1>2, <1>3, <1>4 DEF first
<1>7. (first \o after)[Len(body) + 2] = "leave"
  BY <1>1, <1>2, <1>4
<1>8. \A i \in 1..Len(body) : (first \o after)[i + 1] = body[i]
  <2> TAKE i \in 1..Len(body)
  <2>1. i + 1 \in 1..Len(body) + 1 /\ i + 1 \in 1..Len(body) + 2 /\ ~(i + 1 <= 1) /\ i + 1 - 1 = i
        /\ i + 1 <= Len(body) + 1
    BY <1>2
  <2>2. (first \o after)[i + 1] = first[i + 1]
    BY <2>1, <1>4
  <2>3. first[i + 1] = body[i]
    BY <2>1, <1>3 DEF first
  <2> QED BY <2>2, <2>3
<1> QED BY <1>4, <1>5, <1>6, <1>7, <1>8

LEMMA ScopeOfOne ==
  ASSUME NEW body \in Seq(Instructions), Len(body) = 1
  PROVE  /\ Scope(body) \in Seq(Instructions) /\ Len(Scope(body)) = 3
         /\ Scope(body)[1] = "enter" /\ Scope(body)[3] = "leave"
         /\ Scope(body)[2] = body[1]
<1>1. /\ Scope(body) \in Seq(Instructions) /\ Len(Scope(body)) = Len(body) + 2
      /\ Scope(body)[1] = "enter" /\ Scope(body)[Len(body) + 2] = "leave"
      /\ \A i \in 1..Len(body) : Scope(body)[i + 1] = body[i]
  BY ScopeIs
<1>2. Len(body) + 2 = 3
  OBVIOUS
<1>3. \A i \in 1..1 : Scope(body)[i + 1] = body[i]
  BY <1>1
<1>4. /\ Scope(body)[1 + 1] = body[1]
  BY <1>3
<1> QED BY <1>1, <1>2, <1>4

LEMMA ScopeOfTwo ==
  ASSUME NEW body \in Seq(Instructions), Len(body) = 2
  PROVE  /\ Scope(body) \in Seq(Instructions) /\ Len(Scope(body)) = 4
         /\ Scope(body)[1] = "enter" /\ Scope(body)[4] = "leave"
         /\ Scope(body)[2] = body[1] /\ Scope(body)[3] = body[2]
<1>1. /\ Scope(body) \in Seq(Instructions) /\ Len(Scope(body)) = Len(body) + 2
      /\ Scope(body)[1] = "enter" /\ Scope(body)[Len(body) + 2] = "leave"
      /\ \A i \in 1..Len(body) : Scope(body)[i + 1] = body[i]
  BY ScopeIs
<1>2. Len(body) + 2 = 4
  OBVIOUS
<1>3. \A i \in 1..2 : Scope(body)[i + 1] = body[i]
  BY <1>1
<1>4. /\ Scope(body)[1 + 1] = body[1] /\ Scope(body)[2 + 1] = body[2]
  BY <1>3
<1> QED BY <1>1, <1>2, <1>4

LEMMA ScopeOfThree ==
  ASSUME NEW body \in Seq(Instructions), Len(body) = 3
  PROVE  /\ Scope(body) \in Seq(Instructions) /\ Len(Scope(body)) = 5
         /\ Scope(body)[1] = "enter" /\ Scope(body)[5] = "leave"
         /\ Scope(body)[2] = body[1] /\ Scope(body)[3] = body[2] /\ Scope(body)[4] = body[3]
<1>1. /\ Scope(body) \in Seq(Instructions) /\ Len(Scope(body)) = Len(body) + 2
      /\ Scope(body)[1] = "enter" /\ Scope(body)[Len(body) + 2] = "leave"
      /\ \A i \in 1..Len(body) : Scope(body)[i + 1] = body[i]
  BY ScopeIs
<1>2. Len(body) + 2 = 5
  OBVIOUS
<1>3. \A i \in 1..3 : Scope(body)[i + 1] = body[i]
  BY <1>1
<1>4. /\ Scope(body)[1 + 1] = body[1] /\ Scope(body)[2 + 1] = body[2] /\ Scope(body)[3 + 1] = body[3]
  BY <1>3
<1> QED BY <1>1, <1>2, <1>4

LEMMA ScopeOfSix ==
  ASSUME NEW body \in Seq(Instructions), Len(body) = 6
  PROVE  /\ Scope(body) \in Seq(Instructions) /\ Len(Scope(body)) = 8
         /\ Scope(body)[1] = "enter" /\ Scope(body)[8] = "leave"
         /\ Scope(body)[2] = body[1] /\ Scope(body)[3] = body[2] /\ Scope(body)[4] = body[3]
         /\ Scope(body)[5] = body[4] /\ Scope(body)[6] = body[5] /\ Scope(body)[7] = body[6]
<1>1. /\ Scope(body) \in Seq(Instructions) /\ Len(Scope(body)) = Len(body) + 2
      /\ Scope(body)[1] = "enter" /\ Scope(body)[Len(body) + 2] = "leave"
      /\ \A i \in 1..Len(body) : Scope(body)[i + 1] = body[i]
  BY ScopeIs
<1>2. Len(body) + 2 = 8
  OBVIOUS
<1>3. \A i \in 1..6 : Scope(body)[i + 1] = body[i]
  BY <1>1
<1>4. /\ Scope(body)[1 + 1] = body[1] /\ Scope(body)[2 + 1] = body[2] /\ Scope(body)[3 + 1] = body[3]
      /\ Scope(body)[4 + 1] = body[4] /\ Scope(body)[5 + 1] = body[5] /\ Scope(body)[6 + 1] = body[6]
  BY <1>3
<1> QED BY <1>1, <1>2, <1>4

LEMMA ThenReceipt ==
  ASSUME NEW s \in Seq(Instructions)
  PROVE  LET p == s \o <<"receipt">>
         IN /\ p \in Seq(Instructions) /\ Len(p) = Len(s) + 1
            /\ \A i \in 1..Len(s) : p[i] = s[i]
            /\ p[Len(s) + 1] = "receipt"
<1> DEFINE end == <<"receipt">>
<1>1. end \in Seq(Instructions) /\ Len(end) = 1 /\ end[1] = "receipt" /\ Len(s) \in Nat
  <2>1. "receipt" \in Instructions
    BY DEF Instructions
  <2> QED BY <2>1, OneInstruction
<1> HIDE DEF end
<1>2. /\ s \o end \in Seq(Instructions) /\ Len(s \o end) = Len(s) + 1
      /\ \A i \in 1..Len(s) + 1 : (s \o end)[i] = IF i <= Len(s) THEN s[i] ELSE end[i - Len(s)]
  BY <1>1, ConcatProperties
<1> QED BY <1>1, <1>2 DEF end

\* The programs, an instruction at a time.
LEMMA Programs ==
  ASSUME NEW c, c.verb \in Verbs
  PROVE  LET P == Program(c)
         IN /\ P \in Seq(Instructions)
            /\ c.verb \in {"/remember", "store_memory"} =>
                 /\ Len(P) = 5
                 /\ P[1] = "enter" /\ P[2] = "remember" /\ P[3] = "trim" /\ P[4] = "leave"
                 /\ P[5] = "receipt"
            /\ c.verb = "/forget" =>
                 /\ Len(P) = 4
                 /\ P[1] = "enter" /\ P[2] = "forget" /\ P[3] = "leave" /\ P[4] = "receipt"
            /\ c.verb = "capture" =>
                 /\ Len(P) = 4
                 /\ P[1] = "enter" /\ P[2] = "capture" /\ P[3] = "leave" /\ P[4] = "receipt"
            /\ c.verb = "/inbox_done" =>
                 /\ Len(P) = 4
                 /\ P[1] = "enter" /\ P[2] = "mark" /\ P[3] = "leave" /\ P[4] = "receipt"
            /\ c.verb = "retain" =>
                 /\ Len(P) = 5
                 /\ P[1] = "enter" /\ P[2] = "retain" /\ P[3] = "prune_age"
                 /\ P[4] = "prune_count" /\ P[5] = "leave"
            /\ c.verb = "both" =>
                 /\ Len(P) = 8
                 /\ P[1] = "enter" /\ P[2] = "enter" /\ P[3] = "capture" /\ P[4] = "leave"
                 /\ P[5] = "catch" /\ P[6] = "remember" /\ P[7] = "trim" /\ P[8] = "leave"
<1> DEFINE P == Program(c)
<1>1. CASE c.verb \in {"/remember", "store_memory"}
  <2> DEFINE body == <<"remember", "trim">>
  <2>1. body \in Seq(Instructions) /\ Len(body) = 2 /\ body[1] = "remember" /\ body[2] = "trim"
    <3>1. "remember" \in Instructions /\ "trim" \in Instructions
      BY DEF Instructions
    <3> QED BY <3>1, TwoInstructions
  <2>2. P = Scope(body) \o <<"receipt">>
    BY <1>1 DEF Program, Remembering
  <2> HIDE DEF body, P
  <2>3. /\ Scope(body) \in Seq(Instructions) /\ Len(Scope(body)) = 4
        /\ Scope(body)[1] = "enter" /\ Scope(body)[2] = "remember" /\ Scope(body)[3] = "trim"
        /\ Scope(body)[4] = "leave"
    BY <2>1, ScopeOfTwo
  <2>4. /\ P \in Seq(Instructions) /\ Len(P) = 5
        /\ P[1] = "enter" /\ P[2] = "remember" /\ P[3] = "trim" /\ P[4] = "leave" /\ P[5] = "receipt"
    <3> DEFINE scope == Scope(body)
    <3>1. /\ scope \in Seq(Instructions) /\ Len(scope) = 4 /\ P = scope \o <<"receipt">>
      BY <2>2, <2>3
    <3> HIDE DEF scope
    <3>2. /\ P \in Seq(Instructions) /\ Len(P) = Len(scope) + 1
          /\ \A i \in 1..Len(scope) : P[i] = scope[i]
          /\ P[Len(scope) + 1] = "receipt"
      BY <3>1, ThenReceipt
    <3>3. Len(scope) + 1 = 5
      BY <3>1
    <3>4. \A i \in 1..4 : P[i] = scope[i]
      BY <3>1, <3>2
    <3> QED BY <2>3, <3>2, <3>3, <3>4 DEF scope
  <2> QED BY <1>1, <2>4 DEF P
<1>2. ASSUME NEW statement \in {"forget", "capture", "mark"}, P = Scope(<<statement>>) \o <<"receipt">>
      PROVE  /\ P \in Seq(Instructions) /\ Len(P) = 4
             /\ P[1] = "enter" /\ P[2] = statement /\ P[3] = "leave" /\ P[4] = "receipt"
  <2> DEFINE body == <<statement>>
  <2>1. body \in Seq(Instructions) /\ Len(body) = 1 /\ body[1] = statement
    <3>1. statement \in Instructions
      BY DEF Instructions
    <3> QED BY <3>1, OneInstruction
  <2>2. P = Scope(body) \o <<"receipt">>
    BY <1>2
  <2> HIDE DEF body, P
  <2>3. /\ Scope(body) \in Seq(Instructions) /\ Len(Scope(body)) = 3
        /\ Scope(body)[1] = "enter" /\ Scope(body)[2] = statement /\ Scope(body)[3] = "leave"
    BY <2>1, ScopeOfOne
  <2> DEFINE scope == Scope(body)
  <2>4. /\ scope \in Seq(Instructions) /\ Len(scope) = 3 /\ P = scope \o <<"receipt">>
    BY <2>2, <2>3
  <2> HIDE DEF scope
  <2>5. /\ P \in Seq(Instructions) /\ Len(P) = Len(scope) + 1
        /\ \A i \in 1..Len(scope) : P[i] = scope[i]
        /\ P[Len(scope) + 1] = "receipt"
    BY <2>4, ThenReceipt
  <2>6. Len(scope) + 1 = 4
    BY <2>4
  <2>7. \A i \in 1..3 : P[i] = scope[i]
    BY <2>4, <2>5
  <2> QED BY <2>3, <2>5, <2>6, <2>7 DEF scope, P
<1>3. CASE c.verb = "/forget"
  <2>1. P = Scope(<<"forget">>) \o <<"receipt">>
    BY <1>3 DEF Program
  <2> HIDE DEF P
  <2> QED BY <1>2, <1>3, <2>1 DEF P
<1>4. CASE c.verb = "capture"
  <2>1. P = Scope(<<"capture">>) \o <<"receipt">>
    BY <1>4 DEF Program, Capturing
  <2> HIDE DEF P
  <2> QED BY <1>2, <1>4, <2>1 DEF P
<1>5. CASE c.verb = "/inbox_done"
  <2>1. P = Scope(<<"mark">>) \o <<"receipt">>
    BY <1>5 DEF Program
  <2> HIDE DEF P
  <2> QED BY <1>2, <1>5, <2>1 DEF P
<1>6. CASE c.verb = "retain"
  <2> DEFINE body == <<"retain", "prune_age", "prune_count">>
  <2>1. body \in Seq(Instructions) /\ Len(body) = 3 /\ body[1] = "retain" /\ body[2] = "prune_age"
        /\ body[3] = "prune_count"
    <3>1. "retain" \in Instructions /\ "prune_age" \in Instructions /\ "prune_count" \in Instructions
      BY DEF Instructions
    <3> QED BY <3>1, ThreeInstructions
  <2>2. P = Scope(body)
    BY <1>6 DEF Program
  <2> HIDE DEF body, P
  <2>3. /\ P \in Seq(Instructions) /\ Len(P) = 5 /\ P[1] = "enter" /\ P[5] = "leave"
        /\ P[2] = body[1] /\ P[3] = body[2] /\ P[4] = body[3]
    BY <2>1, <2>2, ScopeOfThree
  <2> QED BY <1>6, <2>1, <2>3 DEF P
<1>7. CASE c.verb = "both"
  <2> DEFINE inner == <<"capture">>
             rest == <<"catch", "remember", "trim">>
             body == Scope(inner) \o rest
  <2>1. inner \in Seq(Instructions) /\ Len(inner) = 1 /\ inner[1] = "capture"
    <3>1. "capture" \in Instructions
      BY DEF Instructions
    <3> QED BY <3>1, OneInstruction
  <2>2. rest \in Seq(Instructions) /\ Len(rest) = 3 /\ rest[1] = "catch" /\ rest[2] = "remember"
        /\ rest[3] = "trim"
    <3>1. "catch" \in Instructions /\ "remember" \in Instructions /\ "trim" \in Instructions
      BY DEF Instructions
    <3> QED BY <3>1, ThreeInstructions
  <2>3. P = Scope(body)
    BY <1>7 DEF Program, Capturing
  <2> HIDE DEF inner, rest
  <2>4. /\ Scope(inner) \in Seq(Instructions) /\ Len(Scope(inner)) = 3
        /\ Scope(inner)[1] = "enter" /\ Scope(inner)[2] = "capture" /\ Scope(inner)[3] = "leave"
    BY <2>1, ScopeOfOne
  <2> DEFINE nested == Scope(inner)
  <2> HIDE DEF nested
  <2>5. /\ nested \o rest \in Seq(Instructions) /\ Len(nested \o rest) = Len(nested) + Len(rest)
        /\ \A i \in 1..Len(nested) + Len(rest) :
             (nested \o rest)[i] = IF i <= Len(nested) THEN nested[i] ELSE rest[i - Len(nested)]
    BY <2>2, <2>4, ConcatProperties DEF nested
  <2>6. /\ Len(nested) = 3 /\ Len(rest) = 3 /\ body = nested \o rest
        /\ nested[1] = "enter" /\ nested[2] = "capture" /\ nested[3] = "leave"
    BY <2>2, <2>4 DEF nested
  <2> HIDE DEF body, P
  <2>7. body \in Seq(Instructions) /\ Len(body) = 6
    BY <2>5, <2>6
  <2>8. \A i \in 1..6 : body[i] = IF i <= 3 THEN nested[i] ELSE rest[i - 3]
    BY <2>5, <2>6
  <2>9. body[1] = "enter" /\ body[2] = "capture" /\ body[3] = "leave"
    <3>1. body[1] = nested[1] /\ body[2] = nested[2] /\ body[3] = nested[3]
      BY <2>8
    <3> QED BY <2>6, <3>1
  <2>10. body[4] = "catch" /\ body[5] = "remember" /\ body[6] = "trim"
    <3>1. body[4] = rest[4 - 3] /\ body[5] = rest[5 - 3] /\ body[6] = rest[6 - 3]
      BY <2>8
    <3> QED BY <2>2, <3>1
  <2>11. /\ P \in Seq(Instructions) /\ Len(P) = 8 /\ P[1] = "enter" /\ P[8] = "leave"
         /\ P[2] = body[1] /\ P[3] = body[2] /\ P[4] = body[3]
         /\ P[5] = body[4] /\ P[6] = body[5] /\ P[7] = body[6]
    BY <2>3, <2>7, ScopeOfSix
  <2> QED BY <1>7, <2>9, <2>10, <2>11 DEF P
<1> HIDE DEF P
<1> QED BY <1>1, <1>3, <1>4, <1>5, <1>6, <1>7 DEF Verbs, P

\* How many scopes are open before the k-th instruction of a call of this verb.
Last(verb) ==
  CASE verb \in {"/remember", "store_memory"} -> 4
    [] verb = "retain"                        -> 5
    [] verb = "both"                          -> 8
    [] OTHER                                  -> 3
DepthAt(verb, k) ==
  CASE k = 1 \/ k > Last(verb)       -> 0
    [] verb = "both" /\ k \in {3, 4} -> 2
    [] OTHER                         -> 1
\* What the statements before it have made of t.
ValueAt(c, t, k) ==
  CASE c.verb = "both" ->
         (CASE k \in 1..3 -> t
            [] k \in 4..6 -> Effect("capture", c, t)
            [] k = 7      -> Effect("remember", c, Effect("capture", c, t))
            [] OTHER      -> Whole(c, t))
    [] c.verb = "retain" ->
         (CASE k \in 1..2 -> t
            [] k = 3      -> Effect("retain", c, t)
            [] k = 4      -> Effect("prune_age", c, Effect("retain", c, t))
            [] OTHER      -> Whole(c, t))
    [] c.verb \in {"/remember", "store_memory"} ->
         (CASE k \in 1..2 -> t
            [] k = 3      -> Effect("remember", c, t)
            [] OTHER      -> Whole(c, t))
    [] OTHER -> IF k \in 1..2 THEN t ELSE Whole(c, t)

\* What the programs have in common: scopes nest, statements stand in one and have its end
\* ahead, a nested scope's caller catches, and nothing after the outermost opens or ends one.
LEMMA ProgramShape ==
  ASSUME NEW c, c.verb \in Verbs
  PROVE  LET P == Program(c)
             L == Len(P)
         IN /\ P \in Seq(Instructions) /\ L \in 4..8 /\ P[1] = "enter"
            /\ DepthAt(c.verb, 1) = 0 /\ DepthAt(c.verb, L + 1) = 0
            /\ \A k \in 1..L :
                 /\ DepthAt(c.verb, k) \in 0..2
                 /\ P[k] = "enter" => DepthAt(c.verb, k + 1) = DepthAt(c.verb, k) + 1
                 /\ P[k] = "leave" =>
                      DepthAt(c.verb, k) >= 1 /\ DepthAt(c.verb, k + 1) = DepthAt(c.verb, k) - 1
                 /\ P[k] \notin {"enter", "leave"} => DepthAt(c.verb, k + 1) = DepthAt(c.verb, k)
                 /\ P[k] = "receipt" => DepthAt(c.verb, k) = 0
                 /\ P[k] = "catch" => DepthAt(c.verb, k) = 1
                 /\ IsStatement(P[k]) =>
                      /\ DepthAt(c.verb, k) >= 1 /\ P[k] \in Statements
                      /\ P[k] = "remember" => c.verb \in {"/remember", "store_memory", "both"}
                      /\ \E e \in k + 1..L :
                           /\ P[e] = "leave" /\ DepthAt(c.verb, e) = DepthAt(c.verb, k)
                           /\ \A j \in k..e - 1 : P[j] \notin {"enter", "leave"}
                 /\ P[k] = "leave" /\ DepthAt(c.verb, k) > 1 => k < L /\ P[k + 1] = "catch"
                 /\ P[k] = "leave" /\ DepthAt(c.verb, k) = 1 =>
                      \A j \in k + 1..L : P[j] \notin {"enter", "leave", "catch"}
<1> DEFINE P == Program(c)
           L == Len(P)
           D(k) == DepthAt(c.verb, k)
           Shape(k) ==
              /\ D(k) \in 0..2
              /\ P[k] = "enter" => D(k + 1) = D(k) + 1
              /\ P[k] = "leave" => D(k) >= 1 /\ D(k + 1) = D(k) - 1
              /\ P[k] \notin {"enter", "leave"} => D(k + 1) = D(k)
              /\ P[k] = "receipt" => D(k) = 0
              /\ P[k] = "catch" => D(k) = 1
              /\ IsStatement(P[k]) =>
                   /\ D(k) >= 1 /\ P[k] \in Statements
                   /\ P[k] = "remember" => c.verb \in {"/remember", "store_memory", "both"}
                   /\ \E e \in k + 1..L :
                        /\ P[e] = "leave" /\ D(e) = D(k)
                        /\ \A j \in k..e - 1 : P[j] \notin {"enter", "leave"}
              /\ P[k] = "leave" /\ D(k) > 1 => k < L /\ P[k + 1] = "catch"
              /\ P[k] = "leave" /\ D(k) = 1 =>
                   \A j \in k + 1..L : P[j] \notin {"enter", "leave", "catch"}
           Goal == /\ P \in Seq(Instructions) /\ L \in 4..8 /\ P[1] = "enter"
                   /\ D(1) = 0 /\ D(L + 1) = 0
                   /\ \A k \in 1..L : Shape(k)
<1>0. P \in Seq(Instructions)
  BY Programs
<1>1. ASSUME c.verb \in {"/remember", "store_memory"}
      PROVE  Goal
  <2>1. /\ L = 5
        /\ P[1] = "enter" /\ P[2] = "remember" /\ P[3] = "trim" /\ P[4] = "leave"
        /\ P[5] = "receipt"
    BY <1>1, Programs
  <2>2. /\ D(1) = 0 /\ D(2) = 1 /\ D(3) = 1 /\ D(4) = 1 /\ D(5) = 0
        /\ D(6) = 0
    BY <1>1 DEF DepthAt, Last
  <2> HIDE DEF D
  <2>3. Shape(1)
    BY <1>1, <2>1, <2>2 DEF IsStatement, Statements
  <2>4. Shape(2)
    <3>1. /\ P[4] = "leave" /\ D(4) = D(2) /\ 4 \in 2 + 1..L
          /\ \A j \in 2..4 - 1 : P[j] \notin {"enter", "leave"}
      BY <2>1, <2>2
    <3> QED BY <1>1, <2>1, <2>2, <3>1 DEF IsStatement, Statements
  <2>5. Shape(3)
    <3>1. /\ P[4] = "leave" /\ D(4) = D(3) /\ 4 \in 3 + 1..L
          /\ \A j \in 3..4 - 1 : P[j] \notin {"enter", "leave"}
      BY <2>1, <2>2
    <3> QED BY <1>1, <2>1, <2>2, <3>1 DEF IsStatement, Statements
  <2>6. Shape(4)
    BY <1>1, <2>1, <2>2 DEF IsStatement, Statements
  <2>7. Shape(5)
    BY <1>1, <2>1, <2>2 DEF IsStatement, Statements
  <2> HIDE DEF Shape
  <2>8. \A k \in 1..5 : Shape(k)
    BY <2>3, <2>4, <2>5, <2>6, <2>7
  <2> QED BY <1>0, <2>1, <2>2, <2>8 DEF Goal
<1>2. ASSUME c.verb = "/forget"
      PROVE  Goal
  <2>1. /\ L = 4
        /\ P[1] = "enter" /\ P[2] = "forget" /\ P[3] = "leave" /\ P[4] = "receipt"
    BY <1>2, Programs
  <2>2. /\ D(1) = 0 /\ D(2) = 1 /\ D(3) = 1 /\ D(4) = 0 /\ D(5) = 0
    BY <1>2 DEF DepthAt, Last
  <2> HIDE DEF D
  <2>3. Shape(1)
    BY <1>2, <2>1, <2>2 DEF IsStatement, Statements
  <2>4. Shape(2)
    <3>1. /\ P[3] = "leave" /\ D(3) = D(2) /\ 3 \in 2 + 1..L
          /\ \A j \in 2..3 - 1 : P[j] \notin {"enter", "leave"}
      BY <2>1, <2>2
    <3> QED BY <1>2, <2>1, <2>2, <3>1 DEF IsStatement, Statements
  <2>5. Shape(3)
    BY <1>2, <2>1, <2>2 DEF IsStatement, Statements
  <2>6. Shape(4)
    BY <1>2, <2>1, <2>2 DEF IsStatement, Statements
  <2> HIDE DEF Shape
  <2>7. \A k \in 1..4 : Shape(k)
    BY <2>3, <2>4, <2>5, <2>6
  <2> QED BY <1>0, <2>1, <2>2, <2>7 DEF Goal
<1>3. ASSUME c.verb = "capture"
      PROVE  Goal
  <2>1. /\ L = 4
        /\ P[1] = "enter" /\ P[2] = "capture" /\ P[3] = "leave" /\ P[4] = "receipt"
    BY <1>3, Programs
  <2>2. /\ D(1) = 0 /\ D(2) = 1 /\ D(3) = 1 /\ D(4) = 0 /\ D(5) = 0
    BY <1>3 DEF DepthAt, Last
  <2> HIDE DEF D
  <2>3. Shape(1)
    BY <1>3, <2>1, <2>2 DEF IsStatement, Statements
  <2>4. Shape(2)
    <3>1. /\ P[3] = "leave" /\ D(3) = D(2) /\ 3 \in 2 + 1..L
          /\ \A j \in 2..3 - 1 : P[j] \notin {"enter", "leave"}
      BY <2>1, <2>2
    <3> QED BY <1>3, <2>1, <2>2, <3>1 DEF IsStatement, Statements
  <2>5. Shape(3)
    BY <1>3, <2>1, <2>2 DEF IsStatement, Statements
  <2>6. Shape(4)
    BY <1>3, <2>1, <2>2 DEF IsStatement, Statements
  <2> HIDE DEF Shape
  <2>7. \A k \in 1..4 : Shape(k)
    BY <2>3, <2>4, <2>5, <2>6
  <2> QED BY <1>0, <2>1, <2>2, <2>7 DEF Goal
<1>4. ASSUME c.verb = "/inbox_done"
      PROVE  Goal
  <2>1. /\ L = 4
        /\ P[1] = "enter" /\ P[2] = "mark" /\ P[3] = "leave" /\ P[4] = "receipt"
    BY <1>4, Programs
  <2>2. /\ D(1) = 0 /\ D(2) = 1 /\ D(3) = 1 /\ D(4) = 0 /\ D(5) = 0
    BY <1>4 DEF DepthAt, Last
  <2> HIDE DEF D
  <2>3. Shape(1)
    BY <1>4, <2>1, <2>2 DEF IsStatement, Statements
  <2>4. Shape(2)
    <3>1. /\ P[3] = "leave" /\ D(3) = D(2) /\ 3 \in 2 + 1..L
          /\ \A j \in 2..3 - 1 : P[j] \notin {"enter", "leave"}
      BY <2>1, <2>2
    <3> QED BY <1>4, <2>1, <2>2, <3>1 DEF IsStatement, Statements
  <2>5. Shape(3)
    BY <1>4, <2>1, <2>2 DEF IsStatement, Statements
  <2>6. Shape(4)
    BY <1>4, <2>1, <2>2 DEF IsStatement, Statements
  <2> HIDE DEF Shape
  <2>7. \A k \in 1..4 : Shape(k)
    BY <2>3, <2>4, <2>5, <2>6
  <2> QED BY <1>0, <2>1, <2>2, <2>7 DEF Goal
<1>5. ASSUME c.verb = "retain"
      PROVE  Goal
  <2>1. /\ L = 5
        /\ P[1] = "enter" /\ P[2] = "retain" /\ P[3] = "prune_age" /\ P[4] = "prune_count"
        /\ P[5] = "leave"
    BY <1>5, Programs
  <2>2. /\ D(1) = 0 /\ D(2) = 1 /\ D(3) = 1 /\ D(4) = 1 /\ D(5) = 1
        /\ D(6) = 0
    BY <1>5 DEF DepthAt, Last
  <2> HIDE DEF D
  <2>3. Shape(1)
    BY <1>5, <2>1, <2>2 DEF IsStatement, Statements
  <2>4. Shape(2)
    <3>1. /\ P[5] = "leave" /\ D(5) = D(2) /\ 5 \in 2 + 1..L
          /\ \A j \in 2..5 - 1 : P[j] \notin {"enter", "leave"}
      BY <2>1, <2>2
    <3> QED BY <1>5, <2>1, <2>2, <3>1 DEF IsStatement, Statements
  <2>5. Shape(3)
    <3>1. /\ P[5] = "leave" /\ D(5) = D(3) /\ 5 \in 3 + 1..L
          /\ \A j \in 3..5 - 1 : P[j] \notin {"enter", "leave"}
      BY <2>1, <2>2
    <3> QED BY <1>5, <2>1, <2>2, <3>1 DEF IsStatement, Statements
  <2>6. Shape(4)
    <3>1. /\ P[5] = "leave" /\ D(5) = D(4) /\ 5 \in 4 + 1..L
          /\ \A j \in 4..5 - 1 : P[j] \notin {"enter", "leave"}
      BY <2>1, <2>2
    <3> QED BY <1>5, <2>1, <2>2, <3>1 DEF IsStatement, Statements
  <2>7. Shape(5)
    BY <1>5, <2>1, <2>2 DEF IsStatement, Statements
  <2> HIDE DEF Shape
  <2>8. \A k \in 1..5 : Shape(k)
    BY <2>3, <2>4, <2>5, <2>6, <2>7
  <2> QED BY <1>0, <2>1, <2>2, <2>8 DEF Goal
<1>6. ASSUME c.verb = "both"
      PROVE  Goal
  <2>1. /\ L = 8
        /\ P[1] = "enter" /\ P[2] = "enter" /\ P[3] = "capture" /\ P[4] = "leave"
        /\ P[5] = "catch" /\ P[6] = "remember" /\ P[7] = "trim" /\ P[8] = "leave"
    BY <1>6, Programs
  <2>2. /\ D(1) = 0 /\ D(2) = 1 /\ D(3) = 2 /\ D(4) = 2 /\ D(5) = 1
        /\ D(6) = 1 /\ D(7) = 1 /\ D(8) = 1 /\ D(9) = 0
    BY <1>6 DEF DepthAt, Last
  <2> HIDE DEF D
  <2>3. Shape(1)
    BY <1>6, <2>1, <2>2 DEF IsStatement, Statements
  <2>4. Shape(2)
    BY <1>6, <2>1, <2>2 DEF IsStatement, Statements
  <2>5. Shape(3)
    <3>1. /\ P[4] = "leave" /\ D(4) = D(3) /\ 4 \in 3 + 1..L
          /\ \A j \in 3..4 - 1 : P[j] \notin {"enter", "leave"}
      BY <2>1, <2>2
    <3> QED BY <1>6, <2>1, <2>2, <3>1 DEF IsStatement, Statements
  <2>6. Shape(4)
    BY <1>6, <2>1, <2>2 DEF IsStatement, Statements
  <2>7. Shape(5)
    BY <1>6, <2>1, <2>2 DEF IsStatement, Statements
  <2>8. Shape(6)
    <3>1. /\ P[8] = "leave" /\ D(8) = D(6) /\ 8 \in 6 + 1..L
          /\ \A j \in 6..8 - 1 : P[j] \notin {"enter", "leave"}
      BY <2>1, <2>2
    <3> QED BY <1>6, <2>1, <2>2, <3>1 DEF IsStatement, Statements
  <2>9. Shape(7)
    <3>1. /\ P[8] = "leave" /\ D(8) = D(7) /\ 8 \in 7 + 1..L
          /\ \A j \in 7..8 - 1 : P[j] \notin {"enter", "leave"}
      BY <2>1, <2>2
    <3> QED BY <1>6, <2>1, <2>2, <3>1 DEF IsStatement, Statements
  <2>10. Shape(8)
    BY <1>6, <2>1, <2>2 DEF IsStatement, Statements
  <2> HIDE DEF Shape
  <2>11. \A k \in 1..8 : Shape(k)
    BY <2>3, <2>4, <2>5, <2>6, <2>7, <2>8, <2>9, <2>10
  <2> QED BY <1>0, <2>1, <2>2, <2>11 DEF Goal
<1>7. Goal
  <2> HIDE DEF Goal
  <2> QED BY <1>1, <1>2, <1>3, <1>4, <1>5, <1>6 DEF Verbs
<1> QED BY <1>7

\* The same, an instruction at a time.
LEMMA ProgramEnds ==
  ASSUME NEW c, c.verb \in Verbs
  PROVE  /\ Program(c) \in Seq(Instructions) /\ Len(Program(c)) \in 4..8
         /\ Program(c)[1] = "enter"
         /\ DepthAt(c.verb, 1) = 0 /\ DepthAt(c.verb, Len(Program(c)) + 1) = 0
BY ProgramShape

LEMMA ScopesAt ==
  ASSUME NEW c, c.verb \in Verbs, NEW k \in 1..Len(Program(c))
  PROVE  LET instruction == Program(c)[k]
             before == DepthAt(c.verb, k)
             after == DepthAt(c.verb, k + 1)
         IN /\ before \in 0..2
            /\ instruction = "enter" => after = before + 1
            /\ instruction = "leave" => before >= 1 /\ after = before - 1
            /\ instruction \notin {"enter", "leave"} => after = before
            /\ instruction = "receipt" => before = 0
            /\ instruction = "catch" => before = 1
            /\ IsStatement(instruction) => before >= 1
BY ProgramShape

LEMMA EntersAt ==
  ASSUME NEW c, c.verb \in Verbs, NEW k \in 1..Len(Program(c)), Program(c)[k] = "enter"
  PROVE  k = 1 \/ (c.verb = "both" /\ k = 2)
<1> DEFINE P == Program(c)
<1>1. CASE c.verb \in {"/remember", "store_memory"}
  <2>1. Len(P) = 5 /\ P[2] = "remember" /\ P[3] = "trim" /\ P[4] = "leave" /\ P[5] = "receipt"
    BY <1>1, Programs
  <2> HIDE DEF P
  <2>2. k \in 1..5 /\ P[k] = "enter"
    BY <2>1 DEF P
  <2> QED BY <2>1, <2>2
<1>2. CASE c.verb \in {"/forget", "capture", "/inbox_done"}
  <2>1. Len(P) = 4 /\ P[2] \in {"forget", "capture", "mark"} /\ P[3] = "leave" /\ P[4] = "receipt"
    BY <1>2, Programs
  <2> HIDE DEF P
  <2>2. k \in 1..4 /\ P[k] = "enter"
    BY <2>1 DEF P
  <2> QED BY <2>1, <2>2
<1>3. CASE c.verb = "retain"
  <2>1. /\ Len(P) = 5 /\ P[2] = "retain" /\ P[3] = "prune_age" /\ P[4] = "prune_count"
        /\ P[5] = "leave"
    BY <1>3, Programs
  <2> HIDE DEF P
  <2>2. k \in 1..5 /\ P[k] = "enter"
    BY <2>1 DEF P
  <2> QED BY <2>1, <2>2
<1>4. CASE c.verb = "both"
  <2>1. /\ Len(P) = 8 /\ P[3] = "capture" /\ P[4] = "leave" /\ P[5] = "catch"
        /\ P[6] = "remember" /\ P[7] = "trim" /\ P[8] = "leave"
    BY <1>4, Programs
  <2> HIDE DEF P
  <2>2. k \in 1..8 /\ P[k] = "enter"
    BY <2>1 DEF P
  <2> QED BY <1>4, <2>1, <2>2
<1> QED BY <1>1, <1>2, <1>3, <1>4 DEF Verbs

LEMMA StatementAt ==
  ASSUME NEW c, c.verb \in Verbs, NEW k \in 1..Len(Program(c)), IsStatement(Program(c)[k])
  PROVE  /\ Program(c)[k] \in Statements
         /\ Program(c)[k] = "remember" => c.verb \in {"/remember", "store_memory", "both"}
         /\ \E e \in k + 1..Len(Program(c)) :
              /\ Program(c)[e] = "leave" /\ DepthAt(c.verb, e) = DepthAt(c.verb, k)
              /\ \A j \in k..e - 1 : Program(c)[j] \notin {"enter", "leave"}
BY ProgramShape

LEMMA LeaveAt ==
  ASSUME NEW c, c.verb \in Verbs, NEW k \in 1..Len(Program(c)), Program(c)[k] = "leave"
  PROVE  /\ DepthAt(c.verb, k) > 1 => k < Len(Program(c)) /\ Program(c)[k + 1] = "catch"
         /\ DepthAt(c.verb, k) = 1 =>
              \A j \in k + 1..Len(Program(c)) : Program(c)[j] \notin {"enter", "leave", "catch"}
BY ProgramShape

\* Where an exception goes on, in a program whose next end of a scope comes before any
\* beginning of one.
LEMMA RaisedTo ==
  ASSUME NEW s \in Seq(Instructions), NEW n \in 1..Len(s), s[n] = "leave",
         \A m \in 1..n - 1 : s[m] \notin {"enter", "leave"}
  PROVE  Raised(s) = SubSeq(s, n, Len(s))
<1> DEFINE Those(instruction, m) == {j \in 1..m : s[j] = instruction}
           Count(instruction, m) == Cardinality(Those(instruction, m))
           ends == {m \in DOMAIN s : Count("leave", m) > Count("enter", m)}
<1>1. Len(s) \in Nat /\ DOMAIN s = 1..Len(s) /\ n \in Int
  OBVIOUS
<1>2. \A m \in 1..n - 1 : m \notin ends
  <2> TAKE m \in 1..n - 1
  <2>1. Those("leave", m) = {} /\ Those("enter", m) = {}
    OBVIOUS
  <2>2. Count("leave", m) = 0 /\ Count("enter", m) = 0
    BY <2>1, FS_EmptySet
  <2> QED BY <2>2
<1>3. n \in ends
  <2>1. Those("leave", n) = {n} /\ Those("enter", n) = {}
    BY <1>1
  <2>2. Cardinality({n}) = 1
    BY FS_Singleton
  <2>3. Count("leave", n) = 1 /\ Count("enter", n) = 0
    BY <2>1, <2>2, FS_EmptySet
  <2> QED BY <1>1, <2>3
<1>4. Raised(s) = IF ends = {} THEN <<>>
                  ELSE SubSeq(s, CHOOSE m \in ends : \A o \in ends : m <= o, Len(s))
  BY DEF Raised
<1> HIDE DEF ends
<1>5. \A m \in ends : m \in 1..Len(s) /\ n <= m
  <2>1. \A m \in ends : m \in 1..Len(s)
    BY <1>1 DEF ends
  <2> QED BY <1>1, <1>2, <2>1
<1>6. (CHOOSE m \in ends : \A o \in ends : m <= o) = n
  <2>1. \A o \in ends : n <= o
    BY <1>5
  <2>2. \A m \in ends : (\A o \in ends : m <= o) => m = n
    BY <1>1, <1>3, <1>5
  <2> QED BY <1>3, <2>1, <2>2
<1> QED BY <1>3, <1>4, <1>6

LEMMA RaisedOut ==
  ASSUME NEW s \in Seq(Instructions), \A m \in 1..Len(s) : s[m] \notin {"enter", "leave"}
  PROVE  Raised(s) = <<>>
<1> DEFINE Those(instruction, m) == {j \in 1..m : s[j] = instruction}
           Count(instruction, m) == Cardinality(Those(instruction, m))
           ends == {m \in DOMAIN s : Count("leave", m) > Count("enter", m)}
<1>1. Len(s) \in Nat /\ DOMAIN s = 1..Len(s)
  OBVIOUS
<1>2. \A m \in 1..Len(s) : m \notin ends
  <2> TAKE m \in 1..Len(s)
  <2>1. Those("leave", m) = {} /\ Those("enter", m) = {}
    OBVIOUS
  <2>2. Count("leave", m) = 0 /\ Count("enter", m) = 0
    BY <2>1, FS_EmptySet
  <2> QED BY <2>2
<1>3. ends = {}
  BY <1>1, <1>2
<1>4. Raised(s) = IF ends = {} THEN <<>>
                  ELSE SubSeq(s, CHOOSE m \in ends : \A o \in ends : m <= o, Len(s))
  BY DEF Raised
<1> QED BY <1>3, <1>4

\* What is left of a program P before its k-th instruction.
Rest(P, k) == SubSeq(P, k, Len(P))

LEMMA RestIs ==
  ASSUME NEW P \in Seq(Instructions), NEW k \in 1..Len(P) + 1
  PROVE  /\ Rest(P, k) \in Seq(Instructions)
         /\ Len(Rest(P, k)) = Len(P) - k + 1
         /\ \A i \in 1..Len(P) - k + 1 : Rest(P, k)[i] = P[k + i - 1]
         /\ k = 1 => Rest(P, k) = P
         /\ k = Len(P) + 1 => Rest(P, k) = <<>>
         /\ k <= Len(P) =>
              /\ Rest(P, k) # <<>> /\ Head(Rest(P, k)) = P[k] /\ P[k] \in Instructions
              /\ Tail(Rest(P, k)) = Rest(P, k + 1)
<1>1. Len(P) \in Nat /\ k \in Int /\ \A i \in k..Len(P) : P[i] \in Instructions
  BY ElementOfSeq
<1>2. /\ Rest(P, k) \in Seq(Instructions)
      /\ Len(Rest(P, k)) = IF k <= Len(P) THEN Len(P) - k + 1 ELSE 0
      /\ \A i \in 1..Len(P) - k + 1 : Rest(P, k)[i] = P[k + i - 1]
  BY <1>1, SubSeqProperties DEF Rest
<1>3. k = 1 => Rest(P, k) = P
  BY SubSeqFull DEF Rest
<1>4. k = Len(P) + 1 => Rest(P, k) = <<>>
  BY <1>1, SubSeqEmpty DEF Rest
<1>5. ASSUME k <= Len(P)
      PROVE  /\ Rest(P, k) # <<>> /\ Head(Rest(P, k)) = P[k] /\ P[k] \in Instructions
             /\ Tail(Rest(P, k)) = Rest(P, k + 1)
  <2>1. k \in 1..Len(P) /\ Len(P) \in k..Len(P)
    BY <1>1, <1>5
  <2>2. /\ Head(Rest(P, k)) = P[k]
        /\ Tail(Rest(P, k)) = Rest(P, k + 1)
    BY <2>1, HeadTailOfSubSeq DEF Rest
  <2>3. Len(Rest(P, k)) > 0
    BY <1>1, <1>2, <1>5
  <2>4. Rest(P, k) # <<>>
    BY <2>3
  <2> QED BY <1>1, <2>1, <2>2, <2>4
<1>6. Len(Rest(P, k)) = Len(P) - k + 1
  BY <1>1, <1>2
<1> QED BY <1>2, <1>3, <1>4, <1>5, <1>6

\* An exception between the k-th instruction and the end at e of its scope, or past every
\* scope.
LEMMA RaisedFrom ==
  ASSUME NEW P \in Seq(Instructions), NEW k \in 1..Len(P) + 1
  PROVE  /\ \A e \in k..Len(P) :
              P[e] = "leave" /\ (\A j \in k..e - 1 : P[j] \notin {"enter", "leave"})
                => Raised(Rest(P, k)) = Rest(P, e)
         /\ (\A j \in k..Len(P) : P[j] \notin {"enter", "leave"}) => Raised(Rest(P, k)) = <<>>
<1> DEFINE s == Rest(P, k)
<1>1. /\ s \in Seq(Instructions) /\ Len(s) = Len(P) - k + 1 /\ Len(P) \in Nat /\ k \in Int
      /\ \A i \in 1..Len(P) - k + 1 : s[i] = P[k + i - 1]
  BY RestIs
<1> HIDE DEF s
<1>2. ASSUME NEW e \in k..Len(P), P[e] = "leave", \A j \in k..e - 1 : P[j] \notin {"enter", "leave"}
      PROVE  Raised(s) = Rest(P, e)
  <2> DEFINE n == e - k + 1
  <2>1. n \in 1..Len(s) /\ k + n - 1 = e /\ n \in 1..Len(P) - k + 1
    BY <1>1
  <2>2. s[n] = "leave"
    BY <1>1, <1>2, <2>1
  <2>3. \A m \in 1..n - 1 : s[m] \notin {"enter", "leave"}
    <3> TAKE m \in 1..n - 1
    <3>1. m \in 1..Len(P) - k + 1 /\ k + m - 1 \in k..e - 1
      BY <1>1
    <3>2. s[m] = P[k + m - 1]
      BY <1>1, <3>1
    <3> QED BY <1>2, <3>1, <3>2
  <2> HIDE DEF n
  <2>4. Raised(s) = SubSeq(s, n, Len(s))
    BY <1>1, <2>1, <2>2, <2>3, RaisedTo
  <2>5. SubSeq(SubSeq(P, k, Len(P)), n, Len(P) - k + 1) = SubSeq(P, k + n - 1, k + (Len(P) - k + 1) - 1)
    <3>1. /\ k \in 1..Len(P) /\ Len(P) \in 1..Len(P)
          /\ Len(P) - k + 1 \in 1..Len(P) - k + 1
      BY <1>1
    <3> QED BY <2>1, <3>1, SubSeqOfSubSeq
  <2>6. k + (Len(P) - k + 1) - 1 = Len(P)
    BY <1>1
  <2> QED BY <1>1, <2>1, <2>4, <2>5, <2>6 DEF s, Rest
<1>3. ASSUME \A j \in k..Len(P) : P[j] \notin {"enter", "leave"}
      PROVE  Raised(s) = <<>>
  <2>1. \A m \in 1..Len(s) : s[m] \notin {"enter", "leave"}
    <3> TAKE m \in 1..Len(s)
    <3>1. m \in 1..Len(P) - k + 1 /\ k + m - 1 \in k..Len(P)
      BY <1>1
    <3>2. s[m] = P[k + m - 1]
      BY <1>1, <3>1
    <3> QED BY <1>3, <3>1, <3>2
  <2> QED BY <1>1, <2>1, RaisedOut
<1> QED BY <1>2, <1>3 DEF s

LEMMA ValueBegins ==
  ASSUME NEW c, NEW t
  PROVE  ValueAt(c, t, 1) = t /\ ValueAt(c, t, 2) = t
BY DEF ValueAt

\* A statement moves the value on, anything else leaves it, and at the end it is the whole call's.
LEMMA ValueSteps ==
  ASSUME NEW c, c.verb \in Verbs, NEW t, NEW k \in 1..Len(Program(c))
  PROVE  /\ IsStatement(Program(c)[k]) =>
              ValueAt(c, t, k + 1) = Effect(Program(c)[k], c, ValueAt(c, t, k))
         /\ ~IsStatement(Program(c)[k]) => ValueAt(c, t, k + 1) = ValueAt(c, t, k)
         /\ Program(c)[k] = "leave" /\ DepthAt(c.verb, k) = 1 => ValueAt(c, t, k) = Whole(c, t)
<1> DEFINE P == Program(c)
           L == Len(P)
           V(n) == ValueAt(c, t, n)
           Step(n) ==
              /\ IsStatement(P[n]) => V(n + 1) = Effect(P[n], c, V(n))
              /\ ~IsStatement(P[n]) => V(n + 1) = V(n)
              /\ P[n] = "leave" /\ DepthAt(c.verb, n) = 1 => V(n) = Whole(c, t)
           Goal == \A n \in 1..L : Step(n)
<1>1. ASSUME c.verb \in {"/remember", "store_memory"}
      PROVE  Goal
  <2>1. /\ L = 5
        /\ P[1] = "enter" /\ P[2] = "remember" /\ P[3] = "trim" /\ P[4] = "leave"
        /\ P[5] = "receipt"
    BY <1>1, Programs
  <2> DEFINE first == Effect("remember", c, t)
             second == Effect("trim", c, first)
  <2>2. Whole(c, t) = second
    BY <1>1 DEF Whole
  <2>3. /\ V(1) = t /\ V(2) = t /\ V(3) = first /\ V(4) = second
        /\ V(5) = second /\ V(6) = second
    BY <1>1, <2>2 DEF ValueAt
  <2> HIDE DEF V
  <2>4. Step(1)
    BY <1>1, <2>1, <2>2, <2>3 DEF IsStatement
  <2>5. Step(2)
    BY <1>1, <2>1, <2>2, <2>3 DEF IsStatement
  <2>6. Step(3)
    BY <1>1, <2>1, <2>2, <2>3 DEF IsStatement
  <2>7. Step(4)
    BY <1>1, <2>1, <2>2, <2>3 DEF IsStatement, DepthAt, Last
  <2>8. Step(5)
    BY <1>1, <2>1, <2>2, <2>3 DEF IsStatement
  <2> HIDE DEF Step
  <2>9. \A n \in 1..5 : Step(n)
    BY <2>4, <2>5, <2>6, <2>7, <2>8
  <2> QED BY <2>1, <2>9 DEF Goal
<1>2. ASSUME c.verb = "/forget"
      PROVE  Goal
  <2>1. /\ L = 4
        /\ P[1] = "enter" /\ P[2] = "forget" /\ P[3] = "leave" /\ P[4] = "receipt"
    BY <1>2, Programs
  <2> DEFINE first == Effect("forget", c, t)
  <2>2. Whole(c, t) = first
    BY <1>2 DEF Whole
  <2>3. /\ V(1) = t /\ V(2) = t /\ V(3) = first /\ V(4) = first
        /\ V(5) = first
    BY <1>2, <2>2 DEF ValueAt
  <2> HIDE DEF V
  <2>4. Step(1)
    BY <1>2, <2>1, <2>2, <2>3 DEF IsStatement
  <2>5. Step(2)
    BY <1>2, <2>1, <2>2, <2>3 DEF IsStatement
  <2>6. Step(3)
    BY <1>2, <2>1, <2>2, <2>3 DEF IsStatement, DepthAt, Last
  <2>7. Step(4)
    BY <1>2, <2>1, <2>2, <2>3 DEF IsStatement
  <2> HIDE DEF Step
  <2>8. \A n \in 1..4 : Step(n)
    BY <2>4, <2>5, <2>6, <2>7
  <2> QED BY <2>1, <2>8 DEF Goal
<1>3. ASSUME c.verb = "capture"
      PROVE  Goal
  <2>1. /\ L = 4
        /\ P[1] = "enter" /\ P[2] = "capture" /\ P[3] = "leave" /\ P[4] = "receipt"
    BY <1>3, Programs
  <2> DEFINE first == Effect("capture", c, t)
  <2>2. Whole(c, t) = first
    BY <1>3 DEF Whole
  <2>3. /\ V(1) = t /\ V(2) = t /\ V(3) = first /\ V(4) = first
        /\ V(5) = first
    BY <1>3, <2>2 DEF ValueAt
  <2> HIDE DEF V
  <2>4. Step(1)
    BY <1>3, <2>1, <2>2, <2>3 DEF IsStatement
  <2>5. Step(2)
    BY <1>3, <2>1, <2>2, <2>3 DEF IsStatement
  <2>6. Step(3)
    BY <1>3, <2>1, <2>2, <2>3 DEF IsStatement, DepthAt, Last
  <2>7. Step(4)
    BY <1>3, <2>1, <2>2, <2>3 DEF IsStatement
  <2> HIDE DEF Step
  <2>8. \A n \in 1..4 : Step(n)
    BY <2>4, <2>5, <2>6, <2>7
  <2> QED BY <2>1, <2>8 DEF Goal
<1>4. ASSUME c.verb = "/inbox_done"
      PROVE  Goal
  <2>1. /\ L = 4
        /\ P[1] = "enter" /\ P[2] = "mark" /\ P[3] = "leave" /\ P[4] = "receipt"
    BY <1>4, Programs
  <2> DEFINE first == Effect("mark", c, t)
  <2>2. Whole(c, t) = first
    BY <1>4 DEF Whole
  <2>3. /\ V(1) = t /\ V(2) = t /\ V(3) = first /\ V(4) = first
        /\ V(5) = first
    BY <1>4, <2>2 DEF ValueAt
  <2> HIDE DEF V
  <2>4. Step(1)
    BY <1>4, <2>1, <2>2, <2>3 DEF IsStatement
  <2>5. Step(2)
    BY <1>4, <2>1, <2>2, <2>3 DEF IsStatement
  <2>6. Step(3)
    BY <1>4, <2>1, <2>2, <2>3 DEF IsStatement, DepthAt, Last
  <2>7. Step(4)
    BY <1>4, <2>1, <2>2, <2>3 DEF IsStatement
  <2> HIDE DEF Step
  <2>8. \A n \in 1..4 : Step(n)
    BY <2>4, <2>5, <2>6, <2>7
  <2> QED BY <2>1, <2>8 DEF Goal
<1>5. ASSUME c.verb = "retain"
      PROVE  Goal
  <2>1. /\ L = 5
        /\ P[1] = "enter" /\ P[2] = "retain" /\ P[3] = "prune_age" /\ P[4] = "prune_count"
        /\ P[5] = "leave"
    BY <1>5, Programs
  <2> DEFINE first == Effect("retain", c, t)
             second == Effect("prune_age", c, first)
             third == Effect("prune_count", c, second)
  <2>2. Whole(c, t) = third
    BY <1>5 DEF Whole
  <2>3. /\ V(1) = t /\ V(2) = t /\ V(3) = first /\ V(4) = second
        /\ V(5) = third /\ V(6) = third
    BY <1>5, <2>2 DEF ValueAt
  <2> HIDE DEF V
  <2>4. Step(1)
    BY <1>5, <2>1, <2>2, <2>3 DEF IsStatement
  <2>5. Step(2)
    BY <1>5, <2>1, <2>2, <2>3 DEF IsStatement
  <2>6. Step(3)
    BY <1>5, <2>1, <2>2, <2>3 DEF IsStatement
  <2>7. Step(4)
    BY <1>5, <2>1, <2>2, <2>3 DEF IsStatement
  <2>8. Step(5)
    BY <1>5, <2>1, <2>2, <2>3 DEF IsStatement, DepthAt, Last
  <2> HIDE DEF Step
  <2>9. \A n \in 1..5 : Step(n)
    BY <2>4, <2>5, <2>6, <2>7, <2>8
  <2> QED BY <2>1, <2>9 DEF Goal
<1>6. ASSUME c.verb = "both"
      PROVE  Goal
  <2>1. /\ L = 8
        /\ P[1] = "enter" /\ P[2] = "enter" /\ P[3] = "capture" /\ P[4] = "leave"
        /\ P[5] = "catch" /\ P[6] = "remember" /\ P[7] = "trim" /\ P[8] = "leave"
    BY <1>6, Programs
  <2> DEFINE first == Effect("capture", c, t)
             second == Effect("remember", c, first)
             third == Effect("trim", c, second)
  <2>2. Whole(c, t) = third
    BY <1>6 DEF Whole
  <2>3. /\ V(1) = t /\ V(2) = t /\ V(3) = t /\ V(4) = first
        /\ V(5) = first /\ V(6) = first /\ V(7) = second /\ V(8) = third /\ V(9) = third
    BY <1>6, <2>2 DEF ValueAt
  <2> HIDE DEF V
  <2>4. Step(1)
    BY <1>6, <2>1, <2>2, <2>3 DEF IsStatement
  <2>5. Step(2)
    BY <1>6, <2>1, <2>2, <2>3 DEF IsStatement
  <2>6. Step(3)
    BY <1>6, <2>1, <2>2, <2>3 DEF IsStatement
  <2>7. Step(4)
    BY <1>6, <2>1, <2>2, <2>3 DEF IsStatement, DepthAt, Last
  <2>8. Step(5)
    BY <1>6, <2>1, <2>2, <2>3 DEF IsStatement
  <2>9. Step(6)
    BY <1>6, <2>1, <2>2, <2>3 DEF IsStatement
  <2>10. Step(7)
    BY <1>6, <2>1, <2>2, <2>3 DEF IsStatement
  <2>11. Step(8)
    BY <1>6, <2>1, <2>2, <2>3 DEF IsStatement, DepthAt, Last
  <2> HIDE DEF Step
  <2>12. \A n \in 1..8 : Step(n)
    BY <2>4, <2>5, <2>6, <2>7, <2>8, <2>9, <2>10, <2>11
  <2> QED BY <2>1, <2>12 DEF Goal
<1>7. Goal
  <2> HIDE DEF Goal
  <2> QED BY <1>1, <1>2, <1>3, <1>4, <1>5, <1>6 DEF Verbs
<1>8. Step(k)
  BY <1>7
<1> QED BY <1>8

\* Where the running call is in its program, what that makes of the transaction and, as
\* long as nothing failed, of the file its connection sees.
AtPosition(k) ==
  /\ k \in 1..Len(Program(call)) + 1
  /\ todo = Rest(Program(call), k)
  /\ depth = DepthAt(call.verb, k)
  /\ depth >= 1 /\ ~poisoned /\ ~raising => work = ValueAt(call, db, k)
  /\ raising => \/ k = Len(Program(call)) + 1
                \/ Program(call)[k] = "leave"
                \/ Program(call)[k] = "catch" /\ poisoned

Progress ==
  /\ depth = 0 => work = db /\ ~poisoned
  /\ call = NoCall => depth = 0 /\ ~raising /\ todo = <<>>
  /\ call # NoCall => CallOK(call) /\ \E k \in 1..Len(Program(call)) + 1 : AtPosition(k)

\* Who holds the file.
Locks ==
  /\ lock = "purge" <=> purge.at # "off"
  /\ depth >= 1 => lock = "henk" /\ schema = "ours"

LEMMA NoCallIsNone ==
  NoCall.verb = "none" /\ \A c : CallOK(c) => c # NoCall
BY DEF NoCall, CallOK, Verbs

\* The call's position, and what its program says of it.
LEMMA Position ==
  ASSUME Progress, call # NoCall, NEW P, P = Program(call), NEW L, L = Len(P)
  PROVE  /\ CallOK(call) /\ call.verb \in Verbs
         /\ P \in Seq(Instructions) /\ L \in 4..8
         /\ \E k \in 1..L + 1 :
              /\ AtPosition(k)
              /\ todo # <<>> => k \in 1..L /\ Head(todo) = P[k] /\ Tail(todo) = Rest(P, k + 1)
              /\ todo = <<>> => k = L + 1
<1>1. CallOK(call) /\ call.verb \in Verbs
  BY DEF Progress, CallOK
<1>2. P \in Seq(Instructions) /\ L \in 4..8
  BY <1>1, ProgramEnds
<1>3. PICK k \in 1..L + 1 : AtPosition(k)
  BY DEF Progress
<1>4. todo = Rest(P, k)
  BY <1>3 DEF AtPosition
<1>5. todo # <<>> => k # L + 1
  BY <1>2, <1>3, <1>4, RestIs
<1>6. k <= L => todo # <<>> /\ Head(todo) = P[k] /\ Tail(todo) = Rest(P, k + 1)
  BY <1>2, <1>3, <1>4, RestIs
<1>7. /\ todo # <<>> => k \in 1..L /\ Head(todo) = P[k] /\ Tail(todo) = Rest(P, k + 1)
      /\ todo = <<>> => k = L + 1
  BY <1>2, <1>5, <1>6
<1> QED BY <1>1, <1>2, <1>3, <1>7

-----------------------------------------------------------------------------
(* Progress, an action at a time.                                          *)

LEMMA CallProgress ==
  ASSUME TypeOK, Progress, StoreAssumption, NEW c \in Requests \cup Retentions, Call(c)
  PROVE  Progress' /\ CallOK(call')
<1>1. /\ call = NoCall /\ call' = At(c, now) /\ todo' = Program(c)
      /\ UNCHANGED <<db, work, depth, poisoned, raising>>
  BY DEF Call, Idle
<1>2. now \in Int
  BY DEF TypeOK, StoreAssumption
<1>3. /\ c.verb \in Verbs /\ "verb" \in DOMAIN c
      /\ c.verb \in {"/remember", "store_memory", "both"} =>
           /\ c.type \in Types /\ c.content \in Contents
           /\ "type" \in DOMAIN c /\ "content" \in DOMAIN c
  <2>1. CASE c \in [verb : {"/remember"}, type : {"pinned"}, content : Contents]
    BY <2>1 DEF Verbs, Types
  <2>2. CASE c \in [verb : {"store_memory"}, type : {"agent"}, content : Contents]
    BY <2>2 DEF Verbs, Types
  <2>3. CASE c \in [verb : {"/forget"}, needle : Needles]
    BY <2>3 DEF Verbs
  <2>4. CASE c \in [verb : {"capture"}]
    BY <2>4 DEF Verbs
  <2>5. CASE c \in [verb : {"/inbox_done"}, id : 1..MaxCalls]
    BY <2>5 DEF Verbs
  <2>6. CASE c \in [verb : {"both"}, type : {"pinned"}, content : Contents]
    BY <2>6 DEF Verbs, Types
  <2>7. CASE c \in Retentions
    BY <2>7 DEF Retentions, Verbs
  <2> QED BY <2>1, <2>2, <2>3, <2>4, <2>5, <2>6, <2>7 DEF Requests
<1>4. /\ call'.verb = c.verb /\ call'.at = now
      /\ "type" \in DOMAIN c => call'.type = c.type
      /\ "content" \in DOMAIN c => call'.content = c.content
  BY <1>1, <1>3 DEF At
<1>5. CallOK(call')
  BY <1>2, <1>3, <1>4 DEF CallOK
<1>6. Program(call') = Program(c)
  BY <1>4 DEF Program
<1> DEFINE P == Program(call')
<1>7. P \in Seq(Instructions) /\ Len(P) \in 4..8 /\ DepthAt(call'.verb, 1) = 0
  BY <1>3, <1>4, ProgramEnds
<1>8. Rest(P, 1) = P
  BY <1>7, RestIs
<1>9. AtPosition(1)'
  BY <1>1, <1>6, <1>7, <1>8 DEF AtPosition, Progress
<1>10. call' # NoCall
  BY <1>5, NoCallIsNone
<1> QED BY <1>1, <1>5, <1>7, <1>9, <1>10 DEF Progress

LEMMA EnterProgress ==
  ASSUME TypeOK, Progress, Enter
  PROVE  Progress'
<1> DEFINE P == Program(call)
           L == Len(P)
<1>1. /\ call # NoCall /\ todo # <<>> /\ Head(todo) = "enter" /\ ~raising
      /\ depth' = depth + 1 /\ todo' = Tail(todo)
      /\ IF depth = 0 THEN work' = db /\ ~poisoned'
         ELSE UNCHANGED <<work, poisoned>>
      /\ UNCHANGED <<db, call, raising>> /\ depth \in Nat
  BY DEF Enter, Reaches, Idle, Begun, TypeOK
<1>2. /\ CallOK(call) /\ call.verb \in Verbs /\ P \in Seq(Instructions) /\ L \in 4..8
      /\ \E k \in 1..L + 1 :
           AtPosition(k) /\ k \in 1..L /\ P[k] = "enter" /\ Tail(todo) = Rest(P, k + 1)
  BY <1>1, Position
<1>3. PICK k \in 1..L : AtPosition(k) /\ P[k] = "enter" /\ Tail(todo) = Rest(P, k + 1)
  BY <1>2
<1>4. DepthAt(call.verb, k + 1) = DepthAt(call.verb, k) + 1
  BY <1>2, <1>3, ScopesAt
<1>5. ValueAt(call, db, k + 1) = ValueAt(call, db, k) /\ ValueAt(call, db, 1) = db
  <2>1. ~IsStatement(P[k]) /\ P = Program(call) /\ L = Len(P)
    BY <1>3 DEF IsStatement
  <2> HIDE DEF P, L
  <2> QED BY <1>2, <1>3, <2>1, ValueSteps, ValueBegins
<1>6. depth = DepthAt(call.verb, k) /\ (depth >= 1 /\ ~poisoned => work = ValueAt(call, db, k))
  BY <1>1, <1>3 DEF AtPosition
<1>7. depth = 0 => ValueAt(call, db, k) = db
  <2>1. DepthAt(call.verb, k) = 0 /\ P[k] = "enter" => k = 1
    <3>1. P[k] = "enter" => k = 1 \/ (call.verb = "both" /\ k = 2)
      <4> HIDE DEF L
      <4>1. k \in 1..Len(Program(call)) /\ call.verb \in Verbs
        BY <1>2, <1>3 DEF L
      <4> QED BY <4>1, EntersAt
    <3>2. call.verb = "both" => DepthAt(call.verb, 2) = 1
      BY DEF DepthAt, Last
    <3> QED BY <1>2, <3>1, <3>2
  <2> QED BY <1>3, <1>5, <1>6, <2>1
<1>8. ~poisoned' => work' = ValueAt(call, db, k + 1)
  BY <1>1, <1>5, <1>6, <1>7
<1>9. k + 1 \in 1..L + 1
  BY <1>2
<1> HIDE DEF P, L
<1>10. AtPosition(k + 1)'
  BY <1>1, <1>3, <1>4, <1>6, <1>8, <1>9 DEF AtPosition, P, L
<1> QED BY <1>1, <1>2, <1>9, <1>10 DEF Progress, P, L

LEMMA CannotEnterProgress ==
  ASSUME TypeOK, Progress, CannotEnter
  PROVE  Progress'
<1> DEFINE P == Program(call)
           L == Len(P)
<1>1. /\ call # NoCall /\ todo' = <<>> /\ depth = 0
      /\ UNCHANGED <<db, work, call, depth, poisoned>>
  BY DEF CannotEnter, Reaches, Idle
<1>2. CallOK(call) /\ call.verb \in Verbs /\ P \in Seq(Instructions) /\ L \in 4..8
  BY <1>1, Position
<1>3. DepthAt(call.verb, L + 1) = 0
  BY <1>2, ProgramEnds
<1>4. Rest(P, L + 1) = <<>> /\ L + 1 \in 1..L + 1
  BY <1>2, RestIs
<1>5. AtPosition(L + 1)'
  BY <1>1, <1>3, <1>4 DEF AtPosition
<1> QED BY <1>1, <1>2, <1>4, <1>5 DEF Progress

LEMMA ExecuteProgress ==
  ASSUME TypeOK, Progress, Execute
  PROVE  Progress'
<1> DEFINE P == Program(call)
           L == Len(P)
<1>1. /\ call # NoCall /\ todo # <<>> /\ IsStatement(Head(todo)) /\ ~raising
      /\ work' = Effect(Head(todo), call, work) /\ todo' = Tail(todo)
      /\ UNCHANGED <<db, call, depth, poisoned, raising>> /\ depth \in Nat
  BY DEF Execute, Idle, TypeOK
<1>2. /\ CallOK(call) /\ call.verb \in Verbs /\ P \in Seq(Instructions) /\ L \in 4..8
      /\ \E k \in 1..L + 1 :
           AtPosition(k) /\ k \in 1..L /\ Head(todo) = P[k] /\ Tail(todo) = Rest(P, k + 1)
  BY <1>1, Position
<1>3. PICK k \in 1..L : AtPosition(k) /\ Head(todo) = P[k] /\ Tail(todo) = Rest(P, k + 1)
  BY <1>2
<1>4. DepthAt(call.verb, k + 1) = DepthAt(call.verb, k) /\ DepthAt(call.verb, k) >= 1
  <2>1. P[k] \notin {"enter", "leave"} /\ IsStatement(P[k]) /\ P = Program(call) /\ L = Len(P)
    BY <1>1, <1>3 DEF IsStatement
  <2> HIDE DEF P, L
  <2> QED BY <1>2, <1>3, <2>1, ScopesAt
<1>5. ValueAt(call, db, k + 1) = Effect(P[k], call, ValueAt(call, db, k))
  <2>1. IsStatement(P[k]) /\ P = Program(call) /\ L = Len(P)
    BY <1>1, <1>3
  <2> HIDE DEF P, L
  <2> QED BY <1>2, <1>3, <2>1, ValueSteps, ValueBegins
<1>6. depth = DepthAt(call.verb, k) /\ (~poisoned => work = ValueAt(call, db, k))
  BY <1>1, <1>3, <1>4 DEF AtPosition
<1>7. ~poisoned => work' = ValueAt(call, db, k + 1)
  BY <1>1, <1>3, <1>5, <1>6
<1>8. k + 1 \in 1..L + 1
  BY <1>2
<1> HIDE DEF P, L
<1>9. AtPosition(k + 1)'
  BY <1>1, <1>3, <1>4, <1>6, <1>7, <1>8 DEF AtPosition, P, L
<1> QED BY <1>1, <1>2, <1>4, <1>6, <1>8, <1>9 DEF Progress, P, L

LEMMA StatementFailsProgress ==
  ASSUME TypeOK, Progress, StatementFails
  PROVE  Progress'
<1> DEFINE P == Program(call)
           L == Len(P)
<1>1. /\ call # NoCall /\ todo # <<>> /\ IsStatement(Head(todo)) /\ todo' = Raised(todo)
      /\ raising' = TRUE /\ UNCHANGED <<db, work, call, depth, poisoned>>
  BY DEF StatementFails, Idle
<1>2. /\ CallOK(call) /\ call.verb \in Verbs /\ P \in Seq(Instructions) /\ L \in 4..8
      /\ \E k \in 1..L + 1 : AtPosition(k) /\ k \in 1..L /\ Head(todo) = P[k]
  BY <1>1, Position
<1>3. PICK k \in 1..L : AtPosition(k) /\ Head(todo) = P[k]
  BY <1>2
<1>4. \E e \in k + 1..L :
        /\ P[e] = "leave" /\ DepthAt(call.verb, e) = DepthAt(call.verb, k)
        /\ \A j \in k..e - 1 : P[j] \notin {"enter", "leave"}
  <2>1. IsStatement(P[k]) /\ P = Program(call) /\ L = Len(P)
    BY <1>1, <1>3
  <2> HIDE DEF P, L
  <2> QED BY <1>2, <1>3, <2>1, StatementAt
<1>5. PICK e \in k + 1..L :
        /\ P[e] = "leave" /\ DepthAt(call.verb, e) = DepthAt(call.verb, k)
        /\ \A j \in k..e - 1 : P[j] \notin {"enter", "leave"}
  BY <1>4
<1>6. todo = Rest(P, k) /\ depth = DepthAt(call.verb, k)
  BY <1>3 DEF AtPosition
<1>7. Raised(todo) = Rest(P, e)
  <2>1. k \in 1..Len(P) + 1 /\ e \in k..Len(P)
    BY <1>2, <1>3, <1>5
  <2> HIDE DEF P, L
  <2> QED BY <1>2, <1>5, <1>6, <2>1, RaisedFrom
<1>8. e \in 1..L + 1
  BY <1>2
<1> HIDE DEF P, L
<1>9. AtPosition(e)'
  BY <1>1, <1>5, <1>6, <1>7, <1>8 DEF AtPosition, P, L
<1> QED BY <1>1, <1>2, <1>8, <1>9 DEF Progress, P, L

LEMMA LeaveNestedProgress ==
  ASSUME TypeOK, Progress, LeaveNested
  PROVE  Progress'
<1> DEFINE P == Program(call)
           L == Len(P)
<1>1. /\ call # NoCall /\ todo # <<>> /\ Head(todo) = "leave" /\ depth > 1
      /\ depth' = depth - 1 /\ poisoned' = (poisoned \/ raising) /\ todo' = Resumed(Tail(todo))
      /\ UNCHANGED <<db, work, call, raising>> /\ depth \in Nat
  BY DEF LeaveNested, Reaches, Idle, Poisoned, TypeOK
<1>2. /\ CallOK(call) /\ call.verb \in Verbs /\ P \in Seq(Instructions) /\ L \in 4..8
      /\ \E k \in 1..L + 1 :
           AtPosition(k) /\ k \in 1..L /\ Head(todo) = P[k] /\ Tail(todo) = Rest(P, k + 1)
  BY <1>1, Position
<1>3. PICK k \in 1..L : AtPosition(k) /\ P[k] = "leave" /\ Tail(todo) = Rest(P, k + 1)
  BY <1>1, <1>2
<1>4. depth = DepthAt(call.verb, k) /\ (~poisoned /\ ~raising => work = ValueAt(call, db, k))
  BY <1>1, <1>3 DEF AtPosition
<1>5. /\ DepthAt(call.verb, k + 1) = DepthAt(call.verb, k) - 1
      /\ k < L /\ P[k + 1] = "catch"
  <2>1. P = Program(call) /\ L = Len(P)
    OBVIOUS
  <2> HIDE DEF P, L
  <2> QED BY <1>1, <1>2, <1>3, <1>4, <2>1, ScopesAt, LeaveAt
<1>6. ValueAt(call, db, k + 1) = ValueAt(call, db, k)
  <2>1. ~IsStatement(P[k]) /\ P = Program(call) /\ L = Len(P)
    BY <1>3 DEF IsStatement
  <2> HIDE DEF P, L
  <2> QED BY <1>2, <1>3, <2>1, ValueSteps
<1>7. todo' = Rest(P, k + 1)
  <2>1. Rest(P, k + 1) # <<>> /\ Head(Rest(P, k + 1)) = "catch"
    <3>1. k + 1 \in 1..Len(P) + 1 /\ k + 1 <= Len(P)
      BY <1>2, <1>5
    <3> HIDE DEF P
    <3> QED BY <1>2, <1>5, <3>1, RestIs
  <2> QED BY <1>1, <1>3, <2>1 DEF Resumed
<1>8. k + 1 \in 1..L + 1
  BY <1>2
<1> HIDE DEF P, L
<1>9. AtPosition(k + 1)'
  BY <1>1, <1>4, <1>5, <1>6, <1>7, <1>8 DEF AtPosition, P, L
<1> QED BY <1>1, <1>2, <1>8, <1>9 DEF Progress, P, L

\* At the end of the outermost scope nothing is left to undo: the transaction holds the
\* whole call, or is marked.
LEMMA Outermost ==
  ASSUME TypeOK, Progress, Reaches("leave"), depth = 1
  PROVE  /\ CallOK(call)
         /\ ~poisoned /\ ~raising => work = Whole(call, db)
         /\ \E k \in 1..Len(Program(call)) :
              /\ AtPosition(k) /\ Tail(todo) = Rest(Program(call), k + 1)
              /\ DepthAt(call.verb, k + 1) = 0
              /\ raising => Resumed(Tail(todo)) = <<>>
              /\ ~raising => Resumed(Tail(todo)) = Rest(Program(call), k + 1)
<1> DEFINE P == Program(call)
           L == Len(P)
<1>1. call # NoCall /\ todo # <<>> /\ Head(todo) = "leave"
  BY DEF Reaches, Idle
<1>2. /\ CallOK(call) /\ call.verb \in Verbs /\ P \in Seq(Instructions) /\ L \in 4..8
      /\ \E k \in 1..L + 1 :
           AtPosition(k) /\ k \in 1..L /\ Head(todo) = P[k] /\ Tail(todo) = Rest(P, k + 1)
  BY <1>1, Position
<1>3. PICK k \in 1..L : AtPosition(k) /\ P[k] = "leave" /\ Tail(todo) = Rest(P, k + 1)
  BY <1>1, <1>2
<1>4. DepthAt(call.verb, k) = 1 /\ (~poisoned /\ ~raising => work = ValueAt(call, db, k))
  BY <1>3 DEF AtPosition
<1>5. /\ DepthAt(call.verb, k + 1) = 0
      /\ \A j \in k + 1..L : P[j] \notin {"enter", "leave", "catch"}
  <2>1. P = Program(call) /\ L = Len(P)
    OBVIOUS
  <2> HIDE DEF P, L
  <2> QED BY <1>2, <1>3, <1>4, <2>1, ScopesAt, LeaveAt
<1>6. ValueAt(call, db, k) = Whole(call, db)
  <2>1. P = Program(call) /\ L = Len(P)
    OBVIOUS
  <2> HIDE DEF P, L
  <2> QED BY <1>2, <1>3, <1>4, <2>1, ValueSteps
<1>7. k + 1 \in 1..Len(P) + 1
  BY <1>2
<1>8. Raised(Rest(P, k + 1)) = <<>>
  <2>1. \A j \in k + 1..Len(P) : P[j] \notin {"enter", "leave"}
    BY <1>5
  <2> HIDE DEF P, L
  <2> QED BY <1>2, <1>7, <2>1, RaisedFrom
<1>9. Rest(P, k + 1) # <<>> => Head(Rest(P, k + 1)) # "catch"
  <2>1. ASSUME k + 1 <= L PROVE Head(Rest(P, k + 1)) # "catch"
    <3>1. P[k + 1] # "catch"
      BY <1>2, <1>5, <2>1
    <3>2. Head(Rest(P, k + 1)) = P[k + 1]
      <4>1. k + 1 <= Len(P)
        BY <2>1
      <4> HIDE DEF P, L
      <4> QED BY <1>2, <1>7, <4>1, RestIs
    <3> QED BY <3>1, <3>2
  <2>2. ASSUME ~(k + 1 <= L) PROVE Rest(P, k + 1) = <<>>
    <3>1. k + 1 = Len(P) + 1
      BY <1>2, <2>2
    <3> HIDE DEF P, L
    <3> QED BY <1>2, <1>7, <3>1, RestIs
  <2> QED BY <2>1, <2>2
<1>10. /\ raising => Resumed(Tail(todo)) = <<>>
       /\ ~raising => Resumed(Tail(todo)) = Rest(P, k + 1)
  BY <1>3, <1>8, <1>9 DEF Resumed
<1> QED BY <1>2, <1>3, <1>4, <1>5, <1>6, <1>10

LEMMA LeaveOutermostProgress ==
  ASSUME TypeOK, Progress, LeaveOutermost
  PROVE  /\ Progress'
         /\ db' = db \/ (~poisoned /\ ~raising /\ db' = work /\ db' = Whole(call, db))
         /\ work' = db' /\ IsFile(db')
<1> DEFINE P == Program(call)
           L == Len(P)
<1>1. /\ Reaches("leave") /\ depth = 1 /\ depth' = 0 /\ poisoned' = FALSE
      /\ todo' = Resumed(Tail(todo)) /\ UNCHANGED <<call, raising>>
      /\ IF ~(poisoned \/ raising) THEN db' = work /\ work' = work ELSE work' = db /\ db' = db
      /\ call # NoCall /\ IsFile(db) /\ IsFile(work)
  BY DEF LeaveOutermost, Commits, Poisoned, Reaches, Idle, TypeOK
<1>2. /\ CallOK(call)
      /\ ~poisoned /\ ~raising => work = Whole(call, db)
  BY <1>1, Outermost
<1>3. PICK k \in 1..L :
        /\ AtPosition(k) /\ Tail(todo) = Rest(P, k + 1)
        /\ DepthAt(call.verb, k + 1) = 0
        /\ raising => Resumed(Tail(todo)) = <<>>
        /\ ~raising => Resumed(Tail(todo)) = Rest(P, k + 1)
  BY <1>1, Outermost
<1>4. /\ work' = db' /\ IsFile(db')
      /\ db' = db \/ (~poisoned /\ ~raising /\ db' = work /\ db' = Whole(call, db))
  BY <1>1, <1>2
<1>5. call.verb \in Verbs /\ P \in Seq(Instructions) /\ L \in 4..8
  BY <1>1, Position
<1>6. DepthAt(call.verb, L + 1) = 0 /\ Rest(P, L + 1) = <<>> /\ L + 1 \in 1..L + 1
      /\ k + 1 \in 1..L + 1
  <2>1. L + 1 \in 1..Len(P) + 1 /\ L + 1 = Len(P) + 1 /\ k + 1 \in 1..L + 1 /\ P = Program(call)
    BY <1>5
  <2>2. DepthAt(call.verb, L + 1) = 0
    BY <1>5, ProgramEnds
  <2> HIDE DEF P, L
  <2> QED BY <1>5, <2>1, <2>2, RestIs
<1> HIDE DEF P, L
<1>7. CASE raising
  <2>1. AtPosition(L + 1)'
    BY <1>1, <1>3, <1>6, <1>7 DEF AtPosition, P, L
  <2> QED BY <1>1, <1>2, <1>4, <1>6, <2>1 DEF Progress, P, L
<1>8. CASE ~raising
  <2>1. AtPosition(k + 1)'
    BY <1>1, <1>3, <1>6, <1>8 DEF AtPosition, P, L
  <2> QED BY <1>1, <1>2, <1>4, <1>6, <2>1 DEF Progress, P, L
<1> QED BY <1>4, <1>7, <1>8

LEMMA CommitFailsProgress ==
  ASSUME TypeOK, Progress, CommitFails
  PROVE  Progress'
<1> DEFINE P == Program(call)
           L == Len(P)
<1>1. /\ call # NoCall /\ todo' = <<>> /\ depth' = 0 /\ poisoned' = FALSE /\ work' = db
      /\ UNCHANGED <<db, call>>
  BY DEF CommitFails, Reaches, Idle
<1>2. CallOK(call) /\ call.verb \in Verbs /\ P \in Seq(Instructions) /\ L \in 4..8
  BY <1>1, Position
<1>3. DepthAt(call.verb, L + 1) = 0
  BY <1>2, ProgramEnds
<1>4. Rest(P, L + 1) = <<>> /\ L + 1 \in 1..L + 1
  BY <1>2, RestIs
<1>5. AtPosition(L + 1)'
  BY <1>1, <1>3, <1>4 DEF AtPosition
<1> QED BY <1>1, <1>2, <1>4, <1>5 DEF Progress

LEMMA CatchProgress ==
  ASSUME TypeOK, Progress, Catch
  PROVE  Progress'
<1> DEFINE P == Program(call)
           L == Len(P)
<1>1. /\ call # NoCall /\ todo # <<>> /\ Head(todo) = "catch"
      /\ raising' = FALSE /\ todo' = Tail(todo) /\ UNCHANGED <<db, work, call, depth, poisoned>>
  BY DEF Catch, Reaches, Idle
<1>2. /\ CallOK(call) /\ call.verb \in Verbs /\ P \in Seq(Instructions) /\ L \in 4..8
      /\ \E k \in 1..L + 1 :
           AtPosition(k) /\ k \in 1..L /\ Head(todo) = P[k] /\ Tail(todo) = Rest(P, k + 1)
  BY <1>1, Position
<1>3. PICK k \in 1..L : AtPosition(k) /\ P[k] = "catch" /\ Tail(todo) = Rest(P, k + 1)
  BY <1>1, <1>2
<1>4. ~raising \/ poisoned
  BY <1>3 DEF AtPosition
<1>5. DepthAt(call.verb, k + 1) = DepthAt(call.verb, k)
  <2>1. P[k] \notin {"enter", "leave"} /\ P = Program(call) /\ L = Len(P)
    BY <1>3
  <2> HIDE DEF P, L
  <2> QED BY <1>2, <1>3, <2>1, ScopesAt
<1>6. ValueAt(call, db, k + 1) = ValueAt(call, db, k)
  <2>1. ~IsStatement(P[k]) /\ P = Program(call) /\ L = Len(P)
    BY <1>3 DEF IsStatement
  <2> HIDE DEF P, L
  <2> QED BY <1>2, <1>3, <2>1, ValueSteps
<1>7. depth = DepthAt(call.verb, k) /\ (depth >= 1 /\ ~poisoned /\ ~raising => work = ValueAt(call, db, k))
  BY <1>3 DEF AtPosition
<1>8. k + 1 \in 1..L + 1
  BY <1>2
<1> HIDE DEF P, L
<1>9. AtPosition(k + 1)'
  BY <1>1, <1>3, <1>4, <1>5, <1>6, <1>7, <1>8 DEF AtPosition, P, L
<1> QED BY <1>1, <1>2, <1>8, <1>9 DEF Progress, P, L

LEMMA ReceiptProgress ==
  ASSUME TypeOK, Progress, Receipt
  PROVE  Progress'
<1> DEFINE P == Program(call)
           L == Len(P)
<1>1. /\ call # NoCall /\ todo # <<>> /\ Head(todo) = "receipt" /\ ~raising
      /\ todo' = Tail(todo) /\ UNCHANGED <<db, work, call, depth, poisoned, raising>>
  BY DEF Receipt, Reaches, Idle
<1>2. /\ CallOK(call) /\ call.verb \in Verbs /\ P \in Seq(Instructions) /\ L \in 4..8
      /\ \E k \in 1..L + 1 :
           AtPosition(k) /\ k \in 1..L /\ Head(todo) = P[k] /\ Tail(todo) = Rest(P, k + 1)
  BY <1>1, Position
<1>3. PICK k \in 1..L : AtPosition(k) /\ P[k] = "receipt" /\ Tail(todo) = Rest(P, k + 1)
  BY <1>1, <1>2
<1>4. DepthAt(call.verb, k + 1) = 0 /\ DepthAt(call.verb, k) = 0
  <2>1. P[k] \notin {"enter", "leave"} /\ P = Program(call) /\ L = Len(P)
    BY <1>3
  <2> HIDE DEF P, L
  <2> QED BY <1>2, <1>3, <2>1, ScopesAt
<1>5. depth = 0
  BY <1>3, <1>4 DEF AtPosition
<1>6. k + 1 \in 1..L + 1
  BY <1>2
<1> HIDE DEF P, L
<1>7. AtPosition(k + 1)'
  BY <1>1, <1>3, <1>4, <1>5, <1>6 DEF AtPosition, P, L
<1> QED BY <1>1, <1>2, <1>5, <1>6, <1>7 DEF Progress, P, L

LEMMA ReplyProgress ==
  ASSUME TypeOK, Progress, Reply
  PROVE  Progress' /\ depth = 0
<1>1. /\ call # NoCall /\ todo = <<>> /\ call' = NoCall /\ ~raising'
      /\ UNCHANGED <<db, work, todo, depth, poisoned>>
  BY DEF Reply, Idle
<1>2. /\ CallOK(call) /\ call.verb \in Verbs
      /\ AtPosition(Len(Program(call)) + 1)
  BY <1>1, Position
<1>3. depth = 0
  <2>1. DepthAt(call.verb, Len(Program(call)) + 1) = 0
    BY <1>2, ProgramEnds
  <2> QED BY <1>2, <2>1 DEF AtPosition
<1> QED BY <1>1, <1>3 DEF Progress

\* Steps that touch no running call: reads, the purge's other steps, the clock.
LEMMA AsideProgress ==
  ASSUME Progress, UNCHANGED <<db, work, call, todo, depth, poisoned, raising>>
  PROVE  Progress'
<1>1. \A k : AtPosition(k) <=> AtPosition(k)'
  BY DEF AtPosition
<1> QED BY <1>1 DEF Progress

\* What the archive can still account for: the rows a transaction adds have ids the file
\* never gave; what a record names has one of the ids given and is the only row under it;
\* what the purge deleted is gone for good and was backed up, with the rest of the table,
\* before it was.
Archive ==
  /\ work.last.handoffs >= db.last.handoffs
  /\ \A h \in work.handoffs : h \in db.handoffs \/ h.id > db.last.handoffs
  /\ \A shown \in named :
       shown.id \in 1..db.last.handoffs /\ \A h \in db.handoffs : h.id = shown.id => h = shown
  /\ \A h \in deleted : h.id \in 1..db.last.handoffs /\ h \notin db.handoffs
  /\ deleted \subseteq backup
  /\ purge.at = "backed_up" => db.handoffs \subseteq backup

IInv == TypeOK /\ Progress /\ Locks /\ Archive

LEMMA ArchiveIds ==
  ASSUME NEW t, IsFile(t)
  PROVE  /\ t.last.handoffs \in Nat /\ t.last.handoffs >= t.last.handoffs
         /\ \A h \in t.handoffs : h.id \in Nat /\ h.id \in 1..t.last.handoffs
         /\ \A g, h \in t.handoffs : g.id = h.id => g = h
BY DEF IsFile, Tables

LEMMA Executes ==
  ASSUME TypeOK, Progress, Execute
  PROVE  /\ IsFile(work')
         /\ work'.last.handoffs >= work.last.handoffs
         /\ \A h \in work'.handoffs : h \in work.handoffs \/ h.id > work.last.handoffs
<1> DEFINE P == Program(call)
           L == Len(P)
<1>1. /\ call # NoCall /\ todo # <<>> /\ IsStatement(Head(todo)) /\ IsFile(work)
      /\ work' = Effect(Head(todo), call, work)
  BY DEF Execute, Idle, TypeOK
<1>2. /\ CallOK(call) /\ call.verb \in Verbs
      /\ \E k \in 1..L + 1 : k \in 1..L /\ Head(todo) = P[k]
  BY <1>1, Position
<1>3. PICK k \in 1..L : Head(todo) = P[k]
  BY <1>2
<1>4. /\ Head(todo) \in Statements
      /\ Head(todo) = "remember" => call.verb \in {"/remember", "store_memory", "both"}
  <2>1. IsStatement(P[k]) /\ P = Program(call) /\ L = Len(P)
    BY <1>1, <1>3
  <2> HIDE DEF P, L
  <2> QED BY <1>2, <1>3, <2>1, StatementAt
<1> QED BY <1>1, <1>2, <1>4, EffectKeeps

\* The archive, when the committed file stays and the connection's may change.
LEMMA ArchiveWaits ==
  ASSUME TypeOK, Archive, UNCHANGED <<db, named, deleted, backup>>,
         purge'.at = "backed_up" => purge.at = "backed_up",
         \/ work' = work \/ work' = db
         \/ /\ IsFile(work') /\ work'.last.handoffs >= work.last.handoffs
            /\ \A h \in work'.handoffs : h \in work.handoffs \/ h.id > work.last.handoffs
  PROVE  Archive'
<1>1. /\ db.last.handoffs \in Nat /\ work.last.handoffs \in Nat
      /\ db.last.handoffs >= db.last.handoffs
  BY ArchiveIds DEF TypeOK
<1>2. work'.last.handoffs >= db.last.handoffs
  <2>1. CASE work' = work \/ work' = db
    BY <1>1, <2>1 DEF Archive
  <2>2. CASE IsFile(work') /\ work'.last.handoffs >= work.last.handoffs
    <3>1. work'.last.handoffs \in Nat
      BY <2>2, ArchiveIds
    <3> QED BY <1>1, <2>2, <3>1 DEF Archive
  <2> QED BY <2>1, <2>2
<1>3. \A h \in work'.handoffs : h \in db.handoffs \/ h.id > db.last.handoffs
  <2>1. CASE work' = work \/ work' = db
    BY <2>1 DEF Archive
  <2>2. CASE /\ IsFile(work') /\ work'.last.handoffs >= work.last.handoffs
             /\ \A h \in work'.handoffs : h \in work.handoffs \/ h.id > work.last.handoffs
    <3> TAKE h \in work'.handoffs
    <3>1. h.id \in Nat
      BY <2>2, ArchiveIds
    <3> QED BY <1>1, <2>2, <3>1 DEF Archive
  <2> QED BY <2>1, <2>2
<1> QED BY <1>2, <1>3 DEF Archive

\* The archive, when a transaction commits.
LEMMA ArchiveCommits ==
  ASSUME TypeOK, Archive, db' = work, work' = work, UNCHANGED <<named, deleted, backup>>,
         purge'.at # "backed_up"
  PROVE  Archive'
<1>1. /\ db.last.handoffs \in Nat /\ work.last.handoffs \in Nat
      /\ work.last.handoffs >= db.last.handoffs /\ work.last.handoffs >= work.last.handoffs
      /\ \A h \in db.handoffs \cup work.handoffs : h.id \in Nat
  BY ArchiveIds DEF TypeOK, Archive
<1>2. \A shown \in named :
        shown.id \in 1..work.last.handoffs /\ \A h \in work.handoffs : h.id = shown.id => h = shown
  <2> TAKE shown \in named
  <2>1. shown.id \in 1..db.last.handoffs /\ \A h \in db.handoffs : h.id = shown.id => h = shown
    BY DEF Archive
  <2>2. \A h \in work.handoffs : h \in db.handoffs \/ h.id > db.last.handoffs
    BY DEF Archive
  <2>3. \A h \in work.handoffs : h.id = shown.id => h = shown
    BY <1>1, <2>1, <2>2
  <2> QED BY <1>1, <2>1, <2>3
<1>3. \A h \in deleted : h.id \in 1..work.last.handoffs /\ h \notin work.handoffs
  <2> TAKE h \in deleted
  <2>1. h.id \in 1..db.last.handoffs /\ h \notin db.handoffs
    BY DEF Archive
  <2>2. h \in work.handoffs => h.id > db.last.handoffs
    BY <2>1 DEF Archive
  <2> QED BY <1>1, <2>1, <2>2
<1> QED BY <1>1, <1>2, <1>3 DEF Archive

LEMMA ArchiveShows ==
  ASSUME TypeOK, Archive, NEW turn, ShowDigest(turn)
  PROVE  Archive'
<1>1. /\ UNCHANGED <<db, work, purge, backup, deleted>>
      /\ named' \subseteq named \cup db.handoffs
  BY DEF ShowDigest, Read
<1>2. \A h \in db.handoffs :
        h.id \in 1..db.last.handoffs /\ \A g \in db.handoffs : g.id = h.id => g = h
  BY ArchiveIds DEF TypeOK
<1>3. \A shown \in named' :
        shown.id \in 1..db.last.handoffs /\ \A h \in db.handoffs : h.id = shown.id => h = shown
  <2> TAKE shown \in named'
  <2>1. CASE shown \in named
    BY <2>1 DEF Archive
  <2>2. CASE shown \in db.handoffs
    BY <1>2, <2>2
  <2> QED BY <1>1, <2>1, <2>2
<1> QED BY <1>1, <1>3 DEF Archive

\* What the purge deletes was in the backup and is nowhere after it.
LEMMA PurgeDeletesRows ==
  ASSUME TypeOK, Archive, PurgeDeletes
  PROVE  /\ Archive' /\ IsFile(db') /\ work' = db'
         /\ db' = Delete(db, "handoffs", deleted')
<1> DEFINE rows == Selected(purge.ids, db)
<1>1. /\ purge.at = "backed_up" /\ db' = Delete(db, "handoffs", rows) /\ work' = db'
      /\ deleted' = deleted \cup rows /\ purge' = NoPurge /\ UNCHANGED <<backup, named>>
      /\ IsFile(db)
  BY DEF PurgeDeletes, TypeOK
<1>2. rows \subseteq db.handoffs
  BY DEF Selected
<1> HIDE DEF rows
<1>3. /\ IsFile(db') /\ db'.handoffs = db.handoffs \ rows /\ db'.last = db.last
  BY <1>1, DeleteRows
<1>4. db.handoffs \ rows = db.handoffs \ deleted'
  BY <1>1 DEF Archive
<1>5. Delete(db, "handoffs", deleted') = db'
  <2>1. \A s : Delete(db, "handoffs", s) = [db EXCEPT !["handoffs"] = db.handoffs \ s]
    BY DEF Delete
  <2> QED BY <1>1, <1>4, <2>1
<1>6. \A h \in rows : h.id \in 1..db.last.handoffs
  BY <1>1, <1>2, ArchiveIds
<1>7. purge'.at # "backed_up"
  BY <1>1 DEF NoPurge
<1>8. db'.last.handoffs >= db'.last.handoffs
  BY <1>3, ArchiveIds
<1>9. deleted' \subseteq backup
  BY <1>1, <1>2 DEF Archive
<1>10. \A h \in deleted' : h.id \in 1..db'.last.handoffs /\ h \notin db'.handoffs
  BY <1>1, <1>3, <1>6 DEF Archive
<1>11. Archive'
  <2>1. work'.last.handoffs >= db'.last.handoffs
    BY <1>1, <1>8
  <2>2. \A h \in work'.handoffs : h \in db'.handoffs \/ h.id > db'.last.handoffs
    BY <1>1
  <2>3. \A shown \in named' :
          shown.id \in 1..db'.last.handoffs /\ \A h \in db'.handoffs : h.id = shown.id => h = shown
    BY <1>1, <1>3 DEF Archive
  <2> QED BY <1>1, <1>7, <1>9, <1>10, <2>1, <2>2, <2>3 DEF Archive
<1> QED BY <1>1, <1>3, <1>5, <1>11

LEMMA ProgressTypes ==
  ASSUME Progress'
  PROVE  /\ todo' \in Seq(Instructions) /\ depth' \in Nat
         /\ call' = NoCall \/ call'.verb \in Verbs
<1>1. CASE call' = NoCall
  <2>1. /\ <<>> \in Seq(Instructions) /\ todo' = <<>> /\ depth' = 0
    BY <1>1, EmptySeq DEF Progress
  <2> QED BY <1>1, <2>1
<1>2. CASE call' # NoCall
  <2>1. CallOK(call') /\ call'.verb \in Verbs
    BY <1>2 DEF Progress, CallOK
  <2>2. PICK k \in 1..Len(Program(call')) + 1 : AtPosition(k)'
    BY <1>2 DEF Progress
  <2>3. Program(call') \in Seq(Instructions)
    BY <2>1, ProgramEnds
  <2>4. todo' \in Seq(Instructions)
    <3>1. todo' = Rest(Program(call'), k)
      BY <2>2 DEF AtPosition
    <3> QED BY <2>3, <3>1, RestIs
  <2>5. depth' \in Nat
    <3>1. depth' = DepthAt(call'.verb, k)
      BY <2>2 DEF AtPosition
    <3> QED BY <3>1 DEF DepthAt
  <2> QED BY <2>1, <2>4, <2>5
<1> QED BY <1>1, <1>2

-----------------------------------------------------------------------------
(* The inductive invariant, an action at a time.                           *)

LEMMA InitHolds ==
  ASSUME StoreAssumption, Init
  PROVE  IInv
<1>1. PICK file \in Files : db = file /\ work = file
  BY DEF Init
<1>2. IsFile(db) /\ IsFile(work)
  BY <1>1 DEF StoreAssumption
<1>3. Progress
  BY <1>1 DEF Init, Progress
<1>4. <<>> \in Seq(Instructions)
  BY EmptySeq
<1>5. TypeOK
  <2>1. /\ purge.at = "off" /\ schema \in {"ours", "foreign"} /\ lock = "none" /\ now \in Clock
        /\ depth = 0 /\ poisoned = FALSE /\ raising = FALSE /\ call = NoCall /\ todo = <<>>
        /\ calls = 0 /\ reads = 0 /\ faults = 0 /\ purges = 0 /\ changed = {} /\ receipts = {}
    BY DEF Init, NoPurge
  <2>2. poisoned \in BOOLEAN /\ raising \in BOOLEAN /\ depth \in Nat
        /\ todo \in Seq(Instructions)
    BY <1>4, <2>1
  <2>3. {calls, reads, faults, purges} \subseteq Nat /\ changed \subseteq Nat /\ receipts \subseteq Nat
    BY <2>1
  <2> QED BY <1>2, <2>1, <2>2, <2>3 DEF TypeOK
<1>6. Locks
  BY DEF Init, Locks, NoPurge
<1>7. Archive
  BY <1>1, <1>2, ArchiveIds DEF Init, Archive, NoPurge
<1> QED BY <1>3, <1>5, <1>6, <1>7 DEF IInv

LEMMA CallKeeps ==
  ASSUME StoreAssumption, IInv, NEW c \in Requests \cup Retentions, Call(c)
  PROVE  IInv'
<1>1. Progress'
  BY CallProgress DEF IInv
<1>2. TypeOK'
  <2>1. /\ todo' \in Seq(Instructions) /\ depth' \in Nat
        /\ call' = NoCall \/ call'.verb \in Verbs
    BY <1>1, ProgressTypes
  <2>2. calls' \in Nat
    BY DEF IInv, TypeOK, Call
  <2> QED BY <2>1, <2>2 DEF IInv, TypeOK, Call, ghosts
<1>3. Locks'
  BY DEF IInv, Locks, Call
<1>4. Archive'
  BY ArchiveWaits DEF IInv, Call, ghosts
<1> QED BY <1>1, <1>2, <1>3, <1>4 DEF IInv

LEMMA EnterKeeps ==
  ASSUME IInv, Enter \/ CannotEnter
  PROVE  IInv'
<1>1. Progress'
  BY EnterProgress, CannotEnterProgress DEF IInv
<1>2. TypeOK'
  <2>1. /\ todo' \in Seq(Instructions) /\ depth' \in Nat
        /\ call' = NoCall \/ call'.verb \in Verbs
    BY <1>1, ProgressTypes
  <2>2. CASE Enter
    BY <2>1, <2>2 DEF IInv, TypeOK, Enter, Begun, ghosts
  <2>3. CASE CannotEnter
    BY <2>1, <2>3 DEF IInv, TypeOK, CannotEnter, ghosts
  <2> QED BY <2>2, <2>3
<1>3. Locks'
  <2>1. CASE Enter
    <3>1. depth \in Nat
      BY DEF IInv, TypeOK
    <3>2. UNCHANGED <<schema, purge>>
      BY <2>1 DEF Enter
    <3>3. CASE depth = 0
      <4>1. lock = "none" /\ schema = "ours" /\ lock' = "henk"
        BY <2>1, <3>3 DEF Enter, Begun
      <4> QED BY <3>2, <4>1 DEF IInv, Locks
    <3>4. CASE depth # 0
      <4>1. lock' = lock
        BY <2>1, <3>4 DEF Enter
      <4>2. depth >= 1
        BY <3>1, <3>4
      <4> QED BY <3>2, <4>1, <4>2 DEF IInv, Locks
    <3> QED BY <3>3, <3>4
  <2>2. CASE CannotEnter
    BY <2>2 DEF IInv, Locks, CannotEnter
  <2> QED BY <2>1, <2>2
<1>4. Archive'
  <2>1. /\ UNCHANGED <<db, named, deleted, backup, purge>>
        /\ work' = work \/ work' = db
    BY DEF Enter, CannotEnter, Begun, ghosts
  <2> QED BY <2>1, ArchiveWaits DEF IInv
<1> QED BY <1>1, <1>2, <1>3, <1>4 DEF IInv

LEMMA ExecuteKeeps ==
  ASSUME IInv, Execute
  PROVE  IInv'
<1>1. Progress'
  BY ExecuteProgress DEF IInv
<1>2. /\ IsFile(work')
      /\ work'.last.handoffs >= work.last.handoffs
      /\ \A h \in work'.handoffs : h \in work.handoffs \/ h.id > work.last.handoffs
  BY Executes DEF IInv
<1>3. TypeOK'
  <2>1. /\ todo' \in Seq(Instructions) /\ depth' \in Nat
        /\ call' = NoCall \/ call'.verb \in Verbs
    BY <1>1, ProgressTypes
  <2> QED BY <1>2, <2>1 DEF IInv, TypeOK, Execute, ghosts
<1>4. Locks'
  BY DEF IInv, Locks, Execute
<1>5. Archive'
  <2>1. UNCHANGED <<db, named, deleted, backup, purge>>
    BY DEF Execute, ghosts
  <2> QED BY <1>2, <2>1, ArchiveWaits DEF IInv
<1> QED BY <1>1, <1>3, <1>4, <1>5 DEF IInv

LEMMA RaisesKeeps ==
  ASSUME IInv, StatementFails \/ LeaveNested \/ Catch \/ Receipt
  PROVE  IInv'
<1>1. Progress'
  BY StatementFailsProgress, LeaveNestedProgress, CatchProgress, ReceiptProgress DEF IInv
<1>2. /\ UNCHANGED <<db, work, lock, schema, now, call, purge, backup, calls, reads, purges, answer,
                     changed, named, deleted>>
      /\ depth' = depth \/ (depth' = depth - 1 /\ depth > 1)
      /\ faults' = faults \/ faults' = faults + 1
      /\ poisoned' \in {poisoned, poisoned \/ raising} /\ raising' \in {raising, TRUE, FALSE}
      /\ receipts' \subseteq receipts \cup {calls}
  BY DEF StatementFails, LeaveNested, Catch, Receipt, ghosts, Poisoned
<1>3. TypeOK'
  <2>1. /\ todo' \in Seq(Instructions) /\ depth' \in Nat
        /\ call' = NoCall \/ call'.verb \in Verbs
    BY <1>1, ProgressTypes
  <2>2. faults' \in Nat /\ calls \in Nat /\ receipts' \subseteq Nat
    BY <1>2 DEF IInv, TypeOK
  <2>3. poisoned' \in BOOLEAN /\ raising' \in BOOLEAN
    BY <1>2 DEF IInv, TypeOK
  <2> QED BY <1>2, <2>1, <2>2, <2>3 DEF IInv, TypeOK
<1>4. Locks'
  <2>1. depth \in Nat
    BY DEF IInv, TypeOK
  <2> QED BY <1>2, <2>1 DEF IInv, Locks
<1>5. Archive'
  BY <1>2, ArchiveWaits DEF IInv
<1> QED BY <1>1, <1>3, <1>4, <1>5 DEF IInv

LEMMA LeaveOutermostKeeps ==
  ASSUME IInv, LeaveOutermost
  PROVE  IInv'
<1>1. /\ Progress' /\ work' = db' /\ IsFile(db')
      /\ db' = db \/ (~poisoned /\ ~raising /\ db' = work)
  BY LeaveOutermostProgress DEF IInv
<1>2. /\ UNCHANGED <<schema, now, call, raising, purge, backup, calls, reads, faults, purges,
                     receipts, named, deleted>>
      /\ depth = 1 /\ depth' = 0 /\ poisoned' = FALSE /\ lock' = "none"
      /\ changed' \subseteq changed \cup {calls}
  BY DEF LeaveOutermost, Commits
<1>3. purge.at = "off" /\ depth = 1
  <2>1. depth >= 1
    BY <1>2
  <2> QED BY <1>2, <2>1 DEF IInv, Locks
<1>4. TypeOK'
  <2>1. /\ todo' \in Seq(Instructions) /\ depth' \in Nat
        /\ call' = NoCall \/ call'.verb \in Verbs
    BY <1>1, ProgressTypes
  <2>2. calls \in Nat /\ changed' \subseteq Nat
    BY <1>2 DEF IInv, TypeOK
  <2> QED BY <1>1, <1>2, <2>1, <2>2 DEF IInv, TypeOK
<1>5. Locks'
  BY <1>2, <1>3 DEF IInv, Locks
<1>6. Archive'
  <2>1. CASE db' = db
    BY <1>1, <1>2, <2>1, ArchiveWaits DEF IInv
  <2>2. CASE db' = work
    BY <1>1, <1>2, <1>3, <2>2, ArchiveCommits DEF IInv
  <2> QED BY <1>1, <2>1, <2>2
<1> QED BY <1>1, <1>4, <1>5, <1>6 DEF IInv

LEMMA CommitFailsKeeps ==
  ASSUME IInv, CommitFails
  PROVE  IInv'
<1>1. Progress'
  BY CommitFailsProgress DEF IInv
<1>2. /\ UNCHANGED <<db, schema, now, call, purge, backup, calls, reads, purges, answer, changed,
                     receipts, named, deleted>>
      /\ depth = 1 /\ depth' = 0 /\ poisoned' = FALSE /\ lock' = "none" /\ work' = db
      /\ raising' = TRUE /\ faults' = faults + 1
  BY DEF CommitFails, ghosts
<1>3. purge.at = "off"
  <2>1. depth >= 1
    BY <1>2
  <2> QED BY <1>2, <2>1 DEF IInv, Locks
<1>4. TypeOK'
  <2>1. /\ todo' \in Seq(Instructions) /\ depth' \in Nat
        /\ call' = NoCall \/ call'.verb \in Verbs
    BY <1>1, ProgressTypes
  <2>2. faults' \in Nat
    BY <1>2 DEF IInv, TypeOK
  <2> QED BY <1>2, <2>1, <2>2 DEF IInv, TypeOK
<1>5. Locks'
  BY <1>2, <1>3 DEF IInv, Locks
<1>6. Archive'
  BY <1>2, ArchiveWaits DEF IInv
<1> QED BY <1>1, <1>4, <1>5, <1>6 DEF IInv

LEMMA EndsKeeps ==
  ASSUME IInv, Reply \/ Crash
  PROVE  IInv'
<1>1. CASE Reply
  <2>1. Progress' /\ depth = 0
    BY <1>1, ReplyProgress DEF IInv
  <2>2. /\ UNCHANGED <<db, work, lock, schema, now, todo, depth, poisoned, purge, backup, calls, reads,
                       faults, purges, ghosts>>
        /\ call' = NoCall /\ raising' = FALSE
    BY <1>1 DEF Reply
  <2>3. TypeOK'
    BY <2>2 DEF IInv, TypeOK, ghosts
  <2>4. Locks'
    BY <2>2 DEF IInv, Locks
  <2>5. Archive'
    BY <2>2, ArchiveWaits DEF IInv, ghosts
  <2> QED BY <2>1, <2>3, <2>4, <2>5 DEF IInv
<1>2. CASE Crash
  <2>1. /\ call' = NoCall /\ todo' = <<>> /\ depth' = 0 /\ poisoned' = FALSE /\ raising' = FALSE
        /\ work' = db /\ lock' = IF lock = "henk" THEN "none" ELSE lock
        /\ faults' = faults + 1
        /\ UNCHANGED <<db, schema, now, purge, backup, calls, reads, purges, ghosts>>
    BY <1>2 DEF Crash
  <2>2. Progress'
    BY <2>1 DEF Progress
  <2>3. TypeOK'
    <3>1. faults' \in Nat
      BY <2>1 DEF IInv, TypeOK
    <3>2. <<>> \in Seq(Instructions)
      BY EmptySeq
    <3> QED BY <2>1, <3>1, <3>2 DEF IInv, TypeOK, ghosts
  <2>4. Locks'
    BY <2>1 DEF IInv, Locks
  <2>5. Archive'
    BY <2>1, ArchiveWaits DEF IInv, ghosts
  <2> QED BY <2>2, <2>3, <2>4, <2>5 DEF IInv
<1> QED BY <1>1, <1>2

\* A step that leaves the file, the lock and the call as they are.
LEMMA ReadKeeps ==
  ASSUME IInv, NEW result, Read(result), UNCHANGED named \/ \E turn \in Turns : ShowDigest(turn)
  PROVE  IInv'
<1>1. /\ UNCHANGED <<db, work, lock, schema, now, call, todo, depth, poisoned, raising, purge, backup,
                     calls, faults, purges, changed, receipts, deleted>>
      /\ reads' = reads + 1
  BY DEF Read, running
<1>2. Progress'
  BY <1>1, AsideProgress DEF IInv
<1>3. TypeOK'
  <2>1. reads' \in Nat
    BY <1>1 DEF IInv, TypeOK
  <2> QED BY <1>1, <2>1 DEF IInv, TypeOK
<1>4. Locks'
  BY <1>1 DEF IInv, Locks
<1>5. Archive'
  BY <1>1, ArchiveWaits, ArchiveShows DEF IInv
<1> QED BY <1>2, <1>3, <1>4, <1>5 DEF IInv

LEMMA TickKeeps ==
  ASSUME IInv, Tick
  PROVE  IInv'
<1>1. /\ UNCHANGED <<db, work, lock, schema, call, todo, depth, poisoned, raising, purge, backup,
                     calls, reads, faults, purges, changed, receipts, named, deleted>>
      /\ now' \in Clock
  BY DEF Tick, running, ghosts
<1>2. Progress'
  BY <1>1, AsideProgress DEF IInv
<1>3. TypeOK'
  BY <1>1 DEF IInv, TypeOK
<1>4. Locks'
  BY <1>1 DEF IInv, Locks
<1>5. Archive'
  BY <1>1, ArchiveWaits DEF IInv
<1> QED BY <1>2, <1>3, <1>4, <1>5 DEF IInv

LEMMA PurgeKeeps ==
  ASSUME IInv, \/ \E ids \in SUBSET (Mids \ {NoId}), yes \in BOOLEAN : PurgeBegins(ids, yes)
               \/ PurgeBacksUp \/ PurgeDeletes \/ PurgeEnds
  PROVE  IInv'
<1>0. purge.at # "off" => lock = "purge" /\ depth = 0
  <2>1. depth \in Nat
    BY DEF IInv, TypeOK
  <2> QED BY <2>1 DEF IInv, Locks
<1>1. ASSUME NEW ids \in SUBSET (Mids \ {NoId}), NEW yes \in BOOLEAN, PurgeBegins(ids, yes)
      PROVE  IInv'
  <2>1. /\ UNCHANGED <<db, work, schema, now, call, todo, depth, poisoned, raising, backup,
                       calls, reads, faults, changed, receipts, named, deleted>>
        /\ lock = "none" /\ lock' = "purge" /\ purge'.at = "selected" /\ purges' = purges + 1
    BY <1>1 DEF PurgeBegins, Reserved, running, ghosts
  <2>2. Progress'
    BY <2>1, AsideProgress DEF IInv
  <2>3. TypeOK'
    <3>1. purges' \in Nat
      BY <2>1 DEF IInv, TypeOK
    <3> QED BY <2>1, <3>1 DEF IInv, TypeOK
  <2>4. Locks'
    BY <2>1 DEF IInv, Locks
  <2>5. Archive'
    BY <2>1, ArchiveWaits DEF IInv
  <2> QED BY <2>2, <2>3, <2>4, <2>5 DEF IInv
<1>2. CASE PurgeBacksUp
  <2>1. /\ UNCHANGED <<db, work, lock, schema, now, call, todo, depth, poisoned, raising,
                       calls, reads, faults, purges, changed, receipts, named, deleted>>
        /\ purge.at = "selected" /\ purge' = [purge EXCEPT !.at = "backed_up"]
        /\ backup' = backup \cup db.handoffs
    BY <1>2 DEF PurgeBacksUp, running, ghosts
  <2>2. Progress'
    BY <2>1, AsideProgress DEF IInv
  <2>3. purge'.at \in {"selected", "backed_up"}
    BY <2>1
  <2>4. TypeOK'
    BY <2>1, <2>3 DEF IInv, TypeOK
  <2>5. Locks'
    BY <2>1, <2>3 DEF IInv, Locks
  <2>6. Archive'
    BY <2>1 DEF IInv, Archive
  <2> QED BY <2>2, <2>4, <2>5, <2>6 DEF IInv
<1>3. CASE PurgeDeletes
  <2>1. /\ UNCHANGED <<schema, now, call, todo, depth, poisoned, raising, backup, calls, reads,
                       faults, purges, changed, receipts, named>>
        /\ purge.at = "backed_up" /\ purge' = NoPurge /\ lock' = "none"
    BY <1>3 DEF PurgeDeletes, running
  <2>2. Archive' /\ IsFile(db') /\ work' = db'
    BY <1>3, PurgeDeletesRows DEF IInv
  <2>3. depth = 0
    BY <1>0, <2>1
  <2>4. Progress'
    <3>1. \A k : AtPosition(k) => AtPosition(k)'
      BY <2>1, <2>3 DEF AtPosition
    <3> QED BY <2>1, <2>2, <2>3, <3>1 DEF IInv, Progress
  <2>5. TypeOK'
    BY <2>1, <2>2 DEF IInv, TypeOK, NoPurge
  <2>6. Locks'
    BY <2>1, <2>3 DEF Locks, NoPurge
  <2> QED BY <2>2, <2>4, <2>5, <2>6 DEF IInv
<1>4. CASE PurgeEnds
  <2>1. /\ UNCHANGED <<db, work, schema, now, call, todo, depth, poisoned, raising, backup,
                       calls, reads, faults, purges, changed, receipts, named, deleted>>
        /\ purge.at # "off" /\ purge' = NoPurge /\ lock' = IF lock = "purge" THEN "none" ELSE lock
    BY <1>4 DEF PurgeEnds, running, ghosts
  <2>2. Progress'
    BY <2>1, AsideProgress DEF IInv
  <2>3. TypeOK'
    BY <1>0, <2>1 DEF IInv, TypeOK, NoPurge
  <2>4. Locks'
    BY <1>0, <2>1 DEF Locks, NoPurge
  <2>5. Archive'
    BY <2>1, ArchiveWaits DEF IInv, NoPurge
  <2> QED BY <2>2, <2>3, <2>4, <2>5 DEF IInv
<1> QED BY <1>1, <1>2, <1>3, <1>4

LEMMA NextKeeps ==
  ASSUME StoreAssumption, IInv, Next
  PROVE  IInv'
<1>1. CASE \E c \in Requests \cup Retentions : Call(c)
  BY <1>1, CallKeeps
<1>2. CASE Enter \/ CannotEnter
  BY <1>2, EnterKeeps
<1>3. CASE Execute
  BY <1>3, ExecuteKeeps
<1>4. CASE StatementFails \/ LeaveNested \/ Catch \/ Receipt
  BY <1>4, RaisesKeeps
<1>5. CASE LeaveOutermost
  BY <1>5, LeaveOutermostKeeps
<1>6. CASE CommitFails
  BY <1>6, CommitFailsKeeps
<1>7. CASE Reply \/ Crash
  BY <1>7, EndsKeeps
<1>8. CASE Recall
  BY <1>8, ReadKeeps DEF Recall
<1>9. CASE ListMemories
  BY <1>9, ReadKeeps DEF ListMemories
<1>10. CASE \E limit \in {PageSize, Cardinality(db.inbox)} : ListInbox(limit)
  BY <1>10, ReadKeeps DEF ListInbox
<1>11. CASE \E limit \in Limits : ReadInbox(limit)
  BY <1>11, ReadKeeps DEF ReadInbox
<1>12. CASE \E turn \in Turns : ShowDigest(turn)
  <2>1. \E result : Read(result)
    BY <1>12 DEF ShowDigest
  <2> QED BY <1>12, <2>1, ReadKeeps
<1>13. CASE \/ \E ids \in SUBSET (Mids \ {NoId}), yes \in BOOLEAN : PurgeBegins(ids, yes)
            \/ PurgeBacksUp \/ PurgeDeletes \/ PurgeEnds
  BY <1>13, PurgeKeeps
<1>14. CASE Tick
  BY <1>14, TickKeeps
<1> QED BY <1>1, <1>2, <1>3, <1>4, <1>5, <1>6, <1>7, <1>8, <1>9, <1>10, <1>11, <1>12, <1>13, <1>14
        DEF Next

LEMMA StutterKeeps ==
  ASSUME IInv, UNCHANGED vars
  PROVE  IInv'
<1>1. /\ UNCHANGED <<db, work, lock, schema, now, call, todo, depth, poisoned, raising, purge, backup,
                     calls, reads, faults, purges, changed, receipts, named, deleted>>
  BY DEF vars
<1>2. Progress'
  BY <1>1, AsideProgress DEF IInv
<1>3. TypeOK'
  BY <1>1 DEF IInv, TypeOK
<1>4. Locks'
  BY <1>1 DEF IInv, Locks
<1>5. Archive'
  BY <1>1, ArchiveWaits DEF IInv
<1> QED BY <1>2, <1>3, <1>4, <1>5 DEF IInv

\* The inductive invariant holds in every state.
THEOREM Invariance == Spec => []IInv
<1>1. Init => IInv
  BY StoreAssumption, InitHolds
<1>2. IInv /\ [Next]_vars => IInv'
  BY StoreAssumption, NextKeeps, StutterKeeps
<1> QED BY <1>1, <1>2, PTL DEF Spec

\* Every row of the file, committed or seen by henk's connection, has the shape of its
\* table and an id of its own that AUTOINCREMENT gave, and the transaction's bookkeeping
\* keeps its types.
THEOREM TypeCorrect == Spec => []TypeOK
<1>1. IInv => TypeOK
  BY DEF IInv
<1> QED BY <1>1, Invariance, PTL

\* The archive gives up no hand-off that cannot be named or fetched again: an id a record
\* names is never another's, and what the purge deleted is in a backup.
THEOREM ArchiveIsAlwaysHonest == Spec => []ArchiveIsHonest
<1>1. IInv => ArchiveIsHonest
  BY DEF IInv, Archive, ArchiveIsHonest, IdsNameOneHandoff, PurgedIsBackedUp
<1> QED BY <1>1, Invariance, PTL

LEMMA CommitsWholeCalls ==
  ASSUME IInv, Next
  PROVE  \/ db' = db
         \/ depth = 1 /\ schema = "ours" /\ db' = Whole(call, db)
         \/ purge.at = "backed_up" /\ db' = Delete(db, "handoffs", deleted')
<1>1. CASE LeaveOutermost
  <2>1. depth = 1
    BY <1>1 DEF LeaveOutermost
  <2>2. schema = "ours"
    <3>1. depth >= 1
      BY <2>1
    <3> QED BY <3>1 DEF IInv, Locks
  <2>3. db' = db \/ db' = Whole(call, db)
    BY <1>1, LeaveOutermostProgress DEF IInv
  <2> QED BY <2>1, <2>2, <2>3
<1>2. CASE PurgeDeletes
  <2>1. purge.at = "backed_up"
    BY <1>2 DEF PurgeDeletes
  <2>2. db' = Delete(db, "handoffs", deleted')
    BY <1>2, PurgeDeletesRows DEF IInv
  <2> QED BY <2>1, <2>2
<1>3. CASE \/ \E c \in Requests \cup Retentions : Call(c)
           \/ Enter \/ CannotEnter \/ Execute \/ StatementFails \/ LeaveNested
           \/ CommitFails \/ Catch \/ Receipt \/ Reply \/ Crash
  BY <1>3 DEF Call, Enter, CannotEnter, Execute, StatementFails, LeaveNested, CommitFails, Catch,
              Receipt, Reply, Crash
<1>4. CASE \/ Recall \/ ListMemories
           \/ \E limit \in {PageSize, Cardinality(db.inbox)} : ListInbox(limit)
           \/ \E limit \in Limits : ReadInbox(limit)
           \/ \E turn \in Turns : ShowDigest(turn)
  <2>1. \A result : Read(result) => db' = db
    BY DEF Read
  <2> QED BY <1>4, <2>1 DEF Recall, ListMemories, ListInbox, ReadInbox, ShowDigest
<1>5. CASE \/ \E ids \in SUBSET (Mids \ {NoId}), yes \in BOOLEAN : PurgeBegins(ids, yes)
           \/ PurgeBacksUp \/ PurgeEnds \/ Tick
  BY <1>5 DEF PurgeBegins, PurgeBacksUp, PurgeEnds, Tick
<1> QED BY <1>1, <1>2, <1>3, <1>4, <1>5 DEF Next

\* Whatever fails, nests, is swallowed or dies, what a transaction commits is the whole of
\* its call, computed from the file as it was (Store.transaction); only the purge deletes
\* besides.
THEOREM CommitsAreWhole == Spec => OneWholeCall
<1>1. IInv /\ [Next]_vars =>
        [\/ db' = db
         \/ depth = 1 /\ schema = "ours" /\ db' = Whole(call, db)
         \/ purge.at = "backed_up" /\ db' = Delete(db, "handoffs", deleted')]_vars
  BY CommitsWholeCalls
<1> QED BY <1>1, Invariance, PTL DEF Spec, OneWholeCall

-----------------------------------------------------------------------------
(* What a caller says of its call.                                         *)

\* The rows the statements before the k-th instruction deleted or marked.
TouchedAt(c, t, k) ==
  IF c.verb \in {"/remember", "store_memory"}
  THEN IF k \in 1..3 THEN {} ELSE Touches("trim", c, Effect("remember", c, t))
  ELSE IF c.verb = "/forget" THEN IF k \in 1..2 THEN {} ELSE Touches("forget", c, t)
  ELSE IF c.verb = "/inbox_done" THEN IF k \in 1..2 THEN {} ELSE Touches("mark", c, t)
  ELSE IF c.verb = "retain"
  THEN IF k \in 1..3 THEN {}
       ELSE Touches("prune_age", c, Effect("retain", c, t))
            \cup (IF k = 4 THEN {}
                  ELSE Touches("prune_count", c, Effect("prune_age", c, Effect("retain", c, t))))
  ELSE {}

\* A call of this verb that deleted or marked these rows and was not undone.
Settled(verb, rows) ==
  /\ (calls \in changed) = (verb \in {"/forget", "/inbox_done"} => rows # {})
  /\ \A table \in Tables : rows \cap db[table] = {}
  /\ verb \in {"/remember", "store_memory"} => \E m \in db.memories : m.id = db.last.memories
  /\ verb = "retain" => \E h \in db.handoffs \cup deleted : h.id = db.last.handoffs

\* Past its outermost scope.
Ended == depth = 0 /\ todo # Program(call)
Place == Len(Program(call)) + 1 - Len(todo)

\* A call's number is new until it commits; it has touched what its statements so far
\* touch; past its scope it is settled, unless it is raising; and what was said last was
\* said between calls.
Standing ==
  /\ answer = Nothing
  /\ call.verb # "both" => ~poisoned
  /\ raising \/ ~Ended => calls \notin changed
  /\ ~raising /\ call.verb # "both" =>
       IF Ended THEN Settled(call.verb, touched) ELSE touched = TouchedAt(call, db, Place)
Claims ==
  /\ changed \subseteq 0..calls /\ ClaimsAreTrue
  /\ call # NoCall => Standing

\* A statement adds what it touches, anything else nothing.
LEMMA TouchedSteps ==
  ASSUME NEW c, c.verb \in Verbs \ {"both"}, NEW t, NEW k \in 1..Len(Program(c))
  PROVE  /\ IsStatement(Program(c)[k]) =>
              TouchedAt(c, t, k + 1)
                = TouchedAt(c, t, k) \cup Touches(Program(c)[k], c, ValueAt(c, t, k))
         /\ ~IsStatement(Program(c)[k]) => TouchedAt(c, t, k + 1) = TouchedAt(c, t, k)
<1> DEFINE P == Program(c)
           L == Len(P)
           V(n) == ValueAt(c, t, n)
           T(n) == TouchedAt(c, t, n)
           Step(n) == IF IsStatement(P[n]) THEN T(n + 1) = T(n) \cup Touches(P[n], c, V(n))
                      ELSE T(n + 1) = T(n)
           Goal == \A n \in 1..L : Step(n)
<1>0. \A w : /\ Touches("remember", c, w) = {} /\ Touches("capture", c, w) = {}
             /\ Touches("retain", c, w) = {}
  BY DEF Touches
<1>1. ASSUME c.verb \in {"/remember", "store_memory"}
      PROVE  Goal
  <2>1. /\ L = 5
        /\ P[1] = "enter" /\ P[2] = "remember" /\ P[3] = "trim" /\ P[4] = "leave"
        /\ P[5] = "receipt"
    BY <1>1, Programs
  <2>2. V(3) = Effect("remember", c, t)
    BY <1>1 DEF ValueAt
  <2>3. /\ T(1) = {} /\ T(2) = {} /\ T(3) = {} /\ T(4) = Touches("trim", c, V(3))
        /\ T(5) = T(4) /\ T(6) = T(4)
    BY <1>1, <2>2 DEF TouchedAt
  <2> HIDE DEF V, T
  <2>4. Step(1) /\ Step(2)
    BY <1>0, <2>1, <2>3 DEF IsStatement
  <2>5. Step(3)
    BY <2>1, <2>3 DEF IsStatement
  <2>6. Step(4) /\ Step(5)
    BY <2>1, <2>3 DEF IsStatement
  <2> HIDE DEF Step
  <2>7. \A n \in 1..5 : Step(n)
    BY <2>4, <2>5, <2>6
  <2> QED BY <2>1, <2>7 DEF Goal
<1>2. ASSUME c.verb \in {"/forget", "/inbox_done"}
      PROVE  Goal
  <2> DEFINE s == IF c.verb = "/forget" THEN "forget" ELSE "mark"
  <2>1. /\ L = 4 /\ IsStatement(s)
        /\ P[1] = "enter" /\ P[2] = s /\ P[3] = "leave" /\ P[4] = "receipt"
    BY <1>2, Programs DEF IsStatement
  <2>2. V(2) = t
    BY ValueBegins
  <2>3. /\ T(1) = {} /\ T(2) = {} /\ T(3) = Touches(s, c, V(2)) /\ T(4) = T(3) /\ T(5) = T(3)
    BY <1>2, <2>2 DEF TouchedAt
  <2> HIDE DEF V, T, s
  <2>4. Step(1) /\ Step(3) /\ Step(4)
    BY <2>1, <2>3 DEF IsStatement
  <2>5. Step(2)
    BY <2>1, <2>3
  <2> HIDE DEF Step
  <2>6. \A n \in 1..4 : Step(n)
    BY <2>4, <2>5
  <2> QED BY <2>1, <2>6 DEF Goal
<1>3. ASSUME c.verb = "capture"
      PROVE  Goal
  <2>1. /\ L = 4
        /\ P[1] = "enter" /\ P[2] = "capture" /\ P[3] = "leave" /\ P[4] = "receipt"
    BY <1>3, Programs
  <2>2. T(1) = {} /\ T(2) = {} /\ T(3) = {} /\ T(4) = {} /\ T(5) = {}
    BY <1>3 DEF TouchedAt
  <2> HIDE DEF V, T
  <2>3. Step(1) /\ Step(2) /\ Step(3) /\ Step(4)
    BY <1>0, <2>1, <2>2 DEF IsStatement
  <2> HIDE DEF Step
  <2>4. \A n \in 1..4 : Step(n)
    BY <2>3
  <2> QED BY <2>1, <2>4 DEF Goal
<1>4. ASSUME c.verb = "retain"
      PROVE  Goal
  <2>1. /\ L = 5
        /\ P[1] = "enter" /\ P[2] = "retain" /\ P[3] = "prune_age"
        /\ P[4] = "prune_count" /\ P[5] = "leave"
    BY <1>4, Programs
  <2>2. V(3) = Effect("retain", c, t) /\ V(4) = Effect("prune_age", c, Effect("retain", c, t))
    BY <1>4 DEF ValueAt
  <2>3. /\ T(1) = {} /\ T(2) = {} /\ T(3) = {} /\ T(4) = Touches("prune_age", c, V(3))
        /\ T(5) = T(4) \cup Touches("prune_count", c, V(4)) /\ T(6) = T(5)
    BY <1>4, <2>2 DEF TouchedAt
  <2> HIDE DEF V, T
  <2>4. Step(1) /\ Step(2)
    BY <1>0, <2>1, <2>3 DEF IsStatement
  <2>5. Step(3)
    BY <2>1, <2>3 DEF IsStatement
  <2>6. Step(4) /\ Step(5)
    BY <2>1, <2>3 DEF IsStatement
  <2> HIDE DEF Step
  <2>7. \A n \in 1..5 : Step(n)
    BY <2>4, <2>5, <2>6
  <2> QED BY <2>1, <2>7 DEF Goal
<1>5. Goal
  <2> HIDE DEF Goal
  <2> QED BY <1>1, <1>2, <1>3, <1>4 DEF Verbs
<1>6. Step(k)
  BY <1>5
<1> QED BY <1>6

\* Rows of different tables are different.
LEMMA TablesApart ==
  ASSUME NEW t, IsFile(t), NEW u, IsFile(u)
  PROVE  /\ t.memories \cap u.inbox = {} /\ t.memories \cap u.handoffs = {}
         /\ t.inbox \cap u.handoffs = {} /\ t.handoffs \cap u.memories = {}
         /\ t.handoffs \cap u.inbox = {} /\ t.inbox \cap u.memories = {}
<1> DEFINE OfTables(w) ==
             /\ \A m \in w.memories : "content" \in DOMAIN m
             /\ \A i \in w.inbox : "content" \notin DOMAIN i /\ "mid" \notin DOMAIN i
             /\ \A h \in w.handoffs : "content" \notin DOMAIN h /\ "mid" \in DOMAIN h
<1>1. ASSUME NEW w, IsFile(w) PROVE OfTables(w)
  <2>1. \A m \in w.memories : "content" \in DOMAIN m
    BY <1>1 DEF IsFile
  <2>2. \A i \in w.inbox : "content" \notin DOMAIN i /\ "mid" \notin DOMAIN i
    BY <1>1 DEF IsFile
  <2>3. ASSUME NEW h \in w.handoffs PROVE "content" \notin DOMAIN h /\ "mid" \in DOMAIN h
    <3>1. h = [id |-> h.id, mid |-> h.mid, at |-> h.at, size |-> h.size,
               keys |-> h.keys, rules |-> h.rules, nodes |-> h.nodes]
      BY <1>1 DEF IsFile
    <3>2. DOMAIN h = {"id", "mid", "at", "size", "keys", "rules", "nodes"}
      BY <3>1
    <3> QED BY <3>2
  <2> QED BY <2>1, <2>2, <2>3
<1>2. OfTables(t) /\ OfTables(u)
  BY <1>1
<1> QED BY <1>2

\* What a whole call makes of a file: a change, unless it was to delete or mark and met
\* nothing; the rows it touched are gone; and the row it inserted outlives its own trims.
WholeIs(c, t, w, T) ==
  /\ IsFile(w)
  /\ (w # t) = (c.verb \in {"/forget", "/inbox_done"} => T # {})
  /\ \A table \in Tables : T \cap w[table] = {}
  /\ c.verb \in {"/remember", "store_memory"} => \E m \in w.memories : m.id = w.last.memories
  /\ c.verb = "retain" => \E h \in w.handoffs : h.id = w.last.handoffs

LEMMA WholeRemembers ==
  ASSUME NEW c, CallOK(c), c.verb \in {"/remember", "store_memory"}, NEW t, IsFile(t)
  PROVE  WholeIs(c, t, Whole(c, t), TouchedAt(c, t, 4))
<1> DEFINE type == c.type
           content == c.content
           at == c.at
           first == Effect("remember", c, t)
           T == Overflow(first, type)
           w == Delete(first, "memories", T)
           id == t.last.memories + 1
           row == [id |-> id, type |-> type, content |-> content, at |-> at]
<1>1. Whole(c, t) = w /\ TouchedAt(c, t, 4) = T
  <2>1. \A u : Touches("trim", c, u) = Overflow(u, c.type)
    BY DEF Touches
  <2>2. \A u : Effect("trim", c, u) = Delete(u, "memories", Overflow(u, c.type))
    BY <2>1 DEF Effect
  <2>3. Whole(c, t) = Effect("trim", c, Effect("remember", c, t))
    BY DEF Whole
  <2>4. TouchedAt(c, t, 4) = Touches("trim", c, Effect("remember", c, t))
    BY DEF TouchedAt
  <2> QED BY <2>1, <2>2, <2>3, <2>4
<1>2. type \in Types /\ content \in Contents /\ at \in Int
  BY DEF CallOK
<1>3. first = Insert(t, "memories", [id |-> 0, type |-> type, content |-> content, at |-> at])
  BY DEF Effect
<1> HIDE DEF type, content, at
<1>4. /\ first = [memories |-> t.memories \cup {row}, inbox |-> t.inbox, handoffs |-> t.handoffs,
                  last |-> [t.last EXCEPT !["memories"] = id]]
      /\ IsFile(first)
  <2> HIDE DEF first
  <2> QED BY <1>2, <1>3, InsertMemory
<1> HIDE DEF first
<1>5. t.last \in [Tables -> Nat] /\ "memories" \in Tables
  BY DEF IsFile, Tables
<1>6. row \in first.memories /\ row.id = id /\ first.last.memories = id /\ id # t.last.memories
  BY <1>4, <1>5
<1>7. T \subseteq first.memories /\ \A m \in T : m.id # first.last.memories
  BY DEF Overflow
<1> HIDE DEF T, row, id
<1>8. /\ w = [memories |-> first.memories \ T, inbox |-> first.inbox, handoffs |-> first.handoffs,
              last |-> first.last]
      /\ IsFile(w)
  BY <1>4, DeleteRows
<1> HIDE DEF w
<1>9. /\ w.memories = first.memories \ T /\ w.inbox = first.inbox /\ w.handoffs = first.handoffs
      /\ w.last = first.last
  BY <1>8
<1>10. row \in w.memories /\ row.id = w.last.memories /\ w # t
  BY <1>6, <1>7, <1>9
<1>11. \A table \in Tables : T \cap w[table] = {}
  <2>1. T \cap first.inbox = {} /\ T \cap first.handoffs = {}
    BY <1>4, <1>7, TablesApart
  <2> QED BY <1>9, <2>1 DEF Tables
<1> QED BY <1>1, <1>8, <1>10, <1>11 DEF WholeIs

LEMMA WholeForgets ==
  ASSUME NEW c, CallOK(c), c.verb = "/forget", NEW t, IsFile(t)
  PROVE  WholeIs(c, t, Whole(c, t), TouchedAt(c, t, 3))
<1> DEFINE T == {m \in t.memories : m.content \in c.needle}
           w == Delete(t, "memories", T)
<1>1. Whole(c, t) = w /\ TouchedAt(c, t, 3) = T
  <2>1. Touches("forget", c, t) = T
    BY DEF Touches
  <2>2. Effect("forget", c, t) = Delete(t, "memories", Touches("forget", c, t))
    BY DEF Effect
  <2>3. Whole(c, t) = Effect("forget", c, t)
    BY DEF Whole
  <2>4. TouchedAt(c, t, 3) = Touches("forget", c, t)
    BY DEF TouchedAt
  <2> HIDE DEF T
  <2> QED BY <2>1, <2>2, <2>3, <2>4
<1>2. T \subseteq t.memories
  OBVIOUS
<1> HIDE DEF T
<1>3. /\ w = [memories |-> t.memories \ T, inbox |-> t.inbox, handoffs |-> t.handoffs,
              last |-> t.last]
      /\ IsFile(w)
  BY DeleteRows
<1> HIDE DEF w
<1>4. /\ w.memories = t.memories \ T /\ w.inbox = t.inbox /\ w.handoffs = t.handoffs
  BY <1>3
<1>5. T # {} => w # t
  BY <1>2, <1>4
<1>6. T = {} => w = t
  <2>1. t = [memories |-> t.memories, inbox |-> t.inbox, handoffs |-> t.handoffs, last |-> t.last]
    BY DEF IsFile
  <2>2. T = {} => t.memories \ T = t.memories
    OBVIOUS
  <2> QED BY <1>3, <2>1, <2>2
<1>7. \A table \in Tables : T \cap w[table] = {}
  <2>1. T \cap t.inbox = {} /\ T \cap t.handoffs = {}
    BY <1>2, TablesApart
  <2> QED BY <1>4, <2>1 DEF Tables
<1> QED BY <1>1, <1>3, <1>5, <1>6, <1>7 DEF WholeIs

LEMMA WholeMarks ==
  ASSUME NEW c, CallOK(c), c.verb = "/inbox_done", NEW t, IsFile(t)
  PROVE  WholeIs(c, t, Whole(c, t), TouchedAt(c, t, 3))
<1> DEFINE T == {i \in t.inbox : i.id = c.id /\ i.status = "open"}
           marked == {[i EXCEPT !.status = "done"] : i \in T}
           w == [t EXCEPT !.inbox = (@ \ T) \cup marked]
<1>1. Whole(c, t) = w /\ TouchedAt(c, t, 3) = T
  <2> DEFINE open == Touches("mark", c, t)
  <2>1. open = T
    BY DEF Touches
  <2>2. Effect("mark", c, t)
          = [t EXCEPT !.inbox = (@ \ open) \cup {[i EXCEPT !.status = "done"] : i \in open}]
    BY DEF Effect
  <2>3. Whole(c, t) = Effect("mark", c, t)
    BY DEF Whole
  <2>4. TouchedAt(c, t, 3) = Touches("mark", c, t)
    BY DEF TouchedAt
  <2> HIDE DEF T
  <2> QED BY <2>1, <2>2, <2>3, <2>4
<1>2. T \in SUBSET t.inbox /\ \A i \in T : i.status = "open"
  OBVIOUS
<1>3. T = {} => marked = {}
  OBVIOUS
<1>4. \A r \in marked : r.status = "done"
  BY <1>2 DEF IsFile
<1> HIDE DEF T
<1>5. /\ w = [memories |-> t.memories, inbox |-> (t.inbox \ T) \cup marked,
              handoffs |-> t.handoffs, last |-> t.last]
      /\ IsFile(w)
  BY <1>2, MarkItems
<1> HIDE DEF w, marked
<1>6. w.memories = t.memories /\ w.inbox = (t.inbox \ T) \cup marked /\ w.handoffs = t.handoffs
  BY <1>5
<1>7. T \cap w.inbox = {}
  BY <1>2, <1>4, <1>6
<1>8. T # {} => w # t
  BY <1>2, <1>7
<1>9. T = {} => w = t
  <2>1. t = [memories |-> t.memories, inbox |-> t.inbox, handoffs |-> t.handoffs, last |-> t.last]
    BY DEF IsFile
  <2>2. T = {} => (t.inbox \ T) \cup marked = t.inbox
    BY <1>3
  <2> QED BY <1>5, <2>1, <2>2
<1>10. \A table \in Tables : T \cap w[table] = {}
  <2>1. T \cap t.memories = {} /\ T \cap t.handoffs = {}
    BY <1>2, TablesApart
  <2> QED BY <1>6, <1>7, <2>1 DEF Tables
<1> QED BY <1>1, <1>5, <1>8, <1>9, <1>10 DEF WholeIs

LEMMA WholeCaptures ==
  ASSUME NEW c, CallOK(c), c.verb = "capture", NEW t, IsFile(t)
  PROVE  WholeIs(c, t, Whole(c, t), TouchedAt(c, t, 3))
<1> DEFINE at == c.at
           w == Insert(t, "inbox", [id |-> 0, at |-> at, status |-> "open"])
           id == t.last.inbox + 1
           row == [id |-> id, at |-> at, status |-> "open"]
<1>1. Whole(c, t) = w /\ TouchedAt(c, t, 3) = {}
  BY DEF Whole, Effect, TouchedAt
<1>2. at \in Int
  BY DEF CallOK
<1> HIDE DEF at
<1>3. /\ w = [memories |-> t.memories, inbox |-> t.inbox \cup {row}, handoffs |-> t.handoffs,
              last |-> [t.last EXCEPT !["inbox"] = id]]
      /\ IsFile(w)
  BY <1>2, InsertItem
<1> HIDE DEF w, row
<1>4. t.last \in [Tables -> Nat] /\ "inbox" \in Tables
  BY DEF IsFile, Tables
<1>5. w.last.inbox = id /\ id # t.last.inbox
  BY <1>3, <1>4
<1>6. w # t
  BY <1>5
<1> QED BY <1>1, <1>3, <1>6 DEF WholeIs

LEMMA WholeRetains ==
  ASSUME NEW c, CallOK(c), c.verb = "retain", NEW t, IsFile(t)
  PROVE  WholeIs(c, t, Whole(c, t), TouchedAt(c, t, 5))
<1> DEFINE mid == c.mid
           at == c.at
           size == Bounded(c.size)
           keys == c.about.keys
           rules == c.about.rules
           nodes == c.about.nodes
           first == Effect("retain", c, t)
           A == Aged(first, at)
           second == Delete(first, "handoffs", A)
           B == Beyond(second)
           w == Delete(second, "handoffs", B)
           id == t.last.handoffs + 1
           row == [id |-> id, mid |-> mid, at |-> at, size |-> size,
                   keys |-> keys, rules |-> rules, nodes |-> nodes]
<1>1. Whole(c, t) = w /\ TouchedAt(c, t, 5) = A \cup B
  <2>1. \A u : Effect("prune_age", c, u) = Delete(u, "handoffs", Touches("prune_age", c, u))
    BY DEF Effect
  <2>2. \A u : Effect("prune_count", c, u) = Delete(u, "handoffs", Touches("prune_count", c, u))
    BY DEF Effect
  <2>3. \A u : Touches("prune_age", c, u) = Aged(u, c.at) /\ Touches("prune_count", c, u) = Beyond(u)
    BY DEF Touches
  <2>4. Whole(c, t) = Effect("prune_count", c, Effect("prune_age", c, Effect("retain", c, t)))
    BY DEF Whole
  <2>5. TouchedAt(c, t, 5)
          = Touches("prune_age", c, Effect("retain", c, t))
            \cup Touches("prune_count", c, Effect("prune_age", c, Effect("retain", c, t)))
    BY DEF TouchedAt
  <2> QED BY <2>1, <2>2, <2>3, <2>4, <2>5
<1>2. at \in Int
  BY DEF CallOK
<1>3. first = Insert(t, "handoffs", [id |-> 0, mid |-> mid, at |-> at, size |-> size,
                                     keys |-> keys, rules |-> rules, nodes |-> nodes])
  BY DEF Effect
<1> HIDE DEF mid, at, size, keys, rules, nodes
<1>4. /\ first = [memories |-> t.memories, inbox |-> t.inbox, handoffs |-> t.handoffs \cup {row},
                  last |-> [t.last EXCEPT !["handoffs"] = id]]
      /\ IsFile(first)
  <2> HIDE DEF first
  <2> QED BY <1>2, <1>3, InsertHandoff
<1> HIDE DEF first
<1>5. t.last \in [Tables -> Nat] /\ "handoffs" \in Tables
  BY DEF IsFile, Tables
<1>6. row \in first.handoffs /\ row.id = id /\ first.last.handoffs = id /\ id # t.last.handoffs
  BY <1>4, <1>5
<1>7. A \subseteq first.handoffs /\ \A h \in A : h.id # first.last.handoffs
  BY DEF Aged
<1> HIDE DEF A, row, id
<1>8. /\ second = [memories |-> first.memories, inbox |-> first.inbox,
                   handoffs |-> first.handoffs \ A, last |-> first.last]
      /\ IsFile(second)
  BY <1>4, DeleteRows
<1> HIDE DEF second
<1>9. /\ second.memories = first.memories /\ second.inbox = first.inbox
      /\ second.handoffs = first.handoffs \ A /\ second.last = first.last
  BY <1>8
<1>10. B \subseteq second.handoffs /\ \A h \in B : h.id # second.last.handoffs
  BY DEF Beyond
<1> HIDE DEF B
<1>11. /\ w = [memories |-> second.memories, inbox |-> second.inbox,
               handoffs |-> second.handoffs \ B, last |-> second.last]
       /\ IsFile(w)
  BY <1>8, DeleteRows
<1> HIDE DEF w
<1>12. /\ w.memories = first.memories /\ w.inbox = first.inbox
       /\ w.handoffs = (first.handoffs \ A) \ B /\ w.last = first.last
  BY <1>9, <1>11
<1>13. row \in w.handoffs /\ row.id = w.last.handoffs /\ w # t
  BY <1>6, <1>7, <1>9, <1>10, <1>12
<1>14. \A table \in Tables : (A \cup B) \cap w[table] = {}
  <2>1. A \cup B \subseteq first.handoffs
    BY <1>7, <1>9, <1>10
  <2>2. first.handoffs \cap first.memories = {} /\ first.handoffs \cap first.inbox = {}
    BY <1>4, TablesApart
  <2> QED BY <1>12, <2>1, <2>2 DEF Tables
<1> QED BY <1>1, <1>11, <1>13, <1>14 DEF WholeIs

LEMMA WholeCalls ==
  ASSUME NEW c, CallOK(c), c.verb # "both", NEW t, IsFile(t)
  PROVE  WholeIs(c, t, Whole(c, t), TouchedAt(c, t, Last(c.verb)))
<1>1. /\ c.verb \in {"/remember", "store_memory"} => Last(c.verb) = 4
      /\ c.verb = "retain" => Last(c.verb) = 5
      /\ c.verb \in {"/forget", "capture", "/inbox_done"} => Last(c.verb) = 3
  BY DEF Last
<1>2. c.verb \in {"/remember", "store_memory", "/forget", "capture", "/inbox_done", "retain"}
  BY DEF CallOK, Verbs
<1> QED
  BY <1>1, <1>2, WholeRemembers, WholeForgets, WholeMarks, WholeCaptures, WholeRetains

LEMMA TouchedBegins ==
  ASSUME NEW c, NEW t
  PROVE  TouchedAt(c, t, 1) = {}
BY DEF TouchedAt

\* The place of the running call, before a step and after it.
LEMMA PlaceBefore ==
  ASSUME Progress, call # NoCall, NEW P, P = Program(call), NEW L, L = Len(P)
  PROVE  /\ CallOK(call) /\ call.verb \in Verbs
         /\ P \in Seq(Instructions) /\ L \in 4..8 /\ P[1] = "enter"
         /\ Place \in 1..L + 1 /\ AtPosition(Place)
         /\ todo # <<>> =>
              Place \in 1..L /\ Head(todo) = P[Place] /\ Tail(todo) = Rest(P, Place + 1)
         /\ todo = <<>> => Place = L + 1
         /\ Ended <=> depth = 0 /\ Place # 1
<1>1. /\ CallOK(call) /\ call.verb \in Verbs /\ P \in Seq(Instructions) /\ L \in 4..8
      /\ \E k \in 1..L + 1 :
           /\ AtPosition(k)
           /\ todo # <<>> => k \in 1..L /\ Head(todo) = P[k] /\ Tail(todo) = Rest(P, k + 1)
           /\ todo = <<>> => k = L + 1
  BY Position
<1>2. PICK k \in 1..L + 1 :
           /\ AtPosition(k)
           /\ todo # <<>> => k \in 1..L /\ Head(todo) = P[k] /\ Tail(todo) = Rest(P, k + 1)
           /\ todo = <<>> => k = L + 1
  BY <1>1
<1>3. todo = Rest(P, k)
  BY <1>2 DEF AtPosition
<1>4. Len(todo) = L - k + 1 /\ (k = 1 => todo = P)
  BY <1>1, <1>2, <1>3, RestIs
<1>5. Place = k
  BY <1>1, <1>2, <1>4 DEF Place
<1>6. todo = P => k = 1
  BY <1>1, <1>2, <1>4
<1>7. P[1] = "enter"
  BY <1>1, ProgramEnds
<1>8. Ended <=> depth = 0 /\ k # 1
  BY <1>4, <1>6 DEF Ended
<1>9. AtPosition(Place)
  BY <1>2, <1>5
<1> QED BY <1>1, <1>2, <1>5, <1>7, <1>8, <1>9

LEMMA PlaceAfter ==
  ASSUME NEW P \in Seq(Instructions), NEW j \in 1..Len(P) + 1, call' = call, P = Program(call),
         todo' = Rest(P, j)
  PROVE  Place' = j /\ (Ended' <=> depth' = 0 /\ j # 1)
<1>0. Len(Rest(P, j)) = Len(P) - j + 1 /\ (j = 1 => Rest(P, j) = P)
  BY RestIs
<1>1. Len(todo') = Len(P) - j + 1 /\ (j = 1 => todo' = P) /\ Len(P) \in Nat /\ j \in Int
  BY <1>0
<1>2. Place' = j
  BY <1>1 DEF Place
<1>3. todo' = P => j = 1
  BY <1>1
<1> QED BY <1>1, <1>2, <1>3 DEF Ended

\* A step inside a call says nothing yet.
LEMMA StillSilent ==
  ASSUME Claims, call # NoCall, UNCHANGED <<call, calls, answer>>,
         changed' \subseteq changed \cup {calls}, receipts' \subseteq changed', calls \in Nat,
         Standing'
  PROVE  Claims'
<1>1. answer' = Nothing /\ changed' \subseteq 0..calls'
  BY DEF Claims, Standing
<1>2. answer'.told = "nothing"
  BY <1>1 DEF Nothing
<1>3. ClaimsAreTrue'
  BY <1>2 DEF ClaimsAreTrue
<1> QED BY <1>1, <1>3 DEF Claims

LEMMA ReceiptsStand ==
  ASSUME Claims
  PROVE  receipts \subseteq changed
BY DEF Claims, ClaimsAreTrue

LEMMA CallClaims ==
  ASSUME StoreAssumption, IInv, Claims, NEW c \in Requests \cup Retentions, Call(c)
  PROVE  Claims'
<1>1. /\ call = NoCall /\ calls' = calls + 1 /\ call' = At(c, now) /\ todo' = Program(c)
      /\ touched' = {} /\ answer' = Nothing /\ UNCHANGED <<db, depth, poisoned, raising, changed, receipts>>
      /\ calls \in Nat
  BY DEF Call, Idle, ghosts, IInv, TypeOK
<1>2. ~raising /\ ~poisoned
  BY <1>1 DEF IInv, Progress
<1>3. todo' = Program(call')
  <2>1. call'.verb = c.verb
    <3>1. "verb" \in DOMAIN c
      BY DEF Requests, Retentions
    <3> QED BY <1>1, <3>1 DEF At
  <2> QED BY <1>1, <2>1 DEF Program
<1>4. ~Ended'
  BY <1>3 DEF Ended
<1>5. Place' = 1
  <2>1. CallOK(call') /\ call'.verb \in Verbs
    BY CallProgress DEF IInv, CallOK
  <2>2. Len(Program(call')) \in 4..8
    BY <2>1, ProgramEnds
  <2> QED BY <1>3, <2>2 DEF Place
<1>6. touched' = TouchedAt(call', db', Place')
  BY <1>1, <1>5, TouchedBegins
<1>7. changed' \subseteq 0..calls' /\ calls' \notin changed'
  BY <1>1 DEF Claims
<1>8. Standing'
  BY <1>1, <1>2, <1>4, <1>6, <1>7 DEF Standing
<1>9. ClaimsAreTrue'
  <2>1. answer'.told = "nothing"
    BY <1>1 DEF Nothing
  <2> QED BY <1>1, <2>1, ReceiptsStand DEF ClaimsAreTrue
<1> QED BY <1>7, <1>8, <1>9 DEF Claims

LEMMA EnterClaims ==
  ASSUME IInv, Claims, Enter \/ CannotEnter
  PROVE  Claims'
<1> DEFINE P == Program(call)
           L == Len(P)
           k == Place
<1>1. /\ call # NoCall /\ todo # <<>> /\ Head(todo) = "enter" /\ ~raising
      /\ UNCHANGED <<db, call, calls, touched, answer, changed, receipts>>
      /\ calls \in Nat /\ depth \in Nat
  BY DEF Enter, CannotEnter, Reaches, Idle, ghosts, IInv, TypeOK
<1>2. /\ call.verb \in Verbs /\ P \in Seq(Instructions) /\ L \in 4..8
      /\ k \in 1..L /\ AtPosition(k) /\ P[k] = "enter" /\ Tail(todo) = Rest(P, k + 1)
      /\ Ended <=> depth = 0 /\ k # 1
  BY <1>1, PlaceBefore DEF IInv
<1>3. Standing
  BY <1>1 DEF Claims
<1> HIDE DEF k
<1>4. k = 1 \/ (call.verb = "both" /\ k = 2)
  <2>1. k \in 1..Len(Program(call)) /\ Program(call)[k] = "enter"
    BY <1>2
  <2> HIDE DEF P, L
  <2> QED BY <1>2, <2>1, EntersAt
<1>5. depth = IF k = 1 THEN 0 ELSE 1
  <2>1. depth = DepthAt(call.verb, k)
    BY <1>2 DEF AtPosition
  <2>2. DepthAt(call.verb, 1) = 0 /\ (call.verb = "both" => DepthAt(call.verb, 2) = 1)
    BY DEF DepthAt, Last
  <2> QED BY <1>4, <2>1, <2>2
<1>6. ~Ended
  BY <1>2, <1>5
<1>7. calls \notin changed
  BY <1>3, <1>6 DEF Standing
<1>8. CASE Enter
  <2>1. depth' = depth + 1 /\ todo' = Tail(todo) /\ raising' = raising
        /\ poisoned' = IF depth = 0 THEN FALSE ELSE poisoned
    BY <1>8 DEF Enter, Begun
  <2>2. k + 1 \in 1..Len(P) + 1
    BY <1>2
  <2>3. Place' = k + 1 /\ ~Ended'
    <3>1. depth' # 0
      BY <1>1, <2>1
    <3> HIDE DEF P
    <3>2. P = Program(call)
      BY DEF P
    <3> QED BY <1>1, <1>2, <2>1, <2>2, <3>1, <3>2, PlaceAfter
  <2>4. ASSUME call.verb # "both" PROVE ~poisoned' /\ touched' = TouchedAt(call', db', k + 1)
    <3>1. ~poisoned'
      BY <1>4, <1>5, <2>1, <2>4
    <3>2. ~IsStatement(P[k]) /\ k \in 1..Len(P) /\ call.verb \in Verbs \ {"both"}
      BY <1>2, <2>4 DEF IsStatement
    <3>3. TouchedAt(call, db, k + 1) = TouchedAt(call, db, k)
      BY <3>2, TouchedSteps
    <3>4. touched = TouchedAt(call, db, k)
      BY <1>1, <1>3, <1>6, <2>4 DEF Standing, k
    <3> QED BY <1>1, <3>1, <3>3, <3>4
  <2>5. Standing'
    <3> HIDE DEF P, L
    <3> QED BY <1>1, <1>3, <1>7, <2>1, <2>3, <2>4 DEF Standing
  <2> QED BY <1>1, <2>5, ReceiptsStand, StillSilent
<1>9. CASE CannotEnter
  <2>1. raising' = TRUE /\ poisoned' = poisoned
    BY <1>9 DEF CannotEnter
  <2>2. Standing'
    <3> HIDE DEF P, L
    <3> QED BY <1>1, <1>3, <1>7, <2>1 DEF Standing
  <2> QED BY <1>1, <2>2, ReceiptsStand, StillSilent
<1> QED BY <1>8, <1>9

LEMMA ExecuteClaims ==
  ASSUME IInv, Claims, Execute
  PROVE  Claims'
<1> DEFINE P == Program(call)
           L == Len(P)
           k == Place
<1>1. /\ call # NoCall /\ todo # <<>> /\ IsStatement(Head(todo)) /\ ~raising
      /\ touched' = touched \cup Touches(Head(todo), call, work) /\ todo' = Tail(todo)
      /\ UNCHANGED <<db, call, calls, depth, poisoned, raising, answer, changed, receipts>>
      /\ calls \in Nat /\ depth \in Nat
  BY DEF Execute, Idle, ghosts, IInv, TypeOK
<1>2. /\ call.verb \in Verbs /\ P \in Seq(Instructions) /\ L \in 4..8
      /\ k \in 1..L /\ AtPosition(k) /\ Head(todo) = P[k] /\ Tail(todo) = Rest(P, k + 1)
      /\ Ended <=> depth = 0 /\ k # 1
  BY <1>1, PlaceBefore DEF IInv
<1>3. Standing
  BY <1>1 DEF Claims
<1>4. depth >= 1 /\ (~poisoned => work = ValueAt(call, db, k))
  <2>1. depth = DepthAt(call.verb, k)
        /\ (depth >= 1 /\ ~poisoned /\ ~raising => work = ValueAt(call, db, k))
    BY <1>2 DEF AtPosition
  <2>2. k \in 1..Len(Program(call)) /\ IsStatement(Program(call)[k])
    BY <1>1, <1>2
  <2> HIDE DEF P, L, k
  <2>3. DepthAt(call.verb, k) >= 1
    BY <1>2, <2>2, ScopesAt
  <2> QED BY <1>1, <2>1, <2>3
<1>5. ~Ended /\ k + 1 \in 1..Len(P) + 1
  BY <1>2, <1>4
<1> HIDE DEF k
<1>6. Place' = k + 1 /\ ~Ended'
  <2>1. depth' # 0
    BY <1>1, <1>4
  <2> HIDE DEF P
  <2>2. P = Program(call)
    BY DEF P
  <2> QED BY <1>1, <1>2, <1>5, <2>1, <2>2, PlaceAfter
<1>7. ASSUME call.verb # "both" PROVE touched' = TouchedAt(call', db', k + 1)
  <2>1. IsStatement(P[k]) /\ k \in 1..Len(P) /\ call.verb \in Verbs \ {"both"}
    BY <1>1, <1>2, <1>7
  <2>2. TouchedAt(call, db, k + 1)
          = TouchedAt(call, db, k) \cup Touches(P[k], call, ValueAt(call, db, k))
    BY <2>1, TouchedSteps
  <2>3. touched = TouchedAt(call, db, k) /\ ~poisoned
    BY <1>1, <1>3, <1>5, <1>7 DEF Standing, k
  <2> HIDE DEF P
  <2> QED BY <1>1, <1>2, <1>4, <2>2, <2>3
<1>8. Standing'
  <2> HIDE DEF P, L
  <2> QED BY <1>1, <1>3, <1>5, <1>6, <1>7 DEF Standing
<1> QED BY <1>1, <1>8, ReceiptsStand, StillSilent

\* An exception that leaves a scope undoes what was not committed yet.
LEMMA RaisesClaims ==
  ASSUME IInv, Claims, StatementFails \/ CommitFails
  PROVE  Claims'
<1> DEFINE P == Program(call)
           L == Len(P)
           k == Place
<1>1. /\ call # NoCall /\ todo # <<>> /\ raising' = TRUE
      /\ UNCHANGED <<call, calls, answer, changed, receipts>>
      /\ poisoned' = poisoned \/ poisoned' = FALSE
      /\ calls \in Nat
      /\ IsStatement(Head(todo)) \/ depth = 1
  BY DEF StatementFails, CommitFails, Reaches, Idle, ghosts, IInv, TypeOK
<1>2. /\ call.verb \in Verbs /\ k \in 1..L /\ AtPosition(k) /\ Head(todo) = P[k]
      /\ Ended <=> depth = 0 /\ k # 1
  BY <1>1, PlaceBefore DEF IInv
<1>3. Standing
  BY <1>1 DEF Claims
<1>4. depth # 0
  <2>1. depth = DepthAt(call.verb, k)
    BY <1>2 DEF AtPosition
  <2>2. k \in 1..Len(Program(call)) /\ Head(todo) = Program(call)[k]
    BY <1>2
  <2> HIDE DEF P, L, k
  <2>3. IsStatement(Head(todo)) => DepthAt(call.verb, k) >= 1
    BY <1>2, <2>2, ScopesAt
  <2> QED BY <1>1, <2>1, <2>3
<1>5. calls \notin changed
  BY <1>2, <1>3, <1>4 DEF Standing
<1>6. Standing'
  <2> HIDE DEF P, L, k
  <2> QED BY <1>1, <1>3, <1>5 DEF Standing
<1> QED BY <1>1, <1>6, ReceiptsStand, StillSilent

\* Only "both" has a scope within its scope.
LEMMA LeaveNestedClaims ==
  ASSUME IInv, Claims, LeaveNested
  PROVE  Claims'
<1> DEFINE k == Place
<1>1. /\ call # NoCall /\ todo # <<>> /\ depth > 1 /\ depth' = depth - 1
      /\ UNCHANGED <<call, calls, raising, answer, changed, receipts>> /\ calls \in Nat
      /\ depth \in Nat
  BY DEF LeaveNested, Reaches, Idle, ghosts, IInv, TypeOK
<1>2. AtPosition(k)
  BY <1>1, PlaceBefore DEF IInv
<1>3. call.verb = "both"
  <2>1. depth = DepthAt(call.verb, k)
    BY <1>2 DEF AtPosition
  <2> HIDE DEF k
  <2> QED BY <1>1, <2>1 DEF DepthAt
<1>4. calls \notin changed /\ answer = Nothing
  BY <1>1 DEF Claims, Standing, Ended
<1>5. Standing'
  BY <1>1, <1>3, <1>4 DEF Standing
<1> QED BY <1>1, <1>5, ReceiptsStand, StillSilent

LEMMA LeaveOutermostClaims ==
  ASSUME IInv, Claims, LeaveOutermost
  PROVE  Claims'
<1> DEFINE P == Program(call)
           L == Len(P)
           k == Place
           T == TouchedAt(call, db, k)
<1>1. /\ call # NoCall /\ todo # <<>> /\ Head(todo) = "leave" /\ depth = 1 /\ depth' = 0
      /\ ~poisoned' /\ todo' = Resumed(Tail(todo))
      /\ UNCHANGED <<call, calls, raising, touched, answer, receipts, deleted>>
      /\ calls \in Nat /\ IsFile(db)
      /\ Reaches("leave")
  BY DEF LeaveOutermost, Reaches, Idle, IInv, TypeOK
<1>2. IF poisoned \/ raising THEN db' = db /\ changed' = changed
      ELSE db' = work /\ changed' = IF work # db THEN changed \cup {calls} ELSE changed
  BY DEF LeaveOutermost, Commits, Poisoned
<1>3. /\ call.verb \in Verbs /\ P \in Seq(Instructions) /\ L \in 4..8
      /\ k \in 1..L /\ AtPosition(k) /\ Head(todo) = P[k] /\ Tail(todo) = Rest(P, k + 1)
      /\ CallOK(call)
  BY <1>1, PlaceBefore DEF IInv
<1>4. Standing
  BY <1>1 DEF Claims
<1>5. calls \notin changed /\ answer = Nothing
  BY <1>1, <1>4 DEF Standing, Ended
<1>6. ~poisoned /\ ~raising => work = Whole(call, db)
  BY <1>1, Outermost DEF IInv
<1> HIDE DEF k
<1>7. ~raising => todo' = Rest(P, k + 1)
  <2>1. PICK j \in 1..Len(Program(call)) :
          /\ AtPosition(j) /\ Tail(todo) = Rest(Program(call), j + 1)
          /\ ~raising => Resumed(Tail(todo)) = Rest(Program(call), j + 1)
    BY <1>1, Outermost DEF IInv
  <2> QED BY <1>1, <1>3, <2>1
<1>8. changed' \subseteq changed \cup {calls} /\ receipts' \subseteq changed'
  BY <1>1, <1>2, ReceiptsStand
<1>9. CASE raising
  <2>1. Standing'
    <3> HIDE DEF P, L
    <3> QED BY <1>1, <1>2, <1>5, <1>9 DEF Standing
  <2> QED BY <1>1, <1>8, <2>1, StillSilent
<1>10. CASE ~raising
  <2>1. Ended'
    <3>1. k + 1 \in 1..Len(P) + 1 /\ k + 1 # 1
      BY <1>3
    <3> HIDE DEF P
    <3>2. P = Program(call)
      BY DEF P
    <3> QED BY <1>1, <1>3, <1>7, <1>10, <3>1, <3>2, PlaceAfter
  <2>2. ASSUME call.verb # "both" PROVE Settled(call.verb, touched)'
    <3>1. db' = Whole(call, db) /\ changed' = IF db' # db THEN changed \cup {calls} ELSE changed
      BY <1>2, <1>4, <1>6, <1>10, <2>2 DEF Standing
    <3>2. touched = T
      BY <1>1, <1>4, <1>10, <2>2 DEF Standing, Ended, k
    <3>3. k = Last(call.verb)
      <4>1. DepthAt(call.verb, k) = 1 /\ DepthAt(call.verb, k + 1) = 0
        <5>1. DepthAt(call.verb, k) = 1
          BY <1>1, <1>3 DEF AtPosition
        <5>2. k \in 1..Len(Program(call)) /\ Program(call)[k] = "leave"
          BY <1>1, <1>3
        <5>3. DepthAt(call.verb, k + 1) = DepthAt(call.verb, k) - 1
          BY <1>3, <5>2, ScopesAt
        <5> QED BY <5>1, <5>3
      <4>2. Last(call.verb) \in Int
        BY DEF Last
      <4> HIDE DEF P, L
      <4>3. k \in Int /\ k >= 1
        BY <1>3 DEF P, L
      <4>4. k <= Last(call.verb)
        BY <4>1, <4>2, <4>3 DEF DepthAt
      <4>5. k + 1 > Last(call.verb)
        BY <2>2, <4>1, <4>2, <4>3 DEF DepthAt
      <4> QED BY <4>2, <4>3, <4>4, <4>5
    <3>4. WholeIs(call, db, db', T)
      BY <1>1, <1>3, <2>2, <3>1, <3>3, WholeCalls
    <3> HIDE DEF T, P, L
    <3>5. (calls' \in changed') = (call.verb \in {"/forget", "/inbox_done"} => T # {})
      BY <1>1, <1>5, <3>1, <3>4 DEF WholeIs
    <3>6. \A table \in Tables : T \cap db'[table] = {}
      BY <3>4 DEF WholeIs
    <3>7. call.verb \in {"/remember", "store_memory"} => \E m \in db'.memories : m.id = db'.last.memories
      BY <3>4 DEF WholeIs
    <3>8. call.verb = "retain" => \E h \in db'.handoffs \cup deleted' : h.id = db'.last.handoffs
      BY <3>4 DEF WholeIs
    <3> QED BY <1>1, <3>2, <3>5, <3>6, <3>7, <3>8 DEF Settled
  <2>3. Standing'
    <3> HIDE DEF P, L, T
    <3> QED BY <1>1, <1>5, <1>10, <2>1, <2>2 DEF Standing
  <2> QED BY <1>1, <1>8, <2>3, StillSilent
<1> QED BY <1>9, <1>10

\* What is caught was a nested scope's, and only "both" has one.
LEMMA CatchClaims ==
  ASSUME IInv, Claims, Catch
  PROVE  Claims'
<1> DEFINE P == Program(call)
           L == Len(P)
           k == Place
<1>1. /\ call # NoCall /\ todo # <<>> /\ Head(todo) = "catch" /\ ~raising' /\ todo' = Tail(todo)
      /\ UNCHANGED <<db, call, calls, depth, poisoned, touched, answer, changed, receipts>>
      /\ calls \in Nat
  BY DEF Catch, Reaches, Idle, ghosts, IInv, TypeOK
<1>2. /\ call.verb \in Verbs /\ P \in Seq(Instructions) /\ L \in 4..8
      /\ k \in 1..L /\ AtPosition(k) /\ Head(todo) = P[k] /\ Tail(todo) = Rest(P, k + 1)
      /\ Ended <=> depth = 0 /\ k # 1
  BY <1>1, PlaceBefore DEF IInv
<1>3. Standing
  BY <1>1 DEF Claims
<1> HIDE DEF k
<1>4. depth = 1 /\ (raising => poisoned)
  <2>1. depth = DepthAt(call.verb, k)
    BY <1>2 DEF AtPosition
  <2>2. k \in 1..Len(Program(call)) /\ Program(call)[k] = "catch"
    BY <1>1, <1>2
  <2>3. DepthAt(call.verb, k) = 1
    BY <1>2, <2>2, ScopesAt
  <2>4. raising => poisoned
    BY <1>2, <2>2 DEF AtPosition
  <2> QED BY <2>1, <2>3, <2>4
<1>5. ~Ended /\ calls \notin changed
  BY <1>2, <1>3, <1>4 DEF Standing
<1>6. Place' = k + 1 /\ ~Ended'
  <2>1. k + 1 \in 1..Len(P) + 1
    BY <1>2
  <2> HIDE DEF P
  <2>2. P = Program(call)
    BY DEF P
  <2> QED BY <1>1, <1>2, <1>4, <2>1, <2>2, PlaceAfter
<1>7. ASSUME call.verb # "both" PROVE touched' = TouchedAt(call', db', k + 1)
  <2>1. ~IsStatement(P[k]) /\ k \in 1..Len(P) /\ call.verb \in Verbs \ {"both"}
    BY <1>1, <1>2, <1>7 DEF IsStatement
  <2>2. TouchedAt(call, db, k + 1) = TouchedAt(call, db, k)
    BY <2>1, TouchedSteps
  <2>3. ~raising
    BY <1>3, <1>4, <1>7 DEF Standing
  <2>4. touched = TouchedAt(call, db, k)
    BY <1>3, <1>5, <1>7, <2>3 DEF Standing, k
  <2> QED BY <1>1, <2>2, <2>4
<1>8. Standing'
  <2> HIDE DEF P, L
  <2> QED BY <1>1, <1>3, <1>5, <1>6, <1>7 DEF Standing
<1> QED BY <1>1, <1>8, ReceiptsStand, StillSilent

LEMMA ReceiptNotBoth ==
  ASSUME NEW c, c.verb = "both", NEW k \in 1..Len(Program(c))
  PROVE  Program(c)[k] # "receipt"
<1> DEFINE P == Program(c)
<1>1. /\ Len(P) = 8
      /\ P[1] = "enter" /\ P[2] = "enter" /\ P[3] = "capture" /\ P[4] = "leave"
      /\ P[5] = "catch" /\ P[6] = "remember" /\ P[7] = "trim" /\ P[8] = "leave"
  BY Programs DEF Verbs
<1> HIDE DEF P
<1>2. k \in 1..8
  BY <1>1 DEF P
<1>3. P[k] # "receipt"
  BY <1>1, <1>2
<1> QED BY <1>3 DEF P

\* A receipt is written when the outermost scope is left, of a change that was committed.
LEMMA ReceiptClaims ==
  ASSUME IInv, Claims, Receipt
  PROVE  Claims'
<1> DEFINE P == Program(call)
           L == Len(P)
           k == Place
<1>1. /\ call # NoCall /\ todo # <<>> /\ Head(todo) = "receipt" /\ ~raising /\ todo' = Tail(todo)
      /\ UNCHANGED <<db, call, calls, depth, poisoned, raising, touched, answer, changed, deleted>>
      /\ receipts' = IF Deserves THEN receipts \cup {calls} ELSE receipts
      /\ calls \in Nat
  BY DEF Receipt, Reaches, Idle, IInv, TypeOK
<1>2. /\ call.verb \in Verbs /\ P \in Seq(Instructions) /\ L \in 4..8 /\ P[1] = "enter"
      /\ k \in 1..L /\ AtPosition(k) /\ Head(todo) = P[k] /\ Tail(todo) = Rest(P, k + 1)
      /\ Ended <=> depth = 0 /\ k # 1
  BY <1>1, PlaceBefore DEF IInv
<1>3. Standing
  BY <1>1 DEF Claims
<1> HIDE DEF k
<1>4. depth = 0 /\ call.verb # "both"
  <2>1. depth = DepthAt(call.verb, k)
    BY <1>2 DEF AtPosition
  <2>2. k \in 1..Len(Program(call)) /\ Program(call)[k] = "receipt"
    BY <1>1, <1>2
  <2>3. DepthAt(call.verb, k) = 0
    BY <1>2, <2>2, ScopesAt
  <2> QED BY <2>1, <2>2, <2>3, ReceiptNotBoth
<1>5. k # 1
  BY <1>1, <1>2
<1>6. Ended /\ Settled(call.verb, touched)
  BY <1>1, <1>2, <1>3, <1>4, <1>5 DEF Standing
<1>7. Ended'
  <2>1. k + 1 \in 1..Len(P) + 1 /\ k + 1 # 1
    BY <1>2
  <2> HIDE DEF P
  <2>2. P = Program(call)
    BY DEF P
  <2> QED BY <1>1, <1>2, <1>4, <2>1, <2>2, PlaceAfter
<1>8. Deserves => calls \in changed
  BY <1>6 DEF Settled, Deserves
<1>9. receipts' \subseteq changed'
  BY <1>1, <1>8, ReceiptsStand
<1>10. Settled(call.verb, touched)'
  BY <1>1, <1>6 DEF Settled
<1>11. Standing'
  <2> HIDE DEF P, L
  <2> QED BY <1>1, <1>3, <1>6, <1>7, <1>10 DEF Standing
<1> QED BY <1>1, <1>9, <1>11, StillSilent

\* The reply tells what the call came to.
LEMMA ReplyClaims ==
  ASSUME IInv, Claims, Reply
  PROVE  Claims'
<1>1. /\ call # NoCall /\ todo = <<>> /\ call' = NoCall
      /\ answer' = [told |-> IF raising THEN "nothing_changed" ELSE "done",
                    verb |-> call.verb, touched |-> touched]
      /\ UNCHANGED <<db, calls, changed, receipts, deleted>>
  BY DEF Reply, Idle, ghosts
<1>2. Ended
  <2>1. Place = Len(Program(call)) + 1 /\ Len(Program(call)) \in 4..8
        /\ (Ended <=> depth = 0 /\ Place # 1)
    BY <1>1, PlaceBefore DEF IInv
  <2>2. depth = 0
    BY ReplyProgress DEF IInv
  <2> QED BY <2>1, <2>2
<1>3. Standing
  BY <1>1 DEF Claims
<1>4. raising => calls \notin changed
  BY <1>3 DEF Standing
<1>5. ~raising /\ call.verb # "both" => Settled(call.verb, touched)
  BY <1>2, <1>3 DEF Standing
<1>6. /\ answer'.told = IF raising THEN "nothing_changed" ELSE "done"
      /\ answer'.verb = call.verb /\ answer'.touched = touched
  BY <1>1
<1>7. ClaimsAreTrue'
  <2>1. receipts' \subseteq changed'
    BY <1>1, ReceiptsStand
  <2>2. answer'.told = "nothing_changed" => calls' \notin changed'
    BY <1>1, <1>4, <1>6
  <2>3. answer'.told = "done" /\ answer'.verb # "both" => Settled(answer'.verb, answer'.touched)
    BY <1>5, <1>6
  <2> QED BY <1>1, <2>1, <2>2, <2>3 DEF ClaimsAreTrue, Settled
<1> QED BY <1>1, <1>7 DEF Claims

\* A step that leaves no call running, and an answer that claims nothing.
LEMMA ClaimsNothing ==
  ASSUME Claims, call' = NoCall, UNCHANGED <<calls, changed, receipts>>,
         answer'.told \notin {"nothing_changed", "done"}
  PROVE  Claims'
<1>1. ClaimsAreTrue'
  BY ReceiptsStand DEF ClaimsAreTrue
<1> QED BY <1>1 DEF Claims

LEMMA ReadClaims ==
  ASSUME Claims, NEW result, Read(result), result.told \notin {"nothing_changed", "done"}
  PROVE  Claims'
<1>1. /\ call' = NoCall /\ UNCHANGED <<calls, changed, receipts>>
      /\ answer' = IF schema = "ours" THEN result ELSE [told |-> "unreadable"]
  BY DEF Read, Idle, running
<1>2. answer'.told \notin {"nothing_changed", "done"}
  BY <1>1
<1> QED BY <1>1, <1>2, ClaimsNothing

\* A step that touches neither the file nor the call nor what was said.
LEMMA ClaimsAside ==
  ASSUME Claims, UNCHANGED <<db, call, todo, depth, poisoned, raising, touched, calls, answer,
                             changed, receipts, deleted>>
  PROVE  Claims'
<1>1. /\ Ended' <=> Ended
      /\ Place' = Place
  BY DEF Ended, Place
<1>2. ClaimsAreTrue'
  BY DEF Claims, ClaimsAreTrue
<1>3. Settled(call.verb, touched) => Settled(call.verb, touched)'
  BY DEF Settled
<1>4. call # NoCall => Standing'
  BY <1>1, <1>3 DEF Claims, Standing
<1> QED BY <1>2, <1>4 DEF Claims

\* The purge may take the hand-off a call retained between its commit and its reply.
LEMMA PurgeDeletesClaims ==
  ASSUME IInv, Claims, PurgeDeletes
  PROVE  Claims'
<1> DEFINE rows == Selected(purge.ids, db)
<1>1. /\ UNCHANGED <<call, todo, depth, poisoned, raising, touched, calls, changed, receipts>>
      /\ purge.at = "backed_up" /\ db' = Delete(db, "handoffs", rows)
      /\ deleted' = deleted \cup rows /\ answer' = IF Idle THEN Nothing ELSE answer
      /\ IsFile(db)
  BY DEF PurgeDeletes, running, IInv, TypeOK
<1> HIDE DEF rows
<1>2. CASE call = NoCall
  <2>1. answer'.told = "nothing"
    BY <1>1, <1>2 DEF Idle, Nothing
  <2> QED BY <1>1, <1>2, <2>1, ClaimsNothing
<1>3. CASE call # NoCall
  <2>1. Standing /\ answer' = answer /\ calls \in Nat
    BY <1>1, <1>3 DEF Claims, Idle, IInv, TypeOK
  <2>2. depth = 0
    <3>1. depth \in Nat /\ lock = "purge"
      BY <1>1 DEF IInv, TypeOK, Locks
    <3> QED BY <3>1 DEF IInv, Locks
  <2>3. /\ db'.memories = db.memories /\ db'.inbox = db.inbox
        /\ db'.handoffs = db.handoffs \ rows /\ db'.last = db.last
    BY <1>1, DeleteRows
  <2>4. Ended' = Ended /\ Place' = Place
    BY <1>1 DEF Ended, Place
  <2>5. ~Ended => Place = 1
    BY <1>3, <2>2, PlaceBefore DEF IInv
  <2>6. ~Ended => TouchedAt(call, db, Place) = {} /\ TouchedAt(call', db', Place') = {}
    BY <1>1, <2>4, <2>5, TouchedBegins
  <2>7. ASSUME Settled(call.verb, touched) PROVE Settled(call.verb, touched)'
    <3>1. \A table \in Tables : touched' \cap db'[table] = {}
      BY <1>1, <2>3, <2>7 DEF Settled, Tables
    <3>2. db.handoffs \cup deleted \subseteq db'.handoffs \cup deleted'
      BY <1>1, <2>3
    <3> QED BY <1>1, <2>3, <2>7, <3>1, <3>2 DEF Settled
  <2>8. Standing'
    BY <1>1, <2>1, <2>4, <2>6, <2>7 DEF Standing
  <2> QED BY <1>1, <1>3, <2>1, <2>8, ReceiptsStand, StillSilent
<1> QED BY <1>2, <1>3

LEMMA NextClaims ==
  ASSUME StoreAssumption, IInv, Claims, Next
  PROVE  Claims'
<1>1. CASE \E c \in Requests \cup Retentions : Call(c)
  BY <1>1, CallClaims
<1>2. CASE Enter \/ CannotEnter
  BY <1>2, EnterClaims
<1>3. CASE Execute
  BY <1>3, ExecuteClaims
<1>4. CASE StatementFails \/ CommitFails
  BY <1>4, RaisesClaims
<1>5. CASE LeaveNested \/ LeaveOutermost
  BY <1>5, LeaveNestedClaims, LeaveOutermostClaims
<1>6. CASE Catch \/ Receipt
  BY <1>6, CatchClaims, ReceiptClaims
<1>7. CASE Reply
  BY <1>7, ReplyClaims
<1>8. CASE Crash \/ Tick
  <2>1. /\ call' = NoCall /\ answer' = Nothing /\ UNCHANGED <<calls, changed, receipts>>
    BY <1>8 DEF Crash, Tick, Idle, running, ghosts
  <2>2. answer'.told = "nothing"
    BY <2>1 DEF Nothing
  <2> QED BY <2>1, <2>2, ClaimsNothing
<1>9. CASE Recall
  <2> DEFINE Older(a, b) == Newer(b, a)
             facts == InOrder(db.memories, Older)
             omitted == Omitted(facts)
             shown == SubSeq(facts, omitted + 1, Len(facts))
             result == [told |-> "recall", omitted |-> omitted, shown |-> shown]
  <2>1. Read(result)
    BY <1>9, Zenon DEF Recall
  <2> HIDE DEF omitted, shown
  <2>2. result.told = "recall"
    OBVIOUS
  <2> HIDE DEF result
  <2> QED BY <2>1, <2>2, ReadClaims
<1>10. CASE ListMemories
  <2>1. \E result : Read(result) /\ result.told = "memories"
    BY <1>10 DEF ListMemories
  <2> QED BY <2>1, ReadClaims
<1>11. CASE \/ \E limit \in {PageSize, Cardinality(db.inbox)} : ListInbox(limit)
            \/ \E limit \in Limits : ReadInbox(limit)
  <2>1. \E limit : Read(OpenPage(limit))
    BY <1>11 DEF ListInbox, ReadInbox
  <2>2. \A limit : OpenPage(limit).told = "inbox"
    BY DEF OpenPage
  <2> QED BY <2>1, <2>2, ReadClaims
<1>12. CASE \E turn \in Turns : ShowDigest(turn)
  <2>1. \E result : Read(result) /\ result.told = "digest"
    BY <1>12 DEF ShowDigest
  <2> QED BY <2>1, ReadClaims
<1>13. CASE \/ \E ids \in SUBSET (Mids \ {NoId}), yes \in BOOLEAN : PurgeBegins(ids, yes)
            \/ PurgeBacksUp \/ PurgeEnds
  BY <1>13, ClaimsAside DEF PurgeBegins, PurgeBacksUp, PurgeEnds, running, ghosts
<1>14. CASE PurgeDeletes
  BY <1>14, PurgeDeletesClaims
<1> QED BY <1>1, <1>2, <1>3, <1>4, <1>5, <1>6, <1>7, <1>8, <1>9, <1>10, <1>11, <1>12, <1>13,
           <1>14 DEF Next

\* What a command says it did is in the file and what it says it dropped is not, what it
\* says failed changed nothing, and a receipt always stands for a committed change
\* (OwnerCommands and the two tools), whatever nests, fails, dies or is purged in between.
THEOREM ClaimsAreAlwaysTrue == Spec => []ClaimsAreTrue
<1>1. Init => Claims
  BY DEF Init, Claims, ClaimsAreTrue, Nothing
<1>2. IInv /\ Claims /\ [Next]_vars => Claims'
  <2>1. ASSUME Claims, UNCHANGED vars PROVE Claims'
    BY <2>1, ClaimsAside DEF vars
  <2> QED BY <2>1, StoreAssumption, NextClaims
<1>3. Claims => ClaimsAreTrue
  BY DEF Claims
<1> QED BY <1>1, <1>2, <1>3, Invariance, PTL DEF Spec

-----------------------------------------------------------------------------
(* How much the file holds.                                                *)

\* A set and, for each of its members, those that come before it: fewer than n members
\* have fewer than n before them, and the others are as many as are left.
LEMMA Ranks ==
  ASSUME NEW S, IsFiniteSet(S), NEW below \in [S -> SUBSET S],
         \A m \in S : m \notin below[m],
         \A m, o \in S : \/ m = o
                         \/ m \in below[o] /\ below[m] \subseteq below[o]
                         \/ o \in below[m] /\ below[o] \subseteq below[m],
         NEW n \in Nat
  PROVE  LET low == {m \in S : Cardinality(below[m]) < n}
         IN /\ IsFiniteSet(low) /\ Cardinality(low) <= n
            /\ n <= Cardinality(S) => Cardinality(S \ low) <= Cardinality(S) - n
<1> DEFINE rank == [m \in S |-> Cardinality(below[m])]
           N == Cardinality(S)
           low == {m \in S : Cardinality(below[m]) < n}
<1>1. N \in Nat
  BY FS_CardinalityType
<1>2. ASSUME NEW m \in S
      PROVE  IsFiniteSet(below[m]) /\ rank[m] \in Nat /\ rank[m] < N
  <2>1. below[m] \in SUBSET S /\ below[m] # S
    OBVIOUS
  <2>2. IsFiniteSet(below[m]) /\ Cardinality(below[m]) <= N /\ Cardinality(below[m]) # N
    BY <2>1, FS_Subset
  <2>3. Cardinality(below[m]) \in Nat
    BY <2>2, FS_CardinalityType
  <2> QED BY <1>1, <2>2, <2>3
<1>3. ASSUME NEW m \in S, NEW o \in S, m \in below[o], below[m] \subseteq below[o]
      PROVE  rank[m] # rank[o]
  <2>1. below[m] # below[o] /\ below[m] \in SUBSET below[o]
    BY <1>3
  <2>2. IsFiniteSet(below[o])
    BY <1>2
  <2>3. Cardinality(below[o]) # Cardinality(below[m])
    BY <2>1, <2>2, FS_Subset
  <2> QED BY <2>3
<1>4. \A m, o \in S : rank[m] = rank[o] => m = o
  BY <1>3
<1>5. \A m \in S : rank[m] = Cardinality(below[m])
  OBVIOUS
<1> HIDE DEF rank, N
<1>6. IsFiniteSet(low) /\ Cardinality(low) <= n
  <2> DEFINE f == [m \in low |-> rank[m]]
  <2>1. \A m \in low : m \in S /\ rank[m] \in 0..n - 1
    BY <1>2, <1>5
  <2> HIDE DEF low
  <2>2. f \in Injection(low, 0..n - 1)
    BY <1>4, <2>1 DEF Injection, IsInjective
  <2>3. IsFiniteSet(0..n - 1)
    BY FS_Interval
  <2>4. Cardinality(0..n - 1) = IF 0 > n - 1 THEN 0 ELSE n - 1 - 0 + 1
    BY FS_Interval
  <2>5. Cardinality(0..n - 1) = n
    BY <2>4
  <2> HIDE DEF f
  <2>6. IsFiniteSet(low) /\ Cardinality(low) <= Cardinality(0..n - 1)
    BY <2>2, <2>3, FS_Injection
  <2> QED BY <2>5, <2>6
<1>7. n <= N => Cardinality(S \ low) <= N - n
  <2> SUFFICES ASSUME n <= N PROVE Cardinality(S \ low) <= N - n
    OBVIOUS
  <2> DEFINE high == S \ low
             f == [m \in high |-> rank[m]]
  <2>1. \A m \in high : m \in S /\ rank[m] \in n..N - 1
    BY <1>1, <1>2, <1>5
  <2> HIDE DEF low, high
  <2>2. f \in Injection(high, n..N - 1)
    BY <1>4, <2>1 DEF Injection, IsInjective
  <2>3. n \in Int /\ N - 1 \in Int
    BY <1>1
  <2>4. IsFiniteSet(n..N - 1)
    BY <2>3, FS_Interval
  <2>5. Cardinality(n..N - 1) = IF n > N - 1 THEN 0 ELSE N - 1 - n + 1
    BY <2>3, FS_Interval
  <2>6. Cardinality(n..N - 1) = N - n
    BY <1>1, <2>5
  <2> HIDE DEF f
  <2>7. Cardinality(high) <= Cardinality(n..N - 1)
    BY <2>2, <2>4, FS_Injection
  <2> QED BY <2>6, <2>7 DEF high
<1> QED BY <1>6, <1>7 DEF N

\* The rows of a table by age, one id each: what goes when the n oldest do, and what stays
\* when all but the n newest go.
LEMMA Youngest ==
  ASSUME NEW S, IsFiniteSet(S), \A r \in S : r.at \in Int /\ r.id \in Int,
         \A r, s \in S : r.id = s.id => r = s, NEW n \in Nat
  PROVE  /\ n <= Cardinality(S) =>
              Cardinality(S \ {m \in S : Cardinality({o \in S : Newer(m, o)}) < n})
                <= Cardinality(S) - n
         /\ Cardinality(S \ {h \in S : Cardinality({o \in S : Newer(o, h)}) >= n}) <= n
<1> DEFINE older == [m \in S |-> {o \in S : Newer(m, o)}]
           newer == [m \in S |-> {o \in S : Newer(o, m)}]
<1>1. \A m \in S : ~Newer(m, m)
  BY DEF Newer
<1>2. \A m, o \in S : m = o \/ Newer(m, o) \/ Newer(o, m)
  BY DEF Newer
<1>3. \A m, o, p \in S : Newer(m, o) /\ Newer(o, p) => Newer(m, p)
  BY DEF Newer
<1>4. \A m, o \in S : \/ m = o
                      \/ m \in older[o] /\ older[m] \subseteq older[o]
                      \/ o \in older[m] /\ older[o] \subseteq older[m]
  BY <1>2, <1>3
<1>5. \A m, o \in S : \/ m = o
                      \/ m \in newer[o] /\ newer[m] \subseteq newer[o]
                      \/ o \in newer[m] /\ newer[o] \subseteq newer[m]
  BY <1>2, <1>3
<1>6. older \in [S -> SUBSET S] /\ newer \in [S -> SUBSET S]
  OBVIOUS
<1>7. \A m \in S : /\ m \notin older[m] /\ older[m] = {o \in S : Newer(m, o)}
                   /\ m \notin newer[m] /\ newer[m] = {o \in S : Newer(o, m)}
  BY <1>1
<1> HIDE DEF older, newer
<1>8. n <= Cardinality(S) =>
        Cardinality(S \ {m \in S : Cardinality(older[m]) < n}) <= Cardinality(S) - n
  BY <1>4, <1>6, <1>7, Ranks
<1>9. Cardinality({m \in S : Cardinality(newer[m]) < n}) <= n
  <2>1. \A m \in S : m \notin newer[m]
    BY <1>7
  <2>2. LET low == {m \in S : Cardinality(newer[m]) < n}
        IN /\ IsFiniteSet(low) /\ Cardinality(low) <= n
           /\ n <= Cardinality(S) => Cardinality(S \ low) <= Cardinality(S) - n
    BY <1>5, <1>6, <2>1, Ranks
  <2> QED BY <2>2
<1>10. {m \in S : Cardinality(older[m]) < n} = {m \in S : Cardinality({o \in S : Newer(m, o)}) < n}
  BY <1>7
<1>11. S \ {h \in S : Cardinality({o \in S : Newer(o, h)}) >= n} = {m \in S : Cardinality(newer[m]) < n}
  <2>1. \A m \in S : Cardinality(newer[m]) \in Nat
    <3> TAKE m \in S
    <3>1. IsFiniteSet(newer[m])
      BY <1>6, FS_Subset
    <3> QED BY <3>1, FS_CardinalityType
  <2> DEFINE Least(m) == Cardinality({o \in S : Newer(o, m)}) >= n
             Few(m) == Cardinality(newer[m]) < n
  <2>2. ASSUME NEW m \in S PROVE ~Least(m) <=> Few(m)
    <3> DEFINE T == {o \in S : Newer(o, m)}
    <3>1. T = newer[m]
      BY <1>7
    <3>2. Least(m) <=> Cardinality(T) >= n
      OBVIOUS
    <3> HIDE DEF T, Least
    <3> QED BY <2>1, <3>1, <3>2
  <2> HIDE DEF Least, Few
  <2>3. S \ {h \in S : Least(h)} = {m \in S : Few(m)}
    BY <2>2
  <2> QED BY <2>3 DEF Least, Few
<1> QED BY <1>8, <1>9, <1>10, <1>11

\* BoundsHold, of any file.
OfType(t, type) == {m \in t.memories : m.type = type}
WithinCaps(t) ==
  /\ \A type \in Types :
       Cardinality(OfType(t, type)) <= Caps[type] \/ Cardinality(OfType(t, type)) <= 1
  /\ Cardinality(t.handoffs) <= MaxCount

LEMMA FewerRows ==
  ASSUME NEW t, IsFile(t), WithinCaps(t), StoreAssumption,
         NEW u, u.memories \subseteq t.memories, u.handoffs \subseteq t.handoffs
  PROVE  WithinCaps(u)
<1>1. ASSUME NEW type \in Types
      PROVE  Cardinality(OfType(u, type)) <= Caps[type] \/ Cardinality(OfType(u, type)) <= 1
  <2>1. OfType(u, type) \in SUBSET OfType(t, type) /\ OfType(t, type) \in SUBSET t.memories
    BY DEF OfType
  <2>2. IsFiniteSet(t.memories)
    BY DEF IsFile, Tables
  <2>3. IsFiniteSet(OfType(t, type))
    BY <2>1, <2>2, FS_Subset
  <2>4. /\ Cardinality(OfType(u, type)) <= Cardinality(OfType(t, type))
        /\ IsFiniteSet(OfType(u, type))
    BY <2>1, <2>3, FS_Subset
  <2>5. Cardinality(OfType(u, type)) \in Nat /\ Cardinality(OfType(t, type)) \in Nat
    BY <2>3, <2>4, FS_CardinalityType
  <2>6. Caps[type] \in Int
    BY DEF StoreAssumption
  <2>7. Cardinality(OfType(t, type)) <= Caps[type] \/ Cardinality(OfType(t, type)) <= 1
    BY DEF WithinCaps
  <2> QED BY <2>4, <2>5, <2>6, <2>7
<1>2. Cardinality(u.handoffs) <= MaxCount
  <2>1. u.handoffs \in SUBSET t.handoffs /\ IsFiniteSet(t.handoffs)
    BY DEF IsFile, Tables
  <2>2. Cardinality(u.handoffs) <= Cardinality(t.handoffs) /\ IsFiniteSet(u.handoffs)
    BY <2>1, FS_Subset
  <2>3. Cardinality(u.handoffs) \in Nat /\ Cardinality(t.handoffs) \in Nat
    BY <2>1, <2>2, FS_CardinalityType
  <2>4. Cardinality(t.handoffs) <= MaxCount /\ MaxCount \in Nat
    BY DEF WithinCaps, StoreAssumption
  <2> QED BY <2>2, <2>3, <2>4
<1> QED BY <1>1, <1>2 DEF WithinCaps

\* A type of memory after its trim: the row just inserted, and as many of the others as
\* the cap allows beside it.
LEMMA TrimLeaves ==
  ASSUME StoreAssumption, NEW u, IsFile(u), NEW type \in Types, NEW row \in u.memories,
         row.type = type, row.id = u.last.memories
  PROVE  LET cap == IF Caps[type] < 1 THEN 1 ELSE Caps[type]
         IN Cardinality(OfType(u, type) \ Overflow(u, type)) <= cap
<1> DEFINE cap == IF Caps[type] < 1 THEN 1 ELSE Caps[type]
           rows == {m \in u.memories : m.type = type}
           others == {m \in rows : m.id # u.last.memories}
           over == Cardinality(rows) - cap
           gone == {m \in others : Cardinality({o \in others : Newer(m, o)}) < over}
           left == others \ gone
<1>1. cap \in Nat /\ cap >= 1
  BY DEF StoreAssumption
<1>2. Overflow(u, type) = gone /\ OfType(u, type) = rows
  BY DEF Overflow, OfType
<1>3. /\ IsFiniteSet(u.memories)
      /\ \A r \in u.memories : r.at \in Int /\ r.id \in Int
      /\ \A r, s \in u.memories : r.id = s.id => r = s
  BY DEF IsFile, Tables
<1>4. /\ row \in rows /\ rows = others \cup {row} /\ row \notin others
      /\ rows \in SUBSET u.memories /\ others \in SUBSET rows
  BY <1>3
<1> HIDE DEF cap, rows
<1>5. IsFiniteSet(rows) /\ IsFiniteSet(others)
  BY <1>3, <1>4, FS_Subset
<1>6. Cardinality(rows) = Cardinality(others) + 1 /\ Cardinality(others) \in Nat
  <2> HIDE DEF others
  <2>1. Cardinality(others \cup {row}) = Cardinality(others) + 1
    BY <1>4, <1>5, FS_AddElement
  <2> QED BY <1>4, <1>5, <2>1, FS_CardinalityType
<1>7. \A r \in others : r.at \in Int /\ r.id \in Int
  BY <1>3, <1>4
<1>8. \A r, s \in others : r.id = s.id => r = s
  BY <1>3, <1>4
<1>9. over \in Int /\ over <= Cardinality(others)
  BY <1>1, <1>6
<1> HIDE DEF others, over
<1>10. CASE over >= 0
  <2>1. over \in Nat
    BY <1>9, <1>10
  <2>2. Cardinality(left) <= Cardinality(others) - over
    <3>1. over <= Cardinality(others) => Cardinality(left) <= Cardinality(others) - over
      BY <1>5, <1>7, <1>8, <2>1, Youngest
    <3> QED BY <1>9, <3>1
  <2>3. IsFiniteSet(left) /\ left \in SUBSET others
    BY <1>5, FS_Subset
  <2> HIDE DEF left, gone
  <2>4. rows \ gone \in SUBSET (left \cup {row})
    BY <1>4 DEF left
  <2>5. Cardinality(left) \in Nat
    BY <2>3, FS_CardinalityType
  <2>6. row \notin left
    BY <1>4, <2>3
  <2>7. IsFiniteSet(left \cup {row}) /\ Cardinality(left \cup {row}) = Cardinality(left) + 1
    BY <2>3, <2>6, FS_AddElement
  <2>8. Cardinality(rows \ gone) <= Cardinality(left \cup {row}) /\ IsFiniteSet(rows \ gone)
    BY <2>4, <2>7, FS_Subset
  <2>9. Cardinality(rows \ gone) \in Nat
    BY <2>8, FS_CardinalityType
  <2> QED BY <1>1, <1>2, <1>6, <1>9, <2>2, <2>5, <2>7, <2>8, <2>9 DEF over, cap
<1>11. CASE ~(over >= 0)
  <2>1. rows \ gone \in SUBSET rows
    OBVIOUS
  <2> HIDE DEF gone
  <2>2. Cardinality(rows \ gone) <= Cardinality(rows) /\ IsFiniteSet(rows \ gone)
    BY <1>5, <2>1, FS_Subset
  <2>3. Cardinality(rows \ gone) \in Nat
    BY <2>2, FS_CardinalityType
  <2> QED BY <1>1, <1>2, <1>6, <1>11, <2>2, <2>3 DEF over, cap
<1> QED BY <1>10, <1>11

\* The archive after its pruning by count.
LEMMA CountLeaves ==
  ASSUME StoreAssumption, NEW u, IsFile(u), NEW row \in u.handoffs, row.id = u.last.handoffs
  PROVE  Cardinality(u.handoffs \ Beyond(u)) <= MaxCount
<1> DEFINE all == u.handoffs
           others == {h \in all : h.id # u.last.handoffs}
           gone == {h \in others : Cardinality({o \in others : Newer(o, h)}) >= MaxCount - 1}
           left == others \ gone
<1>1. MaxCount \in Nat /\ MaxCount - 1 \in Nat
  BY DEF StoreAssumption
<1>2. Beyond(u) = gone
  BY DEF Beyond
<1>3. /\ IsFiniteSet(all) /\ u.last.handoffs \in Nat
      /\ \A r \in all : r.at \in Int /\ r.id \in Int
      /\ \A r, s \in all : r.id = s.id => r = s
  BY DEF IsFile, Tables
<1>4. all = others \cup {row} /\ row \notin others /\ others \in SUBSET all
  BY <1>3
<1> HIDE DEF all
<1>5. IsFiniteSet(others) /\ Cardinality(others) \in Nat
  BY <1>3, <1>4, FS_Subset, FS_CardinalityType
<1>6. \A r \in others : r.at \in Int /\ r.id \in Int
  BY <1>3, <1>4
<1>7. \A r, s \in others : r.id = s.id => r = s
  BY <1>3, <1>4
<1> HIDE DEF others
<1>8. Cardinality(left) <= MaxCount - 1
  BY <1>1, <1>5, <1>6, <1>7, Youngest
<1>9. IsFiniteSet(left) /\ left \in SUBSET others
  BY <1>5, FS_Subset
<1> HIDE DEF left, gone
<1>10. Cardinality(left) \in Nat /\ row \notin left
  BY <1>4, <1>9, FS_CardinalityType
<1>11. IsFiniteSet(left \cup {row}) /\ Cardinality(left \cup {row}) = Cardinality(left) + 1
  BY <1>9, <1>10, FS_AddElement
<1>12. all \ gone \in SUBSET (left \cup {row})
  BY <1>4 DEF left
<1>13. Cardinality(all \ gone) <= Cardinality(left \cup {row}) /\ IsFiniteSet(all \ gone)
  BY <1>11, <1>12, FS_Subset
<1>14. Cardinality(all \ gone) \in Nat
  BY <1>13, FS_CardinalityType
<1>15. Cardinality(all \ gone) <= MaxCount
  BY <1>1, <1>8, <1>10, <1>11, <1>13, <1>14
<1> QED BY <1>2, <1>15 DEF all

\* A memory inserted and its type trimmed: that type is within its cap, and every other
\* table and type is as it was.
LEMMA RememberWithin ==
  ASSUME StoreAssumption, NEW c, CallOK(c), c.verb \in {"/remember", "store_memory", "both"},
         NEW t, IsFile(t), WithinCaps(t)
  PROVE  WithinCaps(Effect("trim", c, Effect("remember", c, t)))
<1> DEFINE type == c.type
           content == c.content
           at == c.at
           first == Effect("remember", c, t)
           T == Overflow(first, type)
           w == Delete(first, "memories", T)
           id == t.last.memories + 1
           row == [id |-> id, type |-> type, content |-> content, at |-> at]
<1>1. Effect("trim", c, Effect("remember", c, t)) = w
  <2>1. \A u : Effect("trim", c, u) = Delete(u, "memories", Touches("trim", c, u))
    BY DEF Effect
  <2>2. \A u : Touches("trim", c, u) = Overflow(u, c.type)
    BY DEF Touches
  <2> QED BY <2>1, <2>2
<1>2. type \in Types /\ content \in Contents /\ at \in Int
  BY DEF CallOK
<1>3. first = Insert(t, "memories", [id |-> 0, type |-> type, content |-> content, at |-> at])
  BY DEF Effect
<1> HIDE DEF type, content, at
<1>4. /\ first = [memories |-> t.memories \cup {row}, inbox |-> t.inbox, handoffs |-> t.handoffs,
                  last |-> [t.last EXCEPT !["memories"] = id]]
      /\ IsFile(first)
  <2> HIDE DEF first
  <2> QED BY <1>2, <1>3, InsertMemory
<1> HIDE DEF first
<1>5. t.last \in [Tables -> Nat] /\ "memories" \in Tables
  BY DEF IsFile, Tables
<1>6. /\ row \in first.memories /\ row.id = first.last.memories /\ row.type = type
      /\ first.memories = t.memories \cup {row} /\ first.handoffs = t.handoffs
  BY <1>4, <1>5
<1>7. \A m \in T : m.type = type
  BY DEF Overflow
<1>8. LET cap == IF Caps[type] < 1 THEN 1 ELSE Caps[type]
      IN Cardinality(OfType(first, type) \ T) <= cap
  BY <1>2, <1>4, <1>6, TrimLeaves
<1> HIDE DEF T, row, id
<1>9. w.memories = first.memories \ T /\ w.handoffs = first.handoffs
  <2>1. /\ w = [memories |-> first.memories \ T, inbox |-> first.inbox,
                handoffs |-> first.handoffs, last |-> first.last]
    BY <1>4, DeleteRows
  <2> HIDE DEF w
  <2> QED BY <2>1
<1> HIDE DEF w
<1>10. ASSUME NEW other \in Types
       PROVE  Cardinality(OfType(w, other)) <= Caps[other] \/ Cardinality(OfType(w, other)) <= 1
  <2>1. CASE other = type
    <3>1. OfType(w, other) = OfType(first, type) \ T
      BY <1>9, <2>1 DEF OfType
    <3> QED BY <1>8, <2>1, <3>1
  <2>2. CASE other # type
    <3>1. OfType(w, other) = OfType(t, other)
      BY <1>6, <1>7, <1>9, <2>2 DEF OfType
    <3> QED BY <3>1 DEF WithinCaps
  <2> QED BY <2>1, <2>2
<1>11. Cardinality(w.handoffs) <= MaxCount
  BY <1>6, <1>9 DEF WithinCaps
<1> QED BY <1>1, <1>10, <1>11 DEF WithinCaps

\* A hand-off inserted and the archive pruned by age and by count.
LEMMA RetainWithin ==
  ASSUME StoreAssumption, NEW c, CallOK(c), c.verb = "retain", NEW t, IsFile(t), WithinCaps(t)
  PROVE  WithinCaps(Whole(c, t))
<1> DEFINE mid == c.mid
           at == c.at
           size == Bounded(c.size)
           keys == c.about.keys
           rules == c.about.rules
           nodes == c.about.nodes
           first == Effect("retain", c, t)
           A == Aged(first, at)
           second == Delete(first, "handoffs", A)
           B == Beyond(second)
           w == Delete(second, "handoffs", B)
           id == t.last.handoffs + 1
           row == [id |-> id, mid |-> mid, at |-> at, size |-> size,
                   keys |-> keys, rules |-> rules, nodes |-> nodes]
<1>1. Whole(c, t) = w
  <2>1. \A u : Effect("prune_age", c, u) = Delete(u, "handoffs", Touches("prune_age", c, u))
    BY DEF Effect
  <2>2. \A u : Effect("prune_count", c, u) = Delete(u, "handoffs", Touches("prune_count", c, u))
    BY DEF Effect
  <2>3. \A u : Touches("prune_age", c, u) = Aged(u, c.at) /\ Touches("prune_count", c, u) = Beyond(u)
    BY DEF Touches
  <2>4. Whole(c, t) = Effect("prune_count", c, Effect("prune_age", c, Effect("retain", c, t)))
    BY DEF Whole
  <2> QED BY <2>1, <2>2, <2>3, <2>4
<1>2. at \in Int
  BY DEF CallOK
<1>3. first = Insert(t, "handoffs", [id |-> 0, mid |-> mid, at |-> at, size |-> size,
                                     keys |-> keys, rules |-> rules, nodes |-> nodes])
  BY DEF Effect
<1> HIDE DEF mid, at, size, keys, rules, nodes
<1>4. /\ first = [memories |-> t.memories, inbox |-> t.inbox, handoffs |-> t.handoffs \cup {row},
                  last |-> [t.last EXCEPT !["handoffs"] = id]]
      /\ IsFile(first)
  <2> HIDE DEF first
  <2> QED BY <1>2, <1>3, InsertHandoff
<1> HIDE DEF first
<1>5. t.last \in [Tables -> Nat] /\ "handoffs" \in Tables
  BY DEF IsFile, Tables
<1>6. /\ row \in first.handoffs /\ row.id = first.last.handoffs
      /\ first.memories = t.memories
  BY <1>4, <1>5
<1>7. row \notin A
  BY <1>6 DEF Aged
<1> HIDE DEF A, row, id
<1>8. /\ second = [memories |-> first.memories, inbox |-> first.inbox,
                   handoffs |-> first.handoffs \ A, last |-> first.last]
      /\ IsFile(second)
  BY <1>4, DeleteRows
<1> HIDE DEF second
<1>9. /\ second.memories = t.memories /\ row \in second.handoffs /\ row.id = second.last.handoffs
  BY <1>6, <1>7, <1>8
<1>10. Cardinality(second.handoffs \ B) <= MaxCount
  BY <1>8, <1>9, CountLeaves
<1> HIDE DEF B
<1>11. w.memories = t.memories /\ w.handoffs = second.handoffs \ B
  <2>1. w = [memories |-> second.memories, inbox |-> second.inbox,
             handoffs |-> second.handoffs \ B, last |-> second.last]
    BY <1>8, DeleteRows
  <2> HIDE DEF w
  <2> QED BY <1>9, <2>1
<1> HIDE DEF w
<1>12. \A type : OfType(w, type) = OfType(t, type)
  BY <1>11 DEF OfType
<1> QED BY <1>1, <1>10, <1>11, <1>12 DEF WithinCaps

\* A whole call keeps a file within its caps.
LEMMA WholeWithin ==
  ASSUME StoreAssumption, NEW c, CallOK(c), NEW t, IsFile(t), WithinCaps(t)
  PROVE  WithinCaps(Whole(c, t))
<1>1. CASE c.verb \in {"/remember", "store_memory"}
  <2>1. Whole(c, t) = Effect("trim", c, Effect("remember", c, t))
    BY <1>1 DEF Whole
  <2> QED BY <1>1, <2>1, RememberWithin
<1>2. CASE c.verb = "/forget"
  <2> DEFINE rows == Touches("forget", c, t)
  <2>1. Whole(c, t) = Effect("forget", c, t)
    BY <1>2 DEF Whole
  <2>2. Effect("forget", c, t) = Delete(t, "memories", rows)
    BY DEF Effect
  <2> HIDE DEF rows
  <2> DEFINE u == Delete(t, "memories", rows)
  <2>3. u = [memories |-> t.memories \ rows, inbox |-> t.inbox, handoffs |-> t.handoffs,
             last |-> t.last]
    BY DeleteRows
  <2> HIDE DEF u
  <2>4. u.memories \subseteq t.memories /\ u.handoffs \subseteq t.handoffs
    BY <2>3
  <2>5. WithinCaps(u)
    BY <2>4, FewerRows
  <2> QED BY <2>1, <2>2, <2>5 DEF u
<1>3. CASE c.verb = "/inbox_done"
  <2> DEFINE open == Touches("mark", c, t)
             marked == {[i EXCEPT !.status = "done"] : i \in open}
             u == [t EXCEPT !.inbox = (@ \ open) \cup marked]
  <2>1. Whole(c, t) = Effect("mark", c, t)
    BY <1>3 DEF Whole
  <2>2. Effect("mark", c, t) = u
    BY DEF Effect
  <2>3. open \in SUBSET t.inbox
    BY DEF Touches
  <2> HIDE DEF open
  <2>4. u = [memories |-> t.memories, inbox |-> (t.inbox \ open) \cup marked,
             handoffs |-> t.handoffs, last |-> t.last]
    BY <2>3, MarkItems
  <2> HIDE DEF u, marked
  <2>5. u.memories \subseteq t.memories /\ u.handoffs \subseteq t.handoffs
    BY <2>4
  <2>6. WithinCaps(u)
    BY <2>5, FewerRows
  <2> QED BY <2>1, <2>2, <2>6
<1>4. CASE c.verb \in {"capture", "both"}
  <2> DEFINE at == c.at
             row == [id |-> t.last.inbox + 1, at |-> at, status |-> "open"]
             u == Effect("capture", c, t)
  <2>1. u = Insert(t, "inbox", [id |-> 0, at |-> at, status |-> "open"])
    BY DEF Effect
  <2>2. at \in Int
    BY DEF CallOK
  <2> HIDE DEF at, u
  <2>3. /\ u = [memories |-> t.memories, inbox |-> t.inbox \cup {row}, handoffs |-> t.handoffs,
                last |-> [t.last EXCEPT !["inbox"] = t.last.inbox + 1]]
        /\ IsFile(u)
    BY <2>1, <2>2, InsertItem
  <2> HIDE DEF row
  <2>4. u.memories \subseteq t.memories /\ u.handoffs \subseteq t.handoffs
    BY <2>3
  <2>5. WithinCaps(u)
    BY <2>4, FewerRows
  <2>6. CASE c.verb = "capture"
    <3>1. Whole(c, t) = Effect("capture", c, t)
      BY <2>6 DEF Whole
    <3> QED BY <2>5, <3>1 DEF u
  <2>7. CASE c.verb = "both"
    <3>1. Whole(c, t) = Effect("trim", c, Effect("remember", c, Effect("capture", c, t)))
      BY <2>7 DEF Whole
    <3>2. WithinCaps(Effect("trim", c, Effect("remember", c, u)))
      BY <2>3, <2>5, <2>7, RememberWithin
    <3> QED BY <3>1, <3>2 DEF u
  <2> QED BY <1>4, <2>6, <2>7
<1>5. CASE c.verb = "retain"
  BY <1>5, RetainWithin
<1> QED BY <1>1, <1>2, <1>3, <1>4, <1>5 DEF CallOK, Verbs

\* The committed file is within its caps.
Kept == WithinCaps(db)

LEMMA NextWithin ==
  ASSUME StoreAssumption, IInv, Kept, Next
  PROVE  Kept'
<1>1. IsFile(db) /\ WithinCaps(db)
  BY DEF IInv, TypeOK, Kept
<1>2. CASE db' = db
  BY <1>2 DEF Kept, WithinCaps, OfType
<1>3. CASE depth = 1 /\ db' = Whole(call, db)
  <2>1. call # NoCall
    BY <1>3 DEF IInv, Progress
  <2>2. CallOK(call)
    BY <2>1 DEF IInv, Progress
  <2>3. WithinCaps(Whole(call, db))
    BY <1>1, <2>2, WholeWithin
  <2>4. WithinCaps(db')
    BY <1>3, <2>3
  <2> QED BY <2>4 DEF Kept, WithinCaps, OfType
<1>4. CASE db' = Delete(db, "handoffs", deleted')
  <2> DEFINE rows == deleted'
             u == db'
  <2>1. u = [memories |-> db.memories, inbox |-> db.inbox, handoffs |-> db.handoffs \ rows,
             last |-> db.last]
    <3> HIDE DEF rows
    <3>1. u = Delete(db, "handoffs", rows)
      BY <1>4 DEF rows
    <3> HIDE DEF u
    <3> QED BY <1>1, <3>1, DeleteRows
  <2>2. u.memories \subseteq db.memories /\ u.handoffs \subseteq db.handoffs
    BY <2>1
  <2>3. WithinCaps(u)
    <3> HIDE DEF u
    <3> QED BY <1>1, <2>2, FewerRows
  <2> QED BY <2>3 DEF Kept, WithinCaps, OfType
<1> QED BY <1>2, <1>3, <1>4, CommitsWholeCalls

\* Every cap holds in the committed file, of each type of memory, whatever the clock did
\* between two writes, and of the archive (MemoryStore._trim_locked,
\* HandoffStore._prune_locked), once it held in the file the program found: one written
\* under higher caps keeps its rows until the next write to that table.
THEOREM BoundsAlwaysHold ==
  ASSUME \A file \in Files : WithinCaps(file)
  PROVE  Spec => []BoundsHold
<1>1. Init => Kept
  BY DEF Init, Kept
<1>2. IInv /\ Kept /\ [Next]_vars => Kept'
  <2>1. ASSUME Kept, UNCHANGED vars PROVE Kept'
    BY <2>1 DEF vars, Kept, WithinCaps, OfType
  <2> QED BY <2>1, StoreAssumption, NextWithin
<1>3. Kept => BoundsHold
  BY DEF Kept, WithinCaps, OfType, BoundsHold
<1> QED BY <1>1, <1>2, <1>3, Invariance, PTL DEF Spec

\* How the digest is filled, a candidate at a time.
FillFrom(reserve) == [used |-> HeadChars + reserve, shown |-> <<>>]
FillNext(before, candidate) ==
  LET cost == EntrySize(candidate)
  IN IF Len(before.shown) >= MaxEntries \/ before.used + cost > MaxChars THEN before
     ELSE [used |-> before.used + cost, shown |-> Append(before.shown, candidate)]
Filled(f, candidates, reserve, k) ==
  /\ f = [n \in 0..k |-> f[n]] /\ f[0] = FillFrom(reserve)
  /\ \A n \in 1..k : f[n] = FillNext(f[n - 1], candidates[n])

\* The function that Fill defines is there.
LEMMA FilledExists ==
  ASSUME NEW candidates, NEW reserve, NEW N \in Nat
  PROVE  \E f : Filled(f, candidates, reserve, N)
<1> DEFINE Missing == {k \in Nat : ~\E f : Filled(f, candidates, reserve, k)}
<1>1. Filled([n \in 0..0 |-> FillFrom(reserve)], candidates, reserve, 0)
  BY DEF Filled
<1>2. ASSUME NEW k \in Nat, k # 0, NEW f, Filled(f, candidates, reserve, k - 1)
      PROVE  \E g : Filled(g, candidates, reserve, k)
  <2> DEFINE last == FillNext(f[k - 1], candidates[k])
             g == [n \in 0..k |-> IF n = k THEN last ELSE f[n]]
  <2> HIDE DEF last
  <2>1. g[k] = last /\ \A n \in 0..k - 1 : g[n] = f[n]
    BY <1>2
  <2>2. g = [n \in 0..k |-> g[n]]
    OBVIOUS
  <2> HIDE DEF g
  <2>3. g[0] = FillFrom(reserve)
    BY <1>2, <2>1 DEF Filled
  <2>4. ASSUME NEW n \in 1..k PROVE g[n] = FillNext(g[n - 1], candidates[n])
    <3>1. g[n - 1] = f[n - 1]
      BY <1>2, <2>1
    <3>2. CASE n = k
      BY <2>1, <3>1, <3>2 DEF last
    <3>3. CASE n # k
      <4>1. n \in 1..k - 1 /\ g[n] = f[n]
        BY <1>2, <2>1, <3>3
      <4> QED BY <1>2, <3>1, <4>1 DEF Filled
    <3> QED BY <3>2, <3>3
  <2> QED BY <2>2, <2>3, <2>4 DEF Filled
<1>3. Missing = {}
  <2> SUFFICES ASSUME Missing # {} PROVE FALSE
    OBVIOUS
  <2>1. PICK k \in Missing : \A m \in Missing : <<m, k>> \notin OpToRel(<, Nat)
    BY NatLessThanWellFounded, WFMin
  <2>2. \A m \in Missing : ~(m < k)
    BY <2>1 DEF OpToRel
  <2>3. k # 0
    BY <1>1
  <2>4. k - 1 \in Nat /\ k - 1 \notin Missing
    BY <2>2, <2>3
  <2> QED BY <1>2, <2>3, <2>4
<1> QED BY <1>3

LEMMA FillIs ==
  ASSUME NEW candidates, NEW reserve, Len(candidates) \in Nat
  PROVE  \E f : /\ Filled(f, candidates, reserve, Len(candidates))
                /\ Fill(candidates, reserve) = f[Len(candidates)]
<1> DEFINE N == Len(candidates)
           Body(g) == [n \in 0..N |-> IF n = 0 THEN [used |-> HeadChars + reserve, shown |-> <<>>]
                         ELSE LET before == g[n - 1]
                                  cost == EntrySize(candidates[n])
                              IN IF Len(before.shown) >= MaxEntries \/ before.used + cost > MaxChars THEN before
                                 ELSE [used |-> before.used + cost, shown |-> Append(before.shown, candidates[n])]]
           filled == CHOOSE g : g = Body(g)
<1>1. Fill(candidates, reserve) = filled[N]
  BY Zenon DEF Fill
<1>2. \A g : Body(g) = [n \in 0..N |-> IF n = 0 THEN FillFrom(reserve) ELSE FillNext(g[n - 1], candidates[n])]
  BY Zenon DEF FillFrom, FillNext
<1> HIDE DEF Body
<1>3. PICK f : Filled(f, candidates, reserve, N)
  BY FilledExists
<1>4. f = Body(f)
  <2>1. \A n \in 0..N : n = 0 \/ n \in 1..N
    OBVIOUS
  <2>2. \A n \in 0..N : f[n] = IF n = 0 THEN FillFrom(reserve) ELSE FillNext(f[n - 1], candidates[n])
    BY <1>3, <2>1 DEF Filled
  <2>3. f = [n \in 0..N |-> f[n]]
    BY <1>3 DEF Filled
  <2> QED BY <1>2, <2>2, <2>3
<1>5. filled = Body(filled)
  BY <1>4
<1>6. Filled(filled, candidates, reserve, N)
  <2> HIDE DEF filled
  <2>1. filled = [n \in 0..N |-> IF n = 0 THEN FillFrom(reserve) ELSE FillNext(filled[n - 1], candidates[n])]
    BY <1>2, <1>5
  <2>2. filled = [n \in 0..N |-> filled[n]]
    BY <2>1
  <2>3. filled[0] = FillFrom(reserve)
    BY <2>1
  <2>4. \A n \in 1..N : n \in 0..N /\ n # 0
    OBVIOUS
  <2>5. \A n \in 1..N : filled[n] = FillNext(filled[n - 1], candidates[n])
    BY <2>1, <2>4
  <2> QED BY <2>2, <2>3, <2>5 DEF Filled
<1> QED BY <1>1, <1>6

\* What is shown of the first n candidates: some of them, each at most once.
Chosen(shown, candidates, n) ==
  /\ Len(shown) \in 0..n /\ DOMAIN shown = 1..Len(shown)
  /\ \E place \in [1..Len(shown) -> 1..n] :
       /\ \A i \in 1..Len(shown) : shown[i] = candidates[place[i]]
       /\ \A i, j \in 1..Len(shown) : place[i] = place[j] => i = j

\* One candidate more.
LEMMA ChosenGrows ==
  ASSUME NEW C, NEW candidates, NEW n \in Nat, NEW shown \in Seq(C), NEW candidate \in C,
         candidate = candidates[n + 1], Chosen(shown, candidates, n)
  PROVE  Chosen(Append(shown, candidate), candidates, n + 1)
<1> DEFINE m == Len(shown)
           more == Append(shown, candidate)
<1>1. /\ m \in Nat /\ more \in Seq(C) /\ Len(more) = m + 1 /\ more[m + 1] = candidate
      /\ \A i \in 1..m : more[i] = shown[i]
  OBVIOUS
<1>2. DOMAIN more = 1..Len(more)
  BY <1>1
<1>3. PICK place \in [1..m -> 1..n] :
        /\ \A i \in 1..m : shown[i] = candidates[place[i]]
        /\ \A i, j \in 1..m : place[i] = place[j] => i = j
  BY DEF Chosen
<1>4. m \in 0..n
  BY DEF Chosen
<1> HIDE DEF m, more
<1> DEFINE further == [i \in 1..m + 1 |-> IF i = m + 1 THEN n + 1 ELSE place[i]]
<1>5. \A i \in 1..m + 1 : i = m + 1 \/ i \in 1..m
  BY <1>1
<1>6. \A i \in 1..m : further[i] = place[i] /\ place[i] \in 1..n /\ i # m + 1
  <2>1. \A i \in 1..m : i \in 1..m + 1 /\ i # m + 1
    BY <1>1
  <2> QED BY <1>3, <2>1
<1>7. further \in [1..m + 1 -> 1..n + 1] /\ further[m + 1] = n + 1
  BY <1>1, <1>3, <1>5
<1> HIDE DEF further
<1>8. \A i \in 1..m + 1 : more[i] = candidates[further[i]]
  BY <1>1, <1>3, <1>5, <1>6, <1>7
<1>9. \A i \in 1..m : further[i] # n + 1
  BY <1>6
<1>10. \A i, j \in 1..m + 1 : further[i] = further[j] => i = j
  BY <1>3, <1>5, <1>6, <1>7, <1>9
<1>11. Len(more) = m + 1 /\ m + 1 \in 0..n + 1
  BY <1>1, <1>4
<1> QED BY <1>2, <1>7, <1>8, <1>10, <1>11 DEF Chosen, more

\* A candidate more changes nothing of what was chosen.
LEMMA ChosenStays ==
  ASSUME NEW candidates, NEW n \in Nat, NEW shown, Chosen(shown, candidates, n)
  PROVE  Chosen(shown, candidates, n + 1)
<1>1. PICK place \in [1..Len(shown) -> 1..n] :
        /\ \A i \in 1..Len(shown) : shown[i] = candidates[place[i]]
        /\ \A i, j \in 1..Len(shown) : place[i] = place[j] => i = j
  BY DEF Chosen
<1>2. place \in [1..Len(shown) -> 1..n + 1]
  BY <1>1
<1>3. Len(shown) \in 0..n + 1 /\ DOMAIN shown = 1..Len(shown)
  BY DEF Chosen
<1> QED BY <1>1, <1>2, <1>3 DEF Chosen

\* How far a fill has come: within its bounds, and once the first candidate was tried it
\* is shown, if it fits.
Filling(state, C, candidates, start, n) ==
  /\ state.shown \in Seq(C) /\ Chosen(state.shown, candidates, n)
  /\ Len(state.shown) <= MaxEntries
  /\ state.used \in Nat /\ (state.shown = <<>> => state.used = start)
  /\ state.shown # <<>> => state.used <= MaxChars
  /\ n >= 1 /\ start + EntrySize(candidates[1]) <= MaxChars
       => state.shown # <<>> /\ state.shown[1] = candidates[1]

LEMMA FillingBegins ==
  ASSUME NEW C, NEW candidates, NEW reserve \in Nat
  PROVE  Filling(FillFrom(reserve), C, candidates, HeadChars + reserve, 0)
<1>1. HeadChars \in Nat /\ MaxEntries \in Nat
  BY DigestAssumption DEF DigestAssumption
<1>2. FillFrom(reserve).shown = <<>> /\ FillFrom(reserve).used = HeadChars + reserve
  BY DEF FillFrom
<1>3. <<>> \in Seq(C) /\ Len(<<>>) = 0 /\ DOMAIN <<>> = 1..0
  OBVIOUS
<1>4. Chosen(<<>>, candidates, 0)
  <2>1. 1..0 = {} /\ 0 \in 0..0
    OBVIOUS
  <2>2. [i \in {} |-> 0] \in [{} -> {}]
    OBVIOUS
  <2> QED BY <1>3, <2>1, <2>2 DEF Chosen
<1> QED BY <1>1, <1>2, <1>3, <1>4 DEF Filling

LEMMA FillingGoesOn ==
  ASSUME NEW C, NEW candidates, NEW start \in Nat, NEW n \in Nat, NEW before,
         candidates[n + 1] \in C, EntrySize(candidates[n + 1]) \in Nat,
         Filling(before, C, candidates, start, n)
  PROVE  Filling(FillNext(before, candidates[n + 1]), C, candidates, start, n + 1)
<1> DEFINE candidate == candidates[n + 1]
           cost == EntrySize(candidate)
           shown == before.shown
           used == before.used
           after == FillNext(before, candidate)
           more == Append(shown, candidate)
<1>1. /\ HeadChars \in Nat /\ MaxEntries \in Nat /\ MaxEntries > 0 /\ MaxChars \in Nat
      /\ cost \in Nat /\ start \in Nat
  BY DigestAssumption DEF DigestAssumption
<1>2. /\ shown \in Seq(C) /\ Chosen(shown, candidates, n) /\ Len(shown) <= MaxEntries
      /\ used \in Nat /\ (shown = <<>> => used = start) /\ (shown # <<>> => used <= MaxChars)
      /\ n >= 1 /\ start + EntrySize(candidates[1]) <= MaxChars
           => shown # <<>> /\ shown[1] = candidates[1]
      /\ candidate \in C
  BY DEF Filling
<1>3. /\ after = IF Len(shown) >= MaxEntries \/ used + cost > MaxChars THEN before
                 ELSE [used |-> used + cost, shown |-> more]
      /\ EntrySize(candidates[n + 1]) = cost
  BY DEF FillNext
<1>4. Len(shown) \in Nat /\ (shown = <<>> <=> Len(shown) = 0)
  BY <1>2
<1>5. n = 0 => shown = <<>>
  <2>1. Len(shown) \in 0..n
    BY <1>2 DEF Chosen
  <2> QED BY <1>4, <2>1
<1> HIDE DEF cost, after, used
<1>6. CASE Len(shown) >= MaxEntries \/ used + cost > MaxChars
  <2>1. after = before
    BY <1>3, <1>6
  <2>2. Chosen(shown, candidates, n + 1)
    BY <1>2, ChosenStays
  <2>3. n + 1 >= 1 /\ start + EntrySize(candidates[1]) <= MaxChars
          => shown # <<>> /\ shown[1] = candidates[1]
    <3>1. CASE n = 0
      <4>1. Len(shown) = 0 /\ used = start /\ EntrySize(candidates[1]) = cost
        BY <1>2, <1>3, <1>4, <1>5, <3>1
      <4> QED BY <1>1, <1>6, <4>1
    <3>2. CASE n # 0
      BY <1>2, <3>2
    <3> QED BY <3>1, <3>2
  <2>4. before.used = used
    BY DEF used
  <2>5. before.shown = shown
    OBVIOUS
  <2> HIDE DEF used, shown
  <2>6. Filling(before, C, candidates, start, n + 1)
    BY <1>2, <2>2, <2>3, <2>4, <2>5 DEF Filling
  <2> QED BY <2>1, <2>6 DEF after
<1>7. CASE ~(Len(shown) >= MaxEntries \/ used + cost > MaxChars)
  <2>1. after.shown = more /\ after.used = used + cost
    BY <1>3, <1>7
  <2>2. Chosen(more, candidates, n + 1)
    BY <1>2, ChosenGrows
  <2>3. more \in Seq(C) /\ Len(more) = Len(shown) + 1 /\ more # <<>>
        /\ (shown # <<>> => more[1] = shown[1]) /\ (shown = <<>> => more[1] = candidate)
    BY <1>2
  <2>4. Len(more) <= MaxEntries /\ used + cost <= MaxChars /\ used + cost \in Nat
    BY <1>1, <1>2, <1>4, <1>7, <2>3
  <2>5. start + EntrySize(candidates[1]) <= MaxChars => more[1] = candidates[1]
    <3>1. CASE n = 0
      BY <1>5, <2>3, <3>1
    <3>2. CASE n # 0
      BY <1>2, <2>3, <3>2
    <3> QED BY <3>1, <3>2
  <2> HIDE DEF more
  <2>6. /\ after.shown \in Seq(C) /\ Chosen(after.shown, candidates, n + 1)
        /\ Len(after.shown) <= MaxEntries /\ after.used \in Nat /\ after.used <= MaxChars
        /\ after.shown # <<>>
        /\ start + EntrySize(candidates[1]) <= MaxChars => after.shown[1] = candidates[1]
    BY <2>1, <2>2, <2>3, <2>4, <2>5
  <2>7. Filling(after, C, candidates, start, n + 1)
    BY <2>6 DEF Filling
  <2> QED BY <2>7 DEF after
<1> QED BY <1>6, <1>7

\* What a digest is filled with.
LEMMA FillKeeps ==
  ASSUME NEW C, NEW candidates \in Seq(C), NEW reserve \in Nat,
         \A n \in 1..Len(candidates) : EntrySize(candidates[n]) \in Nat
  PROVE  Filling(Fill(candidates, reserve), C, candidates, HeadChars + reserve, Len(candidates))
<1> DEFINE N == Len(candidates)
<1>1. N \in Nat /\ \A n \in 1..N : candidates[n] \in C
  OBVIOUS
<1>2. PICK f : Filled(f, candidates, reserve, N) /\ Fill(candidates, reserve) = f[N]
  BY <1>1, FillIs
<1> HIDE DEF N
<1> DEFINE Missing == {k \in 0..N : ~Filling(f[k], C, candidates, HeadChars + reserve, k)}
<1>3. 0 \notin Missing
  BY <1>2, FillingBegins DEF Filled
<1>4. ASSUME NEW k \in 0..N, k # 0, k - 1 \notin Missing PROVE k \notin Missing
  <2>1. k - 1 \in Nat /\ k - 1 \in 0..N /\ k \in 1..N /\ (k - 1) + 1 = k
    BY <1>1, <1>4
  <2>2. f[k] = FillNext(f[k - 1], candidates[k])
    BY <1>2, <2>1 DEF Filled
  <2>3. Filling(f[k - 1], C, candidates, HeadChars + reserve, k - 1)
    BY <1>4, <2>1
  <2>4. PICK n \in Nat : n = k - 1 /\ n + 1 = k
    BY <2>1
  <2>5. candidates[n + 1] \in C /\ EntrySize(candidates[n + 1]) \in Nat
    BY <1>1, <2>1, <2>4 DEF N
  <2>6. Filling(f[n], C, candidates, HeadChars + reserve, n)
    BY <2>3, <2>4
  <2>8. HeadChars + reserve \in Nat
    BY DigestAssumption DEF DigestAssumption
  <2>7. Filling(FillNext(f[n], candidates[n + 1]), C, candidates, HeadChars + reserve, n + 1)
    BY <2>5, <2>6, <2>8, FillingGoesOn
  <2> QED BY <2>2, <2>4, <2>7
<1>5. Missing = {}
  <2> SUFFICES ASSUME Missing # {} PROVE FALSE
    OBVIOUS
  <2>1. Missing \in SUBSET Nat
    BY <1>1
  <2>2. PICK k \in Missing : \A m \in Missing : <<m, k>> \notin OpToRel(<, Nat)
    BY <2>1, NatLessThanWellFounded, WFMin
  <2>3. \A m \in Missing : ~(m < k)
    BY <2>1, <2>2 DEF OpToRel
  <2>4. k \in 0..N /\ k # 0
    BY <1>3
  <2>5. k - 1 < k
    BY <2>4
  <2>6. k - 1 \notin Missing
    BY <2>3, <2>5
  <2> QED BY <1>4, <2>4, <2>6
<1>6. N \in 0..N
  BY <1>1
<1> QED BY <1>2, <1>5, <1>6 DEF N

-----------------------------------------------------------------------------
(* Rows in order.                                                          *)

LEMMA IsSequence ==
  ASSUME NEW S, NEW n \in Nat, NEW q \in [1..n -> S]
  PROVE  q \in Seq(S) /\ Len(q) = n /\ DOMAIN q = 1..n
<1>1. q \in Seq(S) /\ DOMAIN q = 1..n
  OBVIOUS
<1>2. Len(q) \in Nat /\ DOMAIN q = 1..Len(q)
  BY <1>1
<1>3. \A m \in Nat : 1..m = 1..n => m = n
  <2> SUFFICES ASSUME NEW m \in Nat, 1..m = 1..n PROVE m = n
    OBVIOUS
  <2>1. m >= 1 => m \in 1..n
    OBVIOUS
  <2>2. n >= 1 => n \in 1..m
    OBVIOUS
  <2> QED BY <2>1, <2>2
<1>4. Len(q) = n
  BY <1>1, <1>2, <1>3
<1> QED BY <1>1, <1>4

\* Each member of S comes after those of S below it, in a line.
Linear(S, below) ==
  /\ IsFiniteSet(S) /\ below \in [S -> SUBSET S]
  /\ \A m \in S : m \notin below[m]
  /\ \A m, o \in S : \/ m = o
                     \/ m \in below[o] /\ below[m] \subseteq below[o]
                     \/ o \in below[m] /\ below[o] \subseteq below[m]
\* The members of S, in that order.
Line(q, S, below) ==
  /\ q \in Seq(S) /\ Len(q) \in Nat /\ Len(q) = Cardinality(S) /\ DOMAIN q = 1..Len(q)
  /\ \A m \in S : \E n \in 1..Len(q) : q[n] = m
  /\ \A i, j \in 1..Len(q) : i < j => q[i] \in below[q[j]]

\* Every place of the line is somebody's.
LEMMA PlacesExist ==
  ASSUME NEW S, NEW below, Linear(S, below)
  PROVE  /\ Cardinality(S) \in Nat
         /\ \A m \in S : Cardinality(below[m]) \in 0..Cardinality(S) - 1
         /\ \A m, o \in S : m \in below[o] => Cardinality(below[m]) < Cardinality(below[o])
         /\ \A n \in 1..Cardinality(S) : \E m \in S : Cardinality(below[m]) = n - 1
<1> DEFINE N == Cardinality(S)
           rank == [m \in S |-> Cardinality(below[m]) + 1]
<1>1. IsFiniteSet(S) /\ N \in Nat /\ \A m \in S : below[m] \in SUBSET S /\ m \notin below[m]
  BY FS_CardinalityType DEF Linear
<1>2. ASSUME NEW m \in S
      PROVE  /\ IsFiniteSet(below[m]) /\ Cardinality(below[m]) \in Nat
             /\ Cardinality(below[m]) < N
  <2>1. below[m] \in SUBSET S /\ below[m] # S
    BY <1>1
  <2>2. IsFiniteSet(below[m]) /\ Cardinality(below[m]) <= N /\ Cardinality(below[m]) # N
    BY <1>1, <2>1, FS_Subset
  <2>3. Cardinality(below[m]) \in Nat
    BY <2>2, FS_CardinalityType
  <2> QED BY <1>1, <2>2, <2>3
<1> HIDE DEF N
<1>3. ASSUME NEW m \in S, NEW o \in S, m \in below[o]
      PROVE  Cardinality(below[m]) < Cardinality(below[o])
  <2>1. below[m] \in SUBSET below[o] /\ below[m] # below[o]
    <3>1. m # o /\ ~(o \in below[m] /\ below[o] \subseteq below[m])
      BY <1>1, <1>3
    <3>2. below[m] \subseteq below[o]
      BY <1>3, <3>1 DEF Linear
    <3> QED BY <1>1, <1>3, <3>2
  <2>2. IsFiniteSet(below[o])
    BY <1>2
  <2>3. /\ Cardinality(below[m]) <= Cardinality(below[o])
        /\ Cardinality(below[o]) # Cardinality(below[m])
    BY <2>1, <2>2, FS_Subset
  <2>4. Cardinality(below[m]) \in Nat /\ Cardinality(below[o]) \in Nat
    BY <1>2
  <2> QED BY <2>3, <2>4
<1>4. \A m, o \in S : Cardinality(below[m]) = Cardinality(below[o]) => m = o
  <2> SUFFICES ASSUME NEW m \in S, NEW o \in S, m # o
               PROVE  Cardinality(below[m]) # Cardinality(below[o])
    OBVIOUS
  <2>1. m \in below[o] \/ o \in below[m]
    BY DEF Linear
  <2>2. Cardinality(below[m]) \in Nat /\ Cardinality(below[o]) \in Nat
    BY <1>2
  <2> QED BY <1>3, <2>1, <2>2
<1>5. \A m \in S : rank[m] = Cardinality(below[m]) + 1 /\ rank[m] \in 1..N
  BY <1>1, <1>2
<1> HIDE DEF rank
<1>6. rank \in Surjection(S, 1..N)
  <2>1. \A m, o \in S : rank[m] = rank[o] => m = o
    BY <1>2, <1>4, <1>5
  <2>2. rank = [m \in S |-> rank[m]]
    BY DEF rank
  <2>3. rank \in [S -> 1..N]
    BY <1>5, <2>2
  <2>4. rank \in Injection(S, 1..N)
    BY <2>1, <2>3 DEF Injection, IsInjective
  <2>8. 1 \in Int /\ N \in Int
    BY <1>1
  <2>5. IsFiniteSet(1..N)
    BY <2>8, FS_Interval
  <2>6. Cardinality(1..N) = IF 1 > N THEN 0 ELSE N - 1 + 1
    BY <2>8, FS_Interval
  <2>7. Cardinality(1..N) = N
    BY <1>1, <2>6
  <2> QED BY <2>4, <2>5, <2>7, FS_Injection DEF N
<1>7. ASSUME NEW n \in 1..N PROVE \E m \in S : Cardinality(below[m]) = n - 1
  <2>1. PICK m \in S : rank[m] = n
    BY <1>6 DEF Surjection
  <2>2. Cardinality(below[m]) = n - 1
    BY <1>2, <1>5, <2>1
  <2> QED BY <2>2
<1>8. \A m \in S : Cardinality(below[m]) \in 0..N - 1
  BY <1>1, <1>2
<1> QED BY <1>1, <1>3, <1>7, <1>8 DEF N

\* A sequence of the members by their places is the line.
LEMMA LineIs ==
  ASSUME NEW S, NEW below, Linear(S, below), NEW q,
         q = [n \in 1..Cardinality(S) |-> q[n]],
         \A n \in 1..Cardinality(S) : q[n] \in S /\ Cardinality(below[q[n]]) = n - 1
  PROVE  Line(q, S, below)
<1> DEFINE N == Cardinality(S)
<1>1. /\ N \in Nat /\ \A m \in S : Cardinality(below[m]) \in 0..N - 1
      /\ \A m, o \in S : m \in below[o] => Cardinality(below[m]) < Cardinality(below[o])
  BY PlacesExist
<1>2. /\ q = [n \in 1..N |-> q[n]]
      /\ \A n \in 1..N : q[n] \in S /\ Cardinality(below[q[n]]) = n - 1
  OBVIOUS
<1> HIDE DEF N
<1>3. q \in Seq(S) /\ Len(q) = N /\ DOMAIN q = 1..N
  <2>1. q \in [1..N -> S]
    BY <1>2
  <2> QED BY <1>1, <2>1, IsSequence
<1>4. ASSUME NEW i \in 1..N, NEW j \in 1..N, i < j PROVE q[i] \in below[q[j]]
  <2>1. /\ q[i] \in S /\ q[j] \in S
        /\ Cardinality(below[q[i]]) = i - 1 /\ Cardinality(below[q[j]]) = j - 1
    BY <1>2
  <2>2. q[i] # q[j]
    BY <1>4, <2>1
  <2>3. q[j] \notin below[q[i]]
    BY <1>1, <1>4, <2>1
  <2> QED BY <2>1, <2>2, <2>3 DEF Linear
<1>5. ASSUME NEW m \in S PROVE \E n \in 1..N : q[n] = m
  <2>1. PICK n \in 1..N : Cardinality(below[m]) = n - 1
    <3>1. Cardinality(below[m]) \in 0..N - 1
      BY <1>1
    <3>2. Cardinality(below[m]) + 1 \in 1..N /\ Cardinality(below[m]) = (Cardinality(below[m]) + 1) - 1
      BY <1>1, <3>1
    <3> QED BY <3>2
  <2>2. q[n] \in S /\ Cardinality(below[q[n]]) = n - 1
    BY <1>2
  <2>3. m \notin below[q[n]] /\ q[n] \notin below[m]
    <3>1. ~(Cardinality(below[m]) < Cardinality(below[q[n]]))
      BY <2>1, <2>2
    <3>2. ~(Cardinality(below[q[n]]) < Cardinality(below[m]))
      BY <2>1, <2>2
    <3> QED BY <1>1, <2>2, <3>1, <3>2
  <2>4. q[n] = m
    BY <2>2, <2>3 DEF Linear
  <2> QED BY <2>4
<1>6. Len(q) \in Nat /\ Len(q) = Cardinality(S)
  BY <1>1, <1>3 DEF N
<1> QED BY <1>3, <1>4, <1>5, <1>6 DEF Line

\* Rows that are told apart by their ids.
Rows(S) ==
  /\ IsFiniteSet(S) /\ \A r \in S : r.at \in Int /\ r.id \in Int
  /\ \A r, s \in S : r.id = s.id => r = s
Above(S) == [r \in S |-> {s \in S : Newer(s, r)}]
Under(S) == [r \in S |-> {s \in S : Newer(r, s)}]

LEMMA NewerOrders ==
  ASSUME NEW S, Rows(S)
  PROVE  /\ \A r \in S : ~Newer(r, r)
         /\ \A r, s \in S : r = s \/ Newer(r, s) \/ Newer(s, r)
         /\ \A r, s \in S : Newer(r, s) => ~Newer(s, r)
         /\ \A r, s, t \in S : Newer(r, s) /\ Newer(s, t) => Newer(r, t)
<1>1. \A r \in S : r.at \in Int /\ r.id \in Int
  BY DEF Rows
<1>2. \A r, s \in S : r = s \/ Newer(r, s) \/ Newer(s, r)
  BY <1>1 DEF Rows, Newer
<1> QED BY <1>1, <1>2 DEF Newer

LEMMA Linearly ==
  ASSUME NEW S, Rows(S)
  PROVE  Linear(S, Above(S)) /\ Linear(S, Under(S))
<1>1. IsFiniteSet(S)
  BY DEF Rows
<1>2. Above(S) \in [S -> SUBSET S] /\ \A r \in S : Above(S)[r] = {s \in S : Newer(s, r)}
  BY DEF Above
<1>3. Under(S) \in [S -> SUBSET S] /\ \A r \in S : Under(S)[r] = {s \in S : Newer(r, s)}
  BY DEF Under
<1>4. Linear(S, Above(S))
  BY <1>1, <1>2, NewerOrders DEF Linear
<1>5. Linear(S, Under(S))
  BY <1>1, <1>3, NewerOrders DEF Linear
<1> QED BY <1>4, <1>5

\* What InOrder makes of such an order is its line.
LEMMA Ordered ==
  ASSUME NEW S, NEW below, Linear(S, below), NEW q,
         q = [n \in 1..Cardinality(S) |-> q[n]],
         \A n \in 1..Cardinality(S) : (\E r \in S : Cardinality(below[r]) = n - 1)
           => q[n] \in S /\ Cardinality(below[q[n]]) = n - 1
  PROVE  Line(q, S, below)
<1> DEFINE N == Cardinality(S)
<1>1. \A n \in 1..N : \E r \in S : Cardinality(below[r]) = n - 1
  BY PlacesExist
<1>2. \A n \in 1..N : q[n] \in S /\ Cardinality(below[q[n]]) = n - 1
  BY <1>1
<1> QED BY <1>2, LineIs

\* Newest first, and oldest first.
LEMMA NewestFirst ==
  ASSUME NEW S, Rows(S)
  PROVE  Line(InOrder(S, Newer), S, Above(S))
<1> DEFINE q == InOrder(S, Newer)
           below == Above(S)
           N == Cardinality(S)
           P(r, n) == Cardinality({s \in S : Newer(s, r)}) = n - 1
<1>1. q = [n \in 1..N |-> CHOOSE r \in S : P(r, n)]
  BY DEF InOrder
<1>2. Linear(S, below)
  BY Linearly
<1>3. \A r \in S : below[r] = {s \in S : Newer(s, r)}
  BY DEF Above
<1> HIDE DEF below
<1>4. \A n : \A r \in S : P(r, n) <=> Cardinality(below[r]) = n - 1
  BY <1>3
<1> HIDE DEF q, N, P
<1>5. ASSUME NEW n \in 1..N, \E r \in S : Cardinality(below[r]) = n - 1
      PROVE  q[n] \in S /\ Cardinality(below[q[n]]) = n - 1
  <2>1. \E r \in S : P(r, n)
    BY <1>4, <1>5
  <2>2. q[n] = CHOOSE r \in S : P(r, n)
    BY <1>1
  <2>3. q[n] \in S /\ P(q[n], n)
    BY <2>1, <2>2
  <2> QED BY <1>4, <2>3
<1>6. q = [n \in 1..N |-> q[n]]
  BY <1>1
<1>7. Line(q, S, below)
  BY <1>2, <1>5, <1>6, Ordered DEF N
<1> QED BY <1>7 DEF q, below

LEMMA OldestFirst ==
  ASSUME NEW S, Rows(S), NEW q,
         q = [n \in 1..Cardinality(S) |->
                CHOOSE r \in S : Cardinality({s \in S : Newer(r, s)}) = n - 1]
  PROVE  Line(q, S, Under(S))
<1> DEFINE below == Under(S)
           N == Cardinality(S)
           P(r, n) == Cardinality({s \in S : Newer(r, s)}) = n - 1
<1>1. q = [n \in 1..N |-> CHOOSE r \in S : P(r, n)]
  OBVIOUS
<1>2. Linear(S, below)
  BY Linearly
<1>3. \A r \in S : below[r] = {s \in S : Newer(r, s)}
  BY DEF Under
<1> HIDE DEF below
<1>4. \A n : \A r \in S : P(r, n) <=> Cardinality(below[r]) = n - 1
  BY <1>3
<1> HIDE DEF N, P
<1>5. ASSUME NEW n \in 1..N, \E r \in S : Cardinality(below[r]) = n - 1
      PROVE  q[n] \in S /\ Cardinality(below[q[n]]) = n - 1
  <2>1. \E r \in S : P(r, n)
    BY <1>4, <1>5
  <2>2. q[n] = CHOOSE r \in S : P(r, n)
    BY <1>1
  <2>3. q[n] \in S /\ P(q[n], n)
    BY <2>1, <2>2
  <2> QED BY <1>4, <2>3
<1>6. q = [n \in 1..N |-> q[n]]
  BY <1>1
<1>7. Line(q, S, below)
  BY <1>2, <1>5, <1>6, Ordered DEF N
<1> QED BY <1>7 DEF below

\* A sequence that lists a set: each member once, and nothing else.
Lists(q, T) ==
  /\ q \in Seq(T) /\ Len(q) \in Nat /\ DOMAIN q = 1..Len(q)
  /\ \A m \in T : \E n \in 1..Len(q) : q[n] = m
  /\ \A i, j \in 1..Len(q) : q[i] = q[j] => i = j

LEMMA Listed ==
  ASSUME NEW q, NEW T, Lists(q, T)
  PROVE  /\ IsFiniteSet(T) /\ Cardinality(T) = Len(q) /\ {q[i] : i \in DOMAIN q} = T
         /\ (q = <<>> <=> T = {}) /\ (q = <<>> <=> Len(q) = 0)
<1> DEFINE n == Len(q)
<1>1. n \in Nat /\ DOMAIN q = 1..n /\ \A i \in 1..n : q[i] \in T
  BY DEF Lists
<1>2. q \in Bijection(1..n, T)
  <2>1. q \in [1..n -> T]
    BY <1>1 DEF Lists
  <2> QED BY <1>1, <2>1 DEF Lists, Bijection, Injection, Surjection, IsInjective
<1> HIDE DEF n
<1>3. ExistsBijection(1..n, T)
  BY <1>2 DEF ExistsBijection
<1>4. IsFiniteSet(T)
  BY <1>1, <1>3, FS_NatBijection
<1>5. Cardinality(T) = n
  BY <1>1, <1>3, FS_CountingElements
<1>6. {q[i] : i \in DOMAIN q} = T
  BY <1>1 DEF Lists, n
<1>7. q = <<>> <=> n = 0
  BY DEF Lists, n
<1>8. n = 0 <=> T = {}
  BY <1>4, <1>5, FS_EmptySet
<1> QED BY <1>4, <1>5, <1>6, <1>7, <1>8 DEF n

\* The members of a sequence without repetition are listed by it.
LEMMA ListsItsOwn ==
  ASSUME NEW q, NEW S, q \in Seq(S), \A i, j \in 1..Len(q) : q[i] = q[j] => i = j
  PROVE  LET T == {q[i] : i \in DOMAIN q} IN Lists(q, T) /\ T \subseteq S
<1> DEFINE T == {q[i] : i \in DOMAIN q}
           n == Len(q)
<1>1. n \in Nat /\ DOMAIN q = 1..n /\ \A i \in 1..n : q[i] \in S
  OBVIOUS
<1>2. \A i \in 1..n : q[i] \in T
  BY <1>1
<1>3. \A m \in T : \E i \in 1..n : q[i] = m
  BY <1>1
<1>4. T \subseteq S
  BY <1>1
<1>5. q \in Seq(T)
  <2> HIDE DEF T
  <2>1. q = [i \in 1..n |-> q[i]]
    BY <1>1
  <2>2. q \in [1..n -> T]
    BY <1>2, <2>1
  <2> HIDE DEF n
  <2> QED BY <1>1, <2>2
<1> HIDE DEF T
<1> QED BY <1>1, <1>3, <1>4, <1>5 DEF Lists

LEMMA LineLists ==
  ASSUME NEW S, NEW below, Linear(S, below), NEW q, Line(q, S, below)
  PROVE  Lists(q, S)
<1>1. \A i, j \in 1..Len(q) : i < j => q[i] # q[j]
  <2> SUFFICES ASSUME NEW i \in 1..Len(q), NEW j \in 1..Len(q), i < j PROVE q[i] # q[j]
    OBVIOUS
  <2>1. q[i] \in below[q[j]] /\ q[j] \in S
    BY DEF Line
  <2> QED BY <2>1 DEF Linear
<1>2. Len(q) \in Nat
  BY DEF Line
<1>3. \A i, j \in 1..Len(q) : q[i] = q[j] => i = j
  BY <1>1, <1>2
<1> QED BY <1>3 DEF Lists, Line

\* The line from a to b: a part of the set, and what is left is elsewhere in the line.
PartWell(q, S, a, b) ==
  LET p == SubSeq(q, a, b)
      P == {p[i] : i \in DOMAIN p}
  IN /\ Lists(p, P) /\ Len(p) = b - a + 1 /\ P \subseteq S
     /\ \A i \in 1..Len(p) : p[i] = q[a + i - 1]
     /\ \A m \in P : \E i \in a..b : m = q[i]
     /\ \A m \in S \ P : \E i \in 1..Len(q) : m = q[i] /\ (i < a \/ i > b)

LEMMA PartOf ==
  ASSUME NEW S, NEW below, Linear(S, below), NEW q, Line(q, S, below),
         NEW a \in 1..Len(q) + 1, NEW b \in a - 1..Len(q)
  PROVE  PartWell(q, S, a, b)
<1> DEFINE p == SubSeq(q, a, b)
           P == {p[i] : i \in DOMAIN p}
           n == Len(q)
<1>1. n \in Nat /\ q \in Seq(S) /\ a \in Int /\ b \in Int /\ a \in 1..n + 1 /\ b \in a - 1..n
  BY DEF Line
<1>2. \A i \in a..b : q[i] \in S
  BY <1>1
<1>3. p \in Seq(S) /\ Len(p) = (IF a <= b THEN b - a + 1 ELSE 0)
      /\ \A i \in 1..b - a + 1 : p[i] = q[a + i - 1]
  BY <1>1, <1>2, SubSeqProperties
<1>4. Len(p) = b - a + 1 /\ DOMAIN p = 1..Len(p)
  BY <1>1, <1>3
<1> HIDE DEF p
<1>5. \A i, j \in 1..n : q[i] = q[j] => i = j
  BY LineLists DEF Lists
<1>6. \A i \in 1..Len(p) : a + i - 1 \in a..b /\ a + i - 1 \in 1..n
  BY <1>1, <1>4
<1>7. \A i, j \in 1..Len(p) : p[i] = p[j] => i = j
  <2> SUFFICES ASSUME NEW i \in 1..Len(p), NEW j \in 1..Len(p), p[i] = p[j] PROVE i = j
    OBVIOUS
  <2>1. q[a + i - 1] = q[a + j - 1]
    BY <1>3, <1>4
  <2>2. a + i - 1 = a + j - 1
    BY <1>5, <1>6, <2>1
  <2> QED BY <1>1, <1>4, <2>2
<1>8. Lists(p, P) /\ P \subseteq S
  BY <1>3, <1>7, ListsItsOwn
<1>9. \A m \in P : \E i \in a..b : m = q[i]
  BY <1>3, <1>4, <1>6
<1>10. ASSUME NEW m \in S \ P PROVE \E i \in 1..n : m = q[i] /\ (i < a \/ i > b)
  <2>1. PICK i \in 1..n : q[i] = m
    BY DEF Line
  <2>2. ASSUME i \in a..b PROVE FALSE
    <3>1. i - a + 1 \in 1..Len(p) /\ a + (i - a + 1) - 1 = i
      BY <1>1, <1>4, <2>2
    <3>2. p[i - a + 1] = q[i]
      BY <1>3, <1>4, <3>1
    <3> QED BY <1>4, <2>1, <3>1, <3>2
  <2>3. i < a \/ i > b
    BY <1>1, <2>2
  <2> QED BY <2>1, <2>3
<1>11. \A i \in 1..Len(p) : p[i] = q[a + i - 1]
  BY <1>3, <1>4
<1>12. /\ Lists(p, P) /\ Len(p) = b - a + 1 /\ P \subseteq S
       /\ \A i \in 1..Len(p) : p[i] = q[a + i - 1]
       /\ \A m \in P : \E i \in a..b : m = q[i]
       /\ \A m \in S \ P : \E i \in 1..Len(q) : m = q[i] /\ (i < a \/ i > b)
  <2> HIDE DEF P
  <2> QED BY <1>4, <1>8, <1>9, <1>10, <1>11 DEF n
<1> QED BY <1>12, Zenon DEF PartWell, p

-----------------------------------------------------------------------------
(* The digest.                                                             *)

\* Whatever is shown first fits beside the header and the omission marker.
Roomy ==
  \A bound \in {EntryChars, RefChars} :
    HeadChars + MarkChars + EntryHead + bound + MarkChars <= MaxChars
\* A candidate the digest can be asked to show.
Candidate(c) == c.row.size \in Nat /\ c.bound \in {EntryChars, RefChars}

LEMMA Costs ==
  ASSUME NEW c, Candidate(c)
  PROVE  /\ EntrySize(c) \in Nat
         /\ Roomy => HeadChars + MarkChars + EntrySize(c) <= MaxChars
<1> DEFINE size == c.row.size
           bound == c.bound
<1>1. /\ size \in Nat /\ bound \in {EntryChars, RefChars}
      /\ {EntryHead, MarkChars, EntryChars, RefChars, HeadChars, MaxChars} \subseteq Nat
  BY DigestAssumption DEF DigestAssumption, Candidate
<1>2. EntrySize(c) = EntryHead + IF size > bound THEN bound + MarkChars ELSE size
  BY DEF EntrySize
<1> HIDE DEF size, bound
<1>3. bound \in Nat
  BY <1>1
<1>4. EntrySize(c) \in Nat /\ EntrySize(c) <= EntryHead + bound + MarkChars
  BY <1>1, <1>2, <1>3
<1>5. Roomy => HeadChars + MarkChars + EntryHead + bound + MarkChars <= MaxChars
  BY <1>1 DEF Roomy
<1> QED BY <1>1, <1>3, <1>4, <1>5

\* RenderDigest once its candidates are in a row.
Rendering(candidates, extra) ==
  LET first == Fill(candidates, 0)
      final == IF Len(first.shown) < Len(candidates) \/ extra > 0
               THEN Fill(candidates, MarkChars) ELSE first
      nothing == [shown |-> <<>>, omitted |-> 0, chars |-> 0]
  IN IF candidates = <<>> \/ final.shown = <<>> THEN nothing
     ELSE [shown   |-> [i \in DOMAIN final.shown |-> final.shown[i].row.id],
           omitted |-> Len(candidates) - Len(final.shown) + extra,
           chars   |-> final.used]

\* What a digest d of N candidates shows: the first of them and others, none twice.
Shows(d, candidates, extra) ==
  LET N == Len(candidates)
      m == Len(d.shown)
  IN /\ m \in 0..N /\ m <= MaxEntries /\ DOMAIN d.shown = 1..m /\ d.chars <= MaxChars
     /\ \E place \in [1..m -> 1..N] :
          /\ \A i \in 1..m : d.shown[i] = candidates[place[i]].row.id
          /\ \A i, j \in 1..m : place[i] = place[j] => i = j
     /\ N # 0 => m >= 1 /\ d.shown[1] = candidates[1].row.id /\ d.omitted = N - m + extra
     /\ N = 0 => d.omitted = 0

LEMMA RenderingShows ==
  ASSUME Roomy, NEW C, NEW candidates \in Seq(C), \A c \in C : Candidate(c), NEW extra \in Nat
  PROVE  Shows(Rendering(candidates, extra), candidates, extra)
<1> DEFINE N == Len(candidates)
           first == Fill(candidates, 0)
           final == IF Len(first.shown) < N \/ extra > 0 THEN Fill(candidates, MarkChars) ELSE first
           d == Rendering(candidates, extra)
<1> SUFFICES Shows(d, candidates, extra)
  OBVIOUS
<1>1. N \in Nat /\ (candidates = <<>> <=> N = 0) /\ \A n \in 1..N : candidates[n] \in C
  OBVIOUS
<1>2. /\ {HeadChars, MarkChars, MaxChars, MaxEntries} \subseteq Nat
      /\ 0 \in Nat /\ MarkChars \in Nat
  BY DigestAssumption DEF DigestAssumption
<1>3. \A n \in 1..N : /\ EntrySize(candidates[n]) \in Nat
                      /\ HeadChars + MarkChars + EntrySize(candidates[n]) <= MaxChars
  BY <1>1, Costs
<1>4. /\ Filling(Fill(candidates, 0), C, candidates, HeadChars + 0, N)
      /\ Filling(Fill(candidates, MarkChars), C, candidates, HeadChars + MarkChars, N)
  BY <1>2, <1>3, FillKeeps
<1>5. d = IF candidates = <<>> \/ final.shown = <<>> THEN [shown |-> <<>>, omitted |-> 0, chars |-> 0]
          ELSE [shown   |-> [i \in DOMAIN final.shown |-> final.shown[i].row.id],
                omitted |-> N - Len(final.shown) + extra,
                chars   |-> final.used]
  BY DEF Rendering
<1>6. PICK reserve \in {0, MarkChars} : Filling(final, C, candidates, HeadChars + reserve, N)
  BY <1>4
<1> HIDE DEF d, N, final
<1>7. CASE N = 0
  <2>1. d.shown = <<>> /\ d.omitted = 0 /\ d.chars = 0
    BY <1>1, <1>5, <1>7
  <2>2. Len(<<>>) = 0 /\ DOMAIN <<>> = 1..0 /\ 1..0 = {}
    OBVIOUS
  <2>3. [i \in {} |-> 0] \in [{} -> {}]
    OBVIOUS
  <2>4. Len(d.shown) = 0 /\ DOMAIN d.shown = 1..0 /\ 1..Len(d.shown) = {}
    BY <2>1, <2>2
  <2>5. \E place \in [1..Len(d.shown) -> 1..N] :
          /\ \A i \in 1..Len(d.shown) : d.shown[i] = candidates[place[i]].row.id
          /\ \A i, j \in 1..Len(d.shown) : place[i] = place[j] => i = j
    <3> DEFINE place == [i \in {} |-> 0]
    <3>1. place \in [1..Len(d.shown) -> 1..N]
      BY <2>4
    <3> HIDE DEF place
    <3> QED BY <2>4, <3>1
  <2>6. Len(d.shown) \in 0..N /\ Len(d.shown) <= MaxEntries /\ d.chars <= MaxChars
    BY <1>2, <1>7, <2>1, <2>4
  <2> QED BY <1>7, <2>1, <2>4, <2>5, <2>6 DEF Shows, N
<1>8. CASE N # 0
  <2> DEFINE m == Len(final.shown)
             shown == final.shown
  <2>1. /\ shown \in Seq(C) /\ Chosen(shown, candidates, N) /\ m <= MaxEntries
        /\ (shown # <<>> => final.used <= MaxChars)
        /\ HeadChars + reserve + EntrySize(candidates[1]) <= MaxChars
             => shown # <<>> /\ shown[1] = candidates[1]
    BY <1>1, <1>6, <1>8 DEF Filling
  <2>2. HeadChars + reserve + EntrySize(candidates[1]) <= MaxChars
    <3>1. 1 \in 1..N
      BY <1>1, <1>8
    <3>2. /\ EntrySize(candidates[1]) \in Nat
          /\ HeadChars + MarkChars + EntrySize(candidates[1]) <= MaxChars
      BY <1>3, <3>1
    <3> QED BY <1>2, <1>6, <3>2
  <2>3. shown # <<>> /\ shown[1] = candidates[1] /\ final.used <= MaxChars
    BY <2>1, <2>2
  <2>4. m \in 0..N /\ DOMAIN shown = 1..m /\ m >= 1
    <3>1. m \in Nat /\ m # 0
      BY <2>1, <2>3
    <3> QED BY <2>1, <3>1 DEF Chosen
  <2>5. /\ d.shown = [i \in 1..m |-> shown[i].row.id] /\ d.omitted = N - m + extra
        /\ d.chars = final.used
    BY <1>1, <1>5, <1>8, <2>3, <2>4
  <2>6. PICK place \in [1..m -> 1..N] :
          /\ \A i \in 1..m : shown[i] = candidates[place[i]]
          /\ \A i, j \in 1..m : place[i] = place[j] => i = j
    BY <2>1 DEF Chosen
  <2> HIDE DEF m, shown
  <2> DEFINE ids == [i \in 1..m |-> shown[i].row.id]
  <2>7. Len(ids) = m /\ DOMAIN ids = 1..m /\ \A i \in 1..m : ids[i] = shown[i].row.id
    <3>1. m \in Nat
      BY <1>1, <2>4
    <3>2. DOMAIN ids = 1..m
      OBVIOUS
    <3> HIDE DEF ids
    <3>3. Len(ids) = m
      BY <3>1, <3>2
    <3> QED BY <3>2, <3>3 DEF ids
  <2> HIDE DEF ids
  <2>8. d.shown = ids
    BY <2>5 DEF ids
  <2>9. \A i \in 1..m : ids[i] = candidates[place[i]].row.id
    BY <2>6, <2>7
  <2>10. ids[1] = candidates[1].row.id
    BY <2>3, <2>4, <2>7
  <2>11. d.chars <= MaxChars /\ m <= MaxEntries
    BY <2>1, <2>3, <2>5 DEF m, shown
  <2>12. /\ Len(d.shown) = m /\ DOMAIN d.shown = 1..m /\ d.shown[1] = candidates[1].row.id
         /\ \A i \in 1..m : d.shown[i] = candidates[place[i]].row.id
    BY <2>7, <2>8, <2>9, <2>10
  <2> HIDE DEF N
  <2>13. \E all \in [1..Len(d.shown) -> 1..N] :
           /\ \A i \in 1..Len(d.shown) : d.shown[i] = candidates[all[i]].row.id
           /\ \A i, j \in 1..Len(d.shown) : all[i] = all[j] => i = j
    BY <2>6, <2>12
  <2>14. /\ Len(d.shown) \in 0..N /\ Len(d.shown) <= MaxEntries /\ DOMAIN d.shown = 1..Len(d.shown)
         /\ Len(d.shown) >= 1 /\ d.omitted = N - Len(d.shown) + extra
    BY <2>4, <2>5, <2>11, <2>12
  <2>15. Shows(d, candidates, extra)
    BY <1>8, <2>11, <2>12, <2>13, <2>14, Zenon DEF Shows, N
  <2> QED BY <2>15
<1> QED BY <1>7, <1>8

\* The candidates made of some rows.
Candidates(rows, why, bound) ==
  [i \in DOMAIN rows |-> [row |-> rows[i], why |-> why, bound |-> bound]]

LEMMA CandidatesAre ==
  ASSUME NEW T, NEW rows \in Seq(T), NEW W, NEW why \in W,
         NEW bound \in {EntryChars, RefChars}
  PROVE  /\ Candidates(rows, why, bound) \in Seq([row : T, why : W, bound : {EntryChars, RefChars}])
         /\ Len(Candidates(rows, why, bound)) = Len(rows)
<1> DEFINE q == Candidates(rows, why, bound)
           n == Len(rows)
           C == [row : T, why : W, bound : {EntryChars, RefChars}]
<1>1. n \in Nat /\ DOMAIN rows = 1..n /\ \A i \in 1..n : rows[i] \in T
  OBVIOUS
<1>2. q = [i \in 1..n |-> [row |-> rows[i], why |-> why, bound |-> bound]]
  BY <1>1 DEF Candidates
<1> HIDE DEF n
<1>3. \A i \in 1..n : [row |-> rows[i], why |-> why, bound |-> bound] \in C
  BY <1>1
<1> HIDE DEF q, C
<1>4. DOMAIN q = 1..n
  BY <1>2
<1>5. q \in [1..n -> C]
  BY <1>2, <1>3
<1>6. q \in Seq(C)
  BY <1>1, <1>5
<1>7. Len(q) = n
  BY <1>1, <1>4, <1>6
<1> QED BY <1>4, <1>6, <1>7 DEF q, n, C

\* What the digest shows of the rows it is given, in their order.
Renders(recurrence, placed, related, extra) ==
  LET rows == recurrence \o placed \o related
      d == RenderDigest(recurrence, placed, related, extra)
  IN \E candidates :
       /\ Shows(d, candidates, extra) /\ Len(candidates) = Len(rows)
       /\ \A i \in 1..Len(rows) : candidates[i].row = rows[i]

LEMMA RenderShows ==
  ASSUME Roomy, NEW T, \A h \in T : h.size \in Nat, NEW recurrence \in Seq(T),
         NEW placed \in Seq(T), NEW related \in Seq(T), NEW extra \in Nat
  PROVE  Renders(recurrence, placed, related, extra)
<1> DEFINE W == {"recurrence", "same window", "related"}
           C == [row : T, why : W, bound : {EntryChars, RefChars}]
           A == Candidates(recurrence, "recurrence", RefChars)
           B == Candidates(placed, "same window", EntryChars)
           D == Candidates(related, "related", EntryChars)
           d == RenderDigest(recurrence, placed, related, extra)
           rows == recurrence \o placed \o related
<1>1. d = Rendering(A \o B \o D, extra)
  BY Zenon DEF RenderDigest, Rendering, Candidates
<1>2. "recurrence" \in W /\ "same window" \in W /\ "related" \in W
  BY Zenon
<1>3. RefChars \in {EntryChars, RefChars} /\ EntryChars \in {EntryChars, RefChars}
  BY Zenon
<1>21. \A list \in Seq(T), why \in W, bound \in {EntryChars, RefChars} :
         /\ Candidates(list, why, bound) \in Seq(C)
         /\ Len(Candidates(list, why, bound)) = Len(list)
         /\ \A i \in 1..Len(list) : Candidates(list, why, bound)[i].row = list[i]
  <2> HIDE DEF W
  <2> SUFFICES ASSUME NEW list \in Seq(T), NEW why \in W, NEW bound \in {EntryChars, RefChars}
               PROVE  /\ Candidates(list, why, bound) \in Seq(C)
                      /\ Len(Candidates(list, why, bound)) = Len(list)
                      /\ \A i \in 1..Len(list) : Candidates(list, why, bound)[i].row = list[i]
    OBVIOUS
  <2>1. Candidates(list, why, bound) \in Seq(C)
    BY CandidatesAre
  <2>2. Len(Candidates(list, why, bound)) = Len(list)
    BY CandidatesAre
  <2>3. \A i \in 1..Len(list) : Candidates(list, why, bound)[i].row = list[i]
    BY DEF Candidates
  <2> QED BY <2>1, <2>2, <2>3
<1> HIDE DEF C, W
<1>4. A \in Seq(C) /\ Len(A) = Len(recurrence) /\ \A i \in 1..Len(recurrence) : A[i].row = recurrence[i]
  BY <1>2, <1>3, <1>21, Zenon
<1>5. B \in Seq(C) /\ Len(B) = Len(placed) /\ \A i \in 1..Len(placed) : B[i].row = placed[i]
  BY <1>2, <1>3, <1>21, Zenon
<1>6. D \in Seq(C) /\ Len(D) = Len(related) /\ \A i \in 1..Len(related) : D[i].row = related[i]
  BY <1>2, <1>3, <1>21, Zenon
<1>7. \A c \in C : Candidate(c)
  BY DEF C, Candidate
<1> HIDE DEF A, B, D, d
<1> DEFINE AB == A \o B
           some == recurrence \o placed
<1>19. A \in Seq(C) /\ B \in Seq(C) /\ D \in Seq(C)
  BY <1>4, <1>5, <1>6
<1>8. /\ AB \in Seq(C) /\ Len(AB) = Len(A) + Len(B)
      /\ \A i \in 1..Len(A) + Len(B) : AB[i] = IF i <= Len(A) THEN A[i] ELSE B[i - Len(A)]
  BY <1>19, ConcatProperties
<1>9. /\ some \in Seq(T) /\ Len(some) = Len(recurrence) + Len(placed)
      /\ \A i \in 1..Len(recurrence) + Len(placed) :
           some[i] = IF i <= Len(recurrence) THEN recurrence[i] ELSE placed[i - Len(recurrence)]
  BY ConcatProperties
<1>10. Len(recurrence) \in Nat /\ Len(placed) \in Nat /\ Len(related) \in Nat
  OBVIOUS
<1> HIDE DEF AB, some
<1> DEFINE ABD == AB \o D
           all == some \o related
<1>11. Len(AB) = Len(some) /\ \A i \in 1..Len(some) : AB[i].row = some[i]
  <2>1. Len(AB) = Len(some)
    BY <1>4, <1>5, <1>8, <1>9
  <2>2. ASSUME NEW i \in 1..Len(some) PROVE AB[i].row = some[i]
    <3>1. CASE i <= Len(recurrence)
      <4>1. i \in 1..Len(recurrence) /\ AB[i] = A[i] /\ some[i] = recurrence[i]
        BY <1>4, <1>5, <1>8, <1>9, <1>10, <3>1
      <4> QED BY <1>4, <4>1
    <3>2. CASE ~(i <= Len(recurrence))
      <4>1. /\ i - Len(recurrence) \in 1..Len(placed) /\ AB[i] = B[i - Len(recurrence)]
            /\ some[i] = placed[i - Len(recurrence)]
        BY <1>4, <1>5, <1>8, <1>9, <1>10, <3>2
      <4> QED BY <1>5, <4>1
    <3> QED BY <3>1, <3>2
  <2> QED BY <2>1, <2>2
<1>20. AB \in Seq(C) /\ some \in Seq(T) /\ related \in Seq(T)
  BY <1>8, <1>9
<1>12. /\ ABD \in Seq(C) /\ Len(ABD) = Len(AB) + Len(D)
       /\ \A i \in 1..Len(AB) + Len(D) : ABD[i] = IF i <= Len(AB) THEN AB[i] ELSE D[i - Len(AB)]
  BY <1>19, <1>20, ConcatProperties
<1>13. /\ all \in Seq(T) /\ Len(all) = Len(some) + Len(related)
       /\ \A i \in 1..Len(some) + Len(related) :
            all[i] = IF i <= Len(some) THEN some[i] ELSE related[i - Len(some)]
  BY <1>20, ConcatProperties
<1>14. Len(some) \in Nat
  BY <1>9, <1>10
<1> HIDE DEF ABD, all
<1>15. Len(ABD) = Len(all) /\ \A i \in 1..Len(all) : ABD[i].row = all[i]
  <2>1. Len(ABD) = Len(all)
    BY <1>6, <1>11, <1>12, <1>13
  <2>2. ASSUME NEW i \in 1..Len(all) PROVE ABD[i].row = all[i]
    <3>1. CASE i <= Len(some)
      <4>1. i \in 1..Len(some) /\ ABD[i] = AB[i] /\ all[i] = some[i]
        BY <1>6, <1>10, <1>11, <1>12, <1>13, <1>14, <3>1
      <4> QED BY <1>11, <4>1
    <3>2. CASE ~(i <= Len(some))
      <4>1. /\ i - Len(some) \in 1..Len(related) /\ ABD[i] = D[i - Len(some)]
            /\ all[i] = related[i - Len(some)]
        BY <1>6, <1>10, <1>11, <1>12, <1>13, <1>14, <3>2
      <4> QED BY <1>6, <4>1
    <3> QED BY <3>1, <3>2
  <2> QED BY <2>1, <2>2
<1>16. Shows(Rendering(ABD, extra), ABD, extra)
  BY <1>7, <1>12, RenderingShows
<1>17. d = Rendering(ABD, extra) /\ rows = all
  BY <1>1, Zenon DEF ABD, AB, all, some
<1> HIDE DEF rows
<1>18. Shows(d, ABD, extra) /\ Len(ABD) = Len(rows) /\ \A i \in 1..Len(rows) : ABD[i].row = rows[i]
  BY <1>15, <1>16, <1>17
<1> QED BY <1>18, Zenon DEF d, rows, Renders

\* What is placed of the window: some of it, each once, and something if there is any.
PlacesSome(E, at, X) ==
  LET W == InWindow(E, at, X)
      q == Placed(E, at, X)
      P == {q[i] : i \in DOMAIN q}
  IN /\ W \subseteq E /\ Lists(q, P) /\ P \subseteq W /\ (W # {} => P # {})
     /\ Unplaced(E, at, X) = W \ P

LEMMA PlacedIs ==
  ASSUME NEW E, Rows(E), NEW at, NEW X
  PROVE  PlacesSome(E, at, X)
<1> DEFINE W == InWindow(E, at, X)
           window == InOrder(W, Newer)
           n == Len(window)
           q == Placed(E, at, X)
           P == {q[i] : i \in DOMAIN q}
<1>1. W \subseteq E
  BY DEF InWindow
<1>2. Unplaced(E, at, X) = W \ P
  BY Zenon DEF Unplaced
<1>3. q = IF n <= 2 THEN window ELSE SubSeq(window, 1, 2 - 1) \o <<window[n]>>
  BY Zenon DEF Placed, RECENT_MAX_ENTRIES
<1> HIDE DEF W, q
<1>4. Rows(W)
  <2>1. IsFiniteSet(E) /\ W \in SUBSET E
    BY <1>1 DEF Rows
  <2>2. IsFiniteSet(W)
    BY <2>1, FS_Subset
  <2> QED BY <1>1, <2>2 DEF Rows
<1>5. Line(window, W, Above(W)) /\ Linear(W, Above(W))
  BY <1>4, NewestFirst, Linearly
<1>6. Lists(window, W)
  BY <1>5, LineLists
<1> HIDE DEF window
<1>7. /\ n \in Nat /\ window \in Seq(W) /\ DOMAIN window = 1..n
      /\ \A i, j \in 1..n : window[i] = window[j] => i = j
  BY <1>6 DEF Lists
<1>8. CASE n <= 2
  <2>1. q = window
    BY <1>3, <1>8
  <2>2. P = W
    BY <1>6, <2>1, Listed
  <2> HIDE DEF P
  <2> QED BY <1>1, <1>2, <1>6, <2>1, <2>2, Zenon DEF PlacesSome, W, q, P
<1>9. CASE ~(n <= 2)
  <2> DEFINE first == SubSeq(window, 1, 1)
             last == <<window[n]>>
  <2>1. q = first \o last
    BY <1>3, <1>9
  <2>2. window[1] \in W /\ window[n] \in W /\ 1 \in 1..n /\ n \in 1..n /\ n # 1
    BY <1>7, <1>9
  <2>3. first \in Seq(W) /\ Len(first) = 1 /\ first[1] = window[1]
    <3>1. \A i \in 1..1 : window[i] \in W
      BY <2>2
    <3>2. /\ first \in Seq(W) /\ Len(first) = IF 1 <= 1 THEN 1 - 1 + 1 ELSE 0
          /\ \A i \in 1..1 - 1 + 1 : first[i] = window[1 + i - 1]
      BY <3>1, SubSeqProperties
    <3> HIDE DEF first
    <3>3. 1 \in 1..1 - 1 + 1 /\ 1 + 1 - 1 = 1 /\ 1 <= 1
      OBVIOUS
    <3> QED BY <3>2, <3>3
  <2>4. last \in Seq(W) /\ Len(last) = 1 /\ last[1] = window[n]
    BY <2>2
  <2> HIDE DEF first, last
  <2>5. /\ q \in Seq(W) /\ Len(q) = 1 + 1
        /\ \A i \in 1..1 + 1 : q[i] = IF i <= 1 THEN first[i] ELSE last[i - 1]
    BY <2>1, <2>3, <2>4, ConcatProperties
  <2>6. Len(q) = 2 /\ q[1] = window[1] /\ q[2] = window[n]
    <3>1. 1 \in 1..1 + 1 /\ 2 \in 1..1 + 1 /\ 2 - 1 = 1 /\ ~(2 <= 1) /\ 1 + 1 = 2
      OBVIOUS
    <3> QED BY <2>3, <2>4, <2>5, <3>1
  <2>7. q[1] # q[2]
    BY <1>7, <2>2, <2>6
  <2>8. \A i, j \in 1..Len(q) : q[i] = q[j] => i = j
    <3>1. \A i \in 1..Len(q) : i = 1 \/ i = 2
      BY <2>6
    <3> QED BY <2>7, <3>1
  <2>9. Lists(q, P) /\ P \subseteq W
    BY <2>5, <2>8, ListsItsOwn
  <2>10. P # {}
    BY <2>6, <2>9, Listed
  <2> HIDE DEF P
  <2> QED BY <1>1, <1>2, <2>9, <2>10, Zenon DEF PlacesSome, W, q, P
<1> QED BY <1>8, <1>9

\* The hand-offs that are about the same.
About(E, context) == {h \in E : Relation(h, context) # "none"}

LEMMA RelatedIs ==
  ASSUME NEW E, Rows(E), NEW context, NEW X
  PROVE  Lists(RankRelated(E, context, X), {h \in About(E, context) : h.id \notin X})
<1> DEFINE R == {h \in E : h.id \notin X /\ Relation(h, context) # "none"}
           RankOf(h) == Rank[Relation(h, context)]
           q == RankRelated(E, context, X)
           rank == [h \in R |-> RankOf(h)]
           P(h, n) == Cardinality({g \in R : \/ RankOf(g) < RankOf(h)
                                             \/ RankOf(g) = RankOf(h) /\ Newer(g, h)}) = n - 1
           below == [h \in R |-> {g \in R : rank[g] < rank[h] \/ (rank[g] = rank[h] /\ Newer(g, h))}]
<1>1. R = {h \in About(E, context) : h.id \notin X}
  BY Zenon DEF About
<1>2. q = [n \in 1..Cardinality(R) |-> CHOOSE h \in R : P(h, n)]
  BY Zenon DEF RankRelated, InOrder
<1>3. \A h : Relation(h, context) # "none" => Rank[Relation(h, context)] \in {0, 1, 2}
  BY Zenon DEF Relation, Rank
<1>4. \A h \in R : RankOf(h) \in {0, 1, 2}
  BY <1>3, Zenon
<1>5. R \subseteq E
  BY Zenon
<1> HIDE DEF R, RankOf, q
<1>6. \A h \in R : rank[h] = RankOf(h) /\ rank[h] \in {0, 1, 2}
  BY <1>4
<1> HIDE DEF rank
<1>7. \A h \in R : below[h] = {g \in R : RankOf(g) < RankOf(h) \/ (RankOf(g) = RankOf(h) /\ Newer(g, h))}
  BY <1>6
<1>8. Rows(R)
  <2>1. IsFiniteSet(E) /\ R \in SUBSET E
    BY <1>5 DEF Rows
  <2>2. IsFiniteSet(R)
    BY <2>1, FS_Subset
  <2> QED BY <1>5, <2>2 DEF Rows
<1>9. Linear(R, below)
  <2>1. /\ \A r \in R : ~Newer(r, r)
        /\ \A r, s \in R : r = s \/ Newer(r, s) \/ Newer(s, r)
        /\ \A r, s, t \in R : Newer(r, s) /\ Newer(s, t) => Newer(r, t)
    BY <1>8, NewerOrders
  <2>2. \A r \in R : rank[r] \in Int
    BY <1>6
  <2>3. below \in [R -> SUBSET R] /\ \A r \in R : r \notin below[r]
    BY <2>1, <2>2
  <2>4. \A r, s \in R : r = s \/ r \in below[s] \/ s \in below[r]
    BY <2>1, <2>2
  <2>5. \A r, s, t \in R : r \in below[s] /\ s \in below[t] => r \in below[t]
    BY <2>1, <2>2
  <2> HIDE DEF below
  <2>6. \A r, s \in R : r \in below[s] => below[r] \subseteq below[s]
    BY <2>3, <2>5
  <2>7. IsFiniteSet(R)
    BY <1>8 DEF Rows
  <2> QED BY <2>3, <2>4, <2>6, <2>7 DEF Linear
<1> HIDE DEF below
<1>10. \A n : \A h \in R : P(h, n) <=> Cardinality(below[h]) = n - 1
  BY <1>7
<1> HIDE DEF P
<1>12. ASSUME NEW n \in 1..Cardinality(R), \E h \in R : Cardinality(below[h]) = n - 1
       PROVE  q[n] \in R /\ Cardinality(below[q[n]]) = n - 1
  <2>1. \E h \in R : P(h, n)
    BY <1>10, <1>12
  <2>2. q[n] = CHOOSE h \in R : P(h, n)
    BY <1>2
  <2>3. q[n] \in R /\ P(q[n], n)
    BY <2>1, <2>2
  <2> QED BY <1>10, <2>3
<1>13. q = [n \in 1..Cardinality(R) |-> q[n]]
  BY <1>2
<1>11. Lists(q, R)
  BY <1>9, <1>12, <1>13, Ordered, LineLists
<1> QED BY <1>1, <1>11, Zenon DEF q

\* One list after another.
LEMMA ListsJoin ==
  ASSUME NEW p, NEW A, Lists(p, A), NEW q, NEW B, Lists(q, B), A \cap B = {}
  PROVE  Lists(p \o q, A \cup B) /\ (p # <<>> => (p \o q)[1] = p[1])
<1> DEFINE S == A \cup B
           m == Len(p)
           n == Len(q)
           r == p \o q
<1>1. /\ m \in Nat /\ n \in Nat /\ p \in Seq(S) /\ q \in Seq(S)
      /\ \A i \in 1..m : p[i] \in A
      /\ \A i \in 1..n : q[i] \in B
  <2>1. p \in Seq(A) /\ q \in Seq(B) /\ m \in Nat /\ n \in Nat
    BY DEF Lists
  <2>2. p \in Seq(S)
    BY <2>1
  <2>3. q \in Seq(S)
    BY <2>1
  <2> QED BY <2>1, <2>2, <2>3
<1>2. /\ r \in Seq(S) /\ Len(r) = m + n
      /\ \A i \in 1..m + n : r[i] = IF i <= m THEN p[i] ELSE q[i - m]
  BY <1>1, ConcatProperties
<1> HIDE DEF S, r
<1>3. /\ \A i \in 1..m : i \in 1..m + n /\ r[i] = p[i]
      /\ \A i \in 1..n : i + m \in 1..m + n /\ r[i + m] = q[i]
  <2>1. \A i \in 1..m : i \in 1..m + n /\ i <= m
    BY <1>1
  <2>2. \A i \in 1..n : i + m \in 1..m + n /\ ~(i + m <= m) /\ (i + m) - m = i
    BY <1>1
  <2>3. \A i \in 1..m : r[i] = p[i]
    BY <1>2, <2>1
  <2>4. ASSUME NEW i \in 1..n PROVE r[i + m] = q[i]
    <3>1. r[i + m] = q[(i + m) - m]
      BY <1>2, <2>2
    <3> QED BY <2>2, <3>1
  <2> QED BY <2>1, <2>2, <2>3, <2>4
<1>4. \A i \in 1..m + n : i \in 1..m \/ \E k \in 1..n : i = k + m
  <2> SUFFICES ASSUME NEW i \in 1..m + n, i \notin 1..m PROVE \E k \in 1..n : i = k + m
    OBVIOUS
  <2>1. i - m \in 1..n /\ i = (i - m) + m
    BY <1>1
  <2> QED BY <2>1
<1>5. \A x \in S : \E i \in 1..m + n : r[i] = x
  <2> SUFFICES ASSUME NEW x \in S PROVE \E i \in 1..m + n : r[i] = x
    OBVIOUS
  <2>1. CASE x \in A
    <3>1. PICK i \in 1..m : p[i] = x
      BY <2>1 DEF Lists
    <3> QED BY <1>3, <3>1
  <2>2. CASE x \in B
    <3>1. PICK i \in 1..n : q[i] = x
      BY <2>2 DEF Lists
    <3> QED BY <1>3, <3>1
  <2> QED BY <2>1, <2>2 DEF S
<1>6. \A i, j \in 1..m + n : r[i] = r[j] => i = j
  <2>1. /\ \A i, j \in 1..m : p[i] = p[j] => i = j
        /\ \A i, j \in 1..n : q[i] = q[j] => i = j
    BY DEF Lists
  <2> SUFFICES ASSUME NEW i \in 1..m + n, NEW j \in 1..m + n, r[i] = r[j] PROVE i = j
    OBVIOUS
  <2>2. CASE i \in 1..m /\ j \in 1..m
    BY <1>3, <2>1, <2>2
  <2>3. CASE i \in 1..m /\ j \notin 1..m
    <3>1. PICK k \in 1..n : j = k + m
      BY <1>4, <2>3
    <3>2. r[i] \in A /\ r[j] \in B
      BY <1>1, <1>3, <2>3, <3>1
    <3> QED BY <3>2
  <2>4. CASE i \notin 1..m /\ j \in 1..m
    <3>1. PICK k \in 1..n : i = k + m
      BY <1>4, <2>4
    <3>2. r[j] \in A /\ r[i] \in B
      BY <1>1, <1>3, <2>4, <3>1
    <3> QED BY <3>2
  <2>5. CASE i \notin 1..m /\ j \notin 1..m
    <3>1. PICK k \in 1..n : i = k + m
      BY <1>4, <2>5
    <3>2. PICK l \in 1..n : j = l + m
      BY <1>4, <2>5
    <3>3. q[k] = q[l]
      BY <1>3, <3>1, <3>2
    <3> QED BY <2>1, <3>1, <3>2, <3>3
  <2> QED BY <2>2, <2>3, <2>4, <2>5
<1>7. p # <<>> => r[1] = p[1]
  <2>1. p # <<>> => m # 0
    BY Listed
  <2>2. p # <<>> => 1 \in 1..m
    BY <1>1, <2>1
  <2> QED BY <1>3, <2>2
<1>8. DOMAIN r = 1..Len(r) /\ Len(r) \in Nat
  BY <1>1, <1>2
<1>9. Lists(r, S)
  <2> HIDE DEF m, n
  <2> QED BY <1>2, <1>5, <1>6, <1>8 DEF Lists
<1> QED BY <1>7, <1>9 DEF S, r

\* The first of the references that name a hand-off: that hand-off, if there is one.
LEMMA ReferenceIs ==
  ASSUME NEW E, NEW Y, NEW refs \in Seq(Y), NEW found,
         \A i \in 1..Len(refs) : /\ found[refs[i]] \subseteq E
                                 /\ \A g, h \in found[refs[i]] : g = h
  PROVE  LET some == {i \in DOMAIN refs : found[refs[i]] # {}}
             RowOf(i) == CHOOSE h \in found[refs[i]] : TRUE
             reference == IF some = {} THEN <<>>
                          ELSE <<RowOf(CHOOSE i \in some : \A j \in some : i <= j)>>
             first == {h \in E : \E i \in 1..Len(refs) :
                         h \in found[refs[i]] /\ \A j \in 1..i - 1 : found[refs[j]] = {}}
         IN /\ Lists(reference, first) /\ (some # {} => first # {})
            /\ \A i \in some : RowOf(i) \in found[refs[i]] /\ RowOf(i) \in E
<1> DEFINE n == Len(refs)
           some == {i \in DOMAIN refs : found[refs[i]] # {}}
           RowOf(i) == CHOOSE h \in found[refs[i]] : TRUE
           least == CHOOSE i \in some : \A j \in some : i <= j
           reference == IF some = {} THEN <<>> ELSE <<RowOf(least)>>
           first == {h \in E : \E i \in 1..n :
                       h \in found[refs[i]] /\ \A j \in 1..i - 1 : found[refs[j]] = {}}
<1>1. n \in Nat /\ DOMAIN refs = 1..n
  OBVIOUS
<1>2. \A i \in some : RowOf(i) \in found[refs[i]] /\ RowOf(i) \in E
  BY <1>1
<1>3. \A i \in 1..n : i \in some <=> found[refs[i]] # {}
  BY <1>1
<1>4. some \subseteq 1..n
  BY <1>1
<1> HIDE DEF n, some, RowOf
<1>5. CASE some = {}
  <2>1. first = {}
    BY <1>3, <1>5
  <2>2. reference = <<>>
    BY <1>5
  <2>3. <<>> \in Seq({}) /\ Len(<<>>) = 0 /\ DOMAIN <<>> = 1..0 /\ 1..0 = {} /\ 0 \in Nat
    OBVIOUS
  <2> HIDE DEF first, reference
  <2>4. Lists(reference, first)
    BY <2>1, <2>2, <2>3 DEF Lists
  <2> QED BY <1>2, <1>5, <2>4 DEF first, reference, least, some, RowOf, n
<1>6. CASE some # {}
  <2>1. some \in SUBSET Nat
    BY <1>1, <1>4
  <2>2. PICK k \in some : \A j \in some : <<j, k>> \notin OpToRel(<, Nat)
    BY <1>6, <2>1, NatLessThanWellFounded, WFMin
  <2>16. \A j \in some : ~(j < k)
    BY <2>1, <2>2 DEF OpToRel
  <2>3. \A j \in some : k <= j
    BY <2>1, <2>16
  <2>4. least \in some /\ \A j \in some : least <= j
    BY <2>3
  <2> HIDE DEF least
  <2> DEFINE row == RowOf(least)
  <2>5. least \in 1..n /\ row \in found[refs[least]] /\ row \in E
    BY <1>2, <1>4, <2>4
  <2>6. \A j \in 1..n : j < least => found[refs[j]] = {}
    BY <1>1, <1>3, <2>4, <2>5
  <2>7. \A j \in 1..least - 1 : found[refs[j]] = {}
    BY <1>1, <2>5, <2>6
  <2>8. row \in first
    BY <2>5, <2>7
  <2>9. ASSUME NEW h \in first PROVE h = row
    <3>1. PICK i \in 1..n : h \in found[refs[i]] /\ \A j \in 1..i - 1 : found[refs[j]] = {}
      OBVIOUS
    <3>2. ~(i < least)
      BY <2>6, <3>1
    <3>3. ~(least < i)
      <4>1. least < i => least \in 1..i - 1
        BY <2>5
      <4> QED BY <2>5, <3>1, <4>1
    <3>4. i = least
      BY <2>5, <3>2, <3>3
    <3> QED BY <2>5, <3>1, <3>4 DEF n
  <2> HIDE DEF row, first
  <2>10. first = {row}
    BY <2>8, <2>9
  <2>11. reference = <<row>>
    BY <1>6 DEF row
  <2>12. <<row>> \in Seq({row}) /\ Len(<<row>>) = 1 /\ DOMAIN <<row>> = 1..1 /\ <<row>>[1] = row
    OBVIOUS
  <2>13. 1..1 = {1} /\ 1 \in Nat
    OBVIOUS
  <2> HIDE DEF reference
  <2>14. Lists(reference, first)
    BY <2>10, <2>11, <2>12, <2>13 DEF Lists
  <2>15. first # {}
    BY <2>10
  <2> QED BY <1>2, <2>14, <2>15 DEF first, reference, least, some, RowOf, n
<1> QED BY <1>5, <1>6

\* Different entries are as many as there are places.
LEMMA Different ==
  ASSUME NEW q, NEW n \in Nat, DOMAIN q = 1..n, \A i, j \in 1..n : q[i] = q[j] => i = j
  PROVE  LET T == {q[i] : i \in DOMAIN q} IN IsFiniteSet(T) /\ Cardinality(T) = n
<1> DEFINE T == {q[i] : i \in DOMAIN q}
           f == [i \in 1..n |-> q[i]]
<1>1. \A i \in 1..n : q[i] \in T
  OBVIOUS
<1>2. \A x \in T : \E i \in 1..n : q[i] = x
  OBVIOUS
<1> HIDE DEF T
<1>3. f \in [1..n -> T] /\ \A i \in 1..n : f[i] = q[i]
  BY <1>1
<1> HIDE DEF f
<1>4. f \in Bijection(1..n, T)
  BY <1>2, <1>3 DEF Bijection, Injection, Surjection, IsInjective
<1>5. ExistsBijection(1..n, T)
  BY <1>4 DEF ExistsBijection
<1> QED BY <1>5, FS_NatBijection, FS_CountingElements DEF T

\* What a turn is told of a reference, given what is shown and what is shown first.
Said(those, ids, first) ==
  IF those = {} THEN "not retained"
  ELSE LET id == (CHOOSE h \in those : TRUE).id
       IN IF id \notin ids THEN "omitted" ELSE IF id = first THEN "reference" ELSE "shown"

\* ReadDigest once the reference is known.
Reading(refs, found, all, reference, context, at) ==
  LET exclude == {reference[i].id : i \in DOMAIN reference}
      placed == Placed(all, at, exclude)
      aside == {h \in Unplaced(all, at, exclude) : Relation(h, context) = "none"}
      related == RankRelated(all, context, exclude \cup {placed[i].id : i \in DOMAIN placed})
      digest == RenderDigest(reference, placed, related, Cardinality(aside))
      shown == {digest.shown[i] : i \in DOMAIN digest.shown}
      State(ref) ==
        IF found[ref] = {} THEN "not retained"
        ELSE LET id == (CHOOSE h \in found[ref] : TRUE).id
             IN IF id \notin shown THEN "omitted"
                ELSE IF id \in exclude /\ digest.shown[1] = id THEN "reference" ELSE "shown"
  IN [shown |-> digest.shown, omitted |-> digest.omitted, chars |-> digest.chars,
      refs |-> [i \in DOMAIN refs |-> State(refs[i])]]

\* What a reading of an archive must count, and say of each reference.
ReadsWell(E, refs, found, context, at) ==
  LET d == ReadDigest(refs, found, E, context, at)
      shown == {d.shown[i] : i \in DOMAIN d.shown}
      competing ==
        {h \in E : \/ \E i \in 1..Len(refs) :
                        h \in found[refs[i]] /\ \A j \in 1..i - 1 : found[refs[j]] = {}
                   \/ at - h.at \in 0..Window
                   \/ h \in About(E, context)}
  IN /\ Len(d.shown) = Cardinality(shown) /\ Len(d.shown) <= MaxEntries
     /\ d.chars <= MaxChars
     /\ \A id \in shown : \E h \in competing : id = h.id
     /\ Cardinality(shown) + d.omitted = Cardinality(competing)
     /\ \A i \in 1..Len(refs) : d.refs[i] = Said(found[refs[i]], shown, d.shown[1])

\* What is read of an archive adds up, and says of each reference what became of it.
LEMMA ReadCounts ==
  ASSUME Roomy, NEW E, Rows(E), \A h \in E : h.size \in Nat, NEW Y, NEW refs \in Seq(Y), NEW found,
         \A i \in 1..Len(refs) : /\ found[refs[i]] \subseteq E
                                 /\ \A g, h \in found[refs[i]] : g = h,
         NEW context, NEW at
  PROVE  ReadsWell(E, refs, found, context, at)
<1> DEFINE d == ReadDigest(refs, found, E, context, at)
           shown == {d.shown[i] : i \in DOMAIN d.shown}
           ours == {h \in E : \E i \in 1..Len(refs) :
                      h \in found[refs[i]] /\ \A j \in 1..i - 1 : found[refs[j]] = {}}
           recent == {h \in E : at - h.at \in 0..Window}
           about == About(E, context)
           competing == {h \in E : \/ \E i \in 1..Len(refs) :
                                        h \in found[refs[i]] /\ \A j \in 1..i - 1 : found[refs[j]] = {}
                                   \/ at - h.at \in 0..Window
                                   \/ h \in About(E, context)}
           some == {i \in DOMAIN refs : found[refs[i]] # {}}
           RowOf(i) == CHOOSE h \in found[refs[i]] : TRUE
           reference == IF some = {} THEN <<>>
                        ELSE <<RowOf(CHOOSE i \in some : \A j \in some : i <= j)>>
           X == {reference[i].id : i \in DOMAIN reference}
           W == InWindow(E, at, X)
           placed == Placed(E, at, X)
           P == {placed[i] : i \in DOMAIN placed}
           aside == {h \in Unplaced(E, at, X) : Relation(h, context) = "none"}
           also == X \cup {placed[i].id : i \in DOMAIN placed}
           related == RankRelated(E, context, also)
           R == {h \in About(E, context) : h.id \notin also}
           extra == Cardinality(aside)
           digest == RenderDigest(reference, placed, related, extra)
           given == {digest.shown[i] : i \in DOMAIN digest.shown}
           State(ref) ==
             IF found[ref] = {} THEN "not retained"
             ELSE LET id == (CHOOSE h \in found[ref] : TRUE).id
                  IN IF id \notin given THEN "omitted"
                     ELSE IF id \in X /\ digest.shown[1] = id THEN "reference" ELSE "shown"
<1>1. /\ Lists(reference, ours) /\ (some # {} => ours # {})
      /\ \A i \in some : RowOf(i) \in found[refs[i]] /\ RowOf(i) \in E
  BY ReferenceIs, Zenon
<1>2. d = Reading(refs, found, E, reference, context, at)
  <2> DEFINE every == E \cup {RowOf(i) : i \in some}
  <2>1. d = Reading(refs, found, every, reference, context, at)
    BY Zenon DEF ReadDigest, Reading
  <2> HIDE DEF some, RowOf, reference, ours
  <2>2. \A i \in some : RowOf(i) \in E
    BY <1>1, Zenon
  <2>3. every = E
    BY <2>2, Zenon
  <2> HIDE DEF every, d, reference
  <2> QED BY <2>1, <2>3, Zenon
<1>3. Reading(refs, found, E, reference, context, at)
        = [shown |-> digest.shown, omitted |-> digest.omitted, chars |-> digest.chars,
           refs |-> [i \in DOMAIN refs |-> State(refs[i])]]
  BY Zenon DEF Reading
<1>4. competing = ours \cup recent \cup about
  BY Zenon DEF About
<1>5. ours \subseteq E /\ recent \subseteq E /\ about \subseteq E
  BY Zenon DEF About
<1>6. /\ W \subseteq E /\ Lists(placed, P) /\ P \subseteq W /\ (W # {} => P # {})
      /\ Unplaced(E, at, X) = W \ P
  <2>1. PlacesSome(E, at, X)
    <3> HIDE DEF X
    <3> QED BY PlacedIs
  <2> HIDE DEF X
  <2> QED BY <2>1, Zenon DEF PlacesSome
<1>7. Lists(related, R)
  <2> HIDE DEF also
  <2> QED BY RelatedIs
<1>8. aside = (W \ P) \ about
  BY <1>5, <1>6, Zenon DEF About
<1>9. W = {h \in recent : h.id \notin X}
  BY Zenon DEF InWindow
<1>10. R = {h \in about : h.id \notin also}
  BY Zenon
<1>11. \A i \in DOMAIN refs : i \in some <=> found[refs[i]] # {}
  BY Zenon
<1>12. \A i \in DOMAIN refs : State(refs[i]) =
         IF found[refs[i]] = {} THEN "not retained"
         ELSE LET id == (CHOOSE h \in found[refs[i]] : TRUE).id
              IN IF id \notin given THEN "omitted"
                 ELSE IF id \in X /\ digest.shown[1] = id THEN "reference" ELSE "shown"
  BY Zenon
<1> HIDE DEF State
<1>13. /\ d.shown = digest.shown /\ d.omitted = digest.omitted /\ d.chars = digest.chars
       /\ \A i \in DOMAIN refs : d.refs[i] = State(refs[i])
  <2> HIDE DEF d, digest, reference
  <2> QED BY <1>2, <1>3
<1> HIDE DEF d, ours, recent, about, competing, some, RowOf, W, aside, related, R, digest
<1>14. {reference[i] : i \in DOMAIN reference} = ours /\ {placed[i] : i \in DOMAIN placed} = P
  <2> HIDE DEF reference, placed, P
  <2> QED BY <1>1, <1>6, Listed
<1>15. X = {h.id : h \in ours} /\ also = X \cup {h.id : h \in P}
  <2> HIDE DEF reference, placed, P
  <2>1. X = {h.id : h \in ours}
    BY <1>14
  <2>2. {placed[i].id : i \in DOMAIN placed} = {h.id : h \in P}
    BY <1>14
  <2> QED BY <2>1, <2>2
<1> HIDE DEF X, also, reference, placed, P
<1>16. \A g, h \in E : g.id = h.id => g = h
  BY DEF Rows
<1>17. W = recent \ ours
  BY <1>5, <1>9, <1>15, <1>16
<1>18. P \subseteq E
  BY <1>6
<1>19. R = (about \ ours) \ P
  BY <1>5, <1>10, <1>15, <1>16, <1>18
<1> DEFINE most == ours \cup P
           all == most \cup R
           joined == reference \o placed
           rows == joined \o related
<1>20. ours \cap P = {} /\ most \cap R = {}
  BY <1>6, <1>17, <1>19
<1>21. Lists(joined, most) /\ (reference # <<>> => joined[1] = reference[1])
  BY <1>1, <1>6, <1>20, ListsJoin
<1> HIDE DEF joined, most
<1>22. Lists(rows, all) /\ (joined # <<>> => rows[1] = joined[1])
  BY <1>7, <1>20, <1>21, ListsJoin
<1> HIDE DEF rows, all
<1>23. /\ all \subseteq E /\ aside \subseteq E /\ all \cap aside = {} /\ competing = all \cup aside
       /\ (all = {} => aside = {}) /\ all \subseteq competing
  <2>1. all = ours \cup P \cup R
    BY DEF all, most
  <2>2. all \subseteq E /\ aside \subseteq E
    BY <1>5, <1>6, <1>8, <1>18, <1>19, <2>1
  <2>3. all \cap aside = {}
    BY <1>8, <1>17, <1>19, <2>1
  <2>4. competing = all \cup aside
    BY <1>4, <1>6, <1>8, <1>17, <1>19, <2>1
  <2>5. all = {} => aside = {}
    BY <1>6, <1>8, <2>1
  <2> QED BY <2>2, <2>3, <2>4, <2>5
<1>24. IsFiniteSet(aside) /\ extra \in Nat /\ (aside = {} => extra = 0)
  <2>1. IsFiniteSet(E) /\ aside \in SUBSET E
    BY <1>23 DEF Rows
  <2>2. IsFiniteSet(aside)
    BY <2>1, FS_Subset
  <2> QED BY <2>2, FS_CardinalityType, FS_EmptySet
<1>25. IsFiniteSet(all) /\ Cardinality(all) = Len(rows) /\ (rows = <<>> <=> all = {})
       /\ (rows = <<>> <=> Len(rows) = 0)
  BY <1>22, Listed
<1>26. Cardinality(competing) = Len(rows) + extra
  <2>1. Cardinality(all \cup aside) = Cardinality(all) + Cardinality(aside) - Cardinality(all \cap aside)
    BY <1>24, <1>25, FS_Union
  <2>2. Cardinality(all \cap aside) = 0
    BY <1>23, FS_EmptySet
  <2>3. Len(rows) \in Nat
    BY <1>22 DEF Lists
  <2> QED BY <1>23, <1>24, <1>25, <2>1, <2>2, <2>3
<1> HIDE DEF extra
<1>27. reference \in Seq(E) /\ placed \in Seq(E) /\ related \in Seq(E)
  <2>1. \A q, A : q \in Seq(A) /\ A \subseteq E => q \in Seq(E)
    OBVIOUS
  <2>2. R \subseteq E
    BY <1>5, <1>19
  <2> QED BY <1>1, <1>5, <1>6, <1>7, <1>18, <2>1, <2>2 DEF Lists
<1>28. PICK candidates : /\ Shows(digest, candidates, extra) /\ Len(candidates) = Len(rows)
                         /\ \A i \in 1..Len(rows) : candidates[i].row = rows[i]
  <2>1. Renders(reference, placed, related, extra)
    <3>1. reference \in Seq(E) /\ placed \in Seq(E) /\ related \in Seq(E) /\ extra \in Nat
      BY <1>24, <1>27, Zenon
    <3>2. \A h \in E : h.size \in Nat
      OBVIOUS
    <3> QED BY <3>1, <3>2, RenderShows
  <2> QED BY <2>1, Zenon DEF Renders, digest, rows, joined
<1> DEFINE N == Len(rows)
           m == Len(digest.shown)
<1>29. /\ m \in 0..N /\ m <= MaxEntries /\ DOMAIN digest.shown = 1..m /\ digest.chars <= MaxChars
       /\ N # 0 => m >= 1 /\ digest.shown[1] = candidates[1].row.id /\ digest.omitted = N - m + extra
       /\ N = 0 => digest.omitted = 0
  BY <1>28 DEF Shows
<1>30. PICK place \in [1..m -> 1..N] :
         /\ \A i \in 1..m : digest.shown[i] = candidates[place[i]].row.id
         /\ \A i, j \in 1..m : place[i] = place[j] => i = j
  BY <1>28 DEF Shows
<1>31. N \in Nat /\ m \in Nat /\ \A i \in 1..N : rows[i] \in all
  <2>1. N \in Nat /\ \A i \in 1..N : rows[i] \in all
    BY <1>22 DEF Lists
  <2> QED BY <1>29, <2>1
<1>32. \A i, j \in 1..N : rows[i] = rows[j] => i = j
  BY <1>22 DEF Lists
<1> HIDE DEF N, m
<1>33. \A i \in 1..m : digest.shown[i] = rows[place[i]].id /\ rows[place[i]] \in all
  <2>1. \A i \in 1..N : candidates[i].row = rows[i]
    BY <1>28 DEF N
  <2> QED BY <1>30, <1>31, <2>1
<1>34. \A i, j \in 1..m : digest.shown[i] = digest.shown[j] => i = j
  <2> SUFFICES ASSUME NEW i \in 1..m, NEW j \in 1..m, digest.shown[i] = digest.shown[j] PROVE i = j
    OBVIOUS
  <2>1. rows[place[i]] = rows[place[j]]
    BY <1>16, <1>23, <1>33
  <2>2. place[i] \in 1..N /\ place[j] \in 1..N
    BY <1>30
  <2>3. place[i] = place[j]
    BY <1>32, <2>1, <2>2
  <2> QED BY <1>30, <2>3
<1>35. Cardinality(given) = m
  BY <1>29, <1>31, <1>34, Different DEF m
<1>36. shown = given
  BY <1>13
<1>37. \A id \in given : \E h \in competing : id = h.id
  <2>1. \A i \in 1..m : digest.shown[i] = rows[place[i]].id /\ rows[place[i]] \in competing
    BY <1>23, <1>33
  <2> SUFFICES ASSUME NEW id \in given PROVE \E h \in competing : id = h.id
    OBVIOUS
  <2>2. PICK i \in 1..m : id = digest.shown[i]
    BY <1>29 DEF m
  <2> HIDE DEF given
  <2>3. id = rows[place[i]].id /\ rows[place[i]] \in competing
    BY <2>1, <2>2
  <2> QED BY <2>3
<1>38. m + digest.omitted = Cardinality(competing)
  <2>1. CASE N = 0
    <3>1. all = {} /\ extra = 0
      BY <1>23, <1>24, <1>25, <2>1 DEF N
    <3>2. m = 0
      BY <1>29, <2>1
    <3> QED BY <1>26, <1>29, <2>1, <3>1, <3>2 DEF N
  <2>2. CASE N # 0
    BY <1>24, <1>26, <1>29, <1>31, <2>2 DEF N
  <2> QED BY <2>1, <2>2
<1>39. ASSUME NEW i \in 1..Len(refs), NEW id \in given, found[refs[i]] # {}, digest.shown[1] = id
       PROVE  id \in X
  <2>1. DOMAIN refs = 1..Len(refs)
    OBVIOUS
  <2>2. ours # {}
    BY <1>1, <1>11, <1>39, <2>1
  <2>3. reference # <<>> /\ joined # <<>>
    <3>1. most # {}
      BY <2>2 DEF most
    <3> QED BY <1>1, <1>21, <2>2, <3>1, Listed
  <2>4. rows[1] = reference[1]
    BY <1>21, <1>22, <2>3
  <2>5. all # {}
    BY <2>2 DEF all, most
  <2>6. N # 0
    BY <1>25, <2>5 DEF N
  <2>7. digest.shown[1] = rows[1].id
    <3>1. 1 \in 1..N
      BY <1>31, <2>6
    <3> QED BY <1>28, <1>29, <2>6, <3>1 DEF N
  <2>8. reference[1] \in ours
    <3>1. Len(reference) \in Nat /\ Len(reference) # 0 /\ \A k \in 1..Len(reference) : reference[k] \in ours
      BY <1>1, <2>3, Listed DEF Lists
    <3> QED BY <3>1
  <2> QED BY <1>15, <1>39, <2>4, <2>7, <2>8
<1>40. ASSUME NEW i \in 1..Len(refs) PROVE d.refs[i] = Said(found[refs[i]], given, digest.shown[1])
  <2>1. i \in DOMAIN refs
    OBVIOUS
  <2> DEFINE id == (CHOOSE h \in found[refs[i]] : TRUE).id
  <2>2. found[refs[i]] # {} /\ id \in given => (id \in X /\ digest.shown[1] = id <=> id = digest.shown[1])
    BY <1>39, Zenon
  <2>3. d.refs[i] = IF found[refs[i]] = {} THEN "not retained"
                    ELSE IF id \notin given THEN "omitted"
                    ELSE IF id \in X /\ digest.shown[1] = id THEN "reference" ELSE "shown"
    BY <1>12, <1>13, <2>1, Zenon
  <2>4. Said(found[refs[i]], given, digest.shown[1])
          = IF found[refs[i]] = {} THEN "not retained"
            ELSE IF id \notin given THEN "omitted"
            ELSE IF id = digest.shown[1] THEN "reference" ELSE "shown"
    BY Zenon DEF Said
  <2> HIDE DEF id, given
  <2>5. CASE found[refs[i]] = {}
    BY <2>3, <2>4, <2>5, Zenon
  <2>6. CASE found[refs[i]] # {} /\ id \notin given
    BY <2>3, <2>4, <2>6, Zenon
  <2>7. CASE found[refs[i]] # {} /\ id \in given /\ id = digest.shown[1]
    BY <2>2, <2>3, <2>4, <2>7, Zenon
  <2>8. CASE found[refs[i]] # {} /\ id \in given /\ id # digest.shown[1]
    BY <2>2, <2>3, <2>4, <2>8, Zenon
  <2> QED BY <2>5, <2>6, <2>7, <2>8, Zenon
<1>41. /\ Len(d.shown) = Cardinality(shown) /\ Len(d.shown) <= MaxEntries /\ d.chars <= MaxChars
       /\ \A id \in shown : \E h \in competing : id = h.id
       /\ Cardinality(shown) + d.omitted = Cardinality(competing)
       /\ \A i \in 1..Len(refs) : d.refs[i] = Said(found[refs[i]], shown, d.shown[1])
  <2> HIDE DEF shown, given
  <2> QED BY <1>13, <1>29, <1>35, <1>36, <1>37, <1>38, <1>40 DEF m
<1> QED BY <1>41, Zenon DEF ReadsWell, d, shown, competing

-----------------------------------------------------------------------------
(* The reads.                                                              *)

\* What the recall leaves out is the least that lets the rest fit, and never everything.
LEMMA OmittedIs ==
  ASSUME StoreAssumption, NEW S, NEW facts \in Seq(S)
  PROVE  /\ Omitted(facts) \in 0..Len(facts)
         /\ Len(facts) # 0 => Omitted(facts) # Len(facts)
         /\ \/ (Len(facts) - Omitted(facts)) * FactChars <= RecallChars
            \/ Len(facts) - Omitted(facts) = 1
<1> DEFINE L == Len(facts)
           Fits(n) == \/ FactChars * (L - n) + (IF n > 0 THEN MarkChars ELSE 0) <= RecallChars
                      \/ n >= L - 1
           Least(n) == Fits(n) /\ \A m \in 0..n - 1 : ~Fits(m)
           omitted == CHOOSE n \in 0..L : Least(n)
           fitting == {n \in 0..L : Fits(n)}
<1>1. Omitted(facts) = omitted
  BY Zenon DEF Omitted
<1>2. L \in Nat /\ FactChars \in Nat /\ RecallChars \in Nat /\ MarkChars \in Nat
  BY DigestAssumption DEF StoreAssumption, DigestAssumption
<1> HIDE DEF L
<1>3. Fits(L) /\ (L # 0 => Fits(L - 1))
  BY <1>2
<1>4. \A n \in 0..L : Fits(n) => \/ FactChars * (L - n) <= RecallChars \/ n >= L - 1
  <2> SUFFICES ASSUME NEW n \in 0..L, FactChars * (L - n) + (IF n > 0 THEN MarkChars ELSE 0) <= RecallChars
               PROVE  FactChars * (L - n) <= RecallChars
    OBVIOUS
  <2> DEFINE product == FactChars * (L - n)
  <2>1. product \in Int
    BY <1>2
  <2>2. product + (IF n > 0 THEN MarkChars ELSE 0) <= RecallChars
    OBVIOUS
  <2> HIDE DEF product
  <2>3. product <= RecallChars
    BY <1>2, <2>1, <2>2
  <2> QED BY <2>3 DEF product
<1> HIDE DEF Fits
<1>5. \E n \in 0..L : Least(n)
  <2>1. fitting \in SUBSET Nat /\ L \in fitting
    BY <1>2, <1>3
  <2>2. PICK n \in fitting : \A m \in fitting : <<m, n>> \notin OpToRel(<, Nat)
    BY <2>1, NatLessThanWellFounded, WFMin
  <2>3. \A m \in fitting : ~(m < n)
    BY <2>1, <2>2 DEF OpToRel
  <2>4. n \in 0..L /\ Fits(n)
    BY <2>2
  <2>5. \A m \in 0..n - 1 : ~Fits(m)
    <3> SUFFICES ASSUME NEW m \in 0..n - 1, Fits(m) PROVE FALSE
      OBVIOUS
    <3>1. m \in 0..L /\ m < n
      BY <1>2, <2>4
    <3> QED BY <2>3, <3>1
  <2> QED BY <2>4, <2>5
<1>6. omitted \in 0..L /\ Least(omitted)
  <2> HIDE DEF Least
  <2> QED BY <1>5
<1> HIDE DEF omitted
<1>7. L # 0 => omitted # L
  <2> SUFFICES ASSUME L # 0, omitted = L PROVE FALSE
    OBVIOUS
  <2>1. L - 1 \in 0..omitted - 1
    BY <1>2
  <2> QED BY <1>3, <1>6, <2>1
<1>8. FactChars * (L - omitted) <= RecallChars \/ omitted >= L - 1
  BY <1>4, <1>6
<1>9. (L - omitted) * FactChars <= RecallChars \/ L - omitted = 1
  <2>1. CASE FactChars * (L - omitted) <= RecallChars
    <3>1. FactChars * (L - omitted) = (L - omitted) * FactChars
      BY <1>2, <1>6
    <3> QED BY <2>1, <3>1
  <2>2. CASE omitted >= L - 1
    <3>1. omitted = L - 1 \/ omitted = L
      BY <1>2, <1>6, <2>2
    <3>2. CASE omitted = L - 1
      BY <1>2, <3>2
    <3>3. CASE omitted = L
      <4>1. L = 0 /\ (L - omitted) * FactChars = 0
        BY <1>2, <1>7, <3>3
      <4> QED BY <1>2, <4>1
    <3> QED BY <3>1, <3>2, <3>3
  <2> QED BY <1>8, <2>1, <2>2
<1> QED BY <1>1, <1>6, <1>7, <1>9 DEF L

\* What a recall and a page of the inbox say of a file.
RecallAdds(a, t) ==
  LET shown == {a.shown[i] : i \in DOMAIN a.shown}
  IN /\ shown \subseteq t.memories /\ Cardinality(shown) + a.omitted = Cardinality(t.memories)
     /\ \A kept \in shown : \A left \in t.memories \ shown : Newer(kept, left)
     /\ t.memories # {} => shown # {}
     /\ Len(a.shown) * FactChars <= RecallChars \/ Len(a.shown) = 1
PageAdds(a, t) ==
  LET shown == {a.shown[i] : i \in DOMAIN a.shown}
      open == {i \in t.inbox : i.status = "open"}
  IN /\ shown \subseteq open /\ Cardinality(shown) + a.omitted = Cardinality(open)
     /\ \A kept \in shown : \A left \in open \ shown : Newer(left, kept)
     /\ open # {} => shown # {}

\* Rows oldest first, and those of them from a to b: what is left is older or newer.
PartByAges(q, S, a, b) ==
  LET p == SubSeq(q, a, b)
      P == {p[i] : i \in DOMAIN p}
  IN /\ P \subseteq S /\ Len(p) = b - a + 1 /\ Cardinality(P) = b - a + 1
     /\ (P = {} <=> b = a - 1)
     /\ b = Cardinality(S) => \A kept \in P : \A left \in S \ P : Newer(kept, left)
     /\ a = 1 => \A kept \in P : \A left \in S \ P : Newer(left, kept)

LEMMA PartByAge ==
  ASSUME NEW S, Rows(S), NEW q, Line(q, S, Under(S)),
         NEW a \in 1..Cardinality(S) + 1, NEW b \in a - 1..Cardinality(S)
  PROVE  PartByAges(q, S, a, b)
<1> DEFINE p == SubSeq(q, a, b)
           P == {p[i] : i \in DOMAIN p}
           N == Cardinality(S)
           below == Under(S)
<1>1. Line(q, S, below) /\ Linear(S, below)
  BY Linearly
<1>2. N \in Nat
  BY FS_CardinalityType DEF Rows
<1>3. Len(q) = N
  BY <1>1 DEF Line
<1>4. \A r \in S : below[r] = {s \in S : Newer(r, s)}
  BY DEF Under
<1> HIDE DEF below
<1>5. a \in 1..Len(q) + 1 /\ b \in a - 1..Len(q)
  BY <1>3
<1>6. /\ Lists(p, P) /\ Len(p) = b - a + 1 /\ P \subseteq S
      /\ \A m \in P : \E i \in a..b : m = q[i]
      /\ \A m \in S \ P : \E i \in 1..Len(q) : m = q[i] /\ (i < a \/ i > b)
  <2>1. PartWell(q, S, a, b)
    BY <1>1, <1>5, PartOf
  <2> QED BY <2>1, Zenon DEF PartWell
<1> HIDE DEF p, P, N
<1>7. Cardinality(P) = b - a + 1 /\ (P = {} <=> b - a + 1 = 0)
  BY <1>6, Listed
<1>8. \A i, j \in 1..N : i < j => q[i] \in S /\ q[j] \in S /\ Newer(q[j], q[i])
  <2> SUFFICES ASSUME NEW i \in 1..N, NEW j \in 1..N, i < j
               PROVE  q[i] \in S /\ q[j] \in S /\ Newer(q[j], q[i])
    OBVIOUS
  <2>1. q[i] \in S /\ q[j] \in S /\ q[i] \in below[q[j]]
    BY <1>1, <1>3 DEF Line
  <2> QED BY <1>4, <2>1
<1>9. a \in Int /\ b \in Int /\ a >= 1 /\ b <= N /\ a - 1 <= b
  BY <1>2, <1>3, <1>5
<1>10. ASSUME NEW kept \in P, NEW left \in S \ P
       PROVE  (b = N => Newer(kept, left)) /\ (a = 1 => Newer(left, kept))
  <2>1. PICK i \in a..b : kept = q[i]
    BY <1>6
  <2>2. PICK j \in 1..N : left = q[j] /\ (j < a \/ j > b)
    BY <1>3, <1>6
  <2>3. i \in 1..N
    BY <1>2, <1>9
  <2>4. b = N => j < i
    BY <1>2, <1>9, <2>2
  <2>5. a = 1 => i < j
    BY <1>2, <1>9, <2>2
  <2> QED BY <1>8, <2>1, <2>2, <2>3, <2>4, <2>5
<1>11. P = {} <=> b = a - 1
  BY <1>7, <1>9
<1>12. /\ P \subseteq S /\ Len(p) = b - a + 1 /\ Cardinality(P) = b - a + 1
       /\ (P = {} <=> b = a - 1)
       /\ b = N => \A kept \in P : \A left \in S \ P : Newer(kept, left)
       /\ a = 1 => \A kept \in P : \A left \in S \ P : Newer(left, kept)
  BY <1>6, <1>7, <1>10, <1>11
<1> QED BY <1>12, Zenon DEF PartByAges, p, P, N

\* A page of a file's open items.
OpenPageOf(t, limit) ==
  LET Older(a, b) == Newer(b, a)
      open == InOrder({i \in t.inbox : i.status = "open"}, Older)
      newer == IF Len(open) > limit THEN Len(open) - limit ELSE 0
  IN [told |-> "inbox", omitted |-> newer, shown |-> SubSeq(open, 1, Len(open) - newer)]

\* The rows of a file's tables.
LEMMA TablesAreRows ==
  ASSUME NEW t, IsFile(t)
  PROVE  /\ Rows(t.memories) /\ Rows(t.inbox) /\ Rows(t.handoffs)
         /\ \A S : S \subseteq t.memories \/ S \subseteq t.inbox \/ S \subseteq t.handoffs => Rows(S)
<1>1. \A table \in Tables : /\ IsFiniteSet(t[table])
                            /\ \A r \in t[table] : r.id \in 1..t.last[table]
                            /\ \A r, s \in t[table] : r.id = s.id => r = s
  BY DEF IsFile
<1>2. t.last \in [Tables -> Nat] /\ Tables = {"memories", "inbox", "handoffs"}
  BY DEF IsFile, Tables
<1>3. \A r \in t.memories : r.at \in Int
  BY DEF IsFile
<1>4. \A r \in t.inbox : r.at \in Int
  BY DEF IsFile
<1>5. \A r \in t.handoffs : r.at \in Int
  BY DEF IsFile
<1>6. Rows(t.memories)
  BY <1>1, <1>2, <1>3 DEF Rows
<1>7. Rows(t.inbox)
  BY <1>1, <1>2, <1>4 DEF Rows
<1>8. Rows(t.handoffs)
  BY <1>1, <1>2, <1>5 DEF Rows
<1>9. ASSUME NEW S, NEW T, S \subseteq T, Rows(T)
      PROVE  Rows(S)
  <2>1. IsFiniteSet(S)
    BY <1>9, FS_Subset DEF Rows
  <2> QED BY <1>9, <2>1 DEF Rows
<1> QED BY <1>6, <1>7, <1>8, <1>9

\* What a recall gives.
Recalled(t) ==
  LET Older(a, b) == Newer(b, a)
      facts == InOrder(t.memories, Older)
      omitted == Omitted(facts)
  IN [told |-> "recall", omitted |-> omitted, shown |-> SubSeq(facts, omitted + 1, Len(facts))]

LEMMA RecallCounts ==
  ASSUME StoreAssumption, NEW t, IsFile(t)
  PROVE  Recalled(t).told = "recall" /\ RecallAdds(Recalled(t), t)
<1> DEFINE Older(a, b) == Newer(b, a)
           S == t.memories
           facts == InOrder(S, Older)
           N == Cardinality(S)
           omitted == Omitted(facts)
           p == SubSeq(facts, omitted + 1, Len(facts))
           P == {p[i] : i \in DOMAIN p}
           a == Recalled(t)
<1>1. Rows(S)
  BY TablesAreRows
<1>2. facts = [n \in 1..Cardinality(S) |->
                 CHOOSE r \in S : Cardinality({s \in S : Newer(r, s)}) = n - 1]
  BY Zenon DEF InOrder
<1>3. a = [told |-> "recall", omitted |-> omitted, shown |-> p]
  BY Zenon DEF Recalled
<1> HIDE DEF facts, S, a
<1>4. Line(facts, S, Under(S))
  BY <1>1, <1>2, OldestFirst
<1>5. facts \in Seq(S) /\ Len(facts) = N
  BY <1>4 DEF Line
<1>6. N \in Nat
  BY <1>1, FS_CardinalityType DEF Rows
<1>7. /\ omitted \in 0..N /\ (N # 0 => omitted # N)
      /\ (N - omitted) * FactChars <= RecallChars \/ N - omitted = 1
  BY <1>5, OmittedIs
<1> HIDE DEF omitted
<1>8. PartByAges(facts, S, omitted + 1, N)
  <2>1. omitted + 1 \in 1..N + 1 /\ N \in (omitted + 1) - 1..N
    BY <1>6, <1>7
  <2> QED BY <1>1, <1>4, <2>1, PartByAge
<1>9. /\ P \subseteq S /\ Len(p) = N - (omitted + 1) + 1 /\ Cardinality(P) = N - (omitted + 1) + 1
      /\ (P = {} <=> N = (omitted + 1) - 1)
      /\ \A kept \in P : \A left \in S \ P : Newer(kept, left)
  BY <1>5, <1>8, Zenon DEF PartByAges
<1> HIDE DEF p, P
<1>10. /\ P \subseteq S /\ Cardinality(P) + omitted = N
       /\ \A kept \in P : \A left \in S \ P : Newer(kept, left)
       /\ Len(p) * FactChars <= RecallChars \/ Len(p) = 1
  <2>1. Len(p) = N - omitted
    BY <1>6, <1>7, <1>9
  <2>2. Cardinality(P) + omitted = N
    BY <1>6, <1>7, <1>9
  <2> QED BY <1>7, <1>9, <2>1, <2>2
<1>11. S # {} => P # {}
  <2>1. S # {} => N # 0
    BY <1>1, FS_EmptySet DEF Rows
  <2> QED BY <1>6, <1>7, <1>9, <2>1
<1>12. a.told = "recall" /\ a.omitted = omitted /\ a.shown = p
  BY <1>3
<1>13. P = {a.shown[i] : i \in DOMAIN a.shown}
  BY <1>12 DEF P
<1> QED BY <1>10, <1>11, <1>12, <1>13, Zenon DEF RecallAdds, S, N, a

\* A page of the open items: of at least one, unless none is open.
LEMMA PageCounts ==
  ASSUME NEW t, IsFile(t), NEW limit \in Nat,
         {i \in t.inbox : i.status = "open"} # {} => limit >= 1
  PROVE  OpenPageOf(t, limit).told = "inbox" /\ PageAdds(OpenPageOf(t, limit), t)
<1> DEFINE Older(a, b) == Newer(b, a)
           S == {i \in t.inbox : i.status = "open"}
           items == InOrder(S, Older)
           N == Cardinality(S)
           newer == IF Len(items) > limit THEN Len(items) - limit ELSE 0
           p == SubSeq(items, 1, Len(items) - newer)
           P == {p[i] : i \in DOMAIN p}
           a == OpenPageOf(t, limit)
<1>1. Rows(S)
  BY TablesAreRows
<1>2. items = [n \in 1..Cardinality(S) |->
                 CHOOSE r \in S : Cardinality({s \in S : Newer(r, s)}) = n - 1]
  BY Zenon DEF InOrder
<1>3. a = [told |-> "inbox", omitted |-> newer, shown |-> p]
  BY Zenon DEF OpenPageOf
<1>0. S # {} => limit >= 1
  OBVIOUS
<1> HIDE DEF items, S, a
<1>4. Line(items, S, Under(S))
  BY <1>1, <1>2, OldestFirst
<1>5. Len(items) = N
  BY <1>4 DEF Line
<1>6. N \in Nat /\ (S # {} => N # 0)
  BY <1>1, FS_CardinalityType, FS_EmptySet DEF Rows
<1>7. newer \in 0..N /\ (limit >= 1 /\ N # 0 => newer # N)
  BY <1>5, <1>6
<1> HIDE DEF newer
<1>8. PartByAges(items, S, 1, N - newer)
  <2>1. 1 \in 1..N + 1 /\ N - newer \in 1 - 1..N
    BY <1>6, <1>7
  <2> QED BY <1>1, <1>4, <2>1, PartByAge
<1>9. /\ P \subseteq S /\ Cardinality(P) = N - newer - 1 + 1
      /\ (P = {} <=> N - newer = 1 - 1)
      /\ \A kept \in P : \A left \in S \ P : Newer(left, kept)
  BY <1>5, <1>8, Zenon DEF PartByAges
<1> HIDE DEF p, P
<1>10. Cardinality(P) + newer = N /\ (S # {} => P # {})
  BY <1>0, <1>6, <1>7, <1>9
<1>12. a.told = "inbox" /\ a.omitted = newer /\ a.shown = p
  BY <1>3
<1>13. P = {a.shown[i] : i \in DOMAIN a.shown}
  BY <1>12 DEF P
<1> QED BY <1>9, <1>10, <1>12, <1>13, Zenon DEF PageAdds, S, N, a

\* What a turn is told of a reference and counted among, given the rows within retention:
\* as CountsDigest states it.
FoundIn(E, ref) ==
  LET those == {h \in E : ref # NoId /\ h.mid = ref}
  IN {h \in those : \A other \in those \ {h} : Newer(h, other)}
NamedIn(E, ref) ==
  {h \in E : /\ h.mid = ref /\ h.mid # NoId
             /\ \A other \in E : other.mid = h.mid => ~Newer(other, h)}
Told(those, ids, first) ==
  IF those = {} THEN "not retained"
  ELSE IF \E h \in those : h.id \notin ids THEN "omitted"
  ELSE IF \E h \in those : h.id = first THEN "reference"
  ELSE "shown"
Competing(E, refs, about, at) ==
  {h \in E :
     \/ \E i \in DOMAIN refs : h \in NamedIn(E, refs[i]) /\ \A j \in 1..i - 1 : NamedIn(E, refs[j]) = {}
     \/ at - h.at \in 0..Window
     \/ h.keys \cap about.keys # {} \/ h.rules \cap about.rules # {}
     \/ h.nodes \cap about.nodes # {}}
Retained(t, at) == {h \in t.handoffs : at - h.at <= MaxAge}
CountsIn(t, at, turn, digest) ==
  LET shown == {digest.shown[i] : i \in DOMAIN digest.shown}
      competing == Competing(Retained(t, at), turn.refs, Context(turn.events), at)
  IN /\ Len(digest.shown) = Cardinality(shown) /\ Len(digest.shown) <= MaxEntries
     /\ digest.chars <= MaxChars
     /\ shown \subseteq {h.id : h \in competing}
     /\ Cardinality(shown) + digest.omitted = Cardinality(competing)
     /\ \A i \in DOMAIN turn.refs :
          digest.refs[i] = Told(NamedIn(Retained(t, at), turn.refs[i]), shown, digest.shown[1])
Digest(t, at, turn) ==
  LET eligible == {h \in t.handoffs : h.at >= at - MaxAge}
      found == [ref \in {turn.refs[i] : i \in DOMAIN turn.refs} |-> FoundIn(eligible, ref)]
  IN ReadDigest(turn.refs, found, eligible, Context(turn.events), at)

LEMMA FoundIsNamed ==
  ASSUME NEW E, Rows(E), NEW ref
  PROVE  /\ FoundIn(E, ref) = NamedIn(E, ref) /\ FoundIn(E, ref) \subseteq E
         /\ \A g, h \in FoundIn(E, ref) : g = h
<1>1. /\ \A r, s \in E : r = s \/ Newer(r, s) \/ Newer(s, r)
      /\ \A r, s \in E : Newer(r, s) => ~Newer(s, r)
      /\ \A r \in E : ~Newer(r, r)
  BY NewerOrders
<1>2. \A h \in E : h \in FoundIn(E, ref) <=>
        /\ h.mid = ref /\ ref # NoId
        /\ \A other \in E : other.mid = ref /\ other # h => Newer(h, other)
  BY Zenon DEF FoundIn
<1>3. \A h \in E : h \in NamedIn(E, ref) <=>
        /\ h.mid = ref /\ h.mid # NoId
        /\ \A other \in E : other.mid = h.mid => ~Newer(other, h)
  BY Zenon DEF NamedIn
<1>4. FoundIn(E, ref) \subseteq E /\ NamedIn(E, ref) \subseteq E
  BY Zenon DEF FoundIn, NamedIn
<1>5. \A h \in E : h \in FoundIn(E, ref) <=> h \in NamedIn(E, ref)
  BY <1>1, <1>2, <1>3
<1>6. \A g, h \in FoundIn(E, ref) : g = h
  BY <1>1, <1>2, <1>4
<1> QED BY <1>4, <1>5, <1>6

LEMMA SaidIsTold ==
  ASSUME NEW those, \A g, h \in those : g = h, NEW ids, NEW first
  PROVE  Said(those, ids, first) = Told(those, ids, first)
<1> DEFINE row == CHOOSE h \in those : TRUE
<1>1. Said(those, ids, first) =
        IF those = {} THEN "not retained"
        ELSE IF row.id \notin ids THEN "omitted" ELSE IF row.id = first THEN "reference" ELSE "shown"
  BY Zenon DEF Said
<1>2. those # {} => row \in those /\ \A h \in those : h = row
  BY Zenon
<1> HIDE DEF row
<1>3. those # {} => /\ (\E h \in those : h.id \notin ids) <=> row.id \notin ids
                    /\ (\E h \in those : h.id = first) <=> row.id = first
  BY <1>2, Zenon
<1>4. CASE those = {}
  BY <1>1, <1>4, Zenon DEF Told
<1>5. CASE those # {} /\ row.id \notin ids
  BY <1>1, <1>3, <1>5, Zenon DEF Told
<1>6. CASE those # {} /\ row.id \in ids /\ row.id = first
  BY <1>1, <1>3, <1>6, Zenon DEF Told
<1>7. CASE those # {} /\ row.id \in ids /\ row.id # first
  BY <1>1, <1>3, <1>7, Zenon DEF Told
<1> QED BY <1>4, <1>5, <1>6, <1>7, Zenon

LEMMA AboutIs ==
  ASSUME NEW E, NEW context, NEW h \in E
  PROVE  h \in About(E, context) <=> \/ h.keys \cap context.keys # {}
                                     \/ h.rules \cap context.rules # {}
                                     \/ h.nodes \cap context.nodes # {}
<1>1. /\ "same identity" # "none" /\ "same rule" # "none" /\ "same node" # "none"
  BY Zenon
<1>2. h \in About(E, context) <=> Relation(h, context) # "none"
  BY Zenon DEF About
<1>3. CASE h.keys \cap context.keys # {}
  BY <1>1, <1>2, <1>3, Zenon DEF Relation
<1>4. CASE h.keys \cap context.keys = {} /\ h.rules \cap context.rules # {}
  BY <1>1, <1>2, <1>4, Zenon DEF Relation
<1>5. CASE h.keys \cap context.keys = {} /\ h.rules \cap context.rules = {}
           /\ h.nodes \cap context.nodes # {}
  BY <1>1, <1>2, <1>5, Zenon DEF Relation
<1>6. CASE h.keys \cap context.keys = {} /\ h.rules \cap context.rules = {}
           /\ h.nodes \cap context.nodes = {}
  BY <1>2, <1>6, Zenon DEF Relation
<1> QED BY <1>3, <1>4, <1>5, <1>6, Zenon

\* Every hand-off of a file has a size.
Sized(t) == \A h \in t.handoffs : h.size \in Nat

LEMMA DigestCounts ==
  ASSUME StoreAssumption, Roomy, NEW t, IsFile(t), Sized(t), NEW at \in Int,
         NEW turn, NEW Y, turn.refs \in Seq(Y)
  PROVE  CountsIn(t, at, turn, Digest(t, at, turn))
<1> DEFINE refs == turn.refs
           E == {h \in t.handoffs : h.at >= at - MaxAge}
           context == Context(turn.events)
           found == [ref \in {refs[i] : i \in DOMAIN refs} |-> FoundIn(E, ref)]
           d == ReadDigest(refs, found, E, context, at)
           shown == {d.shown[i] : i \in DOMAIN d.shown}
           all == Competing(E, refs, context, at)
           competing ==
             {h \in E : \/ \E i \in 1..Len(refs) :
                             h \in found[refs[i]] /\ \A j \in 1..i - 1 : found[refs[j]] = {}
                        \/ at - h.at \in 0..Window
                        \/ h \in About(E, context)}
<1>1. Digest(t, at, turn) = d
  BY Zenon DEF Digest
<1>2. Rows(E) /\ \A h \in E : h.size \in Nat
  BY TablesAreRows DEF Sized
<1>3. Retained(t, at) = E
  <2>1. \A h \in t.handoffs : h.at \in Int
    BY TablesAreRows DEF Rows
  <2>2. MaxAge \in Nat
    BY DEF StoreAssumption
  <2> QED BY <2>1, <2>2 DEF Retained
<1>4. refs \in Seq(Y) /\ Len(refs) \in Nat /\ DOMAIN refs = 1..Len(refs)
  OBVIOUS
<1> HIDE DEF refs, E
<1>5. \A i \in 1..Len(refs) : found[refs[i]] = FoundIn(E, refs[i])
  BY <1>4
<1>6. \A i \in 1..Len(refs) : /\ found[refs[i]] = NamedIn(E, refs[i]) /\ found[refs[i]] \subseteq E
                              /\ \A g, h \in found[refs[i]] : g = h
  BY <1>2, <1>5, FoundIsNamed
<1> HIDE DEF found, context
<1>7. ReadsWell(E, refs, found, context, at)
  BY <1>2, <1>4, <1>6, ReadCounts
<1>8. /\ Len(d.shown) = Cardinality(shown) /\ Len(d.shown) <= MaxEntries
      /\ d.chars <= MaxChars
      /\ \A id \in shown : \E h \in competing : id = h.id
      /\ Cardinality(shown) + d.omitted = Cardinality(competing)
      /\ \A i \in 1..Len(refs) : d.refs[i] = Said(found[refs[i]], shown, d.shown[1])
  BY <1>7, Zenon DEF ReadsWell
<1> HIDE DEF d, shown
<1>9. competing = all
  <2>1. ASSUME NEW h \in E PROVE h \in competing <=> h \in all
    <3> DEFINE first(i) == h \in NamedIn(E, refs[i]) /\ \A j \in 1..i - 1 : NamedIn(E, refs[j]) = {}
    <3>1. (\E i \in 1..Len(refs) : h \in found[refs[i]] /\ \A j \in 1..i - 1 : found[refs[j]] = {})
            <=> \E i \in DOMAIN refs : first(i)
      <4>1. \A i \in 1..Len(refs) : \A j \in 1..i - 1 : j \in 1..Len(refs)
        BY <1>4
      <4>2. \A i \in 1..Len(refs) : (\A j \in 1..i - 1 : found[refs[j]] = {})
                                   <=> \A j \in 1..i - 1 : NamedIn(E, refs[j]) = {}
        <5> HIDE DEF first, E
        <5>1. \A i \in 1..Len(refs) : found[refs[i]] = NamedIn(E, refs[i])
          BY <1>6
        <5> QED BY <4>1, <5>1, Zenon
      <4>3. ASSUME NEW i \in 1..Len(refs)
            PROVE  h \in found[refs[i]] /\ (\A j \in 1..i - 1 : found[refs[j]] = {}) <=> first(i)
        <5> DEFINE those == NamedIn(E, refs[i])
        <5>1. found[refs[i]] = those
          BY <1>6
        <5>2. first(i) <=> h \in those /\ \A j \in 1..i - 1 : NamedIn(E, refs[j]) = {}
          BY Zenon
        <5> HIDE DEF first, those
        <5> QED BY <4>2, <5>1, <5>2, Zenon
      <4> HIDE DEF first
      <4> QED BY <1>4, <4>3, Zenon
    <3> HIDE DEF first
    <3>2. h \in competing <=> \/ \E i \in DOMAIN refs : first(i)
                              \/ at - h.at \in 0..Window \/ h \in About(E, context)
      BY <3>1, Zenon
    <3>3. h \in all <=> \/ \E i \in DOMAIN refs : first(i)
                        \/ at - h.at \in 0..Window
                        \/ h.keys \cap context.keys # {} \/ h.rules \cap context.rules # {}
                        \/ h.nodes \cap context.nodes # {}
      BY Zenon DEF Competing, first
    <3> QED BY <3>2, <3>3, AboutIs, Zenon
  <2>2. competing \subseteq E /\ all \subseteq E
    BY Zenon DEF Competing
  <2> HIDE DEF competing, all
  <2> QED BY <2>1, <2>2, Zenon
<1> HIDE DEF competing, all
<1>10. \A i \in DOMAIN refs : d.refs[i] = Told(NamedIn(E, refs[i]), shown, d.shown[1])
  <2> SUFFICES ASSUME NEW i \in 1..Len(refs)
               PROVE  d.refs[i] = Told(NamedIn(E, refs[i]), shown, d.shown[1])
    BY <1>4
  <2> DEFINE those == found[refs[i]]
  <2>1. those = NamedIn(E, refs[i]) /\ \A g, h \in those : g = h
    BY <1>6
  <2>2. d.refs[i] = Said(those, shown, d.shown[1])
    BY <1>8
  <2> HIDE DEF those
  <2>3. Said(those, shown, d.shown[1]) = Told(those, shown, d.shown[1])
    BY <2>1, SaidIsTold
  <2> QED BY <2>1, <2>2, <2>3
<1>11. shown \subseteq {h.id : h \in all}
  BY <1>8, <1>9
<1>12. CountsIn(t, at, turn, d)
  <2>1. /\ Len(d.shown) = Cardinality(shown) /\ Len(d.shown) <= MaxEntries /\ d.chars <= MaxChars
        /\ shown \subseteq {h.id : h \in all}
        /\ Cardinality(shown) + d.omitted = Cardinality(all)
        /\ \A i \in DOMAIN refs : d.refs[i] = Told(NamedIn(E, refs[i]), shown, d.shown[1])
    BY <1>8, <1>9, <1>10, <1>11
  <2>2. /\ Retained(t, at) = E /\ turn.refs = refs /\ Context(turn.events) = context
        /\ shown = {d.shown[i] : i \in DOMAIN d.shown}
        /\ all = Competing(E, refs, context, at)
    BY <1>3 DEF refs, context, shown, all
  <2> QED BY <2>1, <2>2, Zenon DEF CountsIn
<1> QED BY <1>1, <1>12

\* A call that keeps a hand-off brings its size.
SizedCall(c) == c.verb = "retain" => c.size \in Nat

LEMMA EffectSized ==
  ASSUME StoreAssumption, NEW c, CallOK(c), SizedCall(c), NEW t, IsFile(t), Sized(t),
         NEW statement \in Statements,
         statement = "remember" => c.verb \in {"/remember", "store_memory", "both"},
         statement = "retain" => c.verb = "retain"
  PROVE  IsFile(Effect(statement, c, t)) /\ Sized(Effect(statement, c, t))
<1> DEFINE u == Effect(statement, c, t)
<1>1. /\ IsFile(u)
      /\ \A h \in u.handoffs : h \in t.handoffs \/ (h.size = Bounded(c.size) /\ statement = "retain")
  BY EffectKeeps
<1> HIDE DEF u
<1>2. c.size \in Nat => Bounded(c.size) \in Nat
  BY DEF Bounded, StoreAssumption
<1>3. \A h \in u.handoffs : h.size \in Nat
  BY <1>1, <1>2 DEF Sized, SizedCall
<1> QED BY <1>1, <1>3 DEF Sized, u

LEMMA WholeSized ==
  ASSUME StoreAssumption, NEW c, CallOK(c), SizedCall(c), NEW t, IsFile(t), Sized(t)
  PROVE  Sized(Whole(c, t))
<1>1. \A f : \A statement \in {"trim", "forget", "capture", "mark", "prune_age", "prune_count"} :
        IsFile(f) /\ Sized(f) => IsFile(Effect(statement, c, f)) /\ Sized(Effect(statement, c, f))
  BY EffectSized DEF Statements
<1>2. CASE c.verb \in {"/remember", "store_memory"}
  <2> DEFINE u == Effect("remember", c, t)
  <2>1. IsFile(u) /\ Sized(u)
    BY <1>2, EffectSized DEF Statements
  <2>2. Whole(c, t) = Effect("trim", c, u)
    BY <1>2 DEF Whole
  <2> HIDE DEF u
  <2> QED BY <1>1, <2>1, <2>2
<1>3. CASE c.verb \in {"/forget", "capture", "/inbox_done"}
  <2>1. Whole(c, t) \in {Effect("forget", c, t), Effect("capture", c, t), Effect("mark", c, t)}
    BY <1>3 DEF Whole
  <2> QED BY <1>1, <2>1
<1>4. CASE c.verb = "retain"
  <2> DEFINE u == Effect("retain", c, t)
             w == Effect("prune_age", c, u)
  <2>1. IsFile(u) /\ Sized(u)
    BY <1>4, EffectSized DEF Statements
  <2>2. Whole(c, t) = Effect("prune_count", c, w)
    BY <1>4 DEF Whole
  <2> HIDE DEF u
  <2>3. IsFile(w) /\ Sized(w)
    BY <1>1, <2>1
  <2> HIDE DEF w
  <2> QED BY <1>1, <2>2, <2>3
<1>5. CASE c.verb = "both"
  <2> DEFINE u == Effect("capture", c, t)
             w == Effect("remember", c, u)
  <2>1. IsFile(u) /\ Sized(u)
    BY <1>1
  <2>2. Whole(c, t) = Effect("trim", c, w)
    BY <1>5 DEF Whole
  <2> HIDE DEF u
  <2>3. IsFile(w) /\ Sized(w)
    BY <1>5, <2>1, EffectSized DEF Statements
  <2> HIDE DEF w
  <2> QED BY <1>1, <2>2, <2>3
<1> QED BY <1>2, <1>3, <1>4, <1>5 DEF CallOK, Verbs

\* What an answer claims of the file and of the time it was given at.
AddsUp(a, t, at) ==
  /\ a.told = "recall" => RecallAdds(a, t)
  /\ a.told = "inbox" => PageAdds(a, t)
  /\ a.told = "memories" => a.shown = t.memories
  /\ a.told = "digest" => CountsIn(t, at, a.turn, a.digest)

LEMMA AddsUpIs ==
  ASSUME AddsUp(answer, db, now)
  PROVE  ReadsAddUp
<1> DEFINE given == {answer.shown[i] : i \in DOMAIN answer.shown}
           shown == IF answer.told \in {"recall", "inbox"} THEN given ELSE {}
           open == {i \in db.inbox : i.status = "open"}
           Recalls == /\ shown \subseteq db.memories
                      /\ Cardinality(shown) + answer.omitted = Cardinality(db.memories)
                      /\ \A kept \in shown : \A left \in db.memories \ shown : Newer(kept, left)
                      /\ db.memories # {} => shown # {}
                      /\ Len(answer.shown) * FactChars <= RecallChars \/ Len(answer.shown) = 1
           Pages == /\ shown \subseteq open /\ Cardinality(shown) + answer.omitted = Cardinality(open)
                    /\ \A kept \in shown : \A left \in open \ shown : Newer(left, kept)
                    /\ open # {} => shown # {}
<1>1. answer.told = "recall" => Recalls
  <2> SUFFICES ASSUME answer.told = "recall" PROVE Recalls
    OBVIOUS
  <2>1. RecallAdds(answer, db)
    BY Zenon DEF AddsUp
  <2>2. /\ given \subseteq db.memories
        /\ Cardinality(given) + answer.omitted = Cardinality(db.memories)
        /\ \A kept \in given : \A left \in db.memories \ given : Newer(kept, left)
        /\ db.memories # {} => given # {}
        /\ Len(answer.shown) * FactChars <= RecallChars \/ Len(answer.shown) = 1
    BY <2>1, Zenon DEF RecallAdds
  <2> HIDE DEF given
  <2>3. shown = given
    OBVIOUS
  <2> HIDE DEF shown
  <2> QED BY <2>2, <2>3
<1>2. answer.told = "inbox" => Pages
  <2> SUFFICES ASSUME answer.told = "inbox" PROVE Pages
    OBVIOUS
  <2>1. PageAdds(answer, db)
    BY Zenon DEF AddsUp
  <2>2. /\ given \subseteq open /\ Cardinality(given) + answer.omitted = Cardinality(open)
        /\ \A kept \in given : \A left \in open \ given : Newer(left, kept)
        /\ open # {} => given # {}
    BY <2>1, Zenon DEF PageAdds
  <2> HIDE DEF given, open
  <2>3. shown = given
    OBVIOUS
  <2> HIDE DEF shown
  <2> QED BY <2>2, <2>3
<1>3. answer.told = "memories" => answer.shown = db.memories
  BY Zenon DEF AddsUp
<1>4. answer.told = "digest" => CountsDigest(answer.turn, answer.digest)
  <2> SUFFICES ASSUME answer.told = "digest" PROVE CountsDigest(answer.turn, answer.digest)
    OBVIOUS
  <2>1. CountsIn(db, now, answer.turn, answer.digest)
    BY Zenon DEF AddsUp
  <2> QED BY <2>1, Zenon DEF CountsIn, CountsDigest, Competing, Retained, NamedIn, Told
<1> QED BY <1>1, <1>2, <1>3, <1>4, Zenon DEF ReadsAddUp

-----------------------------------------------------------------------------
(* Every step keeps what the last answer claims.                           *)

Counted == Sized(db) /\ SizedCall(call) /\ AddsUp(answer, db, now)

\* An answer that claims nothing of the file.
LEMMA Silent ==
  ASSUME NEW a, a.told \notin {"recall", "inbox", "memories", "digest"}, NEW t, NEW at
  PROVE  AddsUp(a, t, at)
BY Zenon DEF AddsUp

\* The sizes of the file and of the call, whatever the step.
LEMMA NextSized ==
  ASSUME StoreAssumption, Sizes \subseteq Nat, IInv, Sized(db), SizedCall(call), Next
  PROVE  Sized(db') /\ SizedCall(call')
<1>1. IsFile(db)
  BY DEF IInv, TypeOK
<1>2. CASE \E c \in Requests \cup Retentions : Call(c)
  <2>1. PICK c \in Requests \cup Retentions : Call(c)
    BY <1>2
  <2>2. call' = At(c, now) /\ db' = db /\ "verb" \in DOMAIN c
    BY <2>1 DEF Call, Requests, Retentions
  <2>3. call'.verb = c.verb
    BY <2>2 DEF At
  <2>4. c \in Requests => c.verb # "retain"
    BY DEF Requests
  <2>5. c \in Retentions => "size" \in DOMAIN c /\ c.size \in Nat
    BY DEF Retentions
  <2>6. "size" \in DOMAIN c => call'.size = c.size
    BY <2>2 DEF At
  <2> QED BY <2>2, <2>3, <2>4, <2>5, <2>6 DEF SizedCall
<1>3. CASE call' = call \/ call' = NoCall
  <2>1. SizedCall(call')
    BY <1>3 DEF SizedCall, NoCall
  <2>2. CASE db' = db
    BY <2>1, <2>2
  <2>3. CASE depth = 1 /\ db' = Whole(call, db)
    <3>1. call # NoCall
      BY <2>3 DEF IInv, Progress
    <3>2. CallOK(call)
      BY <3>1 DEF IInv, Progress
    <3> QED BY <1>1, <2>1, <2>3, <3>2, WholeSized
  <2>4. CASE db' = Delete(db, "handoffs", deleted')
    <3> DEFINE rows == deleted'
               u == Delete(db, "handoffs", rows)
    <3>1. u = [memories |-> db.memories, inbox |-> db.inbox, handoffs |-> db.handoffs \ rows,
               last |-> db.last]
      <4> HIDE DEF rows
      <4> QED BY <1>1, DeleteRows
    <3> HIDE DEF u
    <3>2. Sized(u)
      BY <3>1 DEF Sized
    <3> QED BY <2>1, <2>4, <3>2 DEF u
  <2> QED BY <2>2, <2>3, <2>4, CommitsWholeCalls
<1>4. CASE \/ Enter \/ CannotEnter \/ Execute \/ StatementFails \/ LeaveNested \/ LeaveOutermost
           \/ CommitFails \/ Catch \/ Receipt \/ Reply \/ Crash
  BY <1>3, <1>4 DEF Enter, CannotEnter, Execute, StatementFails, LeaveNested, LeaveOutermost,
                    CommitFails, Catch, Receipt, Reply, Crash
<1>5. CASE \/ Recall \/ ListMemories
           \/ \E limit \in {PageSize, Cardinality(db.inbox)} : ListInbox(limit)
           \/ \E limit \in Limits : ReadInbox(limit)
           \/ \E turn \in Turns : ShowDigest(turn)
  <2>1. \A result : Read(result) => call' = call
    BY DEF Read, running
  <2> QED BY <1>3, <1>5, <2>1 DEF Recall, ListMemories, ListInbox, ReadInbox, ShowDigest
<1>6. CASE \/ \E ids \in SUBSET (Mids \ {NoId}), yes \in BOOLEAN : PurgeBegins(ids, yes)
           \/ PurgeBacksUp \/ PurgeDeletes \/ PurgeEnds \/ Tick
  BY <1>3, <1>6 DEF PurgeBegins, PurgeBacksUp, PurgeDeletes, PurgeEnds, Tick, running
<1> QED BY <1>2, <1>4, <1>5, <1>6 DEF Next

\* What a read answers adds up with the file it read.
LEMMA ReadAdds ==
  ASSUME NEW result, Read(result), AddsUp(result, db, now)
  PROVE  AddsUp(answer', db', now')
<1>1. /\ db' = db /\ now' = now
      /\ answer' = IF schema = "ours" THEN result ELSE [told |-> "unreadable"]
  BY DEF Read
<1>2. AddsUp([told |-> "unreadable"], db, now)
  BY Silent
<1>3. answer' = result \/ answer' = [told |-> "unreadable"]
  BY <1>1
<1> QED BY <1>1, <1>2, <1>3

LEMMA NextAddsUp ==
  ASSUME StoreAssumption, Roomy, NEW Y, \A turn \in Turns : turn.refs \in Seq(Y),
         IInv, Claims, Sized(db), AddsUp(answer, db, now), Next
  PROVE  AddsUp(answer', db', now')
<1>1. IsFile(db) /\ now \in Int
  <2>1. IsFile(db) /\ now \in Clock
    BY DEF IInv, TypeOK
  <2>2. Clock \subseteq Int
    BY DEF StoreAssumption
  <2> QED BY <2>1, <2>2
<1>2. Nothing.told = "nothing"
  BY DEF Nothing
<1>3. CASE answer' = Nothing
  BY <1>2, <1>3, Silent
<1>4. CASE UNCHANGED <<db, now, answer>>
  BY <1>4
<1>5. call # NoCall => answer = Nothing
  BY DEF Claims, Standing
<1>6. CASE (\E c \in Requests \cup Retentions : Call(c)) \/ Crash \/ Tick
  BY <1>3, <1>6 DEF Call, Crash, Tick
<1>7. CASE \/ Enter \/ CannotEnter \/ Execute \/ StatementFails \/ LeaveNested
           \/ CommitFails \/ Catch \/ Receipt
  BY <1>4, <1>7 DEF Enter, CannotEnter, Execute, StatementFails, LeaveNested, CommitFails, Catch,
                    Receipt
<1>8. CASE LeaveOutermost
  BY <1>3, <1>5, <1>8 DEF LeaveOutermost, Reaches, Idle
<1>9. CASE Reply
  <2>1. answer' = [told |-> IF raising THEN "nothing_changed" ELSE "done",
                   verb |-> call.verb, touched |-> touched]
    BY <1>9 DEF Reply
  <2>2. answer'.told \in {"nothing_changed", "done"}
    BY <2>1
  <2> QED BY <2>2, Silent
<1>10. CASE PurgeDeletes
  BY <1>3, <1>5, <1>10 DEF PurgeDeletes, Idle
<1>11. CASE \/ \E ids \in SUBSET (Mids \ {NoId}), yes \in BOOLEAN : PurgeBegins(ids, yes)
            \/ PurgeBacksUp \/ PurgeEnds
  BY <1>4, <1>11 DEF PurgeBegins, PurgeBacksUp, PurgeEnds
<1>12. CASE Recall
  <2> DEFINE a == Recalled(db)
  <2>1. Read(a)
    BY <1>12, Zenon DEF Recall, Recalled
  <2>2. a.told = "recall" /\ RecallAdds(a, db)
    BY <1>1, RecallCounts
  <2> HIDE DEF a
  <2>3. AddsUp(a, db, now)
    BY <2>2 DEF AddsUp
  <2> QED BY <2>1, <2>3, ReadAdds
<1>13. CASE ListMemories
  <2> DEFINE a == [told |-> "memories", shown |-> db.memories]
  <2>1. Read(a)
    BY <1>13, Zenon DEF ListMemories
  <2>2. AddsUp(a, db, now)
    BY DEF AddsUp
  <2> HIDE DEF a
  <2> QED BY <2>1, <2>2, ReadAdds
<1>14. ASSUME NEW limit \in Nat, {i \in db.inbox : i.status = "open"} # {} => limit >= 1,
              Read(OpenPage(limit))
       PROVE  AddsUp(answer', db', now')
  <2> DEFINE a == OpenPageOf(db, limit)
  <2>1. Read(a)
    BY <1>14, Zenon DEF OpenPage, OpenPageOf
  <2>2. a.told = "inbox" /\ PageAdds(a, db)
    BY <1>1, <1>14, PageCounts
  <2> HIDE DEF a
  <2>3. AddsUp(a, db, now)
    BY <2>2 DEF AddsUp
  <2> QED BY <2>1, <2>3, ReadAdds
<1>15. CASE \E limit \in {PageSize, Cardinality(db.inbox)} : ListInbox(limit)
  <2>1. PICK limit \in {PageSize, Cardinality(db.inbox)} : Read(OpenPage(limit))
    BY <1>15 DEF ListInbox
  <2>2. PageSize \in Nat /\ PageSize >= 1
    BY DEF StoreAssumption
  <2>3. Cardinality(db.inbox) \in Nat /\ (db.inbox # {} => Cardinality(db.inbox) >= 1)
    <3>1. IsFiniteSet(db.inbox)
      BY <1>1, TablesAreRows DEF Rows
    <3>2. Cardinality(db.inbox) \in Nat /\ (db.inbox # {} => Cardinality(db.inbox) # 0)
      BY <3>1, FS_CardinalityType, FS_EmptySet
    <3> QED BY <3>2
  <2>4. {i \in db.inbox : i.status = "open"} # {} => limit >= 1
    BY <2>1, <2>2, <2>3
  <2> QED BY <1>14, <2>1, <2>2, <2>3, <2>4
<1>16. CASE \E limit \in Limits : ReadInbox(limit)
  <2>1. PICK limit \in Limits : Read(OpenPage(Clamped(limit)))
    BY <1>16 DEF ReadInbox
  <2>2. Clamped(limit) \in Nat /\ Clamped(limit) >= 1
    BY DEF StoreAssumption, Clamped
  <2> QED BY <1>14, <2>1, <2>2
<1>17. CASE \E turn \in Turns : ShowDigest(turn)
  <2>1. PICK turn \in Turns : ShowDigest(turn)
    BY <1>17
  <2> DEFINE d == Digest(db, now, turn)
             a == [told |-> "digest", turn |-> turn, digest |-> d]
  <2>2. Read(a)
    BY <2>1, Zenon DEF ShowDigest, Digest, FoundIn, Eligible, FindByMessageRef
  <2>3. CountsIn(db, now, turn, d)
    BY <1>1, DigestCounts
  <2> HIDE DEF d
  <2>4. a.told = "digest" /\ a.turn = turn /\ a.digest = d
    OBVIOUS
  <2> HIDE DEF a
  <2>5. AddsUp(a, db, now)
    BY <2>3, <2>4 DEF AddsUp
  <2> QED BY <2>2, <2>5, ReadAdds
<1> QED BY <1>6, <1>7, <1>8, <1>9, <1>10, <1>11, <1>12, <1>13, <1>15, <1>16, <1>17 DEF Next

\* What a read gives adds up, whatever wrote or purged before it: nothing is missing that
\* is not counted, the recall keeps the newest facts, the inbox page the oldest items, and
\* the digest stays within its bounds, holds only what retention allows and the turn relates
\* to, and says of every reference what became of it (MemoryRecall.block,
\* InboxStore.list_open, read_digest), as long as whatever comes first in the digest fits it,
\* as DIGEST_MAX_CHARS was sized to (henk/agent/digest.py:57-62).
THEOREM ReadsAlwaysAddUp ==
  ASSUME Roomy, Sizes \subseteq Nat, \A file \in Files : Sized(file),
         NEW CONSTANT Refs, \A turn \in Turns : turn.refs \in Seq(Refs)
  PROVE  Spec => []ReadsAddUp
<1>1. Init => Claims /\ Counted
  <2> SUFFICES ASSUME Init PROVE Claims /\ Counted
    OBVIOUS
  <2>1. answer.told = "nothing"
    BY DEF Init, Nothing
  <2>2. AddsUp(answer, db, now)
    BY <2>1, Silent
  <2>3. Sized(db) /\ SizedCall(call)
    BY DEF Init, SizedCall, NoCall
  <2>4. Claims
    BY DEF Init, Claims, ClaimsAreTrue, Nothing
  <2> QED BY <2>2, <2>3, <2>4 DEF Counted
<1>2. IInv /\ Claims /\ Counted /\ [Next]_vars => (Claims /\ Counted)'
  <2> SUFFICES ASSUME IInv, Claims, Counted, [Next]_vars PROVE (Claims /\ Counted)'
    OBVIOUS
  <2>1. Claims'
    <3>1. ASSUME UNCHANGED vars PROVE Claims'
      BY <3>1, ClaimsAside DEF vars
    <3> QED BY <3>1, StoreAssumption, NextClaims
  <2>2. /\ Sized(db') /\ SizedCall(call') /\ AddsUp(answer', db', now')
    <3>1. CASE Next
      BY <3>1, StoreAssumption, NextSized, NextAddsUp DEF Counted
    <3>2. CASE UNCHANGED vars
      BY <3>2 DEF Counted, vars
    <3> QED BY <3>1, <3>2
  <2>3. Counted'
    BY <2>2, Zenon DEF Counted, Sized, SizedCall, AddsUp, RecallAdds, PageAdds, CountsIn,
                       Competing, Retained, NamedIn, Told, Newer, Context
  <2> QED BY <2>1, <2>3
<1>3. Counted => ReadsAddUp
  BY AddsUpIs DEF Counted
<1> QED BY <1>1, <1>2, <1>3, Invariance, PTL DEF Spec
=============================================================================
