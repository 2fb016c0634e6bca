----------------------------- MODULE HenkStoreMC -----------------------------
(***************************************************************************)
(* HenkStore on a small instance: two types of memory at their caps, an    *)
(* archive at its count and its age, and turns related to it in each way   *)
(* and in none, by a second reference.                                     *)
(***************************************************************************)
EXTENDS HenkStore

CONSTANTS f1, f2

CapsOfOneAndTwo == [t \in Types |-> IF t = "pinned" THEN 1 ELSE 2]
Asked == {{f1}}

Alert(source, name, scope, nodes) == [source |-> source, name |-> name, scope |-> scope, nodes |-> nodes]
DiskOfRp5 == Alert("grafana", "disk", "rp5", {"rp5"})
DiskOfVps == Alert("grafana", "disk", "vps", {"vps", "nas"})
Backup == Alert("other", "backup", NoScope, {"nas"})
TurnsOfTwo ==
  {[events |-> {DiskOfRp5}, refs |-> <<"m2">>], [events |-> {Backup}, refs |-> <<"m3", NoId, "m1">>]}

Row(id, mid, at, event, size) ==
  [id |-> id, mid |-> mid, at |-> at, size |-> size,
   keys |-> {IdentityKey(event)}, rules |-> {RuleKey(event)}, nodes |-> event.nodes]
File(memories, handoffs, last) ==
  [memories |-> memories, handoffs |-> handoffs,
   inbox |-> {[id |-> 1, at |-> 2, status |-> "open"], [id |-> 2, at |-> 3, status |-> "open"]},
   last |-> [memories |-> Cardinality(memories), inbox |-> 2, handoffs |-> last]]
AtEveryCap ==
  {File({[id |-> 1, type |-> "pinned", content |-> f1, at |-> 3],
         [id |-> 2, type |-> "agent", content |-> f2, at |-> 2],
         [id |-> 3, type |-> "agent", content |-> f1, at |-> 2]},
        {Row(2, "m1", 0, DiskOfRp5, 2), Row(3, "m2", 2, Backup, 9), Row(4, NoId, 2, DiskOfVps, 4),
         Row(5, "m3", 3, Backup, 4), Row(7, "m2", 3, DiskOfVps, 4)}, 7)}

\* What the theorems suppose of a file that is found and of the digest's bounds, here.
ASSUME SupposedHere ==
  /\ \A file \in Files :
       /\ \A type \in Types :
            LET kept == Cardinality({m \in file.memories : m.type = type})
            IN kept <= Caps[type] \/ kept <= 1
       /\ Cardinality(file.handoffs) <= MaxCount
       /\ \A h \in file.handoffs : h.size \in Nat
  /\ Sizes \subseteq Nat
  /\ \A bound \in {EntryChars, RefChars} :
       HeadChars + MarkChars + EntryHead + bound + MarkChars <= MaxChars
=============================================================================
