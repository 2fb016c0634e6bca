--------------------------- MODULE SessionFeedProofs ---------------------------
(***************************************************************************)
(* Theorems about SessionFeed: what the publisher's gates and budget and   *)
(* the reader's own filters let through, and what the age of a snapshot    *)
(* says of the machine that posts it, for any configuration, any estate    *)
(* and any order of runs, posts and polls.                                 *)
(*                                                                         *)
(* The argument: a snapshot is fit the moment it is built (SnapshotOK),    *)
(* because both gates looked at every path of every session, and because   *)
(* degrade cuts the tail of a sort that puts the blocked first. From then  *)
(* on nothing edits it, so it stays fit in the hands of the run that       *)
(* posts it and in the topic that carries it (FeedInv), and an answer is   *)
(* right because the frame it renders is fit (ShownOK). A run that         *)
(* completes leaves the newest snapshot young (Fresh), and either as the   *)
(* estate is or not yet overdue (Rhythm): TimeInv carries that from slot   *)
(* to slot, and what a reader sees follows from it.                        *)
(***************************************************************************)
EXTENDS SessionFeed, FiniteSetTheorems, TLAPS

-----------------------------------------------------------------------------
(* Sorting: what Ordered returns. *)

\* A set of naturals has a least member.
LEMMA LeastExists ==
  ASSUME NEW N \in SUBSET Nat, N # {}
  PROVE  \E n \in N : \A m \in N : n <= m
<1>1. PICK n \in N : \A m \in N : <<m, n>> \notin OpToRel(<, Nat)
  BY NatLessThanWellFounded, WFMin
<1>2. \A m \in N : ~(m < n)
  BY <1>1 DEF OpToRel
<1> QED
  BY <1>2

\* The newest of a set of indices is one of them.
LEMMA MaxIs ==
  ASSUME NEW n \in Nat, NEW I \in SUBSET (1..n), I # {}
  PROVE  Max(I) \in I /\ \A i \in I : i <= Max(I)
<1> DEFINE D == {n - i : i \in I}
<1>1. D \in SUBSET Nat /\ D # {}
  <2>1. \A i \in I : n - i \in Nat
    OBVIOUS
  <2> QED
    BY <2>1
<1>2. PICK d \in D : \A e \in D : d <= e
  BY <1>1, LeastExists
<1>3. PICK m \in I : d = n - m
  BY <1>2
<1>4. ASSUME NEW i \in I PROVE m >= i
  <2>1. n - m <= n - i
    BY <1>2, <1>3
  <2>2. m \in Int /\ i \in Int
    OBVIOUS
  <2> QED
    BY <2>1, <2>2
<1>5. \E x \in I : \A y \in I : x >= y
  BY <1>4
<1> QED
  BY <1>5 DEF Max

\* The least of a set of naturals is one of them.
LEMMA MinIs ==
  ASSUME NEW N \in SUBSET Nat, N # {}
  PROVE  Min(N) \in N /\ \A n \in N : Min(N) <= n
<1>1. \E x \in N : \A y \in N : x =< y
  BY LeastExists
<1> QED
  BY <1>1 DEF Min

\* There are n indices of a sequence of n.
LEMMA IndicesAre ==
  ASSUME NEW n \in Nat
  PROVE  IsFiniteSet(1..n) /\ Cardinality(1..n) = n
<1>1. /\ IsFiniteSet(1..n)
      /\ Cardinality(1..n) = IF 1 > n THEN 0 ELSE n - 1 + 1
  BY FS_Interval
<1> QED
  BY <1>1

\* What is left of a sequence once its first b are gone.
LEMMA RestIs ==
  ASSUME NEW U, NEW q \in Seq(U), NEW b \in Nat, b <= Len(q)
  PROVE  /\ SubSeq(q, b + 1, Len(q)) \in Seq(U)
         /\ Len(SubSeq(q, b + 1, Len(q))) = Len(q) - b
         /\ \A i \in 1..Len(q) - b : SubSeq(q, b + 1, Len(q))[i] = q[b + i]
  BY SMT

\* The sessions at the indices I can be sorted.
Sortable(ss, I) == I \subseteq Nat /\ IsFiniteSet(I) /\ \A i \in I : Rank(ss[i]) \in Int

\* Those that come first are fewer than all, and fewer for who comes earlier.
LEMMA Places ==
  ASSUME NEW ss, NEW I, Sortable(ss, I)
  PROVE  /\ Cardinality(I) \in Nat
         /\ \A i \in I : Place(ss, I, i) \in 0..Cardinality(I) - 1
         /\ \A i, j \in I : Before(ss, i, j) => Place(ss, I, i) < Place(ss, I, j)
         /\ \A i, j \in I : i = j \/ Before(ss, i, j) \/ Before(ss, j, i)
<1> DEFINE Ahead(i) == {j \in I : Before(ss, j, i)}
<1>1. I \subseteq Nat /\ IsFiniteSet(I) /\ \A i \in I : Rank(ss[i]) \in Int
  BY DEF Sortable
<1>2. Cardinality(I) \in Nat
  BY <1>1, FS_CardinalityType
<1>3. \A i \in I : IsFiniteSet(Ahead(i)) /\ Cardinality(Ahead(i)) \in Nat
                   /\ Place(ss, I, i) = Cardinality(Ahead(i))
  BY <1>1, FS_Subset, FS_CardinalityType DEF Place
<1>4. \A i \in I : ~Before(ss, i, i)
  BY <1>1 DEF Before
<1>5. \A i, j, k \in I : Before(ss, i, j) /\ Before(ss, j, k) => Before(ss, i, k)
  BY <1>1 DEF Before
<1>6. \A i, j \in I : i = j \/ Before(ss, i, j) \/ Before(ss, j, i)
  BY <1>1 DEF Before
<1>7. ASSUME NEW i \in I PROVE Place(ss, I, i) \in 0..Cardinality(I) - 1
  <2>1. Ahead(i) \subseteq I /\ Ahead(i) # I
    BY <1>4
  <2>2. Cardinality(Ahead(i)) <= Cardinality(I) /\ Cardinality(Ahead(i)) # Cardinality(I)
    BY <1>1, <2>1, FS_Subset
  <2>3. Cardinality(Ahead(i)) \in 0..Cardinality(I) - 1
    BY <1>2, <1>3, <2>2
  <2> QED
    BY <1>3, <2>3
<1>8. ASSUME NEW i \in I, NEW j \in I, Before(ss, i, j)
      PROVE  Place(ss, I, i) < Place(ss, I, j)
  <2>1. Ahead(i) \subseteq Ahead(j) /\ i \in Ahead(j) /\ i \notin Ahead(i)
    BY <1>4, <1>5, <1>8
  <2>2. /\ Cardinality(Ahead(i)) <= Cardinality(Ahead(j))
        /\ Cardinality(Ahead(i)) # Cardinality(Ahead(j))
    BY <1>3, <2>1, FS_Subset
  <2>3. Cardinality(Ahead(i)) \in Nat /\ Cardinality(Ahead(j)) \in Nat
    BY <1>3
  <2>4. Cardinality(Ahead(i)) < Cardinality(Ahead(j))
    BY <2>2, <2>3
  <2> QED
    BY <1>3, <2>4
<1> QED
  BY <1>2, <1>6, <1>7, <1>8

\* Sorting loses nothing, makes nothing up, and is in order.
LEMMA OrderedIs ==
  ASSUME NEW ss, NEW I, Sortable(ss, I)
  PROVE  /\ Cardinality(I) \in Nat
         /\ DOMAIN Ordered(ss, I) = 1..Cardinality(I) /\ Len(Ordered(ss, I)) = Cardinality(I)
         /\ \A k \in 1..Cardinality(I) : \E i \in I : Ordered(ss, I)[k] = ss[i]
         /\ \A i \in I : \E k \in 1..Cardinality(I) : Ordered(ss, I)[k] = ss[i]
         /\ \A k, l \in 1..Cardinality(I) :
              k <= l => Rank(Ordered(ss, I)[k]) <= Rank(Ordered(ss, I)[l])
<1> DEFINE n == Cardinality(I)
           f == [i \in I |-> Place(ss, I, i) + 1]
           At(k) == CHOOSE i \in I : Place(ss, I, i) = k - 1
<1>1. /\ IsFiniteSet(I) /\ n \in Nat /\ \A i \in I : Rank(ss[i]) \in Int
      /\ \A i \in I : Place(ss, I, i) \in 0..n - 1
      /\ \A i, j \in I : Before(ss, i, j) => Place(ss, I, i) < Place(ss, I, j)
      /\ \A i, j \in I : i = j \/ Before(ss, i, j) \/ Before(ss, j, i)
  BY Places DEF Sortable
<1> HIDE DEF n
<1>2. \A i, j \in I : Place(ss, I, i) = Place(ss, I, j) => i = j
  BY <1>1
<1>3. f \in Surjection(I, 1..n)
  <2>1. f \in [I -> 1..n] /\ \A i, j \in I : f[i] = f[j] => i = j
    BY <1>1, <1>2
  <2>2. f \in Injection(I, 1..n)
    BY <2>1 DEF Injection, IsInjective
  <2>3. IsFiniteSet(1..n) /\ Cardinality(1..n) = n
    BY <1>1, IndicesAre
  <2> HIDE DEF f
  <2> QED
    BY <2>2, <2>3, FS_Injection DEF n
<1>4. ASSUME NEW k \in 1..n PROVE At(k) \in I /\ Place(ss, I, At(k)) = k - 1
  <2>1. PICK i \in I : f[i] = k
    BY <1>3 DEF Surjection
  <2>2. Place(ss, I, i) = k - 1
    BY <1>1, <2>1
  <2> QED
    BY <2>2
<1>5. Ordered(ss, I) = [k \in 1..n |-> ss[At(k)]]
  BY DEF Ordered, n
<1> HIDE DEF At
<1>6. DOMAIN Ordered(ss, I) = 1..n /\ \A k \in 1..n : Ordered(ss, I)[k] = ss[At(k)]
  BY <1>5
<1>7. Len(Ordered(ss, I)) = n
  BY <1>1, <1>5
<1>8. ASSUME NEW i \in I PROVE \E k \in 1..n : Ordered(ss, I)[k] = ss[i]
  <2>1. Place(ss, I, i) + 1 \in 1..n /\ (Place(ss, I, i) + 1) - 1 = Place(ss, I, i)
    BY <1>1
  <2>2. At(Place(ss, I, i) + 1) = i
    BY <1>2, <1>4, <2>1
  <2> QED
    BY <1>6, <2>1, <2>2
<1>9. ASSUME NEW k \in 1..n, NEW l \in 1..n, k <= l
      PROVE  Rank(Ordered(ss, I)[k]) <= Rank(Ordered(ss, I)[l])
  <2>1. CASE k = l
    <3>1. Rank(Ordered(ss, I)[k]) = Rank(ss[At(k)]) /\ At(k) \in I
      BY <1>4, <1>6
    <3>2. Rank(ss[At(k)]) \in Int
      BY <1>1, <3>1
    <3> QED
      BY <2>1, <3>1, <3>2
  <2>2. CASE k < l
    <3>1. Before(ss, At(k), At(l))
      <4>1. At(k) # At(l) /\ ~Before(ss, At(l), At(k))
        BY <1>1, <1>4, <2>2
      <4> QED
        BY <1>1, <1>4, <4>1
    <3> QED
      BY <1>1, <1>4, <1>6, <3>1 DEF Before
  <2> QED
    BY <1>9, <2>1, <2>2
<1> QED
  BY <1>1, <1>4, <1>6, <1>7, <1>8, <1>9 DEF n

-----------------------------------------------------------------------------
(* The invariant. *)

\* Every listed session is one of the agents the snapshot was taken from, and the
\* owner cleared every path that one reports.
Cleared(s) ==
  \A k \in DOMAIN s.sessions :
    \E a \in Range(s.about.agents) :
      a.pane = s.sessions[k].pane /\ \A p \in Reported(a) : ~Private(p)

\* What is not listed was dropped or refused.
Accounted(s) ==
  cfg.unlisted =>
    /\ s.unlisted[1] \in Nat
    /\ Len(s.about.agents) = Len(s.sessions) + s.dropped + s.unlisted[1]

\* A snapshot fit to be told.
SnapOK(s) ==
  /\ Len(s.sessions) \in Nat /\ DOMAIN s.sessions = 1..Len(s.sessions) /\ s.dropped \in Nat
  /\ \A k \in DOMAIN s.sessions : Rank(s.sessions[k]) \in Int
  /\ Cleared(s) /\ Accounted(s) /\ WellCut(s)

\* The snapshots a publisher holds, and those the topic carries.
Held == {run[r].snap : r \in {q \in Runs : run[q].pc # "idle"}}
Carried == {topic[i].snap : i \in Ours}

\* The inductive invariant: what is held or carried is fit, and so is what was said.
FeedInv ==
  /\ <<cfg, henk>> \in Setups
  /\ \E w \in Worlds : estate = w.agents /\ ages = w.ages
  /\ run = [r \in Runs |-> [pc |-> run[r].pc, snap |-> run[r].snap]]
  /\ topic \in Seq(Range(topic))
  /\ \A s \in Held \cup Carried : SnapOK(s)
  /\ NothingPrivateIsTold /\ EverySessionIsCounted

-----------------------------------------------------------------------------
(* The gates. *)

\* Among the allow roots over a path there is a longest.
LEMMA LongestExists ==
  ASSUME <<cfg, henk>> \in Setups, NEW path, Allowing(path) # {}
  PROVE  \E e \in Allowing(path) :
           \A f \in Allowing(path) : Len(Canonical(f.path)) <= Len(Canonical(e.path))
<1> DEFINE L(e) == Len(Canonical(e.path))
           Longer(e) == {f \in Allowing(path) : L(f) > L(e)}
           N == {Cardinality(Longer(e)) : e \in Allowing(path)}
<1>1. IsFiniteSet(cfg.allow) /\ \A e \in Allowing(path) : L(e) \in Nat
  BY FeedAssumption DEF FeedAssumption, Allowing
<1> HIDE DEF L
<1>2. IsFiniteSet(Allowing(path))
  BY <1>1, FS_Subset DEF Allowing
<1>3. \A e \in Allowing(path) : IsFiniteSet(Longer(e)) /\ Cardinality(Longer(e)) \in Nat
  BY <1>2, FS_Subset, FS_CardinalityType
<1>4. PICK n \in N : \A m \in N : n <= m
  <2>1. N \in SUBSET Nat /\ N # {}
    BY <1>3
  <2> HIDE DEF N
  <2> QED
    BY <2>1, LeastExists
<1>5. PICK e \in Allowing(path) : n = Cardinality(Longer(e))
  BY <1>4
<1>6. ASSUME NEW f \in Allowing(path) PROVE L(f) <= L(e)
  <2> SUFFICES ASSUME f \in Longer(e) PROVE FALSE
    BY <1>1
  <2>1. Longer(f) \subseteq Longer(e) /\ f \notin Longer(f)
    BY <1>1
  <2>2. /\ Cardinality(Longer(f)) <= Cardinality(Longer(e))
        /\ Cardinality(Longer(f)) # Cardinality(Longer(e))
    <3> HIDE DEF Longer
    <3> QED
      BY <1>3, <2>1, FS_Subset
  <2>3. Cardinality(Longer(e)) <= Cardinality(Longer(f))
    BY <1>4, <1>5
  <2> QED
    BY <1>3, <2>2, <2>3
<1> QED
  BY <1>6 DEF L

\* What both gates admit, the owner cleared (classify, root_gate, owner_gate).
LEMMA AdmittedIsPublic ==
  ASSUME Loads(cfg), NEW a, NEW git, Admitted(a, git)
  PROVE  \A p \in Reported(a) : ~Private(p)
<1> SUFFICES ASSUME NEW p \in Reported(a) PROVE ~Private(p)
  OBVIOUS
<1>1. RootLabel(Canonical(p)) # None /\ OwnerPasses(Canonical(p), git)
  BY DEF Admitted
<1>2. ~Denied(Canonical(p)) /\ Allowing(Canonical(p)) # {}
  BY <1>1 DEF RootLabel
<1>3. \E e \in cfg.allow : Under(Canonical(p), Canonical(e.path)) /\ Canonical(e.path) \notin Unsafe
  BY <1>2 DEF Allowing, Loads
<1>4. ~\E d \in cfg.deny : Under(Canonical(p), Canonical(d))
  BY <1>2 DEF Denied
<1>5. Repository[Canonical(p)] \in cfg.owners \cup {NotGit}
  BY <1>1 DEF OwnerPasses
<1> QED
  BY <1>3, <1>4, <1>5 DEF Private

\* And what the owner cleared, both gates admit while git answers.
LEMMA PublicIsAdmitted ==
  ASSUME <<cfg, henk>> \in Setups, NEW a, \A p \in Reported(a) : ~Private(p)
  PROVE  Admitted(a, TRUE)
<1> SUFFICES ASSUME NEW p \in Reported(a)
             PROVE  RootLabel(Canonical(p)) # None /\ OwnerPasses(Canonical(p), TRUE)
  BY DEF Admitted
<1> DEFINE path == Canonical(p)
<1>1. /\ ~\E d \in cfg.deny : Under(path, Canonical(d))
      /\ \E e \in cfg.allow : Under(path, Canonical(e.path))
      /\ Repository[path] \in cfg.owners \cup {NotGit}
  BY DEF Private
<1> HIDE DEF path
<1>2. ~Denied(path) /\ Allowing(path) # {}
  BY <1>1 DEF Denied, Allowing
<1> DEFINE best == CHOOSE e \in Allowing(path) :
                     \A f \in Allowing(path) : Len(Canonical(f.path)) <= Len(Canonical(e.path))
<1>3. best \in Allowing(path)
  BY <1>2, LongestExists
<1>4. RootLabel(path) = best.label
  BY <1>2 DEF RootLabel
<1> HIDE DEF best
<1>5. best.label # None
  BY <1>3, FeedAssumption DEF FeedAssumption, Allowing
<1>6. OwnerPasses(path, TRUE)
  BY <1>1 DEF OwnerPasses
<1> QED
  BY <1>4, <1>5, <1>6 DEF path

-----------------------------------------------------------------------------
(* A snapshot as the publisher builds it. *)

\* The budget drops as few as it takes, and at most all there are (degrade).
LEMMA DroppedIs ==
  ASSUME NEW n \in Nat
  PROVE  /\ Dropped(n) \in 0..n
         /\ Dropped(n) = n \/ Bytes(n - Dropped(n), Dropped(n)) <= Budget
         /\ \A d \in 0..n : d < Dropped(n) => ~(Bytes(n - d, d) <= Budget)
<1> DEFINE D == {d \in 0 .. n : d = n \/ Bytes(n - d, d) <= Budget}
<1>1. D \in SUBSET Nat /\ n \in D
  OBVIOUS
<1>2. Dropped(n) = Min(D)
  BY DEF Dropped
<1>3. Min(D) \in D /\ \A d \in D : Min(D) <= d
  <2> HIDE DEF D
  <2> QED
    BY <1>1, MinIs
<1>4. ASSUME NEW d \in 0..n, d < Min(D) PROVE ~(Bytes(n - d, d) <= Budget)
  <2>1. d \notin D
    BY <1>1, <1>3, <1>4
  <2> QED
    BY <2>1
<1> QED
  BY <1>2, <1>3, <1>4

\* The blocked come first of all.
LEMMA RankIs ==
  ASSUME NEW x, x.age \in Nat \cup {Unknown}
  PROVE  Rank(x) \in Nat /\ (Rank(x) = 0 <=> x.status = "blocked")
<1>1. CASE x.status = "blocked"
  BY <1>1 DEF Rank
<1>2. CASE x.status = "working"
  BY <1>2 DEF Rank
<1>3. CASE x.status \notin {"blocked", "working"}
  <2>1. Rank(x) = IF x.age = Unknown THEN 3 + MaxAge ELSE 2 + x.age
    BY <1>3 DEF Rank
  <2> QED
    BY <1>3, <2>1, FeedAssumption DEF FeedAssumption, Unknown
<1> QED
  BY <1>1, <1>2, <1>3

\* What the publisher builds is fit to be told: cleared, accounted for, and cut to
\* the budget without losing what is urgent (build_snapshot).
LEMMA SnapshotOK ==
  ASSUME FeedInv, Loads(cfg), NEW git \in BOOLEAN
  PROVE  SnapOK(Snapshot(git))
<1> DEFINE I == {i \in DOMAIN estate : Admitted(estate[i], git)}
           dated == [i \in DOMAIN estate |-> Dated(estate[i])]
           sorted == Ordered(dated, I)
           n == Cardinality(I)
           d == Dropped(n)
           s == Snapshot(git)
<1>1. /\ <<cfg, henk>> \in Setups /\ estate \in Seq(Agents) /\ ages \in BOOLEAN
      /\ Len(estate) \in Nat /\ DOMAIN estate = 1..Len(estate)
      /\ \A i \in DOMAIN estate : estate[i] \in Agents
  BY FeedAssumption DEF FeedAssumption, FeedInv
<1>2. ASSUME NEW i \in DOMAIN estate
      PROVE  /\ dated[i].pane = estate[i].pane /\ dated[i].status = estate[i].status
             /\ dated[i].age \in Nat \cup {Unknown}
  <2>1. estate[i] = [pane |-> estate[i].pane, status |-> estate[i].status,
                     cwd |-> estate[i].cwd, foreground |-> estate[i].foreground,
                     age |-> estate[i].age]
        /\ estate[i].age \in Nat \cup {Unknown}
    BY <1>1, FeedAssumption DEF FeedAssumption
  <2>2. dated[i] = [estate[i] EXCEPT !.age = IF ages THEN estate[i].age ELSE Unknown]
    BY DEF Dated
  <2> QED
    BY <2>1, <2>2
<1> HIDE DEF dated
<1>3. IsFiniteSet(DOMAIN estate) /\ Cardinality(DOMAIN estate) = Len(estate)
  BY <1>1, IndicesAre
<1>4. I \subseteq DOMAIN estate /\ IsFiniteSet(I)
  BY <1>3, FS_Subset
<1>5. Sortable(dated, I)
  BY <1>1, <1>2, <1>4, RankIs DEF Sortable
<1>6. /\ n \in Nat /\ DOMAIN sorted = 1..n /\ Len(sorted) = n
      /\ \A k \in 1..n : \E i \in I : sorted[k] = dated[i]
      /\ \A i \in I : \E k \in 1..n : sorted[k] = dated[i]
      /\ \A k, l \in 1..n : k <= l => Rank(sorted[k]) <= Rank(sorted[l])
  <2> HIDE DEF I
  <2> QED
    BY <1>5, OrderedIs
<1>7. /\ d \in 0..n /\ (d = n \/ Bytes(n - d, d) <= Budget)
      /\ \A e \in 0..n : e < d => ~(Bytes(n - e, e) <= Budget)
  BY <1>6, DroppedIs
<1>8. /\ s.sessions = [k \in 1 .. Len(sorted) - Dropped(Len(sorted)) |-> SessionOf(sorted[k])]
      /\ s.dropped = Dropped(Len(sorted)) /\ s.about.agents = estate /\ s.about.git = git
      /\ s.unlisted = IF cfg.unlisted THEN Unlisted(DOMAIN estate \ I) ELSE <<>>
  BY DEF Snapshot, dated
<1> HIDE DEF s, d, sorted
<1>9. n - d \in Nat /\ n - d <= n
  BY <1>6, <1>7
<1>10. /\ s.sessions = [k \in 1..n - d |-> SessionOf(sorted[k])] /\ s.dropped = d
       /\ DOMAIN s.sessions = 1..n - d /\ Len(s.sessions) = n - d
       /\ \A k \in 1..n - d : s.sessions[k] = SessionOf(sorted[k])
  <2>1. s.sessions = [k \in 1..n - d |-> SessionOf(sorted[k])] /\ s.dropped = d
    BY <1>6, <1>8 DEF d
  <2> QED
    BY <1>9, <2>1
<1>11. \A k \in 1..n - d : /\ k \in 1..n
                           /\ s.sessions[k].pane = sorted[k].pane
                           /\ s.sessions[k].status = sorted[k].status
                           /\ s.sessions[k].age = sorted[k].age
  <2> TAKE k \in 1..n - d
  <2>1. s.sessions[k] = SessionOf(sorted[k])
    BY <1>10
  <2>2. k \in 1..n
    BY <1>6, <1>9
  <2> HIDE DEF n
  <2> QED
    BY <2>1, <2>2 DEF SessionOf
<1>12. \A k \in DOMAIN s.sessions : Rank(s.sessions[k]) \in Int
  <2> SUFFICES ASSUME NEW k \in 1..n - d PROVE Rank(s.sessions[k]) \in Int
    BY <1>10
  <2>1. PICK i \in I : sorted[k] = dated[i]
    BY <1>6, <1>11
  <2>2. s.sessions[k].age \in Nat \cup {Unknown}
    BY <1>2, <1>4, <1>11, <2>1
  <2> QED
    BY <2>2, RankIs
<1>13. Cleared(s)
  <2> SUFFICES ASSUME NEW k \in 1..n - d
               PROVE  \E a \in Range(estate) :
                        a.pane = s.sessions[k].pane /\ \A p \in Reported(a) : ~Private(p)
    BY <1>8, <1>10 DEF Cleared
  <2>1. PICK i \in I : sorted[k] = dated[i]
    BY <1>6, <1>11
  <2>2. estate[i] \in Range(estate) /\ estate[i].pane = s.sessions[k].pane
    BY <1>2, <1>4, <1>11, <2>1 DEF Range
  <2>3. \A p \in Reported(estate[i]) : ~Private(p)
    BY AdmittedIsPublic
  <2> QED
    BY <2>2, <2>3
<1>14. Accounted(s)
  <2> SUFFICES ASSUME cfg.unlisted
               PROVE  /\ s.unlisted[1] \in Nat
                      /\ Len(s.about.agents) = Len(s.sessions) + s.dropped + s.unlisted[1]
    BY DEF Accounted
  <2> DEFINE refused == DOMAIN estate \ I
  <2>1. s.unlisted[1] = Cardinality(refused)
    BY <1>8 DEF Unlisted
  <2>2. IsFiniteSet(refused) /\ Cardinality(refused) \in Nat
    BY <1>3, FS_Subset, FS_CardinalityType
  <2>3. Cardinality(refused) = Cardinality(DOMAIN estate) - Cardinality(DOMAIN estate \cap I)
    BY <1>3, FS_Difference
  <2>4. DOMAIN estate \cap I = I
    BY <1>4
  <2>5. Cardinality(refused) = Len(estate) - n
    BY <1>3, <2>3, <2>4
  <2> HIDE DEF refused, n
  <2>6. d \in Int
    BY <1>6, <1>7
  <2>7. n \in Int /\ Len(estate) \in Int
    BY <1>1, <1>6
  <2>8. s.about.agents = estate /\ Len(s.sessions) = n - d /\ s.dropped = d
    BY <1>8, <1>10
  <2>9. Len(estate) = (n - d) + d + (Len(estate) - n)
    BY <2>6, <2>7
  <2> QED
    BY <2>1, <2>2, <2>5, <2>8, <2>9
<1>15. WellCut(s)
  <2>1. s.sessions # <<>> => Bytes(Len(s.sessions), s.dropped) <= Budget
    <3> SUFFICES ASSUME d = n PROVE s.sessions = <<>>
      BY <1>7, <1>10
    <3>1. n - d = 0
      BY <1>6
    <3> DEFINE SS == {SessionOf(sorted[k]) : k \in 1..n - d}
    <3>2. s.sessions \in Seq(SS)
      <4>1. \A k \in 1..n - d : SessionOf(sorted[k]) \in SS
        OBVIOUS
      <4> HIDE DEF SS
      <4>2. [k \in 1..n - d |-> SessionOf(sorted[k])] \in Seq(SS)
        BY <1>9, <4>1
      <4> QED
        BY <1>10, <4>2
    <3>3. Len(s.sessions) = 0
      BY <1>10, <3>1
    <3> QED
      BY <3>2, <3>3
  <2>2. s.dropped > 0 => Bytes(Len(s.sessions) + 1, s.dropped - 1) > Budget
    <3> SUFFICES ASSUME d > 0 PROVE Bytes(n - d + 1, d - 1) > Budget
      BY <1>10
    <3>1. d - 1 \in 0..n /\ d - 1 < d /\ n - (d - 1) = n - d + 1 /\ n - d + 1 \in Nat
      BY <1>6, <1>7
    <3>2. ~(Bytes(n - d + 1, d - 1) <= Budget)
      BY <1>7, <3>1
    <3>3. \A k, e \in Nat : Bytes(k, e) \in Int
      BY FeedAssumption DEF FeedAssumption, Bytes
    <3>4. d - 1 \in Nat /\ Budget \in Int
      BY <3>1, FeedAssumption DEF FeedAssumption
    <3> QED
      BY <3>1, <3>2, <3>3, <3>4
  <2>3. ASSUME NEW a \in Range(estate), git, NEW x \in Range(s.sessions), a.status = "blocked",
               \A y \in Range(s.sessions) : y.pane # a.pane,
               \A p \in Reported(a) : ~Private(p)
        PROVE  x.status = "blocked"
    <3>1. PICK i \in DOMAIN estate : estate[i] = a
      BY DEF Range
    <3>2. i \in I
      <4>1. Admitted(a, TRUE) /\ git = TRUE
        BY <1>1, <2>3, PublicIsAdmitted
      <4> QED
        BY <3>1, <4>1
    <3>3. PICK m \in 1..n : sorted[m] = dated[i]
      BY <1>6, <3>2
    <3>4. sorted[m].pane = a.pane /\ sorted[m].status = "blocked"
          /\ sorted[m].age \in Nat \cup {Unknown}
      BY <1>2, <2>3, <3>1, <3>3
    <3>5. PICK k \in 1..n - d : s.sessions[k] = x
      BY <1>10 DEF Range
    <3>6. k < m
      <4> SUFFICES ASSUME m <= k PROVE FALSE
        BY <1>6, <1>9
      <4>1. m \in 1..n - d
        BY <1>9
      <4>2. s.sessions[m] \in Range(s.sessions)
        BY <1>10, <4>1 DEF Range
      <4> QED
        BY <1>11, <2>3, <3>4, <4>1, <4>2
    <3>7. k \in 1..n /\ Rank(sorted[k]) <= Rank(sorted[m])
      BY <1>6, <1>11, <3>6
    <3>8. PICK j \in I : sorted[k] = dated[j]
      BY <1>6, <3>7
    <3>9. sorted[k].age \in Nat \cup {Unknown}
      BY <1>2, <1>4, <3>8
    <3>10. Rank(sorted[m]) = 0 /\ Rank(sorted[k]) \in Nat
      BY <3>4, <3>9, RankIs
    <3>11. Rank(sorted[k]) = 0
      BY <3>7, <3>10
    <3>12. sorted[k].status = "blocked"
      BY <3>9, <3>11, RankIs
    <3> QED
      BY <1>11, <3>5, <3>12
  <2> QED
    BY <1>8, <2>1, <2>2, <2>3 DEF WellCut
<1> QED
  BY <1>7, <1>9, <1>10, <1>12, <1>13, <1>14, <1>15 DEF SnapOK, s

-----------------------------------------------------------------------------
(* What the tool says. *)

\* The properties of an answer last as long as the answer.
LEMMA AnswerStays ==
  ASSUME FeedInv, UNCHANGED <<cfg, henk, answer>>
  PROVE  NothingPrivateIsTold' /\ EverySessionIsCounted'
<1>1. \A p : Private(p)' <=> Private(p)
  BY DEF Private
<1> QED
  BY <1>1 DEF FeedInv, NothingPrivateIsTold, EverySessionIsCounted

\* An answer without a snapshot tells no session.
LEMMA SaysOK ==
  ASSUME NEW row, row # "shown", answer' = Says(row)
  PROVE  NothingPrivateIsTold' /\ EverySessionIsCounted'
<1>1. answer'.row # "shown" /\ answer'.listed = <<>>
  BY DEF Says
<1> QED
  BY <1>1 DEF NothingPrivateIsTold, EverySessionIsCounted

\* An answer with one tells what the snapshot holds, less what Henk's own allowlist
\* and shapes refuse, and counts that (_render).
LEMMA ShownOK ==
  ASSUME FeedInv, NEW frame, NEW met, SnapOK(frame.snap),
         UNCHANGED <<cfg, henk>>, answer' = Shown(frame, met)
  PROVE  NothingPrivateIsTold' /\ EverySessionIsCounted'
<1> DEFINE s == frame.snap
           all == DOMAIN s.sessions
           usable == {i \in all : /\ s.sessions[i].pane \notin OddPanes
                                  /\ s.sessions[i].project \notin OddLabels}
           listed == {i \in usable : s.sessions[i].project \in henk.allow}
           told == Ordered(s.sessions, listed)
<1>1. /\ answer'.listed = told /\ answer'.frame[1] = frame
      /\ answer'.filtered = Cardinality(usable \ listed)
      /\ answer'.unusable = Cardinality(all \ usable)
  BY DEF Shown
<1>2. /\ Len(s.sessions) \in Nat /\ all = 1..Len(s.sessions) /\ s.dropped \in Nat
      /\ \A k \in all : Rank(s.sessions[k]) \in Int
      /\ Cleared(s) /\ Accounted(s)
  BY DEF SnapOK
<1>3. usable \subseteq all /\ listed \subseteq usable
  OBVIOUS
<1>4. \A i \in listed : s.sessions[i].project \in henk.allow
  OBVIOUS
<1> HIDE DEF s, all, usable, listed
<1>5. IsFiniteSet(all) /\ Cardinality(all) = Len(s.sessions)
  BY <1>2, IndicesAre
<1>6. IsFiniteSet(usable) /\ IsFiniteSet(listed)
  BY <1>3, <1>5, FS_Subset
<1>7. Sortable(s.sessions, listed)
  BY <1>2, <1>3, <1>6 DEF Sortable, all
<1>8. /\ Cardinality(listed) \in Nat /\ DOMAIN told = 1..Cardinality(listed)
      /\ Len(told) = Cardinality(listed)
      /\ \A k \in 1..Cardinality(listed) : \E i \in listed : told[k] = s.sessions[i]
  BY <1>7, OrderedIs
<1> HIDE DEF told
<1>9. NothingPrivateIsTold'
  <2> SUFFICES ASSUME NEW k \in DOMAIN told
               PROVE  /\ told[k].project \in henk.allow
                      /\ \E a \in Range(s.about.agents) :
                           /\ a.pane = told[k].pane
                           /\ \A p \in {a.cwd, a.foreground} \ {<<>>} : ~Private(p)
    <3>1. \A p : Private(p)' <=> Private(p)
      BY DEF Private
    <3> QED
      BY <1>1, <3>1 DEF NothingPrivateIsTold, s
  <2>1. PICK i \in listed : told[k] = s.sessions[i]
    BY <1>8
  <2>2. PICK a \in Range(s.about.agents) :
          a.pane = s.sessions[i].pane /\ \A p \in Reported(a) : ~Private(p)
    BY <1>2, <1>3 DEF Cleared, all
  <2>3. {a.cwd, a.foreground} \ {<<>>} \subseteq Reported(a)
    BY DEF Reported
  <2> QED
    BY <1>4, <2>1, <2>2, <2>3
<1>10. EverySessionIsCounted'
  <2> SUFFICES ASSUME cfg.unlisted
               PROVE  Len(s.about.agents) = Len(told) + Cardinality(usable \ listed)
                        + Cardinality(all \ usable) + s.dropped + s.unlisted[1]
    BY <1>1 DEF EverySessionIsCounted, s
  <2>1. /\ s.unlisted[1] \in Nat
        /\ Len(s.about.agents) = Len(s.sessions) + s.dropped + s.unlisted[1]
    BY <1>2 DEF Accounted
  <2>2. /\ Cardinality(usable \ listed) = Cardinality(usable) - Cardinality(usable \cap listed)
        /\ Cardinality(all \ usable) = Cardinality(all) - Cardinality(all \cap usable)
    BY <1>5, <1>6, FS_Difference
  <2>3. usable \cap listed = listed /\ all \cap usable = usable
    BY <1>3
  <2>4. Cardinality(usable) \in Nat
    BY <1>6, FS_CardinalityType
  <2>5. /\ Cardinality(usable \ listed) = Cardinality(usable) - Cardinality(listed)
        /\ Cardinality(all \ usable) = Len(s.sessions) - Cardinality(usable)
    BY <1>5, <2>2, <2>3
  <2> QED
    BY <1>2, <1>8, <2>1, <2>4, <2>5
<1> QED
  BY <1>9, <1>10

\* The newest candidate decides (_run).
LEMMA ConcludedOK ==
  ASSUME FeedInv, NEW seconds, NEW met,
         UNCHANGED <<cfg, henk>>, answer' = Concluded(seconds, met)
  PROVE  NothingPrivateIsTold' /\ EverySessionIsCounted'
<1> DEFINE C == Candidates(Polled(seconds))
<1>1. CASE C = {}
  <2>1. answer' \in {Says("G2"), Says("G3")}
    BY <1>1 DEF Concluded
  <2> QED
    BY <2>1, SaysOK
<1>2. CASE C # {}
  <2>1. Len(topic) \in Nat /\ DOMAIN topic = 1..Len(topic)
    BY DEF FeedInv
  <2>2. C \subseteq 1..Len(topic) /\ \A i \in C : topic[i].kind \in {"snapshot", "schema"}
    BY <2>1 DEF Candidates, Polled, Window
  <2>3. answer' = IF topic[Max(C)].kind = "schema" THEN Says("G4") ELSE Shown(topic[Max(C)], met)
    BY <1>2 DEF Concluded
  <2> HIDE DEF C
  <2>4. Max(C) \in C
    BY <1>2, <2>1, <2>2, MaxIs
  <2>5. CASE topic[Max(C)].kind = "schema"
    BY <2>3, <2>5, SaysOK
  <2>6. CASE topic[Max(C)].kind # "schema"
    <3>1. topic[Max(C)].snap \in Carried
      BY <2>1, <2>2, <2>4, <2>6 DEF Carried, Ours
    <3>2. SnapOK(topic[Max(C)].snap)
      BY <3>1 DEF FeedInv
    <3> QED
      BY <2>3, <2>6, <3>2, ShownOK
  <2> QED
    BY <2>5, <2>6
<1> QED
  BY <1>1, <1>2

-----------------------------------------------------------------------------
(* The steps. *)

\* A snapshot is as fit as it was while the publisher's file is what it was.
LEMMA FitStays ==
  ASSUME UNCHANGED cfg, NEW s, SnapOK(s)
  PROVE  SnapOK(s)'
<1>1. \A p : Private(p)' <=> Private(p)
  BY DEF Private
<1>2. Cleared(s)'
  BY <1>1 DEF SnapOK, Cleared
<1>3. Accounted(s)'
  BY DEF SnapOK, Accounted
<1>4. WellCut(s)'
  BY <1>1 DEF SnapOK, WellCut
<1> QED
  BY <1>2, <1>3, <1>4 DEF SnapOK

\* A sequence is one of its own elements.
LEMMA InRange ==
  ASSUME NEW U, NEW q \in Seq(U)
  PROVE  q \in Seq(Range(q))
<1>1. Len(q) \in Nat /\ DOMAIN q = 1..Len(q) /\ q = [i \in 1..Len(q) |-> q[i]]
  OBVIOUS
<1>2. \A i \in 1..Len(q) : q[i] \in Range(q)
  BY <1>1 DEF Range
<1>3. [i \in 1..Len(q) |-> q[i]] \in Seq(Range(q))
  BY <1>1, <1>2
<1> QED
  BY <1>1, <1>3, Zenon

\* One run changes: only its own snapshot can be new.
LEMMA RunSet ==
  ASSUME FeedInv, NEW r \in Runs, NEW pc, NEW snap,
         run' = [run EXCEPT ![r] = [pc |-> pc, snap |-> snap]]
  PROVE  /\ run' = [q \in Runs |-> [pc |-> run'[q].pc, snap |-> run'[q].snap]]
         /\ \A s \in Held' : s \in Held \/ (pc # "idle" /\ s = snap)
<1>1. run = [q \in Runs |-> [pc |-> run[q].pc, snap |-> run[q].snap]]
  BY DEF FeedInv
<1>2. run' = [q \in Runs |-> IF q = r THEN [pc |-> pc, snap |-> snap] ELSE run[q]]
  BY <1>1
<1>3. run'[r] = [pc |-> pc, snap |-> snap] /\ \A q \in Runs \ {r} : run'[q] = run[q]
  BY <1>2
<1>4. \A q \in Runs : run'[q] = [pc |-> run'[q].pc, snap |-> run'[q].snap]
  BY <1>1, <1>3
<1>5. run' = [q \in Runs |-> run'[q]]
  BY <1>2
<1>6. run' = [q \in Runs |-> [pc |-> run'[q].pc, snap |-> run'[q].snap]]
  BY <1>4, <1>5
<1>7. ASSUME NEW s \in Held' PROVE s \in Held \/ (pc # "idle" /\ s = snap)
  <2>1. PICK q \in Runs : run'[q].pc # "idle" /\ run'[q].snap = s
    BY DEF Held
  <2> QED
    BY <1>3, <2>1 DEF Held
<1> QED
  BY <1>6, <1>7

\* The topic grows by a frame.
LEMMA TopicGrows ==
  ASSUME FeedInv, NEW kind, NEW snap, topic' = Append(topic, Frame(kind, snap))
  PROVE  /\ topic' \in Seq(Range(topic'))
         /\ \A s \in Carried' : s \in Carried \/ (kind = "snapshot" /\ s = snap)
<1> DEFINE f == Frame(kind, snap)
           U == Range(topic) \cup {f}
<1>1. f.kind = kind /\ f.snap = snap
  BY DEF Frame
<1> HIDE DEF f
<1>2. topic \in Seq(U) /\ f \in U
  <2>1. topic \in Seq(Range(topic))
    BY DEF FeedInv
  <2> HIDE DEF U
  <2>2. Range(topic) \subseteq U
    BY DEF U
  <2> QED
    BY <2>1, <2>2 DEF U
<1> HIDE DEF U
<1>3. topic' = Append(topic, f)
  BY DEF f
<1>4. /\ topic' \in Seq(U) /\ Len(topic) \in Nat
      /\ DOMAIN topic = 1..Len(topic) /\ DOMAIN topic' = 1..Len(topic) + 1
      /\ topic'[Len(topic) + 1] = f /\ \A i \in 1..Len(topic) : topic'[i] = topic[i]
  BY <1>2, <1>3
<1>5. topic' \in Seq(Range(topic'))
  <2>1. \A q \in Seq(U) : q \in Seq(Range(q))
    BY InRange
  <2> QED
    BY <1>4, <2>1
<1>6. ASSUME NEW s \in Carried' PROVE s \in Carried \/ (kind = "snapshot" /\ s = snap)
  <2>1. PICK i \in 1..Len(topic) + 1 : topic'[i].kind = "snapshot" /\ topic'[i].snap = s
    BY <1>4 DEF Carried, Ours
  <2>2. CASE i = Len(topic) + 1
    BY <1>1, <1>4, <2>1, <2>2
  <2>3. CASE i \in 1..Len(topic)
    BY <1>4, <2>1, <2>3 DEF Carried, Ours
  <2> QED
    BY <1>4, <2>2, <2>3
<1> QED
  BY <1>5, <1>6

\* The server forgets the oldest frames.
LEMMA TopicAges ==
  ASSUME FeedInv, NEW time,
         topic' = SubSeq(topic, Forgotten(time) + 1, Len(topic))
  PROVE  topic' \in Seq(Range(topic')) /\ Carried' \subseteq Carried
<1> DEFINE b == Forgotten(time)
           U == Range(topic)
           Old == {i \in DOMAIN topic : topic[i].time < time}
<1>1. topic \in Seq(U) /\ Len(topic) \in Nat /\ DOMAIN topic = 1..Len(topic)
  BY DEF FeedInv
<1>2. b \in Nat /\ b <= Len(topic)
  <2>1. IsFiniteSet(1..Len(topic)) /\ Cardinality(1..Len(topic)) = Len(topic)
    BY <1>1, IndicesAre
  <2>3. Old \subseteq 1..Len(topic) /\ b = Cardinality(Old)
    BY <1>1 DEF Forgotten
  <2> HIDE DEF Old, b
  <2>4. IsFiniteSet(Old) /\ Cardinality(Old) <= Cardinality(1..Len(topic))
    BY <2>1, <2>3, FS_Subset
  <2> QED
    BY <2>1, <2>3, <2>4, FS_CardinalityType
<1>3. topic' = SubSeq(topic, b + 1, Len(topic))
  OBVIOUS
<1> HIDE DEF b, U
<1>4. /\ topic' \in Seq(U) /\ DOMAIN topic' = 1..Len(topic) - b
      /\ \A i \in 1..Len(topic) - b : topic'[i] = topic[b + i]
  <2>1. /\ topic' \in Seq(U) /\ Len(topic') = Len(topic) - b
        /\ \A i \in 1..Len(topic) - b : topic'[i] = topic[b + i]
    <3>1. /\ SubSeq(topic, b + 1, Len(topic)) \in Seq(U)
          /\ Len(SubSeq(topic, b + 1, Len(topic))) = Len(topic) - b
          /\ \A i \in 1..Len(topic) - b : SubSeq(topic, b + 1, Len(topic))[i] = topic[b + i]
      BY <1>1, <1>2, RestIs, Zenon
    <3> DEFINE rest == SubSeq(topic, b + 1, Len(topic))
    <3>2. rest \in Seq(U) /\ Len(rest) = Len(topic) - b
          /\ \A i \in 1..Len(topic) - b : rest[i] = topic[b + i]
      BY <3>1
    <3>3. topic' = rest
      BY <1>3
    <3> HIDE DEF rest
    <3> QED
      BY <3>2, <3>3
  <2> QED
    BY <2>1
<1>5. topic' \in Seq(Range(topic'))
  <2>1. \A q \in Seq(U) : q \in Seq(Range(q))
    BY InRange
  <2> QED
    BY <1>4, <2>1
<1>6. ASSUME NEW s \in Carried' PROVE s \in Carried
  <2>1. PICK i \in 1..Len(topic) - b : topic'[i].kind = "snapshot" /\ topic'[i].snap = s
    BY <1>4 DEF Carried, Ours
  <2>2. b + i \in DOMAIN topic
    BY <1>1, <1>2
  <2> QED
    BY <1>4, <2>1, <2>2 DEF Carried, Ours
<1> QED
  BY <1>5, <1>6

\* A step that adds no snapshot but fit ones, and whose answer is right, keeps all.
LEMMA Keeps ==
  ASSUME FeedInv, UNCHANGED <<cfg, henk>>,
         (\E w \in Worlds : estate = w.agents /\ ages = w.ages)',
         run' = [r \in Runs |-> [pc |-> run'[r].pc, snap |-> run'[r].snap]],
         topic' \in Seq(Range(topic')),
         \A s \in Held' \cup Carried' : SnapOK(s),
         NothingPrivateIsTold', EverySessionIsCounted'
  PROVE  FeedInv'
<1>1. \A s \in Held' \cup Carried' : SnapOK(s)'
  BY FitStays
<1>2. (<<cfg, henk>> \in Setups)'
  BY DEF FeedInv
<1> QED
  BY <1>1, <1>2 DEF FeedInv

\* Nothing of the estate or of the publisher's end moves, nor does the topic.
LEMMA AnswerKeeps ==
  ASSUME FeedInv, UNCHANGED <<cfg, henk, estate, ages, run, topic>>,
         NothingPrivateIsTold', EverySessionIsCounted'
  PROVE  FeedInv'
<1>1. Held' = Held /\ Carried' = Carried
  BY DEF Held, Carried, Ours
<1> QED
  BY <1>1, Keeps DEF FeedInv

\* A run that ends holds nothing.
LEMMA EndsKeeps ==
  ASSUME FeedInv, NEW r \in Runs, NEW done, Ends(r, done),
         UNCHANGED <<cfg, henk, estate, ages, topic>>,
         NothingPrivateIsTold', EverySessionIsCounted'
  PROVE  FeedInv'
<1>1. run' = [run EXCEPT ![r] = [pc |-> "idle", snap |-> <<>>]]
  BY DEF Ends, Idle
<1>2. /\ run' = [q \in Runs |-> [pc |-> run'[q].pc, snap |-> run'[q].snap]]
      /\ \A s \in Held' : s \in Held
  BY <1>1, RunSet
<1>3. Carried' = Carried
  BY DEF Carried, Ours
<1> QED
  BY <1>2, <1>3, Keeps DEF FeedInv

\* tick, up to the publish decision: what a run sets out to post is fit.
LEMMA StartKeeps ==
  ASSUME FeedInv, NEW r \in Runs, NEW git \in BOOLEAN, Start(r, git)
  PROVE  FeedInv'
<1>1. NothingPrivateIsTold' /\ EverySessionIsCounted'
  BY SaysOK DEF Start, Quiet
<1>2. UNCHANGED <<cfg, henk, estate, ages, topic>> /\ Loads(cfg)
  BY DEF Start
<1>3. CASE Wanted(Key(Snapshot(git)))
  <2>1. SnapOK(Snapshot(git))
    BY <1>2, SnapshotOK
  <2>2. run' = [run EXCEPT ![r] = [pc |-> "post", snap |-> Snapshot(git)]]
    BY <1>3 DEF Start
  <2> DEFINE snap == Snapshot(git)
  <2> HIDE DEF snap
  <2>3. run' = [run EXCEPT ![r] = [pc |-> "post", snap |-> snap]] /\ SnapOK(snap)
    BY <2>1, <2>2 DEF snap
  <2>4. /\ run' = [q \in Runs |-> [pc |-> run'[q].pc, snap |-> run'[q].snap]]
        /\ \A s \in Held' : s \in Held \/ s = snap
    BY <2>3, RunSet
  <2>5. Carried' = Carried
    BY <1>2 DEF Carried, Ours
  <2>6. \A s \in Held' \cup Carried' : SnapOK(s)
    BY <2>3, <2>4, <2>5 DEF FeedInv
  <2> QED
    BY <1>1, <1>2, <2>4, <2>6, Keeps DEF FeedInv
<1>4. CASE ~Wanted(Key(Snapshot(git)))
  <2>1. Ends(r, TRUE)
    BY <1>4 DEF Start
  <2> QED
    BY <1>1, <1>2, <2>1, EndsKeeps
<1> QED
  BY <1>3, <1>4

\* publish: what reaches the topic is what the run held.
LEMMA PostKeeps ==
  ASSUME FeedInv, NEW r \in Runs, NEW reaches \in BOOLEAN, NEW answered \in BOOLEAN,
         Post(r, reaches, answered)
  PROVE  FeedInv'
<1> DEFINE snap == run[r].snap
<1>1. NothingPrivateIsTold' /\ EverySessionIsCounted'
  BY SaysOK DEF Post, Quiet
<1>2. UNCHANGED <<cfg, henk, estate, ages>> /\ snap \in Held
  BY DEF Post, Held
<1>3. topic' \in Seq(Range(topic')) /\ \A s \in Carried' : s \in Carried \/ s = snap
  <2>1. CASE reaches
    <3>1. topic' = Append(topic, Frame("snapshot", snap))
      BY <2>1 DEF Post
    <3> HIDE DEF snap
    <3> QED
      BY <3>1, TopicGrows
  <2>2. CASE ~reaches
    <3>1. topic' = topic
      BY <2>2 DEF Post
    <3> QED
      BY <3>1 DEF FeedInv, Carried, Ours
  <2> QED
    BY <2>1, <2>2
<1>4. /\ run' = [q \in Runs |-> [pc |-> run'[q].pc, snap |-> run'[q].snap]]
      /\ \A s \in Held' : s \in Held \/ s = snap
  <2>1. CASE reaches /\ answered
    <3>1. run' = [run EXCEPT ![r].pc = "write"]
      BY <2>1 DEF Post
    <3>2. run[r] = [pc |-> run[r].pc, snap |-> snap]
      BY DEF FeedInv
    <3>3. [run[r] EXCEPT !.pc = "write"] = [pc |-> "write", snap |-> snap]
      <4>1. \A p, s : [[pc |-> p, snap |-> s] EXCEPT !.pc = "write"] = [pc |-> "write", snap |-> s]
        OBVIOUS
      <4> QED
        BY <3>2, <4>1
    <3>4. run' = [run EXCEPT ![r] = [run[r] EXCEPT !.pc = "write"]]
      BY <3>1
    <3>5. run' = [run EXCEPT ![r] = [pc |-> "write", snap |-> snap]]
      BY <3>3, <3>4
    <3> HIDE DEF snap
    <3> QED
      BY <3>5, RunSet
  <2>2. CASE ~(reaches /\ answered)
    <3>1. run' = [run EXCEPT ![r] = [pc |-> "idle", snap |-> <<>>]]
      BY <2>2 DEF Post, Ends, Idle
    <3> HIDE DEF snap
    <3> QED
      BY <3>1, RunSet
  <2> QED
    BY <2>1, <2>2
<1>5. \A s \in Held' \cup Carried' : SnapOK(s)
  BY <1>2, <1>3, <1>4 DEF FeedInv
<1> QED
  BY <1>1, <1>2, <1>3, <1>4, <1>5, Keeps DEF FeedInv

\* Only the topic changes, and gains no snapshot.
LEMMA TopicKeeps ==
  ASSUME FeedInv, UNCHANGED <<cfg, henk, estate, ages, run>>, answer' = Quiet,
         topic' \in Seq(Range(topic')), Carried' \subseteq Carried
  PROVE  FeedInv'
<1>1. NothingPrivateIsTold' /\ EverySessionIsCounted'
  BY SaysOK DEF Quiet
<1>2. Held' = Held
  BY DEF Held
<1>3. \A s \in Held' \cup Carried' : SnapOK(s)
  BY <1>2 DEF FeedInv
<1> QED
  BY <1>1, <1>3, Keeps DEF FeedInv

\* A call ends: whatever it says is true of a snapshot of the topic.
LEMMA AskKeeps ==
  ASSUME FeedInv, Ask \/ AskFurther \/ AskFails
  PROVE  FeedInv'
<1>1. UNCHANGED <<cfg, henk, estate, ages, run, topic>>
  BY DEF Ask, AskFurther, AskFails, publisher
<1>2. NothingPrivateIsTold' /\ EverySessionIsCounted'
  <2>1. CASE Ask
    <3> DEFINE met == Tally(henk.stale, Nothing)
    <3>1. \/ answer' = answer
          \/ answer' = Says("G0")
          \/ answer' = Concluded(henk.stale, met)
      BY <2>1 DEF Ask
    <3> HIDE DEF met
    <3>2. CASE answer' = answer
      BY <1>1, <3>2, AnswerStays
    <3>3. CASE answer' = Says("G0")
      BY <3>3, SaysOK
    <3>4. CASE answer' = Concluded(henk.stale, met)
      BY <1>1, <3>4, ConcludedOK
    <3> QED
      BY <3>1, <3>2, <3>3, <3>4
  <2>2. CASE AskFurther
    <3> DEFINE met == Tally(henk.lookback, poll[1])
    <3>1. answer' = Concluded(henk.lookback, met)
      BY <2>2 DEF AskFurther
    <3> HIDE DEF met
    <3> QED
      BY <1>1, <3>1, ConcludedOK
  <2>3. CASE AskFails
    BY <2>3, SaysOK DEF AskFails
  <2> QED
    BY <2>1, <2>2, <2>3
<1> QED
  BY <1>1, <1>2, AnswerKeeps

\* A publisher's run, step by step.
LEMMA PublishKeeps ==
  ASSUME FeedInv, NEW r \in Runs, Publish(r)
  PROVE  FeedInv'
<1>1. ASSUME NEW git \in BOOLEAN, Start(r, git) PROVE FeedInv'
  BY <1>1, StartKeeps
<1>2. CASE SourceFails(r)
  <2>1. UNCHANGED <<cfg, henk, estate, ages, run, topic>> /\ answer' = Says("nothing yet")
    BY <1>2 DEF SourceFails, publisher, Quiet
  <2> QED
    BY <2>1, SaysOK, AnswerKeeps
<1>3. CASE NoToken(r)
  <2>1. /\ UNCHANGED <<cfg, henk, estate, ages, topic>> /\ answer' = Says("nothing yet")
        /\ Ends(r, FALSE)
    BY <1>3 DEF NoToken, Quiet
  <2> QED
    BY <2>1, SaysOK, EndsKeeps
<1>4. CASE Busy(r)
  <2>1. UNCHANGED vars
    BY <1>4 DEF Busy
  <2>2. UNCHANGED <<cfg, henk, estate, ages, run, topic, answer>>
    BY <2>1 DEF vars
  <2> QED
    BY <2>2, AnswerStays, AnswerKeeps
<1>5. ASSUME NEW reaches \in BOOLEAN, NEW answered \in BOOLEAN, Post(r, reaches, answered)
      PROVE  FeedInv'
  BY <1>5, PostKeeps
<1>6. CASE Finish(r)
  <2>1. /\ UNCHANGED <<cfg, henk, estate, ages, topic>> /\ answer' = Says("nothing yet")
        /\ Ends(r, TRUE)
    BY <1>6 DEF Finish, Quiet
  <2> QED
    BY <2>1, SaysOK, EndsKeeps
<1>7. CASE Die(r)
  <2>1. /\ UNCHANGED <<cfg, henk, estate, ages, topic>> /\ answer' = Says("nothing yet")
        /\ Ends(r, FALSE)
    BY <1>7 DEF Die, Quiet
  <2> QED
    BY <2>1, SaysOK, EndsKeeps
<1> QED
  BY <1>1, <1>2, <1>3, <1>4, <1>5, <1>6, <1>7 DEF Publish

\* At first nothing is held, carried or said.
LEMMA InitFeed == ASSUME Init PROVE FeedInv
<1>1. <<cfg, henk>> \in Setups
  <2>1. PICK s \in Setups : cfg = s[1] /\ henk = s[2]
    BY DEF Init
  <2>2. s = <<s[1], s[2]>>
    BY FeedAssumption DEF FeedAssumption
  <2> QED
    BY <2>1, <2>2
<1>2. Held = {} /\ run = [r \in Runs |-> [pc |-> run[r].pc, snap |-> run[r].snap]]
  <2>1. run = [r \in Runs |-> [pc |-> "idle", snap |-> <<>>]]
    BY DEF Init, Idle
  <2>2. \A r \in Runs : run[r].pc = "idle" /\ run[r].snap = <<>>
    BY <2>1
  <2> QED
    BY <2>1, <2>2 DEF Held
<1>3. Carried = {} /\ topic \in Seq(Range(topic))
  <2>1. topic = <<>>
    BY DEF Init
  <2> QED
    BY <2>1 DEF Carried, Ours
<1>4. answer.row # "shown" /\ answer.listed = <<>>
  BY DEF Init, Quiet, Says
<1>5. NothingPrivateIsTold /\ EverySessionIsCounted
  BY <1>4 DEF NothingPrivateIsTold, EverySessionIsCounted
<1> QED
  BY <1>1, <1>2, <1>3, <1>5 DEF FeedInv, Init

\* Every step keeps the invariant.
LEMMA StepFeed == ASSUME FeedInv, [Next]_vars PROVE FeedInv'
<1>1. ASSUME NEW r \in Runs, Publish(r) PROVE FeedInv'
  BY <1>1, PublishKeeps
<1>2. CASE Corrupt
  <2>1. UNCHANGED <<cfg, henk, estate, ages, run, topic>> /\ answer' = Says("nothing yet")
    BY <1>2 DEF Corrupt, Quiet
  <2> QED
    BY <2>1, SaysOK, AnswerKeeps
<1>3. CASE Ask \/ AskFurther \/ AskFails
  BY <1>3, AskKeeps
<1>4. CASE Tick
  <2>1. /\ UNCHANGED <<cfg, henk, estate, ages, run>> /\ answer' = Quiet
        /\ topic' = SubSeq(topic, Forgotten(now + 1 - Retention) + 1, Len(topic))
    BY <1>4 DEF Tick, publisher
  <2>2. topic' \in Seq(Range(topic')) /\ Carried' \subseteq Carried
    BY <2>1, TopicAges
  <2> QED
    BY <2>1, <2>2, TopicKeeps
<1>5. CASE WorldChanges
  <2>1. /\ UNCHANGED <<cfg, henk, run, topic>> /\ answer' = Says("nothing yet")
        /\ \E w \in Worlds : estate' = w.agents /\ ages' = w.ages
    BY <1>5 DEF WorldChanges, publisher, Quiet
  <2>2. Held' = Held /\ Carried' = Carried
    BY <2>1 DEF Held, Carried, Ours
  <2>3. NothingPrivateIsTold' /\ EverySessionIsCounted'
    BY <2>1, SaysOK
  <2> QED
    BY <2>1, <2>2, <2>3, Keeps DEF FeedInv
<1>6. ASSUME NEW kind \in {"other", "schema"}, Stray(kind) PROVE FeedInv'
  <2>1. /\ UNCHANGED <<cfg, henk, estate, ages, run>> /\ answer' = Quiet
        /\ topic' = Append(topic, Frame(kind, <<>>))
    BY <1>6 DEF Stray, publisher
  <2>2. topic' \in Seq(Range(topic')) /\ Carried' \subseteq Carried
    BY <2>1, TopicGrows
  <2> QED
    BY <2>1, <2>2, TopicKeeps
<1>7. CASE UNCHANGED vars
  <2>1. UNCHANGED <<cfg, henk, estate, ages, run, topic, answer>>
    BY <1>7 DEF vars
  <2> QED
    BY <2>1, AnswerStays, AnswerKeeps
<1> QED
  BY <1>1, <1>2, <1>3, <1>4, <1>5, <1>6, <1>7 DEF Next

-----------------------------------------------------------------------------
(* Time: what a run that completed says of the newest snapshot. *)

Newest == topic[Max(Ours)]
KeyNow == Key(Snapshot(TRUE))

\* A run lasts no time. What it holds is the estate's unless that has just changed, and
\* once it was acknowledged it is the newest of the topic.
RunOK(r) ==
  run[r].pc # "idle" =>
    /\ run[r].pc \in {"post", "write"} /\ lock = r /\ Loads(cfg)
    /\ run[r].snap.at = now
    /\ Key(run[r].snap) = KeyNow \/ since = now
    /\ run[r].pc = "write" => Ours # {} /\ Newest.snap = run[r].snap /\ Newest.time = now

\* The topic is in the order of the server's clock, and a snapshot is posted as it is taken.
TopicOK ==
  /\ \A i \in DOMAIN topic : /\ topic[i].time \in 0..now
                             /\ topic[i].kind = "snapshot" => topic[i].snap.at = topic[i].time
  /\ \A i, j \in DOMAIN topic : i <= j => topic[i].time <= topic[j].time
  /\ Ours # {} => Loads(cfg)

\* What was last acknowledged is not newer than the newest.
StoredOK == \A s \in stored : s.at \in 0..now /\ (Ours # {} => s.at <= Newest.time)

\* The timer's slot that lasts now began at this time.
SlotIs(slot) == slot \in 0..now /\ slot % cfg.tick = 0 /\ now < slot + cfg.tick

\* A run that completed in a slot left the newest snapshot as young as the heartbeat says.
Fresh(slot) ==
  Ours # {} => /\ served => slot + cfg.tick <= Newest.time + cfg.heartbeat
               /\ missed = 0 => slot <= Newest.time + cfg.heartbeat
               /\ missed = 1 => slot <= Newest.time + cfg.heartbeat + cfg.tick

\* The newest snapshot is the estate's; or none was acknowledged since the last change,
\* and no slot has been served since but while the heartbeat was not due.
Agreed == Ours # {} /\ Key(Newest.snap) = KeyNow
Overdue(slot) ==
  /\ \A s \in stored : s.at <= since
  /\ served /\ slot > since => slot + cfg.tick <= since + cfg.heartbeat
  /\ slot - cfg.tick > since => slot <= since + cfg.heartbeat

\* The server keeps a frame for longer than acknowledged publishes are apart.
Kept(c) == c.heartbeat + c.tick <= Retention + 1
Rhythm ==
  Loads(cfg) => \E slot \in Nat :
    /\ SlotIs(slot) /\ (since < slot => missed = 0)
    /\ Fresh(slot) /\ (Kept(cfg) => Agreed \/ Overdue(slot))

Clocks == now \in Nat /\ since \in 0..now /\ missed \in 0..3 /\ served \in BOOLEAN
TimeInv == Clocks /\ (\A r \in Runs : RunOK(r)) /\ TopicOK /\ StoredOK /\ Rhythm

\* A heartbeat is at least a tick, in a file that loads.
TicksWithinHeartbeats == \A s \in Setups : Loads(s[1]) => s[1].tick <= s[1].heartbeat

\* The estate and its sources as they are give the same key.
LEMMA KeyStays ==
  ASSUME UNCHANGED <<cfg, estate, ages>>
  PROVE  KeyNow' = KeyNow
<1>1. \A p : RootLabel(p)' = RootLabel(p)
  BY DEF RootLabel, Denied, Allowing
<1>2. \A a : Admitted(a, TRUE)' <=> Admitted(a, TRUE)
  BY <1>1 DEF Admitted, OwnerPasses
<1>3. \A a : SessionOf(a)' = SessionOf(a)
  BY <1>1 DEF SessionOf
<1>4. \A a : Dated(a)' = Dated(a)
  BY DEF Dated
<1>5. \A I : Unlisted(I)' = Unlisted(I)
  BY DEF Unlisted, Blocked
<1> DEFINE admitted == {i \in DOMAIN estate : Admitted(estate[i], TRUE)}
           sorted == Ordered([i \in DOMAIN estate |-> Dated(estate[i])], admitted)
           dropped == Dropped(Len(sorted))
           sessions == [k \in 1..Len(sorted) - dropped |-> SessionOf(sorted[k])]
           unlisted == IF cfg.unlisted THEN Unlisted(DOMAIN estate \ admitted) ELSE <<>>
<1>6. admitted' = admitted
  BY <1>2
<1>7. [i \in DOMAIN estate |-> Dated(estate[i])]' = [i \in DOMAIN estate |-> Dated(estate[i])]
  BY <1>4
<1>8. sorted' = sorted
  <2> HIDE DEF admitted
  <2> QED
    BY <1>6, <1>7
<1>9. dropped' = dropped
  BY <1>8
<1>10. sessions' = sessions
  <2> HIDE DEF sorted, dropped
  <2> QED
    BY <1>3, <1>8, <1>9
<1>11. unlisted' = unlisted
  <2> HIDE DEF admitted
  <2> QED
    BY <1>5, <1>6
<1>12. Snapshot(TRUE) =
         [sessions |-> sessions, dropped |-> dropped, ages |-> ages, unlisted |-> unlisted,
          at |-> now, about |-> [agents |-> estate, git |-> TRUE]]
  BY Zenon DEF Snapshot
<1>13. Snapshot(TRUE)' =
         [sessions |-> sessions', dropped |-> dropped', ages |-> ages', unlisted |-> unlisted',
          at |-> now', about |-> [agents |-> estate', git |-> TRUE]]
  BY Zenon DEF Snapshot
<1> HIDE DEF sessions, dropped, unlisted
<1>14. ASSUME NEW x, NEW y, NEW u, NEW v, NEW at, NEW about, NEW s,
              s = [sessions |-> x, dropped |-> y, ages |-> u, unlisted |-> v,
                   at |-> at, about |-> about]
       PROVE  Key(s) = << [i \in DOMAIN x |-> <<x[i].pane, x[i].project, x[i].status>>], y, u, v >>
  BY <1>14 DEF Key
<1> DEFINE K == << [i \in DOMAIN sessions |->
                      <<sessions[i].pane, sessions[i].project, sessions[i].status>>],
                   dropped, ages, unlisted >>
<1>15. Key(Snapshot(TRUE)) = K
  <2> DEFINE s == Snapshot(TRUE)
  <2>1. s = [sessions |-> sessions, dropped |-> dropped, ages |-> ages, unlisted |-> unlisted,
             at |-> now, about |-> [agents |-> estate, git |-> TRUE]]
    BY <1>12
  <2> HIDE DEF s
  <2>2. Key(s) = K
    BY <1>14, <2>1
  <2> QED
    BY <2>2 DEF s
<1>16. Key(Snapshot(TRUE)') = K'
  <2> DEFINE s == Snapshot(TRUE)'
             x == sessions'
             y == dropped'
             u == ages'
             v == unlisted'
  <2>1. s = [sessions |-> x, dropped |-> y, ages |-> u, unlisted |-> v,
             at |-> now', about |-> [agents |-> estate', git |-> TRUE]]
    BY <1>13
  <2> HIDE DEF s, x, y, u, v
  <2>2. Key(s) = << [i \in DOMAIN x |-> <<x[i].pane, x[i].project, x[i].status>>], y, u, v >>
    BY <1>14, <2>1
  <2> QED
    BY <2>2 DEF s, x, y, u, v
<1>17. K' = K
  BY <1>9, <1>10, <1>11
<1>18. KeyNow' = Key(Snapshot(TRUE)')
  BY DEF KeyNow, Key
<1> QED
  BY <1>15, <1>16, <1>17, <1>18 DEF KeyNow

\* A snapshot is taken now.
LEMMA SnapshotAt == \A git : Snapshot(git).at = now
BY DEF Snapshot

\* The newest snapshot of the topic.
LEMMA NewestIs ==
  ASSUME FeedInv
  PROVE  /\ Len(topic) \in Nat /\ DOMAIN topic = 1..Len(topic) /\ Ours \subseteq 1..Len(topic)
         /\ Ours # {} => Max(Ours) \in Ours /\ \A i \in Ours : i <= Max(Ours)
<1>1. Len(topic) \in Nat /\ DOMAIN topic = 1..Len(topic)
  BY DEF FeedInv
<1>2. Ours \in SUBSET (1..Len(topic))
  BY <1>1 DEF Ours
<1>3. Ours # {} => Max(Ours) \in Ours /\ \A i \in Ours : i <= Max(Ours)
  BY <1>1, <1>2, MaxIs
<1> QED
  BY <1>1, <1>2, <1>3

\* A frame more: if it is a snapshot, it is the newest.
LEMMA NewestGrows ==
  ASSUME FeedInv, NEW kind, NEW snap, topic' = Append(topic, Frame(kind, snap))
  PROVE  /\ DOMAIN topic' = 1..Len(topic) + 1
         /\ \A i \in 1..Len(topic) : topic'[i] = topic[i]
         /\ LET f == topic'[Len(topic) + 1] IN f.kind = kind /\ f.time = now /\ f.snap = snap
         /\ kind = "snapshot" => Ours' # {} /\ Newest'.snap = snap /\ Newest'.time = now
         /\ kind # "snapshot" => Ours' = Ours /\ (Ours # {} => Newest' = Newest)
<1> DEFINE f == Frame(kind, snap)
           n == Len(topic)
<1>1. f.kind = kind /\ f.time = now /\ f.snap = snap
  BY DEF Frame
<1>2. topic' = Append(topic, f) /\ topic \in Seq(Range(topic))
  BY DEF FeedInv
<1> HIDE DEF f
<1>3. /\ n \in Nat /\ DOMAIN topic = 1..n /\ DOMAIN topic' = 1..n + 1
      /\ topic'[n + 1] = f /\ \A i \in 1..n : topic'[i] = topic[i]
  BY <1>2
<1> HIDE DEF n
<1>4. ASSUME kind = "snapshot"
      PROVE  Ours' # {} /\ Newest'.snap = snap /\ Newest'.time = now
  <2>1. Ours' \in SUBSET (1..n + 1) /\ n + 1 \in Ours'
    BY <1>1, <1>3, <1>4 DEF Ours
  <2>2. Max(Ours') \in Ours' /\ \A i \in Ours' : i <= Max(Ours')
    <3> DEFINE I == Ours'
    <3> HIDE DEF I
    <3>1. I \in SUBSET (1..n + 1) /\ I # {} /\ n + 1 \in Nat
      BY <1>3, <2>1 DEF I
    <3>2. Max(I) \in I /\ \A i \in I : i <= Max(I)
      BY <3>1, MaxIs
    <3> QED
      BY <3>2 DEF I
  <2>3. Max(Ours') = n + 1
    <3> DEFINE m == Max(Ours')
               J == Ours'
    <3>1. m \in J /\ (\A i \in J : i <= m) /\ J \in SUBSET (1..n + 1) /\ n + 1 \in J
      BY <2>1, <2>2
    <3> HIDE DEF m, J
    <3>2. m = n + 1
      BY <1>3, <3>1
    <3> QED
      BY <3>2 DEF m
  <2>4. Newest' = f
    BY <1>3, <2>3 DEF Newest, Max
  <2> QED
    BY <1>1, <2>1, <2>4
<1>5. ASSUME kind # "snapshot" PROVE Ours' = Ours /\ (Ours # {} => Newest' = Newest)
  <2>1. Ours' = Ours
    BY <1>1, <1>3, <1>5 DEF Ours
  <2>2. Max(Ours') = Max(Ours)
    BY <2>1
  <2>3. Ours # {} => Newest' = Newest
    BY <1>3, <2>1, <2>2, NewestIs DEF Newest, Max, n
  <2> QED
    BY <2>1, <2>3
<1> QED
  BY <1>1, <1>3, <1>4, <1>5 DEF n

\* The server forgets what is older than this: the newest snapshot last.
LEMMA NewestAges ==
  ASSUME FeedInv, TopicOK, now \in Nat, NEW time \in Int,
         topic' = SubSeq(topic, Forgotten(time) + 1, Len(topic))
  PROVE  /\ Ours' # {} => Ours # {} /\ Newest' = Newest
         /\ Ours # {} /\ Newest.time >= time => Ours' # {}
         /\ \E b \in Nat : /\ b <= Len(topic) /\ DOMAIN topic' = 1..Len(topic) - b
                           /\ \A i \in 1..Len(topic) - b : topic'[i] = topic[b + i]
<1> DEFINE b == Forgotten(time)
           n == Len(topic)
           U == Range(topic)
           Old == {i \in DOMAIN topic : topic[i].time < time}
           I == Ours'
<1>1. topic \in Seq(U) /\ n \in Nat /\ DOMAIN topic = 1..n
  BY DEF FeedInv
<1>2. IsFiniteSet(1..n) /\ Cardinality(1..n) = n
  BY <1>1, IndicesAre
<1>3. Old \in SUBSET (1..n) /\ b = Cardinality(Old)
  BY <1>1 DEF Forgotten
<1>4. b \in Nat /\ b <= n
  <2> HIDE DEF Old, b, n
  <2>1. IsFiniteSet(Old) /\ Cardinality(Old) <= Cardinality(1..n)
    BY <1>2, <1>3, FS_Subset
  <2> QED
    BY <1>2, <1>3, <2>1, FS_CardinalityType
<1> HIDE DEF b, U
<1>5. DOMAIN topic' = 1..n - b /\ \A i \in 1..n - b : topic'[i] = topic[b + i]
  <2> DEFINE rest == SubSeq(topic, b + 1, Len(topic))
  <2>1. /\ SubSeq(topic, b + 1, Len(topic)) \in Seq(U)
        /\ Len(SubSeq(topic, b + 1, Len(topic))) = Len(topic) - b
        /\ \A i \in 1..Len(topic) - b : SubSeq(topic, b + 1, Len(topic))[i] = topic[b + i]
    BY <1>1, <1>4, RestIs, Zenon
  <2>2. rest \in Seq(U) /\ Len(rest) = n - b /\ \A i \in 1..n - b : rest[i] = topic[b + i]
    BY <2>1
  <2>3. topic' = rest
    BY DEF b
  <2> HIDE DEF rest
  <2>4. topic' \in Seq(U) /\ Len(topic') = n - b
    BY <2>2, <2>3
  <2>5. DOMAIN topic' = 1..n - b
    BY <2>4
  <2> QED
    BY <2>2, <2>3, <2>5
<1> HIDE DEF n, Old
<1>6. I = {i \in 1..n - b : topic[b + i].kind = "snapshot"}
  BY <1>5 DEF Ours
<1>7. Ours = {i \in 1..n : topic[i].kind = "snapshot"}
  BY <1>1 DEF Ours
<1>8. Ours # {} => Max(Ours) \in Ours /\ \A i \in Ours : i <= Max(Ours)
  BY NewestIs
<1> HIDE DEF I
<1>9. ASSUME I # {} PROVE Ours # {} /\ Newest' = Newest
  <2>1. I \in SUBSET (1..n - b) /\ n - b \in Nat
    BY <1>1, <1>4, <1>6
  <2>2. Max(I) \in I /\ \A i \in I : i <= Max(I)
    BY <1>9, <2>1, MaxIs
  <2>3. b + Max(I) \in Ours
    BY <1>1, <1>4, <1>6, <1>7, <2>2
  <2>4. Max(Ours) \in Ours /\ b + Max(I) <= Max(Ours)
    BY <1>8, <2>3
  <2>5. Max(Ours) - b \in I
    BY <1>1, <1>4, <1>6, <1>7, <2>1, <2>2, <2>4
  <2>6. Max(Ours) = b + Max(I)
    <3> DEFINE m == Max(Ours)
               k == Max(I)
    <3>1. m - b \in I /\ k \in I /\ m - b <= k /\ b + k <= m /\ m \in 1..n
      BY <1>7, <2>2, <2>4, <2>5
    <3> HIDE DEF m, k
    <3>2. m = b + k
      BY <1>1, <1>4, <2>1, <3>1
    <3> QED
      BY <3>2 DEF m, k
  <2>7. topic'[Max(I)] = topic[Max(Ours)]
    BY <1>5, <2>1, <2>2, <2>6
  <2> QED
    BY <2>3, <2>7 DEF Newest, I, Max
<1>10. ASSUME Ours # {}, Newest.time >= time PROVE I # {}
  <2> DEFINE m == Max(Ours)
  <2>1. m \in 1..n /\ topic[m].kind = "snapshot" /\ topic[m].time >= time
    BY <1>7, <1>8, <1>10 DEF Newest
  <2> HIDE DEF m
  <2>2. \A i \in Old : i \in 1..m - 1
    <3> TAKE i \in Old
    <3>1. i \in 1..n /\ topic[i].time < time
      BY <1>3 DEF Old
    <3>2. topic[i].time \in 0..now /\ topic[m].time \in 0..now
      <4>1. i \in DOMAIN topic /\ m \in DOMAIN topic
        BY <1>1, <2>1, <3>1
      <4> QED
        BY <4>1 DEF TopicOK
    <3>3. m <= i => topic[m].time <= topic[i].time
      BY <1>1, <2>1, <3>1 DEF TopicOK
    <3> QED
      BY <2>1, <3>1, <3>2, <3>3
  <2>3. Old \in SUBSET (1..m - 1) /\ m - 1 \in Nat
    BY <2>1, <2>2
  <2>4. IsFiniteSet(1..m - 1) /\ Cardinality(1..m - 1) = m - 1
    BY <2>3, IndicesAre
  <2>5. Cardinality(Old) <= Cardinality(1..m - 1)
    BY <2>3, <2>4, FS_Subset
  <2>6. b <= m - 1
    BY <1>3, <2>4, <2>5
  <2>7. m - b \in I
    BY <1>1, <1>4, <1>6, <2>1, <2>6
  <2> QED
    BY <2>7
<1> QED
  BY <1>4, <1>5, <1>9, <1>10 DEF I, n

\* The cadence of the two files.
LEMMA Cadence ==
  ASSUME FeedInv, TicksWithinHeartbeats
  PROVE  /\ cfg.heartbeat \in Int /\ cfg.tick \in Int /\ henk.stale \in Int /\ henk.lookback \in Int
         /\ Loads(cfg) => cfg.tick >= 1 /\ cfg.heartbeat >= cfg.tick
         /\ Retention \in Int /\ ReadBudget \in Int
<1> DEFINE s == <<cfg, henk>>
<1>1. s \in Setups /\ s[1] = cfg /\ s[2] = henk
  BY DEF FeedInv
<1> HIDE DEF s
<1>2. cfg.heartbeat \in Int /\ cfg.tick \in Int /\ henk.stale \in Int /\ henk.lookback \in Int
  BY <1>1, FeedAssumption DEF FeedAssumption
<1>3. Loads(cfg) => cfg.tick <= cfg.heartbeat
  BY <1>1 DEF TicksWithinHeartbeats
<1>4. Loads(cfg) => cfg.tick > 0
  BY DEF Loads
<1>5. Retention \in Int /\ ReadBudget \in Int
  BY FeedAssumption DEF FeedAssumption
<1> QED
  BY <1>2, <1>3, <1>4, <1>5

\* A step that publishes nothing and lets no time pass: what completes in it found nothing
\* new, and no heartbeat due.
LEMMA RhythmSteady ==
  ASSUME FeedInv, TicksWithinHeartbeats, TimeInv,
         UNCHANGED <<cfg, now, missed, estate, ages>>, Ours' = Ours, Ours # {} => Newest' = Newest,
         stored' \subseteq stored, since' = since \/ since' = now, served' \in BOOLEAN,
         served' # served => served' /\ \E s \in stored : now - s.at + cfg.tick <= cfg.heartbeat
  PROVE  Clocks' /\ StoredOK' /\ Rhythm'
<1>1. Clocks'
  BY DEF TimeInv, Clocks
<1>2. StoredOK'
  BY DEF TimeInv, StoredOK
<1>3. Rhythm'
  <2> SUFFICES ASSUME Loads(cfg) PROVE Rhythm'
    BY DEF Rhythm
  <2>1. PICK slot \in Nat :
          /\ SlotIs(slot) /\ (since < slot => missed = 0)
          /\ Fresh(slot) /\ (Kept(cfg) => Agreed \/ Overdue(slot))
    BY DEF TimeInv, Rhythm
  <2>2. /\ cfg.heartbeat \in Int /\ cfg.tick \in Int
        /\ now \in Nat /\ since \in 0..now /\ slot \in 0..now
        /\ \A s \in stored : s.at \in 0..now /\ (Ours # {} => s.at <= Newest.time)
        /\ Ours # {} => Newest.time \in Int
    <3>1. Ours # {} => Newest.time \in Int
      BY NewestIs DEF TimeInv, TopicOK, Newest
    <3> QED
      BY <2>1, <3>1, Cadence DEF TimeInv, Clocks, StoredOK, SlotIs
  <2>3. SlotIs(slot)' /\ (since' < slot => missed' = 0)
    BY <2>1, <2>2 DEF SlotIs
  <2>4. Fresh(slot)'
    <3>1. ASSUME Ours # {}, served' # served PROVE slot + cfg.tick <= Newest.time + cfg.heartbeat
      BY <2>2, <3>1
    <3> QED
      BY <2>1, <3>1 DEF Fresh
  <2>5. Agreed => Agreed'
    BY KeyStays DEF Agreed
  <2>6. Overdue(slot) => Overdue(slot)'
    <3> SUFFICES ASSUME Overdue(slot) PROVE Overdue(slot)'
      OBVIOUS
    <3>1. CASE since' = now
      BY <2>2, <3>1 DEF Overdue
    <3>2. CASE since' = since
      <4>1. served' # served => slot + cfg.tick <= since + cfg.heartbeat
        BY <2>2 DEF Overdue
      <4> QED
        BY <3>2, <4>1 DEF Overdue
    <3> QED
      BY <3>1, <3>2
  <2>7. Kept(cfg)' <=> Kept(cfg)
    BY DEF Kept
  <2> QED
    BY <2>1, <2>3, <2>4, <2>5, <2>6, <2>7 DEF Rhythm
<1> QED
  BY <1>1, <1>2, <1>3

\* A snapshot taken now reaches the topic.
LEMMA RhythmPosts ==
  ASSUME FeedInv, TicksWithinHeartbeats, TimeInv,
         UNCHANGED <<cfg, now, missed, since, served, stored, estate, ages>>,
         Ours' # {}, Newest'.time = now, Key(Newest'.snap) = KeyNow \/ since = now
  PROVE  Clocks' /\ StoredOK' /\ Rhythm'
<1>1. Clocks'
  BY DEF TimeInv, Clocks
<1>2. StoredOK'
  BY DEF TimeInv, StoredOK
<1>3. Rhythm'
  <2> SUFFICES ASSUME Loads(cfg) PROVE Rhythm'
    BY DEF Rhythm
  <2>1. PICK slot \in Nat : SlotIs(slot) /\ (since < slot => missed = 0)
    BY DEF TimeInv, Rhythm
  <2>2. /\ cfg.heartbeat \in Int /\ cfg.tick \in Int /\ cfg.tick >= 1 /\ cfg.tick <= cfg.heartbeat
        /\ now \in Nat /\ since \in 0..now /\ slot \in 0..now
        /\ \A s \in stored : s.at \in 0..now
    BY <2>1, Cadence DEF TimeInv, Clocks, StoredOK, SlotIs
  <2>3. SlotIs(slot)' /\ (since' < slot => missed' = 0)
    BY <2>1 DEF SlotIs
  <2>4. Fresh(slot)'
    BY <2>2 DEF Fresh
  <2>5. since = now => Overdue(slot)'
    BY <2>2 DEF Overdue
  <2>6. Key(Newest'.snap) = KeyNow => Agreed'
    BY KeyStays DEF Agreed
  <2> QED
    BY <2>3, <2>4, <2>5, <2>6 DEF Rhythm
<1> QED
  BY <1>1, <1>2, <1>3

\* The acknowledged snapshot is written down.
LEMMA RhythmFinishes ==
  ASSUME FeedInv, TicksWithinHeartbeats, TimeInv,
         UNCHANGED <<cfg, now, missed, since, topic, estate, ages>>, served' \in BOOLEAN,
         Ours # {}, Newest.time = now, Key(Newest.snap) = KeyNow \/ since = now,
         \A s \in stored' : s.at = now
  PROVE  Clocks' /\ StoredOK' /\ Rhythm'
<1>1. Clocks'
  BY DEF TimeInv, Clocks
<1>2. Ours' = Ours /\ Newest' = Newest
  BY DEF Ours, Newest
<1>3. StoredOK'
  BY <1>2 DEF TimeInv, StoredOK, Clocks
<1>4. Rhythm'
  <2> SUFFICES ASSUME Loads(cfg) PROVE Rhythm'
    BY DEF Rhythm
  <2>1. PICK slot \in Nat : SlotIs(slot) /\ (since < slot => missed = 0)
    BY DEF TimeInv, Rhythm
  <2>2. /\ cfg.heartbeat \in Int /\ cfg.tick \in Int /\ cfg.tick >= 1 /\ cfg.tick <= cfg.heartbeat
        /\ now \in Nat /\ since \in 0..now /\ slot \in 0..now
    BY <2>1, Cadence DEF TimeInv, Clocks, SlotIs
  <2>3. SlotIs(slot)' /\ (since' < slot => missed' = 0)
    BY <2>1 DEF SlotIs
  <2>4. Fresh(slot)'
    BY <1>2, <2>2 DEF Fresh
  <2>5. since = now => Overdue(slot)'
    BY <2>2 DEF Overdue
  <2>6. Key(Newest.snap) = KeyNow => Agreed'
    BY <1>2, KeyStays DEF Agreed
  <2> QED
    BY <2>3, <2>4, <2>5, <2>6 DEF Rhythm
<1> QED
  BY <1>1, <1>3, <1>4

\* The estate or a source changes.
LEMMA RhythmChanges ==
  ASSUME FeedInv, TicksWithinHeartbeats, TimeInv,
         UNCHANGED <<cfg, now, missed, topic, stored, served>>, since' = now
  PROVE  Clocks' /\ StoredOK' /\ Rhythm'
<1>1. Clocks'
  BY DEF TimeInv, Clocks
<1>2. Ours' = Ours /\ Newest' = Newest
  BY DEF Ours, Newest
<1>3. StoredOK'
  BY <1>2 DEF TimeInv, StoredOK
<1>4. Rhythm'
  <2> SUFFICES ASSUME Loads(cfg) PROVE Rhythm'
    BY DEF Rhythm
  <2>1. PICK slot \in Nat : SlotIs(slot) /\ Fresh(slot)
    BY DEF TimeInv, Rhythm
  <2>2. /\ cfg.heartbeat \in Int /\ cfg.tick \in Int /\ cfg.tick >= 1
        /\ now \in Nat /\ slot \in 0..now /\ \A s \in stored : s.at \in 0..now
    BY <2>1, Cadence DEF TimeInv, Clocks, StoredOK, SlotIs
  <2>3. SlotIs(slot)' /\ ~(since' < slot)
    BY <2>1, <2>2 DEF SlotIs
  <2>4. Fresh(slot)'
    BY <1>2, <2>1 DEF Fresh
  <2>5. Overdue(slot)'
    BY <2>2 DEF Overdue
  <2> QED
    BY <2>3, <2>4, <2>5 DEF Rhythm
<1> QED
  BY <1>1, <1>3, <1>4

\* A tick after a slot began another begins.
LEMMA SlotEnds ==
  ASSUME NEW m \in Nat, NEW t \in Nat, t >= 1, m % t = 0
  PROVE  (m + t) % t = 0
<1>1. \A n \in Nat, d \in Nat : d >= 1 => n = d * (n \div d) + (n % d) /\ n \div d \in Nat
  BY SMT
<1>2. PICK q \in Nat : m = t * q
  BY <1>1
<1>3. m + t = t * (q + 1)
  BY <1>2, SMT
<1>4. \A n \in Nat, d \in Nat : d >= 1 => (d * n) % d = 0
  BY SMT
<1>5. (t * (q + 1)) % t = 0
  BY <1>4
<1> QED
  BY <1>3, <1>5

\* Time passes.
LEMMA RhythmTicks ==
  ASSUME FeedInv, TicksWithinHeartbeats, TimeInv, Tick
  PROVE  Clocks' /\ StoredOK' /\ Rhythm'
<1> DEFINE H == cfg.heartbeat
           T == cfg.tick
           f == Newest.time
           low == Min({missed + 1, 3})
<1>1. /\ UNCHANGED <<cfg, estate, ages, stored>> /\ now' = now + 1
      /\ topic' = SubSeq(topic, Forgotten(now + 1 - Retention) + 1, Len(topic))
      /\ IF (now + 1) % cfg.tick = 0
         THEN /\ missed' = IF served THEN 0 ELSE low
              /\ since' = IF served THEN since ELSE now + 1
              /\ served' = FALSE
         ELSE UNCHANGED <<missed, since, served>>
  BY DEF Tick, publisher
<1>2. now \in Nat /\ since \in 0..now /\ missed \in 0..3 /\ served \in BOOLEAN
  BY DEF TimeInv, Clocks
<1>3. low \in 0..3 /\ low # 0 /\ (low = 1 => missed = 0)
  <2>1. {missed + 1, 3} \in SUBSET Nat
    BY <1>2
  <2>2. low \in {missed + 1, 3} /\ \A n \in {missed + 1, 3} : low <= n
    BY <2>1, MinIs
  <2> HIDE DEF low
  <2> QED
    BY <1>2, <2>2
<1> HIDE DEF low
<1>4. Clocks'
  <2>1. CASE (now + 1) % cfg.tick = 0
    <3>1. /\ missed' = 0 \/ missed' = low
          /\ since' = since \/ since' = now + 1
          /\ served' = FALSE /\ now' = now + 1
      BY <1>1, <2>1
    <3>2. now' \in Nat /\ since' \in 0..now' /\ missed' \in 0..3
      BY <1>2, <1>3, <3>1
    <3> QED
      BY <3>1, <3>2 DEF Clocks
  <2>2. CASE (now + 1) % cfg.tick # 0
    <3>1. UNCHANGED <<missed, since, served>>
      BY <1>1, <2>2
    <3> QED
      BY <1>1, <1>2, <3>1 DEF Clocks
  <2> QED
    BY <2>1, <2>2
<1>5. /\ Ours' # {} => Ours # {} /\ Newest' = Newest
      /\ Ours # {} /\ Newest.time >= now + 1 - Retention => Ours' # {}
  <2>1. now + 1 - Retention \in Int
    BY <1>2, Cadence
  <2> QED
    BY <1>1, <1>2, <2>1, NewestAges DEF TimeInv
<1>6. StoredOK'
  BY <1>1, <1>2, <1>5 DEF TimeInv, StoredOK
<1>7. Rhythm'
  <2> SUFFICES ASSUME Loads(cfg) PROVE Rhythm'
    BY <1>1 DEF Rhythm
  <2>1. PICK slot \in Nat :
          /\ SlotIs(slot) /\ (since < slot => missed = 0)
          /\ Fresh(slot) /\ (Kept(cfg) => Agreed \/ Overdue(slot))
    BY DEF TimeInv, Rhythm
  <2>2. /\ H \in Int /\ T \in Int /\ T >= 1 /\ T <= H /\ Retention \in Int
        /\ slot \in 0..now /\ now < slot + T /\ slot % T = 0
        /\ \A s \in stored : s.at \in 0..now /\ (Ours # {} => s.at <= f)
        /\ Ours # {} => f \in Int
    <3>1. Ours # {} => Newest.time \in Int
      BY NewestIs DEF TimeInv, TopicOK, Newest
    <3> QED
      BY <2>1, <3>1, Cadence DEF TimeInv, Clocks, StoredOK, SlotIs
  <2>3. /\ Ours # {} => /\ served => slot + T <= f + H
                        /\ missed = 0 => slot <= f + H
                        /\ missed = 1 => slot <= f + H + T
    BY <2>1 DEF Fresh
  <2>4. /\ Ours' # {} => Newest'.time = f /\ Newest'.snap = Newest.snap /\ Ours # {}
        /\ cfg' = cfg
    BY <1>1, <1>5
  <2>5. KeyNow' = KeyNow
    BY <1>1, KeyStays
  <2>6. CASE (now + 1) % T = 0
    <3>0. PICK next \in Nat : next = now + 1
      BY <1>2
    <3>1. SlotIs(next)'
      BY <1>1, <1>2, <2>2, <2>6, <3>0 DEF SlotIs
    <3>2. since' < next => missed' = 0
      BY <1>1, <2>6, <3>0
    <3>3. Fresh(next)'
      <4> SUFFICES ASSUME Ours' # {}
                   PROVE  /\ served' => next + T <= f + H
                          /\ missed' = 0 => next <= f + H
                          /\ missed' = 1 => next <= f + H + T
        BY <2>4 DEF Fresh
      <4>1. CASE served
        <5>1. served' = FALSE /\ missed' = 0 /\ slot + T <= f + H
          BY <1>1, <2>3, <2>4, <2>6, <4>1
        <5> QED
          BY <1>2, <2>2, <3>0, <2>4, <5>1
      <4>2. CASE ~served
        <5>1. served' = FALSE /\ missed' # 0 /\ (missed' = 1 => missed = 0)
          BY <1>1, <1>3, <2>6, <4>2
        <5>2. missed = 0 => slot <= f + H
          BY <2>3, <2>4
        <5> QED
          BY <1>2, <2>2, <3>0, <2>4, <5>1, <5>2
      <4> QED
        BY <4>1, <4>2
    <3>4. ASSUME Kept(cfg), served PROVE Agreed' \/ Overdue(next)'
      <4>1. H + T <= Retention + 1
        BY <3>4 DEF Kept
      <4>2. since' = since /\ served' = FALSE
        BY <1>1, <2>6, <3>4
      <4>3. CASE Agreed
        <5>1. slot + T <= f + H
          BY <2>3, <3>4, <4>3 DEF Agreed
        <5>2. f >= now + 1 - Retention
          BY <1>2, <2>2, <3>0, <4>1, <4>3, <5>1 DEF Agreed
        <5> QED
          BY <1>5, <2>4, <2>5, <4>3, <5>2 DEF Agreed
      <4>4. CASE Overdue(slot)
        <5>1. /\ \A s \in stored : s.at <= since
              /\ slot > since => slot + T <= since + H
          BY <3>4, <4>4 DEF Overdue
        <5>2. next - T > since => next <= since + H
          BY <1>2, <2>2, <3>0, <5>1
        <5> QED
          BY <1>1, <2>4, <4>2, <5>1, <5>2 DEF Overdue
      <4> QED
        BY <2>1, <3>4, <4>3, <4>4
    <3>5. ASSUME ~served PROVE Overdue(next)'
      <4>1. since' = next /\ served' = FALSE
        BY <1>1, <2>6, <3>0, <3>5
      <4>2. ~(next - T > next)
        BY <1>2, <2>2, <3>0
      <4>3. \A s \in stored' : s.at <= next
        BY <1>1, <1>2, <2>2, <3>0
      <4> QED
        BY <2>4, <4>1, <4>2, <4>3 DEF Overdue
    <3>6. Kept(cfg)' => Kept(cfg)
      BY <2>4 DEF Kept
    <3> QED
      BY <3>1, <3>2, <3>3, <3>4, <3>5, <3>6 DEF Rhythm
  <2>7. CASE (now + 1) % T # 0
    <3>1. UNCHANGED <<missed, since, served>>
      BY <1>1, <2>7
    <3>2. now + 1 < slot + T
      <4>1. (slot + T) % T = 0
        BY <2>2, SlotEnds
      <4>2. now + 1 # slot + T
        BY <2>7, <4>1
      <4> QED
        BY <1>2, <2>2, <4>2
    <3>3. SlotIs(slot)' /\ (since' < slot => missed' = 0)
      BY <1>1, <1>2, <2>1, <2>2, <3>1, <3>2 DEF SlotIs
    <3>4. Fresh(slot)'
      BY <2>3, <2>4, <3>1 DEF Fresh
    <3>5. Overdue(slot) => Overdue(slot)'
      BY <1>1, <3>1 DEF Overdue
    <3>6. ASSUME Kept(cfg), Agreed, Ours' = {} PROVE Overdue(slot)'
      <4>1. Ours # {} /\ H + T <= Retention + 1 /\ ~(f >= now + 1 - Retention)
        BY <1>5, <3>6 DEF Kept, Agreed
      <4>2. f + H + T <= now + 1
        BY <1>2, <2>2, <4>1
      <4>3. ~(slot <= f + H)
        BY <1>2, <2>2, <3>2, <4>1, <4>2
      <4>4. since >= slot
        BY <1>2, <2>1, <2>2, <2>3, <4>1, <4>3
      <4>5. \A s \in stored : s.at <= since
        BY <1>2, <2>2, <4>1, <4>3, <4>4
      <4>6. ~(slot > since) /\ ~(slot - T > since)
        BY <1>2, <2>2, <4>4
      <4> QED
        BY <1>1, <2>4, <3>1, <4>5, <4>6 DEF Overdue
    <3>7. Agreed /\ Ours' # {} => Agreed'
      BY <2>4, <2>5 DEF Agreed
    <3>8. Kept(cfg)' => Kept(cfg)
      BY <2>4 DEF Kept
    <3> QED
      BY <2>1, <3>3, <3>4, <3>5, <3>6, <3>7, <3>8 DEF Rhythm
  <2> QED
    BY <2>6, <2>7
<1> QED
  BY <1>4, <1>6, <1>7

\* A frame more keeps the topic in order.
LEMMA TopicGrowsInOrder ==
  ASSUME FeedInv, TopicOK, now \in Nat, UNCHANGED <<cfg, now>>, NEW kind, NEW snap,
         topic' = Append(topic, Frame(kind, snap)),
         kind = "snapshot" => snap.at = now /\ Loads(cfg)
  PROVE  TopicOK'
<1> DEFINE n == Len(topic)
           f == topic'[n + 1]
<1>1. /\ n \in Nat /\ DOMAIN topic = 1..n /\ DOMAIN topic' = 1..n + 1
      /\ \A i \in 1..n : topic'[i] = topic[i]
      /\ f.kind = kind /\ f.time = now /\ f.snap = snap
      /\ kind # "snapshot" => Ours' = Ours
  BY NewestIs, NewestGrows
<1> HIDE DEF n
<1>2. \A i \in 1..n : topic[i].time \in 0..now
                      /\ (topic[i].kind = "snapshot" => topic[i].snap.at = topic[i].time)
  BY <1>1 DEF TopicOK
<1>3. \A i \in 1..n + 1 : topic'[i].time \in 0..now
                          /\ (topic'[i].kind = "snapshot" => topic'[i].snap.at = topic'[i].time)
  BY <1>1, <1>2
<1>4. \A i, j \in 1..n + 1 : i <= j => topic'[i].time <= topic'[j].time
  <2> SUFFICES ASSUME NEW i \in 1..n + 1, NEW j \in 1..n + 1, i <= j
               PROVE  topic'[i].time <= topic'[j].time
    OBVIOUS
  <2>1. CASE j = n + 1
    BY <1>1, <1>3, <2>1
  <2>2. CASE j # n + 1
    <3>1. i \in 1..n /\ j \in 1..n
      BY <1>1, <2>2
    <3> QED
      BY <1>1, <3>1 DEF TopicOK
  <2> QED
    BY <2>1, <2>2
<1>5. Ours' # {} => Loads(cfg)
  BY <1>1 DEF TopicOK
<1> QED
  BY <1>1, <1>3, <1>4, <1>5 DEF TopicOK

\* So does forgetting its oldest frames.
LEMMA TopicAgesInOrder ==
  ASSUME FeedInv, TopicOK, now \in Nat, cfg' = cfg, now' = now + 1, NEW time \in Int,
         topic' = SubSeq(topic, Forgotten(time) + 1, Len(topic))
  PROVE  TopicOK'
<1> DEFINE n == Len(topic)
<1>1. n \in Nat /\ DOMAIN topic = 1..n
  BY NewestIs
<1>2. PICK b \in Nat : /\ b <= n /\ DOMAIN topic' = 1..n - b
                       /\ \A i \in 1..n - b : topic'[i] = topic[b + i]
  BY NewestAges
<1>3. Ours' # {} => Loads(cfg)
  BY NewestAges DEF TopicOK
<1> HIDE DEF n
<1>4. \A i \in 1..n - b : b + i \in 1..n
  BY <1>1, <1>2
<1>5. \A i \in 1..n - b : topic'[i] = topic[b + i] /\ b + i \in DOMAIN topic
  BY <1>1, <1>2, <1>4
<1>6. ASSUME NEW i \in DOMAIN topic'
      PROVE  /\ topic'[i].time \in 0..now'
             /\ topic'[i].kind = "snapshot" => topic'[i].snap.at = topic'[i].time
  <2>1. i \in 1..n - b
    BY <1>2
  <2>2. topic'[i] = topic[b + i] /\ b + i \in DOMAIN topic
    BY <1>5, <2>1
  <2>3. topic[b + i].time \in 0..now
        /\ (topic[b + i].kind = "snapshot" => topic[b + i].snap.at = topic[b + i].time)
    BY <2>2 DEF TopicOK
  <2>4. topic[b + i].time \in 0..now'
    BY <2>3
  <2> QED
    BY <2>2, <2>3, <2>4
<1>7. \A i, j \in DOMAIN topic' : i <= j => topic'[i].time <= topic'[j].time
  <2> SUFFICES ASSUME NEW i \in 1..n - b, NEW j \in 1..n - b, i <= j
               PROVE  topic'[i].time <= topic'[j].time
    BY <1>2
  <2>1. b + i <= b + j
    BY <1>1, <1>2
  <2> QED
    BY <1>5, <2>1 DEF TopicOK
<1>8. Ours' # {} => Loads(cfg')
  BY <1>3
<1> QED
  BY <1>6, <1>7, <1>8 DEF TopicOK, Loads

\* A run that ends leaves none at work.
LEMMA RunsEnd ==
  ASSUME FeedInv, \A q \in Runs : RunOK(q), NEW r \in Runs, NEW done, Ends(r, done),
         run[r].pc # "idle" \/ lock = None
  PROVE  \A q \in Runs : RunOK(q)'
<1>1. None \notin Runs
  BY FeedAssumption DEF FeedAssumption
<1>2. \A q \in Runs \ {r} : run[q].pc = "idle"
  BY <1>1 DEF RunOK
<1>3. \A q \in Runs : run'[q] = IF q = r THEN Idle ELSE run[q]
  BY DEF Ends, FeedInv
<1>4. \A q \in Runs : run'[q].pc = "idle"
  BY <1>2, <1>3 DEF Idle
<1> QED
  BY <1>4 DEF RunOK

\* The runs are as they were, and so is what they are to be compared with, or it has just
\* changed.
LEMMA RunsStay ==
  ASSUME \A q \in Runs : RunOK(q), UNCHANGED <<cfg, now, run, lock>>,
         Ours' = Ours, Ours # {} => Newest' = Newest,
         since' = now \/ (since' = since /\ UNCHANGED <<estate, ages>>)
  PROVE  \A q \in Runs : RunOK(q)'
<1>1. since' = now \/ (since' = since /\ KeyNow' = KeyNow)
  BY KeyStays
<1> QED
  BY <1>1 DEF RunOK

\* A step that publishes nothing and lets no time pass.
LEMMA SteadyKeeps ==
  ASSUME FeedInv, TicksWithinHeartbeats, TimeInv, \A q \in Runs : RunOK(q)',
         UNCHANGED <<cfg, now, missed, estate, ages, topic>>,
         stored' \subseteq stored, since' = since \/ since' = now, served' \in BOOLEAN,
         served' # served => served' /\ \E s \in stored : now - s.at + cfg.tick <= cfg.heartbeat
  PROVE  TimeInv'
<1>1. Ours' = Ours /\ Newest' = Newest
  BY DEF Ours, Newest
<1>2. TopicOK'
  BY <1>1 DEF TimeInv, TopicOK
<1>3. Clocks' /\ StoredOK' /\ Rhythm'
  BY <1>1, RhythmSteady
<1> QED
  BY <1>2, <1>3 DEF TimeInv

\* The start of a run: what ends there was not wanted, so no heartbeat was due.
LEMMA StartTimes ==
  ASSUME FeedInv, TicksWithinHeartbeats, TimeInv, NEW r \in Runs, NEW git \in BOOLEAN,
         Start(r, git)
  PROVE  TimeInv'
<1> DEFINE snap == Snapshot(git)
<1>1. /\ Loads(cfg) /\ run[r].pc = "idle" /\ lock = None
      /\ since' = IF git THEN since ELSE now
      /\ UNCHANGED <<cfg, now, estate, ages, stored, topic, missed>>
      /\ IF Wanted(Key(snap))
         THEN /\ run' = [run EXCEPT ![r] = [pc |-> "post", snap |-> snap]]
              /\ lock' = r /\ UNCHANGED served
         ELSE Ends(r, TRUE)
  BY DEF Start
<1>2. snap.at = now /\ (git => Key(snap) = KeyNow)
  BY SnapshotAt DEF KeyNow
<1>3. cfg.heartbeat \in Int /\ cfg.tick \in Int /\ served \in BOOLEAN /\ None \notin Runs
      /\ now \in Nat /\ \A s \in stored : s.at \in 0..now
  BY Cadence, FeedAssumption DEF FeedAssumption, TimeInv, Clocks, StoredOK
<1> HIDE DEF snap
<1>4. CASE Wanted(Key(snap))
  <2>1. KeyNow' = KeyNow
    BY <1>1, KeyStays
  <2>2. \A q \in Runs : run[q].pc = "idle"
    BY <1>1, <1>3 DEF TimeInv, RunOK
  <2>3. \A q \in Runs : run'[q] = IF q = r THEN [pc |-> "post", snap |-> snap] ELSE run[q]
    BY <1>1, <1>4 DEF FeedInv
  <2>4. run'[r].pc = "post" /\ run'[r].snap = snap /\ \A q \in Runs \ {r} : run'[q].pc = "idle"
    BY <2>2, <2>3
  <2>5. \A q \in Runs : RunOK(q)'
    BY <1>1, <1>2, <1>4, <2>1, <2>4 DEF RunOK
  <2> QED
    BY <1>1, <1>3, <1>4, <2>5, SteadyKeeps
<1>5. CASE ~Wanted(Key(snap))
  <2>1. Ends(r, TRUE)
    BY <1>1, <1>5
  <2>2. \A q \in Runs : RunOK(q)'
    BY <1>1, <2>1, RunsEnd DEF TimeInv
  <2>3. \E s \in stored : now - s.at + cfg.tick <= cfg.heartbeat
    <3>1. PICK s \in stored : ~((now - s.at) + cfg.tick > cfg.heartbeat)
      BY <1>5 DEF Wanted
    <3> QED
      BY <1>3, <3>1
  <2>4. served' = TRUE
    BY <2>1 DEF Ends
  <2> QED
    BY <1>1, <2>2, <2>3, <2>4, SteadyKeeps
<1> QED
  BY <1>4, <1>5

\* The one request, whatever becomes of it: what reached the server is the newest.
LEMMA PostTimes ==
  ASSUME FeedInv, TicksWithinHeartbeats, TimeInv, NEW r \in Runs, NEW reaches \in BOOLEAN,
         NEW answered \in BOOLEAN, Post(r, reaches, answered)
  PROVE  TimeInv'
<1> DEFINE snap == run[r].snap
<1>1. /\ run[r].pc = "post" /\ UNCHANGED <<cfg, now, estate, ages, stored, missed, since>>
      /\ topic' = IF reaches THEN Append(topic, Frame("snapshot", snap)) ELSE topic
      /\ IF reaches /\ answered
         THEN run' = [run EXCEPT ![r].pc = "write"] /\ UNCHANGED <<lock, served>>
         ELSE Ends(r, FALSE)
  BY DEF Post
<1>2. /\ lock = r /\ Loads(cfg) /\ snap.at = now /\ (Key(snap) = KeyNow \/ since = now)
      /\ run[r] = [pc |-> "post", snap |-> snap]
      /\ now \in Nat /\ served \in BOOLEAN
  BY <1>1 DEF TimeInv, RunOK, Clocks, FeedInv
<1> HIDE DEF snap
<1>3. served' = served
  BY <1>1, <1>2 DEF Ends
<1>4. CASE ~reaches
  <2>1. \A q \in Runs : RunOK(q)'
    BY <1>1, <1>4, RunsEnd DEF TimeInv
  <2> QED
    BY <1>1, <1>2, <1>3, <1>4, <2>1, SteadyKeeps
<1>5. CASE reaches
  <2>1. topic' = Append(topic, Frame("snapshot", snap))
    BY <1>1, <1>5
  <2>2. Ours' # {} /\ Newest'.snap = snap /\ Newest'.time = now
    BY <2>1, NewestGrows
  <2>3. TopicOK'
    BY <1>1, <1>2, <2>1, TopicGrowsInOrder DEF TimeInv
  <2>4. Clocks' /\ StoredOK' /\ Rhythm'
    BY <1>1, <1>2, <1>3, <2>2, RhythmPosts
  <2>5. CASE ~answered
    <3>1. \A q \in Runs : RunOK(q)'
      BY <1>1, <2>5, RunsEnd DEF TimeInv
    <3> QED
      BY <2>3, <2>4, <3>1 DEF TimeInv
  <2>6. CASE answered
    <3>1. [run[r] EXCEPT !.pc = "write"] = [pc |-> "write", snap |-> snap]
      <4>1. \A p, s : [[pc |-> p, snap |-> s] EXCEPT !.pc = "write"] = [pc |-> "write", snap |-> s]
        OBVIOUS
      <4> QED
        BY <1>2, <4>1
    <3>2. run' = [run EXCEPT ![r] = [pc |-> "write", snap |-> snap]] /\ lock' = lock
      BY <1>1, <1>5, <2>6, <3>1
    <3>3. \A q \in Runs : run'[q] = IF q = r THEN [pc |-> "write", snap |-> snap] ELSE run[q]
      BY <3>2 DEF FeedInv
    <3>4. \A q \in Runs \ {r} : run[q].pc = "idle"
      BY <1>2 DEF TimeInv, RunOK
    <3>5. run'[r].pc = "write" /\ run'[r].snap = snap /\ \A q \in Runs \ {r} : run'[q].pc = "idle"
      BY <3>3, <3>4
    <3>6. KeyNow' = KeyNow
      BY <1>1, KeyStays
    <3>7. RunOK(r)'
      BY <1>1, <1>2, <2>2, <3>2, <3>5, <3>6 DEF RunOK
    <3>8. \A q \in Runs : RunOK(q)'
      BY <3>5, <3>7 DEF RunOK
    <3> QED
      BY <2>3, <2>4, <3>8 DEF TimeInv
  <2> QED
    BY <2>5, <2>6
<1> QED
  BY <1>4, <1>5

\* The state written after an acknowledged request.
LEMMA FinishTimes ==
  ASSUME FeedInv, TicksWithinHeartbeats, TimeInv, NEW r \in Runs, Finish(r)
  PROVE  TimeInv'
<1>1. /\ run[r].pc = "write" /\ UNCHANGED <<cfg, now, estate, ages, topic, missed, since>>
      /\ stored' = {[key |-> Key(run[r].snap), at |-> run[r].snap.at]} /\ Ends(r, TRUE)
  BY DEF Finish
<1>2. /\ run[r].snap.at = now /\ (Key(run[r].snap) = KeyNow \/ since = now)
      /\ Ours # {} /\ Newest.snap = run[r].snap /\ Newest.time = now
  BY <1>1 DEF TimeInv, RunOK
<1>3. \A s \in stored' : s.at = now
  BY <1>1, <1>2
<1>4. served' = TRUE
  BY <1>1 DEF Ends
<1>5. Clocks' /\ StoredOK' /\ Rhythm'
  BY <1>1, <1>2, <1>3, <1>4, RhythmFinishes
<1>6. \A q \in Runs : RunOK(q)'
  BY <1>1, RunsEnd DEF TimeInv
<1>7. TopicOK'
  BY <1>1 DEF TimeInv, TopicOK, Ours
<1> QED
  BY <1>5, <1>6, <1>7 DEF TimeInv

\* A publisher's run, step by step.
LEMMA PublishTimes ==
  ASSUME FeedInv, TicksWithinHeartbeats, TimeInv, NEW r \in Runs, Publish(r)
  PROVE  TimeInv'
<1>1. ASSUME NEW git \in BOOLEAN, Start(r, git) PROVE TimeInv'
  BY <1>1, StartTimes
<1>2. CASE SourceFails(r) \/ Busy(r)
  <2>1. UNCHANGED <<cfg, now, estate, ages, run, lock, stored, topic, served, missed, since>>
    BY <1>2 DEF SourceFails, Busy, publisher, vars
  <2>2. Ours' = Ours /\ Newest' = Newest
    BY <2>1 DEF Ours, Newest
  <2>3. \A q \in Runs : RunOK(q)'
    BY <2>1, <2>2, RunsStay DEF TimeInv
  <2>4. served' \in BOOLEAN
    BY <2>1 DEF TimeInv, Clocks
  <2> QED
    BY <2>1, <2>3, <2>4, SteadyKeeps
<1>3. CASE NoToken(r) \/ Die(r)
  <2>1. /\ UNCHANGED <<cfg, now, estate, ages, stored, topic, missed, since>>
        /\ run[r].pc # "idle" /\ Ends(r, FALSE)
    BY <1>3 DEF NoToken, Die
  <2>2. served \in BOOLEAN
    BY DEF TimeInv, Clocks
  <2>3. served' = served
    BY <2>1, <2>2 DEF Ends
  <2>4. \A q \in Runs : RunOK(q)'
    BY <2>1, RunsEnd DEF TimeInv
  <2> QED
    BY <2>1, <2>2, <2>3, <2>4, SteadyKeeps
<1>4. ASSUME NEW reaches \in BOOLEAN, NEW answered \in BOOLEAN, Post(r, reaches, answered)
      PROVE  TimeInv'
  BY <1>4, PostTimes
<1>5. CASE Finish(r)
  BY <1>5, FinishTimes
<1> QED
  BY <1>1, <1>2, <1>3, <1>4, <1>5 DEF Publish

\* At first nothing was published, and the slot that begins is not over.
LEMMA InitTimes == ASSUME Init, FeedInv, TicksWithinHeartbeats PROVE TimeInv
<1>1. /\ now = 0 /\ stored = {} /\ topic = <<>> /\ served = FALSE /\ missed = 0 /\ since = 0
      /\ \A r \in Runs : run[r].pc = "idle"
  BY DEF Init, Idle
<1>2. Ours = {}
  BY <1>1 DEF Ours
<1>3. Clocks /\ (\A r \in Runs : RunOK(r)) /\ TopicOK /\ StoredOK
  <2>1. Clocks
    <3>1. now \in Nat /\ since \in 0..now /\ missed \in 0..3
      BY <1>1
    <3> QED
      BY <1>1, <3>1 DEF Clocks
  <2>2. \A r \in Runs : RunOK(r)
    BY <1>1 DEF RunOK
  <2>3. TopicOK
    BY <1>1, <1>2 DEF TopicOK
  <2>4. StoredOK
    BY <1>1 DEF StoredOK
  <2> QED
    BY <2>1, <2>2, <2>3, <2>4
<1>4. Rhythm
  <2> SUFFICES ASSUME Loads(cfg) PROVE Rhythm
    BY DEF Rhythm
  <2>1. cfg.tick \in Nat /\ cfg.tick >= 1
    BY Cadence
  <2>2. \A d \in Nat : d >= 1 => 0 % d = 0
    BY SMT
  <2>3. SlotIs(0)
    BY <1>1, <2>1, <2>2 DEF SlotIs
  <2>4. Fresh(0)
    BY <1>2 DEF Fresh
  <2>5. Overdue(0)
    BY <1>1, <2>1 DEF Overdue
  <2> QED
    BY <1>1, <2>3, <2>4, <2>5 DEF Rhythm
<1> QED
  BY <1>3, <1>4 DEF TimeInv

\* Every step keeps the invariant.
LEMMA StepTimes ==
  ASSUME FeedInv, TicksWithinHeartbeats, TimeInv, [Next]_vars
  PROVE  TimeInv'
<1>1. ASSUME NEW r \in Runs, Publish(r) PROVE TimeInv'
  BY <1>1, PublishTimes
<1>2. CASE Corrupt \/ Ask \/ AskFurther \/ AskFails \/ UNCHANGED vars
  <2>1. /\ UNCHANGED <<cfg, now, estate, ages, run, lock, topic, served, missed, since>>
        /\ stored' \subseteq stored
    <3>1. CASE Corrupt
      BY <3>1 DEF Corrupt
    <3>2. CASE Ask \/ AskFurther \/ AskFails
      BY <3>2 DEF Ask, AskFurther, AskFails, publisher, history
    <3>3. CASE UNCHANGED vars
      BY <3>3 DEF vars
    <3> QED
      BY <1>2, <3>1, <3>2, <3>3
  <2>2. Ours' = Ours /\ Newest' = Newest
    BY <2>1 DEF Ours, Newest
  <2>3. \A q \in Runs : RunOK(q)'
    BY <2>1, <2>2, RunsStay DEF TimeInv
  <2>4. served' \in BOOLEAN
    BY <2>1 DEF TimeInv, Clocks
  <2> QED
    BY <2>1, <2>3, <2>4, SteadyKeeps
<1>3. CASE Tick
  <2>1. /\ cfg' = cfg /\ now' = now + 1 /\ UNCHANGED run
        /\ topic' = SubSeq(topic, Forgotten(now + 1 - Retention) + 1, Len(topic))
        /\ \A r \in Runs : run[r].pc = "idle"
    BY <1>3 DEF Tick, publisher
  <2>2. now \in Nat /\ now + 1 - Retention \in Int
    BY Cadence DEF TimeInv, Clocks
  <2>3. TopicOK'
    BY <2>1, <2>2, TopicAgesInOrder DEF TimeInv
  <2>4. \A q \in Runs : RunOK(q)'
    BY <2>1 DEF RunOK
  <2>5. Clocks' /\ StoredOK' /\ Rhythm'
    BY <1>3, RhythmTicks
  <2> QED
    BY <2>3, <2>4, <2>5 DEF TimeInv
<1>4. CASE WorldChanges
  <2>1. UNCHANGED <<cfg, now, run, lock, stored, topic, served, missed>> /\ since' = now
    BY <1>4 DEF WorldChanges, publisher
  <2>2. Ours' = Ours /\ Newest' = Newest
    BY <2>1 DEF Ours, Newest
  <2>3. \A q \in Runs : RunOK(q)'
    BY <2>1, <2>2, RunsStay DEF TimeInv
  <2>4. TopicOK'
    BY <2>1, <2>2 DEF TimeInv, TopicOK
  <2>5. Clocks' /\ StoredOK' /\ Rhythm'
    BY <2>1, RhythmChanges
  <2> QED
    BY <2>3, <2>4, <2>5 DEF TimeInv
<1>5. ASSUME NEW kind \in {"other", "schema"}, Stray(kind) PROVE TimeInv'
  <2>1. /\ UNCHANGED <<cfg, now, estate, ages, run, lock, stored, served, missed, since>>
        /\ topic' = Append(topic, Frame(kind, <<>>)) /\ kind # "snapshot"
    BY <1>5 DEF Stray, publisher
  <2>2. Ours' = Ours /\ (Ours # {} => Newest' = Newest)
    BY <2>1, NewestGrows
  <2>3. \A q \in Runs : RunOK(q)'
    BY <2>1, <2>2, RunsStay DEF TimeInv
  <2>4. now \in Nat /\ served \in BOOLEAN
    BY DEF TimeInv, Clocks
  <2>5. TopicOK'
    BY <2>1, <2>4, TopicGrowsInOrder DEF TimeInv
  <2>6. Clocks' /\ StoredOK' /\ Rhythm'
    BY <2>1, <2>2, <2>4, RhythmSteady
  <2> QED
    BY <2>3, <2>5, <2>6 DEF TimeInv
<1> QED
  BY <1>1, <1>2, <1>3, <1>4, <1>5 DEF Next


-----------------------------------------------------------------------------
(* What an answer says of its frame's age. *)

\* An answer calls a snapshot stale only of a shown one, the newest candidate polled.
LEMMA StaleIsShown ==
  ASSUME NEW seconds, NEW met, Concluded(seconds, met).headline = "stale"
  PROVE  /\ Candidates(Polled(seconds)) # {}
         /\ LET frame == topic[Max(Candidates(Polled(seconds)))]
            IN  /\ frame.kind # "schema"
                /\ now - frame.snap.at > henk.stale
                /\ Concluded(seconds, met) = Shown(frame, met)
<1> DEFINE frame == topic[Max(Candidates(Polled(seconds)))]
<1>1. \A row : Says(row).headline = "none"
  BY DEF Says, None
<1>2. /\ Candidates(Polled(seconds)) # {} /\ frame.kind # "schema"
      /\ Concluded(seconds, met) = Shown(frame, met)
  BY <1>1 DEF Concluded
<1> HIDE DEF frame
<1>3. Shown(frame, met).headline = Headline(frame.snap)
  BY DEF Shown
<1>4. now - frame.snap.at > henk.stale
  BY <1>2, <1>3 DEF Headline
<1> QED
  BY <1>2, <1>4 DEF frame

\* A shown answer owns up to a cut poll and to a slow cadence.
LEMMA NotesOwnUp ==
  ASSUME NEW frame, NEW met, Shown(frame, met).notes \cap {"drift", "cut"} = {}
  PROVE  ~met.cut /\ ~(cfg.heartbeat + 2 * cfg.tick > henk.stale)
<1>1. \A s, listed, filtered, unusable :
        /\ met.cut => "cut" \in Notes(s, met, listed, filtered, unusable)
        /\ cfg.heartbeat + 2 * cfg.tick > henk.stale
             => "drift" \in Notes(s, met, listed, filtered, unusable)
  BY DEF Notes
<1>2. \E s, listed, filtered, unusable :
        Shown(frame, met).notes = Notes(s, met, listed, filtered, unusable)
  BY DEF Shown
<1> QED
  BY <1>1, <1>2

\* A poll that is not cut reads its whole window.
LEMMA PolledIs ==
  ASSUME FeedInv, TicksWithinHeartbeats, NEW seconds, ~Cut(seconds)
  PROVE  Polled(seconds) = Window(seconds)
<1> DEFINE W == Window(seconds)
           Ahead(i) == {j \in W : j < i}
<1>1. IsFiniteSet(W)
  <2>1. Len(topic) \in Nat /\ W \in SUBSET (1..Len(topic))
    BY NewestIs DEF Window
  <2>2. IsFiniteSet(1..Len(topic))
    BY <2>1, IndicesAre
  <2> HIDE DEF W
  <2> QED
    BY <2>1, <2>2, FS_Subset
<1>2. Cardinality(W) \in Nat /\ Cardinality(W) <= ReadBudget /\ ReadBudget \in Int
  <2>1. ~(Cardinality(W) > ReadBudget)
    BY DEF Cut
  <2>2. Cardinality(W) \in Nat
    BY <1>1, FS_CardinalityType
  <2> QED
    BY <2>1, <2>2, Cadence
<1>3. W \subseteq Int
  BY NewestIs DEF Window
<1>4. Polled(seconds) = {i \in W : Cardinality(Ahead(i)) < ReadBudget}
  BY DEF Polled
<1> HIDE DEF W
<1>5. ASSUME NEW i \in W PROVE Cardinality(Ahead(i)) < ReadBudget
  <2>1. Ahead(i) \subseteq W /\ Ahead(i) # W
    BY <1>3
  <2>2. /\ IsFiniteSet(Ahead(i)) /\ Cardinality(Ahead(i)) <= Cardinality(W)
        /\ Cardinality(Ahead(i)) # Cardinality(W)
    <3> DEFINE A == Ahead(i)
    <3>1. A \subseteq W /\ A # W
      BY <2>1
    <3> HIDE DEF A
    <3>2. IsFiniteSet(A) /\ Cardinality(A) <= Cardinality(W) /\ Cardinality(A) # Cardinality(W)
      BY <1>1, <3>1, FS_Subset
    <3> QED
      BY <3>2 DEF A
  <2>3. Cardinality(Ahead(i)) \in Nat
    BY <2>2, FS_CardinalityType
  <2> QED
    BY <1>2, <2>2, <2>3
<1> QED
  BY <1>4, <1>5 DEF W

\* When the newest candidate of a window read whole is a snapshot, it is the newest of the topic.
LEMMA NewestIsPolled ==
  ASSUME FeedInv, TimeInv, NEW seconds \in Int, Polled(seconds) = Window(seconds),
         NEW C, C = Candidates(Polled(seconds)), C # {}, topic[Max(C)].kind # "schema"
  PROVE  /\ Max(C) \in Ours /\ Ours # {} /\ Max(C) = Max(Ours)
         /\ topic[Max(C)].time >= now - seconds
         /\ topic[Max(C)].snap.at = topic[Max(C)].time /\ topic[Max(C)].time \in Int
<1>1. /\ Len(topic) \in Nat /\ DOMAIN topic = 1..Len(topic) /\ Ours \subseteq 1..Len(topic)
      /\ Ours # {} => Max(Ours) \in Ours /\ \A i \in Ours : i <= Max(Ours)
  BY NewestIs
<1>2. C \in SUBSET (1..Len(topic))
  BY <1>1 DEF Candidates, Window
<1> DEFINE m == Max(C)
           k == Max(Ours)
<1>3. m \in C /\ \A i \in C : i <= m
  BY <1>1, <1>2, MaxIs
<1> HIDE DEF m, k
<1>4. m \in Ours /\ topic[m].time >= now - seconds
  BY <1>1, <1>3 DEF Candidates, Window, Ours, m
<1>5. k \in Ours /\ m <= k /\ Ours # {}
  BY <1>1, <1>4 DEF k
<1>6. topic[m].time <= topic[k].time /\ topic[m].time \in Int /\ topic[k].time \in Int
  BY <1>1, <1>4, <1>5 DEF TimeInv, TopicOK
<1>7. topic[k].time >= now - seconds
  BY <1>4, <1>6 DEF TimeInv, Clocks
<1>8. k \in C
  <2>1. k \in Window(seconds)
    BY <1>5, <1>7 DEF Window, Ours
  <2> QED
    BY <1>5, <2>1 DEF Candidates, Ours
<1>9. m = k
  BY <1>1, <1>3, <1>4, <1>5, <1>8
<1>10. topic[m].snap.at = topic[m].time
  BY <1>4 DEF TimeInv, TopicOK, Ours
<1> QED
  BY <1>4, <1>5, <1>6, <1>9, <1>10 DEF m, k

\* What a poll of the first window meets is not stale.
LEMMA FirstIsFresh ==
  ASSUME FeedInv, TicksWithinHeartbeats, TimeInv, NEW met,
         Concluded(henk.stale, met).headline = "stale"
  PROVE  FALSE
<1> DEFINE C == Candidates(Polled(henk.stale))
           m == Max(C)
<1>1. C # {} /\ topic[m].kind # "schema" /\ now - topic[m].snap.at > henk.stale
  BY StaleIsShown
<1>2. Len(topic) \in Nat /\ DOMAIN topic = 1..Len(topic)
  BY NewestIs
<1>3. C \in SUBSET (1..Len(topic))
  BY <1>2 DEF Candidates, Polled, Window
<1>4. m \in C
  <2> HIDE DEF C
  <2> QED
    BY <1>1, <1>2, <1>3, MaxIs
<1> HIDE DEF m
<1>5. /\ m \in DOMAIN topic /\ topic[m].time >= now - henk.stale
      /\ topic[m].kind = "snapshot"
  BY <1>1, <1>4 DEF Candidates, Polled, Window
<1>6. topic[m].snap.at = topic[m].time /\ topic[m].time \in Int
  BY <1>5 DEF TimeInv, TopicOK
<1>7. now \in Nat /\ henk.stale \in Int
  BY Cadence DEF TimeInv, Clocks
<1> QED
  BY <1>1, <1>5, <1>6, <1>7

\* What a whole poll of the second window calls stale was missed twice.
LEMMA SecondIsMissed ==
  ASSUME FeedInv, TicksWithinHeartbeats, TimeInv, NEW met,
         ~met.cut => ~Cut(henk.lookback),
         Concluded(henk.lookback, met).headline = "stale",
         Concluded(henk.lookback, met).notes \cap {"drift", "cut"} = {}
  PROVE  missed >= 2
<1> DEFINE C == Candidates(Polled(henk.lookback))
           m == Max(C)
<1>1. /\ C # {} /\ topic[m].kind # "schema" /\ now - topic[m].snap.at > henk.stale
      /\ Concluded(henk.lookback, met) = Shown(topic[m], met)
  BY StaleIsShown
<1> HIDE DEF m
<1>2. ~met.cut /\ ~(cfg.heartbeat + 2 * cfg.tick > henk.stale)
  BY <1>1, NotesOwnUp
<1>3. Polled(henk.lookback) = Window(henk.lookback)
  BY <1>2, PolledIs
<1>4. /\ cfg.heartbeat \in Int /\ cfg.tick \in Int /\ henk.stale \in Int /\ henk.lookback \in Int
      /\ now \in Nat /\ missed \in 0..3
  BY Cadence DEF TimeInv, Clocks
<1>5. /\ Ours # {} /\ m = Max(Ours) /\ topic[m].snap.at = topic[m].time /\ topic[m].time \in Int
  BY <1>1, <1>3, <1>4, NewestIsPolled DEF m
<1>6. Newest.time = topic[m].time
  BY <1>5 DEF Newest
<1>7. Loads(cfg)
  BY <1>5 DEF TimeInv, TopicOK
<1>8. PICK slot \in Nat : SlotIs(slot) /\ Fresh(slot)
  BY <1>7 DEF TimeInv, Rhythm
<1>9. cfg.tick >= 1 /\ slot \in Nat /\ now < slot + cfg.tick
  BY <1>7, <1>8, Cadence DEF SlotIs
<1>10. /\ missed = 0 => slot <= topic[m].time + cfg.heartbeat
       /\ missed = 1 => slot <= topic[m].time + cfg.heartbeat + cfg.tick
  BY <1>5, <1>6, <1>8 DEF Fresh
<1> DEFINE f == topic[m].time
           H == cfg.heartbeat
           T == cfg.tick
<1>11. /\ now - f > henk.stale /\ henk.stale >= H + 2 * T /\ now < slot + T /\ T >= 1
       /\ f \in Int /\ H \in Int /\ T \in Int /\ henk.stale \in Int /\ now \in Nat /\ slot \in Nat
       /\ missed = 0 => slot <= f + H
       /\ missed = 1 => slot <= f + H + T
  BY <1>1, <1>2, <1>4, <1>5, <1>9, <1>10
<1> HIDE DEF f, H, T
<1>12. missed # 0 /\ missed # 1
  BY <1>11
<1> QED
  BY <1>4, <1>12

-----------------------------------------------------------------------------
(* The theorems. *)

\* So every snapshot held or carried is fit, always.
LEMMA FeedHolds == Spec => []FeedInv
<1> QED
  BY InitFeed, StepFeed, PTL DEF Spec

\* And so is the account of time.
LEMMA TimeHolds ==
  ASSUME TicksWithinHeartbeats
  PROVE  Spec => []TimeInv
<1>1. FeedInv /\ TimeInv /\ [Next]_vars => TimeInv'
  BY StepTimes
<1>2. FeedInv /\ Init => TimeInv
  BY InitTimes
<1> QED
  BY <1>1, <1>2, FeedHolds, PTL DEF Spec

\* No session the owner is told of reported a path, its shell's or its foreground's,
\* that was under a deny root, under no allow root narrower than the unsafe ones, or
\* in somebody else's repository when the snapshot was taken, and none has a label
\* Henk does not allow: for any configuration file that loads or does not, any links
\* and any estate, through every failure of git, the network or a process (classify,
\* root_gate and owner_gate of session_publisher.py, _render of sessions_read).
THEOREM NothingPrivateIsEverTold == Spec => []NothingPrivateIsTold
<1>1. FeedInv => NothingPrivateIsTold
  BY DEF FeedInv
<1> QED
  BY <1>1, FeedHolds, PTL

\* What the budget leaves out is counted in every answer, and chosen right in every
\* snapshot the topic carries: the body fits, as few were dropped as that takes, and
\* no blocked session was dropped while one that is not was kept, for any budget and
\* any estate (degrade and build_snapshot of session_publisher.py, _render of
\* sessions_read).
THEOREM DroppingIsAlwaysHonest == Spec => []DroppingIsHonest
<1>1. FeedInv => DroppingIsHonest
  <2> SUFFICES ASSUME FeedInv PROVE UrgentIsKept
    BY DEF FeedInv, DroppingIsHonest
  <2>1. ASSUME NEW i \in DOMAIN topic, topic[i].kind = "snapshot" PROVE WellCut(topic[i].snap)
    <3>1. topic[i].snap \in Carried
      BY <2>1 DEF Carried, Ours
    <3>2. SnapOK(topic[i].snap)
      BY <3>1 DEF FeedInv
    <3> QED
      BY <3>2 DEF SnapOK
  <2> QED
    BY <2>1 DEF UrgentIsKept
<1> QED
  BY <1>1, FeedHolds, PTL

\* A heartbeat and a tick after the estate or a source last changed, or a slot was last
\* missed, the newest snapshot of the topic is the estate's: for any number of publishers,
\* through lost answers, requests that fail, killed runs and lost state files. It is the
\* state file's time, never later than the newest snapshot's, that makes the heartbeat due
\* (should_publish and write_state of session_publisher.py). The heartbeat is at least a
\* tick, and the server keeps a frame for the two together.
THEOREM ReportAlwaysConverges ==
  ASSUME TicksWithinHeartbeats, \A s \in Setups : Loads(s[1]) => Kept(s[1])
  PROVE  Spec => []ReportConverges
<1>1. FeedInv /\ TimeInv => ReportConverges
  <2> SUFFICES ASSUME FeedInv, TimeInv, Loads(cfg), now - since >= cfg.heartbeat + cfg.tick
               PROVE  Agreed
    BY DEF ReportConverges, Agreed, KeyNow, Newest
  <2>1. Kept(cfg)
    <3>1. <<cfg, henk>> \in Setups /\ <<cfg, henk>>[1] = cfg
      BY DEF FeedInv
    <3> QED
      BY <3>1
  <2>2. PICK slot \in Nat : SlotIs(slot) /\ (Agreed \/ Overdue(slot))
    BY <2>1 DEF TimeInv, Rhythm
  <2>3. /\ cfg.heartbeat \in Int /\ cfg.tick \in Int /\ cfg.tick >= 1
        /\ now \in Nat /\ since \in Int /\ now < slot + cfg.tick
    BY <2>2, Cadence DEF TimeInv, Clocks, SlotIs
  <2>4. slot - cfg.tick > since /\ ~(slot <= since + cfg.heartbeat)
    <3>1. cfg.heartbeat >= cfg.tick
      BY Cadence
    <3> QED
      BY <2>3, <3>1
  <2> QED
    BY <2>2, <2>4 DEF Overdue
<1> QED
  BY <1>1, FeedHolds, TimeHolds, PTL

\* The owner is told that the workstation is probably asleep only after two slots in a row
\* with no run that completed, unless the notes own up to a cadence too slow or a poll cut
\* short: for any cadence, staleness, window, read budget and cache, with a heartbeat of at
\* least a tick (the heartbeat rule of should_publish, _headline and _notes of
\* sessions_read). A poll of the first window never finds a stale snapshot; one of the
\* second finds the newest of the topic.
THEOREM StaleAlwaysMeansStopped ==
  ASSUME TicksWithinHeartbeats
  PROVE  Spec => StaleMeansStopped
<1>1. ASSUME FeedInv, TimeInv, [Next]_vars, answer' # answer, answer'.headline = "stale",
             answer'.notes \cap {"drift", "cut"} = {}
      PROVE  missed >= 2
  <2>1. \A row : Says(row).headline # "stale"
    BY DEF Says, None
  <2>2. Quiet.headline # "stale"
    BY <2>1 DEF Quiet
  <2>3. ASSUME NEW r \in Runs, Publish(r) PROVE FALSE
    <3>1. answer' = Quiet \/ answer' = answer
      BY <2>3 DEF Publish, Start, SourceFails, NoToken, Busy, vars, Post, Finish, Die
    <3> QED
      BY <1>1, <2>2, <3>1
  <2>4. CASE \/ Corrupt \/ AskFails \/ Tick \/ WorldChanges
             \/ \E kind \in {"other", "schema"} : Stray(kind)
    <3>1. answer' = Quiet \/ answer' = Says("G1")
      BY <2>4 DEF Corrupt, AskFails, Tick, WorldChanges, Stray
    <3> QED
      BY <1>1, <2>1, <2>2, <3>1
  <2>5. CASE Ask
    <3>1. \/ answer' = answer \/ answer' = Says("G0")
          \/ answer' = Concluded(henk.stale, Tally(henk.stale, Nothing))
      BY <2>5 DEF Ask
    <3> QED
      BY <1>1, <2>1, <3>1, FirstIsFresh
  <2>6. CASE AskFurther
    <3> DEFINE met == Tally(henk.lookback, poll[1])
    <3>1. answer' = Concluded(henk.lookback, met)
      BY <2>6 DEF AskFurther
    <3>2. ~met.cut => ~Cut(henk.lookback)
      BY DEF Tally
    <3> HIDE DEF met
    <3> QED
      BY <1>1, <3>1, <3>2, SecondIsMissed
  <2>7. CASE UNCHANGED vars
    BY <1>1, <2>7 DEF vars
  <2> QED
    BY <1>1, <2>3, <2>4, <2>5, <2>6, <2>7 DEF Next
<1>2. FeedInv /\ TimeInv /\ [Next]_vars
        => [answer' # answer /\ answer'.headline = "stale"
              /\ answer'.notes \cap {"drift", "cut"} = {} => missed >= 2]_vars
  BY <1>1
<1> QED
  BY <1>2, FeedHolds, TimeHolds, PTL DEF Spec, StaleMeansStopped

=============================================================================
