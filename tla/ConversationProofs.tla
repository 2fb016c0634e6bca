-------------------------- MODULE ConversationProofs --------------------------
(***************************************************************************)
(* Theorems about Conversation, for every value of its constants that      *)
(* satisfies ConversationAssumption.                                       *)
(*                                                                         *)
(* The inductive invariant: the queue is in order of arrival and behind    *)
(* the turn at work (Queue); a phase says what stands open (Standing); who *)
(* waits for the owner waits in the open session (Outstanding); receipts   *)
(* and calls balance, and the records hold what the open one will not      *)
(* (Accounts); the recall block is the session's (Blocks); a turn was told *)
(* of at most as often as it was recorded or its record was lost           *)
(* (Hearing).                                                              *)
(***************************************************************************)
EXTENDS Conversation, FiniteSetTheorems, TLAPS

(***************************************************************************)
(* Sequences: one element more, a part, and the first one taken.           *)
(***************************************************************************)
LEMMA AppendIs ==
  ASSUME NEW S, NEW s \in Seq(S), NEW x \in S
  PROVE  /\ Append(s, x) \in Seq(S) /\ Append(s, x) # <<>>
         /\ Len(Append(s, x)) = Len(s) + 1
         /\ DOMAIN Append(s, x) = DOMAIN s \cup {Len(s) + 1}
         /\ Append(s, x)[Len(s) + 1] = x
         /\ \A i \in DOMAIN s : Append(s, x)[i] = s[i]
BY SMT

LEMMA CutIs ==
  ASSUME NEW S, NEW s \in Seq(S), NEW b \in Nat, b <= Len(s)
  PROVE  /\ SubSeq(s, b + 1, Len(s)) \in Seq(S)
         /\ Len(SubSeq(s, b + 1, Len(s))) = Len(s) - b
         /\ \A i \in 1..Len(s) - b : SubSeq(s, b + 1, Len(s))[i] = s[b + i]
BY SMT

LEMMA CutAppend ==
  ASSUME NEW S, NEW s \in Seq(S), NEW x \in S, NEW b \in Nat, b <= Len(s)
  PROVE  SubSeq(Append(s, x), b + 1, Len(Append(s, x))) = Append(SubSeq(s, b + 1, Len(s)), x)
<1> DEFINE t == Append(s, x)
           u == SubSeq(t, b + 1, Len(t))
           v == SubSeq(s, b + 1, Len(s))
           w == Append(v, x)
<1>1. /\ t \in Seq(S) /\ Len(t) = Len(s) + 1 /\ t[Len(s) + 1] = x
      /\ \A i \in DOMAIN s : t[i] = s[i]
  BY AppendIs
<1> HIDE DEF t
<1>2. /\ u \in Seq(S) /\ Len(u) = Len(s) + 1 - b
      /\ \A i \in 1..Len(s) + 1 - b : u[i] = t[b + i]
  BY <1>1, CutIs
<1>3. /\ v \in Seq(S) /\ Len(v) = Len(s) - b
      /\ \A i \in 1..Len(s) - b : v[i] = s[b + i]
  BY CutIs
<1> HIDE DEF u, v
<1>4. /\ w \in Seq(S) /\ Len(w) = Len(v) + 1 /\ w[Len(v) + 1] = x
      /\ \A i \in DOMAIN v : w[i] = v[i]
  <2>1. v \in Seq(S) /\ x \in S
    BY <1>3
  <2> QED BY <2>1, AppendIs
<1> HIDE DEF w
<1>5. Len(u) = Len(w) /\ Len(u) \in Nat
  BY <1>2, <1>3, <1>4
<1>6. \A i \in 1..Len(u) : u[i] = w[i]
  <2> SUFFICES ASSUME NEW i \in 1..Len(u) PROVE u[i] = w[i]
    OBVIOUS
  <2>1. CASE i = Len(u)
    <3>1. u[i] = t[b + i] /\ b + i = Len(s) + 1 /\ i = Len(v) + 1
      BY <2>1, <1>2, <1>3
    <3> QED BY <3>1, <1>1, <1>4
  <2>2. CASE i # Len(u)
    <3>1. i \in 1..Len(s) - b /\ b + i \in 1..Len(s)
      BY <2>2, <1>2
    <3>2. u[i] = t[b + i]
      BY <1>2
    <3>4. t[b + i] = s[b + i]
      <4>1. DOMAIN s = 1..Len(s)
        OBVIOUS
      <4> QED BY <3>1, <4>1, <1>1, Zenon
    <3>3. i \in DOMAIN v /\ v[i] = s[b + i]
      BY <3>1, <1>3
    <3> QED BY <3>2, <3>3, <3>4, <1>4
  <2> QED BY <2>1, <2>2
<1>7. u = w
  BY <1>2, <1>4, <1>5, <1>6
<1> QED BY <1>7 DEF u, t, w, v

LEMMA WholeCut ==
  ASSUME NEW S, NEW s \in Seq(S)
  PROVE  SubSeq(s, 1, Len(s)) = s /\ SubSeq(s, Len(s) + 1, Len(s)) = <<>>
BY SMT

LEMMA TailIs ==
  ASSUME NEW S, NEW s \in Seq(S), s # <<>>
  PROVE  /\ Head(s) \in S /\ Head(s) = s[1] /\ 1 \in DOMAIN s
         /\ Tail(s) \in Seq(S) /\ Len(Tail(s)) = Len(s) - 1
         /\ \A i \in DOMAIN Tail(s) : i + 1 \in DOMAIN s /\ Tail(s)[i] = s[i + 1]
         /\ \A i \in DOMAIN s : i # 1 => i - 1 \in DOMAIN Tail(s) /\ s[i] = Tail(s)[i - 1]
BY SMT

(***************************************************************************)
(* Counting a call, a receipt and an answer.                               *)
(***************************************************************************)
LEMMA Counted ==
  ASSUME NEW n \in Nat, NEW T \in SUBSET (1..n)
  PROVE  IsFiniteSet(T) /\ Cardinality(T) \in Nat /\ Cardinality(T) <= n
<1>1. 1 \in Int /\ n \in Int
  OBVIOUS
<1>2. IsFiniteSet(1..n) /\ Cardinality(1..n) = (IF 1 > n THEN 0 ELSE n - 1 + 1)
  BY <1>1, FS_Interval
<1>3. Cardinality(1..n) = n
  BY <1>2
<1>4. IsFiniteSet(T) /\ Cardinality(T) <= Cardinality(1..n)
  BY <1>2, FS_Subset
<1>5. Cardinality(T) \in Nat
  BY <1>4, FS_CardinalityType
<1> QED BY <1>3, <1>4, <1>5

LEMMA OneMore ==
  ASSUME NEW T, NEW x, NEW b \in BOOLEAN, IsFiniteSet(T), x \notin T
  PROVE  Cardinality(T \cup (IF b THEN {x} ELSE {})) = Cardinality(T) + (IF b THEN 1 ELSE 0)
<1>1. CASE b
  <2>1. Cardinality(T \cup {x}) = Cardinality(T) + 1
    BY FS_AddElement
  <2> QED BY <2>1, <1>1
<1>2. CASE ~b
  <2>1. T \cup (IF b THEN {x} ELSE {}) = T
    BY <1>2
  <2>2. Cardinality(T) \in Nat
    BY FS_CardinalityType
  <2>3. Cardinality(T) + 0 = Cardinality(T)
    BY <2>2
  <2>4. (IF b THEN 1 ELSE 0) = 0
    BY <1>2
  <2> QED BY <2>1, <2>3, <2>4, Zenon
<1> QED BY <1>1, <1>2

Answers(calls) == {i \in DOMAIN calls : calls[i].receipted}
Permits(calls) == {i \in DOMAIN calls : calls[i].permitted}
Approvals(receipts) == {i \in DOMAIN receipts : receipts[i] = "approved"}

LEMMA AnotherCall ==
  ASSUME NEW calls \in Seq(Call), NEW c \in Call
  PROVE  /\ Cardinality(Answers(Append(calls, c)))
              = Cardinality(Answers(calls)) + (IF c.receipted THEN 1 ELSE 0)
         /\ Cardinality(Permits(Append(calls, c)))
              = Cardinality(Permits(calls)) + (IF c.permitted THEN 1 ELSE 0)
<1> DEFINE d == Append(calls, c)
           l == Len(calls)
<1>1. /\ l \in Nat /\ DOMAIN calls = 1..l /\ l + 1 \notin 1..l
      /\ DOMAIN d = (1..l) \cup {l + 1} /\ d[l + 1] = c
      /\ \A i \in 1..l : d[i] = calls[i]
  BY AppendIs
<1>2. c.receipted \in BOOLEAN /\ c.permitted \in BOOLEAN
  BY DEF Call
<1> HIDE DEF d, l
<1>3. Answers(d) = Answers(calls) \cup (IF c.receipted THEN {l + 1} ELSE {})
  BY <1>1 DEF Answers
<1>4. Permits(d) = Permits(calls) \cup (IF c.permitted THEN {l + 1} ELSE {})
  BY <1>1 DEF Permits
<1>5. /\ IsFiniteSet(Answers(calls)) /\ l + 1 \notin Answers(calls)
      /\ IsFiniteSet(Permits(calls)) /\ l + 1 \notin Permits(calls)
  <2>1. Answers(calls) \in SUBSET (1..l) /\ Permits(calls) \in SUBSET (1..l)
    BY <1>1 DEF Answers, Permits
  <2> QED BY <2>1, <1>1, Counted
<1>6. Cardinality(Answers(d)) = Cardinality(Answers(calls)) + (IF c.receipted THEN 1 ELSE 0)
  BY <1>2, <1>3, <1>5, OneMore
<1>7. Cardinality(Permits(d)) = Cardinality(Permits(calls)) + (IF c.permitted THEN 1 ELSE 0)
  BY <1>2, <1>4, <1>5, OneMore
<1> QED BY <1>6, <1>7 DEF d

LEMMA AnotherReceipt ==
  ASSUME NEW receipts \in Seq(Receipt), NEW r \in Receipt
  PROVE  Cardinality(Approvals(Append(receipts, r)))
           = Cardinality(Approvals(receipts)) + (IF r = "approved" THEN 1 ELSE 0)
<1> DEFINE d == Append(receipts, r)
           l == Len(receipts)
           b == r = "approved"
<1>1. /\ l \in Nat /\ DOMAIN receipts = 1..l /\ l + 1 \notin 1..l
      /\ DOMAIN d = (1..l) \cup {l + 1} /\ d[l + 1] = r
      /\ \A i \in 1..l : d[i] = receipts[i]
  BY AppendIs
<1> HIDE DEF d, l
<1>2. Approvals(d) = Approvals(receipts) \cup (IF b THEN {l + 1} ELSE {})
  BY <1>1 DEF Approvals
<1>3. IsFiniteSet(Approvals(receipts)) /\ l + 1 \notin Approvals(receipts)
  <2>1. Approvals(receipts) \in SUBSET (1..l)
    BY <1>1 DEF Approvals
  <2> QED BY <2>1, <1>1, Counted
<1>4. b \in BOOLEAN
  OBVIOUS
<1> HIDE DEF b
<1>5. Cardinality(Approvals(d)) = Cardinality(Approvals(receipts)) + (IF b THEN 1 ELSE 0)
  BY <1>2, <1>3, <1>4, OneMore
<1> QED BY <1>5 DEF d, b

\* Call k gets its answer, whether or not it is permitted.
Answering(calls, k, p) == [calls EXCEPT ![k] = [permitted |-> p, receipted |-> TRUE]]

LEMMA CallAnswered ==
  ASSUME NEW calls \in Seq(Call), NEW k \in DOMAIN calls, NEW p \in BOOLEAN,
         ~calls[k].permitted, ~calls[k].receipted
  PROVE  /\ Answering(calls, k, p) \in Seq(Call)
         /\ Len(Answering(calls, k, p)) = Len(calls)
         /\ Cardinality(Answers(Answering(calls, k, p))) = Cardinality(Answers(calls)) + 1
         /\ Cardinality(Permits(Answering(calls, k, p)))
              = Cardinality(Permits(calls)) + (IF p THEN 1 ELSE 0)
<1> DEFINE c == [permitted |-> p, receipted |-> TRUE]
           e == [calls EXCEPT ![k] = c]
           d == Answering(calls, k, p)
<1>0. d = e
  BY DEF Answering
<1> HIDE DEF d
<1>1. c \in Call /\ c.permitted = p /\ c.receipted = TRUE
  BY DEF Call
<1> HIDE DEF c
<1>2. /\ d \in Seq(Call) /\ Len(d) = Len(calls) /\ DOMAIN d = DOMAIN calls
      /\ d[k] = c /\ \A i \in DOMAIN calls : i # k => d[i] = calls[i]
  <2>1. /\ e \in Seq(Call) /\ Len(e) = Len(calls) /\ DOMAIN e = DOMAIN calls
        /\ e[k] = c /\ \A i \in DOMAIN calls : i # k => e[i] = calls[i]
    BY <1>1
  <2> HIDE DEF e
  <2> QED BY <1>0, <2>1
<1>3. /\ Answers(d) = Answers(calls) \cup {k} /\ k \notin Answers(calls)
  BY <1>1, <1>2 DEF Answers
<1>4. Permits(d) = Permits(calls) \cup (IF p THEN {k} ELSE {}) /\ k \notin Permits(calls)
  BY <1>1, <1>2 DEF Permits
<1>5. IsFiniteSet(Answers(calls)) /\ IsFiniteSet(Permits(calls))
  <2>1. /\ Answers(calls) \in SUBSET (1..Len(calls)) /\ Permits(calls) \in SUBSET (1..Len(calls))
        /\ Len(calls) \in Nat
    BY DEF Answers, Permits
  <2> QED BY <2>1, Counted
<1>6. Cardinality(Answers(d)) = Cardinality(Answers(calls)) + 1
  BY <1>3, <1>5, FS_AddElement
<1>7. Cardinality(Permits(d)) = Cardinality(Permits(calls)) + (IF p THEN 1 ELSE 0)
  BY <1>4, <1>5, OneMore
<1> QED BY <1>2, <1>6, <1>7 DEF d

\* A session's calls and the receipts noted for them, while its record is open.
Balanced(calls, approvals) ==
  /\ Len(approvals) = Cardinality({i \in DOMAIN calls : calls[i].receipted})
  /\ Cardinality({i \in DOMAIN approvals : approvals[i] = "approved"})
       = Cardinality({i \in DOMAIN calls : calls[i].permitted})

LEMMA RecordBalances ==
  ASSUME NEW calls \in Seq(Call), NEW receipts \in Seq(Receipt), Balanced(calls, receipts)
  PROVE  /\ Executed(calls, receipts) \in Seq(BOOLEAN)
         /\ Cardinality({i \in DOMAIN Executed(calls, receipts) : Executed(calls, receipts)[i]})
              = Cardinality({i \in DOMAIN calls : calls[i].permitted})
         /\ Len(receipts) = Cardinality({i \in DOMAIN calls : calls[i].receipted})
<1> DEFINE e == Executed(calls, receipts)
           l == Len(calls)
           m == Len(receipts)
<1>1. l \in Nat /\ DOMAIN calls = 1..l /\ m \in Nat /\ DOMAIN receipts = 1..m
  OBVIOUS
<1>2. m <= l
  <2>1. Answers(calls) \in SUBSET (1..l)
    BY <1>1 DEF Answers
  <2>2. m = Cardinality(Answers(calls))
    BY DEF Balanced, Answers
  <2> QED BY <2>1, <2>2, <1>1, Counted
<1>3. e = [i \in 1..l |-> i <= m /\ receipts[i] = "approved"]
  BY <1>1 DEF Executed
<1>4. e \in Seq(BOOLEAN)
  <2>1. \A i \in 1..l : (i <= m /\ receipts[i] = "approved") \in BOOLEAN
    OBVIOUS
  <2> QED BY <2>1, <1>1, <1>3
<1>5. {i \in DOMAIN e : e[i]} = Approvals(receipts)
  <2> HIDE DEF l, m
  <2>1. DOMAIN e = 1..l /\ \A i \in 1..l : e[i] = (i <= m /\ receipts[i] = "approved")
    BY <1>3
  <2> HIDE DEF e
  <2>2. \A i \in 1..l : e[i] <=> i \in DOMAIN receipts /\ receipts[i] = "approved"
    <3>1. \A i \in 1..l : i <= m <=> i \in DOMAIN receipts
      BY <1>1
    <3> QED BY <2>1, <3>1, Zenon
  <2>3. DOMAIN receipts \subseteq 1..l
    BY <1>1, <1>2
  <2> QED BY <2>1, <2>2, <2>3, Zenon DEF Approvals
<1> QED BY <1>4, <1>5 DEF Balanced, Approvals

(***************************************************************************)
(* The log: what one more record adds to a session's, and to a turn's.     *)
(***************************************************************************)
RecordedIn(records, s) ==
  UNION {{i} \X DOMAIN records[i].calls : i \in {j \in DOMAIN records : records[j].session = s}}
LostIn(records, n) == {i \in DOMAIN records : records[i].event = n /\ ~records[i].written}

LEMMA RecordedMore ==
  ASSUME NEW records \in Seq(RecordType), NEW r \in RecordType, NEW s,
         IsFiniteSet(RecordedIn(records, s))
  PROVE  /\ IsFiniteSet(RecordedIn(Append(records, r), s))
         /\ r.session = s => Cardinality(RecordedIn(Append(records, r), s))
                               = Cardinality(RecordedIn(records, s)) + Len(r.calls)
         /\ r.session # s => RecordedIn(Append(records, r), s) = RecordedIn(records, s)
<1> DEFINE d == Append(records, r)
           n == Len(records) + 1
           more == {n} \X DOMAIN r.calls
           old == RecordedIn(records, s)
           new == RecordedIn(d, s)
<1>1. /\ DOMAIN d = DOMAIN records \cup {n} /\ d[n] = r /\ n \notin DOMAIN records
      /\ \A i \in DOMAIN records : d[i] = records[i]
  BY AppendIs
<1> HIDE DEF d, n
<1>2. \A x : x \in old <=> \E i \in DOMAIN records : records[i].session = s
                                /\ x \in {i} \X DOMAIN records[i].calls
  BY DEF RecordedIn
<1>3. \A x : x \in new <=> \E i \in DOMAIN d : d[i].session = s /\ x \in {i} \X DOMAIN d[i].calls
  BY DEF RecordedIn
<1> HIDE DEF old, new
<1>4. \A x : x \in new <=> x \in old \/ (r.session = s /\ x \in {n} \X DOMAIN r.calls)
  BY <1>1, <1>2, <1>3, Zenon
<1>5. r.session # s => new = old
  BY <1>4
<1>6. ASSUME r.session = s PROVE IsFiniteSet(new) /\ Cardinality(new) = Cardinality(old) + Len(r.calls)
  <2>1. new = old \cup more
    BY <1>4, <1>6
  <2>2. old \cap more = {}
    BY <1>1, <1>2
  <2>3. IsFiniteSet(more) /\ Cardinality(more) = Len(r.calls)
    <3> DEFINE k == Len(r.calls)
               f == [j \in 1..k |-> <<n, j>>]
    <3>1. k \in Nat /\ DOMAIN r.calls = 1..k
      BY DEF RecordType
    <3> HIDE DEF k
    <3>2. more = {n} \X (1..k)
      BY <3>1
    <3>3. f \in Bijection(1..k, more)
      <4> HIDE DEF more
      <4>1. f \in [1..k -> more] /\ \A x, y \in 1..k : f[x] = f[y] => x = y
        BY <3>2
      <4>2. \A t \in more : \E x \in 1..k : f[x] = t
        BY <3>2
      <4> QED BY <4>1, <4>2 DEF Bijection, Injection, Surjection, IsInjective
    <3>4. ExistsBijection(1..k, more)
      BY <3>3 DEF ExistsBijection
    <3>5. 1 \in Int /\ k \in Int
      BY <3>1
    <3>6. IsFiniteSet(1..k) /\ Cardinality(1..k) = IF 1 > k THEN 0 ELSE k - 1 + 1
      BY <3>5, FS_Interval
    <3>7. Cardinality(1..k) = k
      BY <3>1, <3>6
    <3> HIDE DEF more
    <3>8. IsFiniteSet(more) /\ Cardinality(more) = Cardinality(1..k)
      BY <3>4, <3>6, FS_Bijection
    <3> QED BY <3>7, <3>8 DEF k
  <2> HIDE DEF more
  <2>4. IsFiniteSet(old)
    BY DEF old
  <2>5. /\ IsFiniteSet(old \cup more)
        /\ Cardinality(old \cup more)
             = Cardinality(old) + Cardinality(more) - Cardinality(old \cap more)
    BY <2>3, <2>4, FS_Union
  <2>6. Cardinality(old \cap more) = 0 /\ Cardinality(old) \in Nat /\ Cardinality(more) \in Nat
    BY <2>2, <2>3, <2>4, FS_EmptySet, FS_CardinalityType
  <2>7. Cardinality(old \cup more) = Cardinality(old) + Cardinality(more)
    BY <2>5, <2>6
  <2> QED BY <2>1, <2>3, <2>5, <2>7
<1>7. IsFiniteSet(new)
  BY <1>5, <1>6 DEF old
<1> QED BY <1>5, <1>6, <1>7 DEF d, old, new

LEMMA LostMore ==
  ASSUME NEW records \in Seq(RecordType), NEW r \in RecordType, NEW n
  PROVE  /\ Cardinality(LostIn(records, n)) \in Nat
         /\ Cardinality(LostIn(Append(records, r), n))
              = Cardinality(LostIn(records, n)) + (IF r.event = n /\ ~r.written THEN 1 ELSE 0)
<1> DEFINE d == Append(records, r)
           l == Len(records)
           b == r.event = n /\ ~r.written
<1>1. /\ l \in Nat /\ DOMAIN records = 1..l /\ l + 1 \notin 1..l
      /\ DOMAIN d = (1..l) \cup {l + 1} /\ d[l + 1] = r
      /\ \A i \in 1..l : d[i] = records[i]
  BY AppendIs
<1> HIDE DEF d, l
<1>2. LostIn(d, n) = LostIn(records, n) \cup (IF b THEN {l + 1} ELSE {})
  BY <1>1 DEF LostIn
<1>3. /\ IsFiniteSet(LostIn(records, n)) /\ l + 1 \notin LostIn(records, n)
      /\ Cardinality(LostIn(records, n)) \in Nat
  <2>1. LostIn(records, n) \in SUBSET (1..l)
    BY <1>1 DEF LostIn
  <2> QED BY <2>1, <1>1, Counted
<1>4. b \in BOOLEAN
  OBVIOUS
<1> HIDE DEF b
<1>5. Cardinality(LostIn(d, n)) = Cardinality(LostIn(records, n)) + (IF b THEN 1 ELSE 0)
  BY <1>2, <1>3, <1>4, OneMore
<1> QED BY <1>3, <1>5 DEF d, b

LEMMA LostCounted ==
  ASSUME NEW records \in Seq(RecordType), NEW n
  PROVE  /\ Cardinality(LostIn(records, n)) \in Nat
         /\ (\A i \in DOMAIN records : records[i].event # n) => Cardinality(LostIn(records, n)) = 0
<1>1. LostIn(records, n) \in SUBSET (1..Len(records)) /\ Len(records) \in Nat
  BY DEF LostIn
<1>2. IsFiniteSet(LostIn(records, n)) /\ Cardinality(LostIn(records, n)) \in Nat
  BY <1>1, Counted
<1>3. ASSUME \A i \in DOMAIN records : records[i].event # n PROVE LostIn(records, n) = {}
  BY <1>3 DEF LostIn
<1> QED BY <1>2, <1>3, FS_EmptySet

\* The record of a session and its account balances when they do.
LEMMA RecordIs ==
  ASSUME NEW s \in SessionType, NEW a \in AccType, a.baseline <= Len(s.calls),
         Balanced(StatsSince(s, a), a.approvals), NEW w \in BOOLEAN
  PROVE  LET r == Record(s, a, w)
         IN /\ r \in RecordType
            /\ r.session = s.id /\ r.event = s.event /\ r.written = w /\ r.hash = a.hash
            /\ Len(r.calls) = Len(s.calls) - a.baseline
            /\ Cardinality(ExecutedIn(r)) = Cardinality(PermittedIn(r))
            /\ Len(r.approvals) = Cardinality(ReceiptedIn(r))
<1> DEFINE calls == StatsSince(s, a)
           did == Executed(calls, a.approvals)
           r == Record(s, a, w)
<1>1. /\ s.id \in Nat /\ s.event \in Nat /\ s.calls \in Seq(Call)
      /\ a.trigger \in {"owner", "event"} /\ a.profile \in {"chat", "event"} /\ a.turns \in Nat
      /\ a.outcome \in Ending /\ a.approvals \in Seq(Receipt) /\ a.hash \in Nat /\ a.baseline \in Nat
  BY DEF SessionType, AccType
<1>2. calls \in Seq(Call) /\ Len(calls) = Len(s.calls) - a.baseline
  BY <1>1, CutIs DEF StatsSince
<1> HIDE DEF calls
<1>3. /\ did \in Seq(BOOLEAN)
      /\ Cardinality({i \in DOMAIN did : did[i]}) = Cardinality({i \in DOMAIN calls : calls[i].permitted})
      /\ Len(a.approvals) = Cardinality({i \in DOMAIN calls : calls[i].receipted})
  <2>1. Balanced(calls, a.approvals)
    BY DEF calls
  <2> QED BY <1>1, <1>2, <2>1, RecordBalances
<1> HIDE DEF did
<1>4. r = [session |-> s.id, trigger |-> a.trigger, profile |-> a.profile, calls |-> calls,
           executed |-> did, approvals |-> a.approvals, turns |-> a.turns, outcome |-> a.outcome,
           hash |-> a.hash, event |-> s.event, written |-> w]
  BY DEF Record, did, calls
<1> HIDE DEF r
<1>5. r \in RecordType
  BY <1>1, <1>2, <1>3, <1>4 DEF RecordType
<1>6. /\ r.session = s.id /\ r.event = s.event /\ r.written = w /\ r.hash = a.hash
      /\ r.calls = calls /\ r.executed = did /\ r.approvals = a.approvals
  BY <1>4
<1>7. /\ Cardinality(ExecutedIn(r)) = Cardinality(PermittedIn(r))
      /\ Len(r.approvals) = Cardinality(ReceiptedIn(r))
  BY <1>3, <1>6 DEF ExecutedIn, PermittedIn, ReceiptedIn
<1> QED BY <1>2, <1>5, <1>6, <1>7 DEF r

(***************************************************************************)
(* The inductive invariant.                                                *)
(***************************************************************************)
\* The queue is in the order of arrival and behind the turn at work.
Queue ==
  /\ \A i, j \in DOMAIN inbox : i < j => inbox[i] < inbox[j]
  /\ \A i \in DOMAIN inbox : turn < inbox[i]

\* What stands open in each phase.
Standing ==
  /\ turn = 0 <=> phase = "idle"
  /\ acc = <<>> <=> session = <<>>
  /\ phase = "closing" => session = <<>> /\ sent[turn] # "command"
  /\ incidents = (IF Opened THEN Session.event ELSE 0)
  /\ Opened =>
       /\ Session.id = sessions
       /\ Session.event # 0 => Session.event \in 1..Len(sent) /\ sent[Session.event] \in Event
       /\ Acc.flushed => Session.event # 0
  /\ phase = "working" =>
       /\ Opened /\ ~Acc.flushed
       /\ sent[turn] \in Event \cup {"say"}
       /\ sent[turn] \in Event => Session.event = turn /\ Acc.outcome = "completed"

\* A call that waits for the owner waits in the open session, an owner's, and
\* has neither leave nor a receipt yet.
Outstanding ==
  /\ pending # <<>> /\ Opened =>
       /\ pending[1] = Session.id /\ Session.event = 0
       /\ pending[2] \in DOMAIN Session.calls
       /\ ~Session.calls[pending[2]].permitted /\ ~Session.calls[pending[2]].receipted
  /\ pending # <<>> => Opened \/ phase = "closing"
  /\ FiledUnderItsIncident

\* The records balance, and hold what the open session's own will not.
Accounts ==
  /\ \A i \in DOMAIN log :
       /\ log[i].session <= sessions
       /\ Cardinality(ExecutedIn(log[i])) = Cardinality(PermittedIn(log[i]))
       /\ Len(log[i].approvals) = Cardinality(ReceiptedIn(log[i]))
  /\ Opened =>
       /\ Acc.baseline <= Len(Session.calls)
       /\ Session.event = 0 => Acc.baseline = 0
       /\ ~Acc.flushed => Balanced(StatsSince(Session, Acc), Acc.approvals)
       /\ IsFiniteSet(RecordedOf(Session.id))
       /\ Cardinality(RecordedOf(Session.id))
            = (IF Acc.flushed THEN Len(Session.calls) ELSE Acc.baseline)

\* A recall block is that of a session created so far, and of no other.
Blocks ==
  /\ \A g \in given : g[1] <= sessions
  /\ HashIsTheBlock
  /\ Opened => Acc.hash = 0 \/ <<Session.id, Acc.hash>> \in given
  /\ Opened /\ ~recallGiven => \A g \in given : g[1] # Session.id

\* A turn was told of, the send under way included, at most as often as its
\* record was lost, and once more when it needs no record or has one.
Known(n) == \E i \in DOMAIN log : log[i].event = n /\ log[i].written
Done(n) == sent[n] \notin Event \/ Known(n)
Speaking(n) == turn = n /\ phase = "speaking"
ToCome(n) == n \in ToSet(inbox) \/ (turn = n /\ phase # "speaking")
Heard(n) ==
  /\ Len(told[n]) + (IF Speaking(n) THEN 1 ELSE 0)
       <= Cardinality(Lost(n)) + (IF Done(n) THEN 1 ELSE 0)
  /\ ToCome(n) => /\ Len(told[n]) <= Cardinality(Lost(n))
                  /\ sent[n] = "say" => ended[n][1] = "none"
  /\ ~Owed(n) => told[n] = <<>> /\ ~Speaking(n)
  /\ Owed(n) => n \in ToSet(inbox) \cup {turn} \cup excused \/ told[n] # <<>>
  /\ \A i \in DOMAIN told[n] :
       told[n][i][1] \in {"reply", "triage"} => told[n][i][2] \in {"completed", "refused"}
Hearing ==
  /\ \A i \in DOMAIN log :
       log[i].event # 0 => log[i].event \in 1..Len(sent) /\ sent[log[i].event] \in Event
  /\ \A n \in 1..MaxTurns :
       IF n \in 1..Len(sent) THEN Heard(n) ELSE told[n] = <<>> /\ ended[n][1] = "none"
  /\ phase = "speaking" /\ word[1] \in {"reply", "triage"}
       => ended[turn][1] \in {"completed", "refused"}

IInv == TypeOK /\ Queue /\ Standing /\ Outstanding /\ Accounts /\ Blocks /\ Hearing

(***************************************************************************)
(* Types, in four parts.                                                   *)
(***************************************************************************)
ArrivalsType ==
  /\ sent \in Seq(Kind) /\ Len(sent) <= MaxTurns
  /\ inbox \in Seq(1..Len(sent)) /\ turn \in 0..Len(sent)
  /\ phase \in {"idle", "closing", "working", "speaking"}
  /\ phase = "speaking" => word \in Word \X BOOLEAN
WorkType ==
  /\ session # <<>> => session = <<Session>> /\ Session \in SessionType
  /\ acc # <<>> => acc = <<Acc>> /\ Acc \in AccType
  /\ pending # <<>> => pending \in Nat \X Nat
  /\ publishing \cup filed \subseteq Nat \X Nat \X Nat
NumbersType ==
  /\ sessions \in Nat /\ incidents \in Nat /\ memory \in Nat /\ called \in Nat
  /\ faults \in Nat /\ checkpoint \in Nat
  /\ idle \in BOOLEAN /\ recallGiven \in BOOLEAN /\ blocked \in BOOLEAN
HistoryType ==
  /\ log \in Seq(RecordType)
  /\ told \in [1..MaxTurns -> Seq(Word \X (Ending \cup {"none"}))]
  /\ ended \in [1..MaxTurns -> (Ending \cup {"none"}) \X BOOLEAN]
  /\ given \subseteq Nat \X Nat /\ excused \subseteq 1..Len(sent)

LEMMA TypeParts == TypeOK <=> ArrivalsType /\ WorkType /\ NumbersType /\ HistoryType
BY Zenon DEF TypeOK, ArrivalsType, WorkType, NumbersType, HistoryType

LEMMA TypePartsNext == TypeOK' <=> ArrivalsType' /\ WorkType' /\ NumbersType' /\ HistoryType'
BY Zenon DEF TypeOK, ArrivalsType, WorkType, NumbersType, HistoryType

LEMMA Bounds ==
  ASSUME TypeOK
  PROVE  /\ MaxTurns \in Nat /\ Len(sent) \in Nat /\ turn \in Nat
         /\ DOMAIN sent = 1..Len(sent) /\ 1..Len(sent) \subseteq 1..MaxTurns
BY ConversationAssumption DEF TypeOK

LEMMA InitType == Init => TypeOK
<1> SUFFICES ASSUME Init PROVE TypeOK
  OBVIOUS
<1>1. ArrivalsType
  BY ConversationAssumption DEF Init, ArrivalsType
<1>2. WorkType
  BY DEF Init, WorkType
<1>3. NumbersType
  BY ConversationAssumption DEF Init, NumbersType
<1>4. log \in Seq(RecordType) /\ given \subseteq Nat \X Nat /\ excused \subseteq 1..Len(sent)
  BY DEF Init
<1>5. told \in [1..MaxTurns -> Seq(Word \X (Ending \cup {"none"}))]
  BY DEF Init
<1>6. ended \in [1..MaxTurns -> (Ending \cup {"none"}) \X BOOLEAN]
  <2>1. <<"none", FALSE>> \in (Ending \cup {"none"}) \X BOOLEAN
    OBVIOUS
  <2> QED BY <2>1 DEF Init
<1>7. HistoryType
  BY <1>4, <1>5, <1>6 DEF HistoryType
<1> QED BY <1>1, <1>2, <1>3, <1>7, TypeParts

LEMMA SubmitType ==
  ASSUME TypeOK, NEW k \in Kind, Submit(k)
  PROVE  TypeOK'
<1>1. UNCHANGED <<core, outside, durable, faults, history>>
  BY DEF Submit
<1>2. /\ sent' \in Seq(Kind) /\ Len(sent') = Len(sent) + 1 /\ Len(sent') <= MaxTurns
  <2>1. sent \in Seq(Kind) /\ sent' = Append(sent, k) /\ Len(sent) < MaxTurns
    BY DEF Submit, TypeOK
  <2> QED BY <2>1, AppendIs, Bounds
<1>3. inbox' \in Seq(1..Len(sent'))
  <2>1. inbox \in Seq(1..Len(sent')) /\ Len(sent) + 1 \in 1..Len(sent')
    BY <1>2, Bounds DEF TypeOK
  <2> QED BY <2>1, AppendIs DEF Submit
<1>4. ArrivalsType'
  BY <1>1, <1>2, <1>3, Bounds DEF core, ArrivalsType, TypeOK
<1>5. WorkType'
  BY <1>1 DEF core, outside, history, WorkType, TypeOK, Session, Acc
<1>6. NumbersType'
  BY <1>1 DEF core, outside, durable, NumbersType, TypeOK
<1>7. HistoryType'
  <2>1. excused' \subseteq 1..Len(sent')
    BY <1>1, <1>2, Bounds DEF history, TypeOK
  <2> QED BY <1>1, <2>1 DEF history, HistoryType, TypeOK
<1> QED BY <1>4, <1>5, <1>6, <1>7, TypePartsNext

LEMMA GrowIdleType ==
  ASSUME TypeOK, GrowIdle
  PROVE  TypeOK'
BY DEF GrowIdle, TypeOK, outside, durable, history, Session, Acc

LEMMA SpokenType ==
  ASSUME TypeOK, Standing, Spoken
  PROVE  TypeOK'
<1>1. /\ UNCHANGED <<sent, inbox, session, leaving, sessions, acc, recallGiven,
                     incidents, outside, durable, faults, log, ended, given, filed, excused>>
      /\ turn' = 0 /\ phase' = "idle" /\ idle' = (idle /\ ~word[2]) /\ phase = "speaking"
      /\ told' = [told EXCEPT ![turn] = Append(@, <<word[1], ended[turn][1]>>)]
  BY DEF Spoken
<1>2. turn \in 1..MaxTurns
  BY <1>1, Bounds DEF Standing, TypeOK
<1>3. <<word[1], ended[turn][1]>> \in Word \X (Ending \cup {"none"}) /\ word[2] \in BOOLEAN
  <2>1. ended[turn] \in (Ending \cup {"none"}) \X BOOLEAN
    BY <1>2 DEF TypeOK
  <2>2. word \in Word \X BOOLEAN
    BY <1>1 DEF TypeOK
  <2>3. word[1] \in Word /\ word[2] \in BOOLEAN /\ ended[turn][1] \in Ending \cup {"none"}
    BY <2>1, <2>2
  <2> QED BY <2>3
<1>4. told' \in [1..MaxTurns -> Seq(Word \X (Ending \cup {"none"}))]
  <2>1. told[turn] \in Seq(Word \X (Ending \cup {"none"}))
    BY <1>2 DEF TypeOK
  <2>2. Append(told[turn], <<word[1], ended[turn][1]>>) \in Seq(Word \X (Ending \cup {"none"}))
    BY <2>1, <1>3, AppendIs
  <2> QED BY <2>2, <1>1 DEF TypeOK
<1>5. ArrivalsType'
  BY <1>1, Bounds DEF ArrivalsType, TypeOK
<1>6. WorkType'
  BY <1>1 DEF outside, WorkType, TypeOK, Session, Acc
<1>7. NumbersType'
  <2>1. idle' \in BOOLEAN
    BY <1>1
  <2> QED BY <2>1, <1>1 DEF outside, durable, NumbersType, TypeOK
<1>8. HistoryType'
  BY <1>1, <1>4 DEF HistoryType, TypeOK
<1> QED BY <1>5, <1>6, <1>7, <1>8, TypePartsNext

LEMMA TakeIs ==
  ASSUME TypeOK, NEW n \in DOMAIN sent, Take(n)
  PROVE  /\ n \in 1..Len(sent) /\ inbox' \in Seq(1..Len(sent)) /\ phase = "idle"
         /\ inbox # <<>> /\ n = Head(inbox) /\ inbox' = Tail(inbox)
<1>1. phase = "idle" /\ inbox # <<>> /\ n = Head(inbox) /\ inbox' = Tail(inbox)
  BY DEF Take
<1>2. inbox \in Seq(1..Len(sent))
  BY DEF TypeOK
<1> QED BY <1>1, <1>2, TailIs, Bounds

LEMMA CommandType ==
  ASSUME TypeOK, Command
  PROVE  TypeOK'
<1>1. PICK n \in DOMAIN sent :
        /\ Take(n) /\ sent[n] = "command"
        /\ memory' = memory + 1
        /\ turn' = n /\ Say("result", FALSE)
        /\ UNCHANGED <<sent, session, leaving, sessions, acc, idle, recallGiven, incidents,
                       outside, checkpoint, blocked, faults, history>>
  BY DEF Command
<1>2. n \in 1..Len(sent) /\ inbox' \in Seq(1..Len(sent))
  BY <1>1, TakeIs
<1>3. phase' = "speaking" /\ word' = <<"result", FALSE>> /\ word' \in Word \X BOOLEAN
  BY <1>1 DEF Say, Word
<1>4. ArrivalsType'
  BY <1>1, <1>2, <1>3, Bounds DEF ArrivalsType, TypeOK
<1>5. WorkType'
  BY <1>1 DEF outside, history, WorkType, TypeOK, Session, Acc
<1>6. NumbersType'
  BY <1>1 DEF outside, NumbersType, TypeOK
<1>7. HistoryType'
  BY <1>1 DEF history, HistoryType, TypeOK
<1> QED BY <1>4, <1>5, <1>6, <1>7, TypePartsNext

\* The account after the recall block, and the blocks given.
LEMMA RecallType ==
  ASSUME TypeOK, NEW a \in AccType, NEW already \in BOOLEAN, NEW readable \in BOOLEAN,
         TakeRecall(a, already, readable), Session'.id \in Nat
  PROVE  /\ acc' = <<Acc'>> /\ acc' # <<>> /\ Acc' \in AccType
         /\ given' \subseteq Nat \X Nat /\ recallGiven' \in BOOLEAN
<1>1. CASE already \/ ~readable \/ memory = 0
  <2>1. acc' = <<a>> /\ given' = given /\ recallGiven' = (already \/ readable)
    BY <1>1 DEF TakeRecall
  <2> QED BY <2>1 DEF TypeOK, Acc
<1>2. CASE ~(already \/ ~readable \/ memory = 0)
  <2> DEFINE b == [a EXCEPT !.hash = memory]
  <2>1. /\ acc' = <<b>> /\ given' = given \cup {<<Session'.id, memory>>}
        /\ recallGiven' = (already \/ readable)
    BY <1>2 DEF TakeRecall, Session
  <2>2. memory \in Nat /\ given \subseteq Nat \X Nat
    BY DEF TypeOK
  <2>3. b \in AccType
    BY <2>2 DEF AccType
  <2>4. <<Session'.id, memory>> \in Nat \X Nat
    BY <2>2
  <2> HIDE DEF b
  <2>5. Acc' = b /\ acc' = <<Acc'>> /\ acc' # <<>>
    BY <2>1 DEF Acc
  <2>6. given' \subseteq Nat \X Nat
    BY <2>1, <2>2, <2>4, Zenon
  <2> QED BY <2>1, <2>3, <2>5, <2>6
<1> QED BY <1>1, <1>2

LEMMA NewTypes ==
  ASSUME NEW n \in Nat, NEW e \in Nat
  PROVE  /\ NewSession(n, e) \in SessionType
         /\ NewAcc("event", "event") \in AccType /\ NewAcc("owner", "chat") \in AccType
BY DEF NewSession, NewAcc, SessionType, AccType, Ending

LEMMA ContinuedType ==
  ASSUME NEW a \in AccType, NEW s \in SessionType
  PROVE  /\ Continued(a, s) \in AccType
         /\ Continued(a, s).hash = a.hash /\ Continued(a, s).baseline = Len(s.calls)
         /\ Continued(a, s).flushed = FALSE /\ Continued(a, s).approvals = <<>>
         /\ Continued(a, s).outcome = "completed"
<1> DEFINE new == NewAcc("owner", a.profile)
           dated == [new EXCEPT !.hash = a.hash]
           based == [dated EXCEPT !.baseline = Len(s.calls)]
<1>1. a.profile \in {"chat", "event"} /\ a.hash \in Nat /\ Len(s.calls) \in Nat
  BY DEF AccType, SessionType
<1>2. /\ new \in AccType /\ new.flushed = FALSE /\ new.approvals = <<>> /\ new.outcome = "completed"
  BY <1>1 DEF NewAcc, AccType, Ending
<1> HIDE DEF new
<1>3. /\ dated \in AccType /\ dated.flushed = new.flushed /\ dated.approvals = new.approvals
      /\ dated.outcome = new.outcome /\ dated.hash = a.hash
  BY <1>1, <1>2 DEF AccType
<1>4. Continued(a, s) = based
  BY Zenon DEF Continued, new
<1> HIDE DEF dated
<1>5. /\ based \in AccType /\ based.flushed = dated.flushed /\ based.approvals = dated.approvals
      /\ based.outcome = dated.outcome /\ based.hash = dated.hash /\ based.baseline = Len(s.calls)
  BY <1>1, <1>3 DEF AccType
<1> QED BY <1>2, <1>3, <1>4, <1>5

LEMMA ContinueType ==
  ASSUME TypeOK, Standing, Continue
  PROVE  TypeOK'
<1>1. PICK n \in DOMAIN sent, readable \in BOOLEAN :
        /\ Take(n) /\ Reuses(n)
        /\ turn' = n /\ phase' = "working" /\ word' = <<>>
        /\ UNCHANGED session
        /\ TakeRecall(IF Acc.flushed THEN Continued(Acc, Session) ELSE Acc, recallGiven, readable)
        /\ faults' = faults + (IF readable THEN 0 ELSE 1)
        /\ UNCHANGED <<sent, leaving, sessions, idle, incidents, outside,
                       durable, log, told, ended, filed, excused>>
  BY DEF Continue
<1>2. n \in 1..Len(sent) /\ inbox' \in Seq(1..Len(sent))
  BY <1>1, TakeIs
<1>3. /\ Opened /\ acc # <<>> /\ session = <<Session>> /\ acc = <<Acc>>
      /\ Session \in SessionType /\ Acc \in AccType
  BY <1>1 DEF Reuses, Opened, Standing, TypeOK
<1>4. Session' = Session /\ Session'.id \in Nat
  BY <1>1, <1>3 DEF Session, SessionType
<1> DEFINE a == IF Acc.flushed THEN Continued(Acc, Session) ELSE Acc
<1>5. a \in AccType
  BY <1>3, ContinuedType
<1> HIDE DEF a
<1>6. /\ acc' = <<Acc'>> /\ acc' # <<>> /\ Acc' \in AccType
      /\ given' \subseteq Nat \X Nat /\ recallGiven' \in BOOLEAN
  <2>1. TakeRecall(a, recallGiven, readable) /\ recallGiven \in BOOLEAN
    BY <1>1 DEF a, TypeOK
  <2> QED BY <2>1, <1>4, <1>5, RecallType
<1>7. ArrivalsType'
  BY <1>1, <1>2, Bounds DEF ArrivalsType, TypeOK
<1>8. WorkType'
  BY <1>1, <1>3, <1>4, <1>6 DEF outside, WorkType, TypeOK
<1>9. NumbersType'
  <2>1. faults' \in Nat
    BY <1>1 DEF TypeOK
  <2> QED BY <1>1, <1>6, <2>1 DEF outside, durable, NumbersType, TypeOK
<1>10. HistoryType'
  BY <1>1, <1>6 DEF HistoryType, TypeOK
<1> QED BY <1>7, <1>8, <1>9, <1>10, TypePartsNext

\* A turn that opened, reset or could not open: what its caller leaves alone
\* or clears is typed already.
LEMMA OpenType ==
  ASSUME TypeOK, NEW n \in 1..Len(sent), Open(n),
         sent' = sent, leaving' \in {<<>>, leaving}, memory' = memory, blocked' = blocked,
         told' = told, called' = called, inbox' \in Seq(1..Len(sent)),
         pending' \in {<<>>, pending}, publishing' \in {{}, publishing}
  PROVE  TypeOK'
<1>1. WorkType' <=>
        /\ session' # <<>> => session' = <<Session'>> /\ Session' \in SessionType
        /\ acc' # <<>> => acc' = <<Acc'>> /\ Acc' \in AccType
        /\ pending' # <<>> => pending' \in Nat \X Nat
        /\ publishing' \cup filed' \subseteq Nat \X Nat \X Nat
  BY DEF WorkType
<1>2. /\ pending' # <<>> => pending' \in Nat \X Nat
      /\ filed' = filed => publishing' \cup filed' \subseteq Nat \X Nat \X Nat
  BY DEF TypeOK
<1>3. turn' = (IF phase' = "idle" THEN 0 ELSE n) /\ checkpoint' = checkpoint
  BY DEF Open
<1>4. turn' \in 0..Len(sent)
  BY <1>3, Bounds
<1>5. CASE sent[n] = "reset" /\ Reset
  <2>1. /\ idle' = FALSE /\ incidents' = 0 /\ session' = <<>> /\ acc' = <<>> /\ recallGiven' = FALSE
        /\ phase' = "speaking" /\ word' = <<"confirmation", FALSE>>
        /\ UNCHANGED <<sessions, faults, log, ended, given, filed, excused>>
    BY <1>5 DEF Reset, Say
  <2>2. word' \in Word \X BOOLEAN
    BY <2>1 DEF Word
  <2>3. ArrivalsType'
    BY <2>1, <2>2, <1>4 DEF ArrivalsType, TypeOK
  <2>4. WorkType'
    BY <2>1, <1>1, <1>2
  <2>5. NumbersType'
    BY <2>1, <1>3 DEF NumbersType, TypeOK
  <2>6. HistoryType'
    BY <2>1 DEF HistoryType, TypeOK
  <2> QED BY <2>3, <2>4, <2>5, <2>6, TypePartsNext
<1>6. ASSUME NEW readable \in BOOLEAN, OpenSession(n, readable) PROVE TypeOK'
  <2> DEFINE event == sent[n] \in Event
             a == NewAcc(IF event THEN "event" ELSE "owner", IF event THEN "event" ELSE "chat")
             e == IF event THEN n ELSE 0
  <2>1. /\ sessions' = sessions + 1 /\ session' = <<NewSession(sessions + 1, e)>>
        /\ incidents' = e /\ idle' = FALSE /\ TakeRecall(a, FALSE, readable)
        /\ faults' = faults + (IF readable THEN 0 ELSE 1)
        /\ phase' = "working" /\ word' = <<>>
        /\ UNCHANGED <<log, ended, filed, excused>>
    BY <1>6 DEF OpenSession
  <2>2. e \in Nat /\ sessions + 1 \in Nat /\ sessions' \in Nat /\ faults' \in Nat
    BY <2>1, Bounds DEF TypeOK
  <2>3. a \in AccType
    <3>1. a = NewAcc("event", "event") \/ a = NewAcc("owner", "chat")
      BY Zenon
    <3> HIDE DEF a
    <3> QED BY <3>1, <2>2, NewTypes
  <2>4. NewSession(sessions + 1, e) \in SessionType /\ NewSession(sessions + 1, e).id = sessions + 1
    BY <2>2, NewTypes DEF NewSession
  <2> HIDE DEF a, e
  <2>5. /\ session' = <<Session'>> /\ Session' \in SessionType /\ Session'.id \in Nat
    BY <2>1, <2>2, <2>4 DEF Session
  <2>6. /\ acc' = <<Acc'>> /\ acc' # <<>> /\ Acc' \in AccType
        /\ given' \subseteq Nat \X Nat /\ recallGiven' \in BOOLEAN
    BY <2>1, <2>3, <2>5, RecallType
  <2>7. ArrivalsType'
    BY <2>1, <1>4 DEF ArrivalsType, TypeOK
  <2>8. WorkType'
    BY <2>1, <2>5, <2>6, <1>1, <1>2
  <2>9. NumbersType'
    BY <2>1, <2>2, <2>6, <1>3 DEF NumbersType, TypeOK
  <2>10. HistoryType'
    BY <2>1, <2>6 DEF HistoryType, TypeOK
  <2> QED BY <2>7, <2>8, <2>9, <2>10, TypePartsNext
<1>7. CASE OpenFails(n)
  <2>1. /\ faults' = faults + 1 /\ session' = <<>> /\ acc' = <<>> /\ recallGiven' = FALSE
        /\ incidents' = 0 /\ UNCHANGED <<idle, sessions, log, ended, given, filed>>
    BY <1>7 DEF OpenFails
  <2>2. /\ phase' \in {"idle", "speaking"} /\ (phase' = "speaking" => word' = <<"error", FALSE>>)
        /\ excused' \subseteq excused \cup {n}
    BY <1>7 DEF OpenFails, Say
  <2>3. <<"error", FALSE>> \in Word \X BOOLEAN
    BY DEF Word
  <2>4. ArrivalsType'
    BY <2>2, <2>3, <1>4 DEF ArrivalsType, TypeOK
  <2>5. WorkType'
    BY <2>1, <1>1, <1>2
  <2>6. NumbersType'
    <3>1. idle' \in BOOLEAN /\ blocked' \in BOOLEAN
      BY <2>1, Zenon DEF TypeOK
    <3>2. faults' \in Nat /\ sessions' \in Nat /\ memory' \in Nat /\ called' \in Nat /\ checkpoint' \in Nat
      BY <2>1, <1>3 DEF TypeOK
    <3> QED BY <2>1, <3>1, <3>2 DEF NumbersType
  <2>7. HistoryType'
    BY <2>1, <2>2 DEF HistoryType, TypeOK
  <2> QED BY <2>4, <2>5, <2>6, <2>7, TypePartsNext
<1> QED BY <1>5, <1>6, <1>7 DEF Open

LEMMA StartType ==
  ASSUME TypeOK, Start
  PROVE  TypeOK'
<1>1. PICK n \in DOMAIN sent :
        /\ Take(n) /\ sent[n] # "command" /\ ~Opened
        /\ Open(n)
        /\ UNCHANGED <<sent, leaving, outside, memory, blocked, told>>
  BY DEF Start
<1>2. n \in 1..Len(sent) /\ inbox' \in Seq(1..Len(sent))
  BY <1>1, TakeIs
<1> QED BY <1>1, <1>2, OpenType DEF outside

LEMMA ClosedType ==
  ASSUME TypeOK, Standing, Closed
  PROVE  TypeOK'
<1>1. /\ phase = "closing" /\ leaving' = <<>> /\ pending' = <<>> /\ publishing' = {}
      /\ called' = called /\ Open(turn)
      /\ UNCHANGED <<sent, inbox, memory, blocked, told>>
  BY DEF Closed
<1>2. turn \in 1..Len(sent) /\ inbox' \in Seq(1..Len(sent))
  BY <1>1, Bounds DEF Standing, TypeOK
<1> QED BY <1>1, <1>2, OpenType

\* What an open session and its account hold.
LEMMA OpenTypes ==
  ASSUME TypeOK, Standing, Opened
  PROVE  /\ session = <<Session>> /\ Session \in SessionType /\ acc = <<Acc>> /\ Acc \in AccType
         /\ acc # <<>> /\ session # <<>>
         /\ Session.id \in Nat /\ Session.event \in Nat /\ Session.calls \in Seq(Call)
         /\ Acc.approvals \in Seq(Receipt) /\ Acc.baseline \in Nat /\ Acc.hash \in Nat
         /\ Acc.flushed \in BOOLEAN /\ Acc.outcome \in Ending /\ Acc.turns \in Nat
         /\ Len(Session.calls) \in Nat
<1>1. /\ session # <<>> /\ acc # <<>>
      /\ session = <<Session>> /\ Session \in SessionType /\ acc = <<Acc>> /\ Acc \in AccType
  BY DEF Opened, Standing, TypeOK
<1>2. Session.id \in Nat /\ Session.event \in Nat /\ Session.calls \in Seq(Call)
  BY <1>1 DEF SessionType
<1>3. /\ Acc.approvals \in Seq(Receipt) /\ Acc.baseline \in Nat /\ Acc.hash \in Nat
      /\ Acc.flushed \in BOOLEAN /\ Acc.outcome \in Ending /\ Acc.turns \in Nat
  BY <1>1 DEF AccType
<1> QED BY <1>1, <1>2, <1>3

\* The record a close or a stop writes of the open session.
LEMMA RecordNow ==
  ASSUME TypeOK, Standing, Accounts, Opened, ~Acc.flushed, NEW w \in BOOLEAN
  PROVE  LET r == Record(Session, Acc, w)
         IN /\ r \in RecordType
            /\ r.session = Session.id /\ r.event = Session.event /\ r.written = w /\ r.hash = Acc.hash
            /\ Len(r.calls) = Len(Session.calls) - Acc.baseline
            /\ Cardinality(ExecutedIn(r)) = Cardinality(PermittedIn(r))
            /\ Len(r.approvals) = Cardinality(ReceiptedIn(r))
<1>1. Session \in SessionType /\ Acc \in AccType
  BY OpenTypes
<1>2. Acc.baseline <= Len(Session.calls) /\ Balanced(StatsSince(Session, Acc), Acc.approvals)
  BY DEF Accounts
<1> QED BY <1>1, <1>2, RecordIs

LEMMA ReceiptIs ==
  ASSUME TypeOK, Standing, NEW outcome \in Receipt, NoteReceipt(outcome)
  PROVE  /\ acc' = <<>> <=> acc = <<>>
         /\ Opened => /\ acc' = <<Acc'>> /\ Acc' \in AccType
                      /\ Acc'.approvals = Append(Acc.approvals, outcome)
                      /\ Acc'.flushed = Acc.flushed /\ Acc'.baseline = Acc.baseline
                      /\ Acc'.hash = Acc.hash /\ Acc'.outcome = Acc.outcome
<1>1. CASE acc = <<>>
  BY <1>1 DEF NoteReceipt, Standing, Opened
<1>2. CASE acc # <<>>
  <2> DEFINE a == [Acc EXCEPT !.approvals = Append(@, outcome)]
  <2>1. Opened /\ acc' = <<a>>
    BY <1>2 DEF NoteReceipt, Standing, Opened
  <2>2. Acc \in AccType /\ Append(Acc.approvals, outcome) \in Seq(Receipt)
    BY <2>1, OpenTypes, AppendIs
  <2>3. /\ a \in AccType /\ a.approvals = Append(Acc.approvals, outcome)
        /\ a.flushed = Acc.flushed /\ a.baseline = Acc.baseline
        /\ a.hash = Acc.hash /\ a.outcome = Acc.outcome
    BY <2>2 DEF AccType
  <2> HIDE DEF a
  <2>4. Acc' = a /\ acc' # <<>>
    BY <2>1 DEF Acc
  <2> QED BY <2>1, <2>3, <2>4, <1>2
<1> QED BY <1>1, <1>2

LEMMA CallIs ==
  ASSUME TypeOK, Standing, Opened, NEW p \in BOOLEAN, NEW q \in BOOLEAN, CallMade(p, q)
  PROVE  /\ session' = <<Session'>> /\ session' # <<>> /\ Session' \in SessionType
         /\ Session'.id = Session.id /\ Session'.event = Session.event
         /\ [permitted |-> p, receipted |-> q] \in Call
         /\ Session'.calls = Append(Session.calls, [permitted |-> p, receipted |-> q])
<1> DEFINE c == [permitted |-> p, receipted |-> q]
           s == [Session EXCEPT !.calls = Append(@, c)]
<1>1. c \in Call
  BY DEF Call
<1>2. session' = <<s>>
  BY DEF CallMade
<1> HIDE DEF c
<1>3. Session \in SessionType /\ Append(Session.calls, c) \in Seq(Call)
  BY <1>1, OpenTypes, AppendIs
<1>4. /\ s \in SessionType /\ s.id = Session.id /\ s.event = Session.event
      /\ s.calls = Append(Session.calls, c)
  BY <1>3 DEF SessionType
<1> HIDE DEF s
<1>5. Session' = s /\ session' # <<>>
  BY <1>2 DEF Session
<1> QED BY <1>1, <1>2, <1>4, <1>5 DEF c

\* A call is refused with its receipt, or waits for the owner without one.
LEMMA AskIs ==
  ASSUME TypeOK, Standing, Ask
  PROVE  /\ phase = "working" /\ Opened /\ ~Acc.flushed /\ called' = called + 1
         /\ session' = <<Session'>> /\ session' # <<>> /\ Session' \in SessionType
         /\ Session'.id = Session.id /\ Session'.event = Session.event
         /\ acc' = <<Acc'>> /\ acc' # <<>> /\ Acc' \in AccType
         /\ Acc'.flushed = Acc.flushed /\ Acc'.baseline = Acc.baseline
         /\ Acc'.hash = Acc.hash /\ Acc'.outcome = Acc.outcome
         /\ \/ /\ pending' = pending /\ (Session.event # 0 \/ pending # <<>>)
               /\ \E o \in Receipt \ {"approved"} : Acc'.approvals = Append(Acc.approvals, o)
               /\ Session'.calls = Append(Session.calls, [permitted |-> FALSE, receipted |-> TRUE])
            \/ /\ Session.event = 0 /\ pending = <<>>
               /\ pending' = <<Session.id, Len(Session.calls) + 1>>
               /\ Acc'.approvals = Acc.approvals
               /\ Session'.calls = Append(Session.calls, [permitted |-> FALSE, receipted |-> FALSE])
<1>1. /\ phase = "working" /\ called' = called + 1
      /\ \/ /\ Session.event # 0
            /\ CallMade(FALSE, TRUE) /\ NoteReceipt("out-of-scope")
            /\ UNCHANGED pending
         \/ /\ Session.event = 0 /\ pending # <<>>
            /\ CallMade(FALSE, TRUE) /\ NoteReceipt("rejected-busy")
            /\ UNCHANGED pending
         \/ /\ Session.event = 0 /\ pending = <<>>
            /\ CallMade(FALSE, FALSE) /\ UNCHANGED acc
            /\ pending' = <<Session.id, Len(Session.calls) + 1>>
  BY DEF Ask
<1>2. Opened /\ ~Acc.flushed
  BY <1>1 DEF Standing
<1>3. ASSUME NEW o \in Receipt \ {"approved"}, CallMade(FALSE, TRUE), NoteReceipt(o),
             pending' = pending, Session.event # 0 \/ pending # <<>>
      PROVE  /\ session' = <<Session'>> /\ session' # <<>> /\ Session' \in SessionType
             /\ Session'.id = Session.id /\ Session'.event = Session.event
             /\ acc' = <<Acc'>> /\ acc' # <<>> /\ Acc' \in AccType
             /\ Acc'.flushed = Acc.flushed /\ Acc'.baseline = Acc.baseline
             /\ Acc'.hash = Acc.hash /\ Acc'.outcome = Acc.outcome
             /\ Acc'.approvals = Append(Acc.approvals, o)
             /\ Session'.calls = Append(Session.calls, [permitted |-> FALSE, receipted |-> TRUE])
  <2>1. /\ session' = <<Session'>> /\ session' # <<>> /\ Session' \in SessionType
        /\ Session'.id = Session.id /\ Session'.event = Session.event
        /\ Session'.calls = Append(Session.calls, [permitted |-> FALSE, receipted |-> TRUE])
    BY <1>2, <1>3, CallIs
  <2>2. /\ acc' = <<Acc'>> /\ Acc' \in AccType
        /\ Acc'.approvals = Append(Acc.approvals, o)
        /\ Acc'.flushed = Acc.flushed /\ Acc'.baseline = Acc.baseline
        /\ Acc'.hash = Acc.hash /\ Acc'.outcome = Acc.outcome
        /\ (acc' = <<>> <=> acc = <<>>) /\ acc # <<>>
    BY <1>2, <1>3, ReceiptIs, OpenTypes
  <2> QED BY <2>1, <2>2
<1>4. CASE /\ Session.event # 0
           /\ CallMade(FALSE, TRUE) /\ NoteReceipt("out-of-scope") /\ UNCHANGED pending
  <2>1. "out-of-scope" \in Receipt \ {"approved"}
    BY DEF Receipt
  <2> QED BY <2>1, <1>1, <1>2, <1>3, <1>4
<1>5. CASE /\ Session.event = 0 /\ pending # <<>>
           /\ CallMade(FALSE, TRUE) /\ NoteReceipt("rejected-busy") /\ UNCHANGED pending
  <2>1. "rejected-busy" \in Receipt \ {"approved"}
    BY DEF Receipt
  <2> QED BY <2>1, <1>1, <1>2, <1>3, <1>5
<1>6. CASE /\ Session.event = 0 /\ pending = <<>>
           /\ CallMade(FALSE, FALSE) /\ UNCHANGED acc
           /\ pending' = <<Session.id, Len(Session.calls) + 1>>
  <2>1. /\ session' = <<Session'>> /\ session' # <<>> /\ Session' \in SessionType
        /\ Session'.id = Session.id /\ Session'.event = Session.event
        /\ Session'.calls = Append(Session.calls, [permitted |-> FALSE, receipted |-> FALSE])
    BY <1>2, <1>6, CallIs
  <2>2. Acc' = Acc /\ acc' = acc
    BY <1>6 DEF Acc
  <2>3. acc' = <<Acc'>> /\ acc' # <<>> /\ Acc' \in AccType
    BY <2>2, <1>2, OpenTypes
  <2> QED BY <2>1, <2>2, <2>3, <1>1, <1>2, <1>6
<1> QED BY <1>1, <1>4, <1>5, <1>6

LEMMA AskType ==
  ASSUME TypeOK, Standing, Ask
  PROVE  TypeOK'
<1>1. /\ session' = <<Session'>> /\ session' # <<>> /\ Session' \in SessionType
      /\ acc' = <<Acc'>> /\ acc' # <<>> /\ Acc' \in AccType
      /\ called' = called + 1 /\ Opened
      /\ pending' = pending \/ pending' = <<Session.id, Len(Session.calls) + 1>>
  BY AskIs
<1>2. UNCHANGED <<sent, inbox, turn, phase, word, leaving, sessions,
                  idle, recallGiven, incidents, publishing, durable, faults, history>>
  BY DEF Ask
<1>3. pending' # <<>> => pending' \in Nat \X Nat
  <2>1. Session.id \in Nat /\ Len(Session.calls) + 1 \in Nat
    BY <1>1, OpenTypes
  <2>2. <<Session.id, Len(Session.calls) + 1>> \in Nat \X Nat
    BY <2>1
  <2> QED BY <1>1, <2>2 DEF TypeOK
<1>4. ArrivalsType'
  BY <1>2 DEF ArrivalsType, TypeOK
<1>5. WorkType'
  BY <1>1, <1>2, <1>3 DEF history, WorkType, TypeOK
<1>6. NumbersType'
  <2>1. called' \in Nat
    BY <1>1 DEF TypeOK
  <2> QED BY <1>2, <2>1 DEF durable, NumbersType, TypeOK
<1>7. HistoryType'
  BY <1>2 DEF history, HistoryType, TypeOK
<1> QED BY <1>4, <1>5, <1>6, <1>7, TypePartsNext

LEMMA DecideIs ==
  ASSUME TypeOK, Standing, Outstanding, NEW outcome \in {"approved", "denied"}, Decide(outcome)
  PROVE  /\ pending # <<>> /\ pending' = <<>> /\ called' = called
         /\ (session' = <<>> <=> session = <<>>) /\ (acc' = <<>> <=> acc = <<>>)
         /\ Opened =>
              /\ session' = <<Session'>> /\ Session' \in SessionType
              /\ Session'.id = Session.id /\ Session'.event = Session.event /\ Session.event = 0
              /\ pending[2] \in DOMAIN Session.calls
              /\ ~Session.calls[pending[2]].permitted /\ ~Session.calls[pending[2]].receipted
              /\ Session'.calls = [Session.calls EXCEPT ![pending[2]] =
                                     [permitted |-> outcome = "approved", receipted |-> TRUE]]
              /\ acc' = <<Acc'>> /\ Acc' \in AccType
              /\ Acc'.approvals = Append(Acc.approvals, outcome)
              /\ Acc'.flushed = Acc.flushed /\ Acc'.baseline = Acc.baseline
              /\ Acc'.hash = Acc.hash /\ Acc'.outcome = Acc.outcome
<1>1. /\ pending # <<>> /\ pending' = <<>> /\ called' = called /\ NoteReceipt(outcome)
      /\ IF Opened /\ Session.id = pending[1]
           THEN session' = <<[Session EXCEPT !.calls[pending[2]] =
                    [permitted |-> outcome = "approved", receipted |-> TRUE]]>>
           ELSE UNCHANGED session
  BY DEF Decide
<1>2. outcome \in Receipt
  BY DEF Receipt
<1>3. CASE ~Opened
  <2>1. session' = session /\ session = <<>>
    BY <1>1, <1>3 DEF Opened
  <2>2. acc' = <<>> <=> acc = <<>>
    BY <1>1, <1>2, ReceiptIs
  <2> QED BY <1>1, <1>3, <2>1, <2>2
<1>4. CASE Opened
  <2> DEFINE k == pending[2]
             c == [permitted |-> outcome = "approved", receipted |-> TRUE]
             d == [Session.calls EXCEPT ![k] = c]
             s == [Session EXCEPT !.calls = d]
  <2>1. /\ pending[1] = Session.id /\ Session.event = 0 /\ k \in DOMAIN Session.calls
        /\ ~Session.calls[k].permitted /\ ~Session.calls[k].receipted
    BY <1>1, <1>4 DEF Outstanding
  <2>2. session' = <<[Session EXCEPT !.calls[k] = c]>>
    BY <1>1, <1>4, <2>1
  <2>3. c \in Call
    BY DEF Call
  <2> HIDE DEF c, k
  <2>4. [Session EXCEPT !.calls[k] = c] = s
    BY Zenon
  <2>5. d \in Seq(Call) /\ Session \in SessionType
    BY <1>4, <2>1, <2>3, OpenTypes
  <2> HIDE DEF d
  <2>6. s \in SessionType /\ s.id = Session.id /\ s.event = Session.event /\ s.calls = d
    BY <2>5 DEF SessionType
  <2> HIDE DEF s
  <2>7. session' = <<s>>
    BY <2>2, <2>4
  <2>8. Session' = s /\ session' # <<>> /\ session # <<>>
    BY <2>7, <1>4 DEF Session, Opened
  <2>9. /\ (acc' = <<>> <=> acc = <<>>)
        /\ acc' = <<Acc'>> /\ Acc' \in AccType
        /\ Acc'.approvals = Append(Acc.approvals, outcome)
        /\ Acc'.flushed = Acc.flushed /\ Acc'.baseline = Acc.baseline
        /\ Acc'.hash = Acc.hash /\ Acc'.outcome = Acc.outcome
    BY <1>1, <1>2, <1>4, ReceiptIs
  <2>10. session' = <<Session'>> /\ Session' \in SessionType /\ Session'.id = Session.id
    BY <2>6, <2>7, <2>8
  <2>11. Session'.event = Session.event /\ Session'.calls = d
    BY <2>6, <2>8
  <2> QED BY <1>1, <2>1, <2>8, <2>9, <2>10, <2>11 DEF k, c, d
<1> QED BY <1>3, <1>4

LEMMA DecideType ==
  ASSUME TypeOK, Standing, Outstanding, NEW o \in {"approved", "denied"}, Decide(o)
  PROVE  TypeOK'
<1>1. /\ pending' = <<>> /\ called' = called
      /\ session' # <<>> => session' = <<Session'>> /\ Session' \in SessionType
      /\ acc' # <<>> => acc' = <<Acc'>> /\ Acc' \in AccType
  <2>1. session' # <<>> => Opened
    BY DecideIs DEF Opened
  <2>2. acc' # <<>> => Opened
    BY DecideIs DEF Standing, Opened
  <2> QED BY <2>1, <2>2, DecideIs
<1>2. UNCHANGED <<sent, inbox, turn, phase, word, leaving, sessions,
                  idle, recallGiven, incidents, publishing, durable, faults, history>>
  BY DEF Decide
<1>3. ArrivalsType'
  BY <1>2 DEF ArrivalsType, TypeOK
<1>4. WorkType'
  BY <1>1, <1>2 DEF history, WorkType, TypeOK
<1>5. NumbersType'
  BY <1>1, <1>2 DEF durable, NumbersType, TypeOK
<1>6. HistoryType'
  BY <1>2 DEF history, HistoryType, TypeOK
<1> QED BY <1>3, <1>4, <1>5, <1>6, TypePartsNext

LEMMA PublishType ==
  ASSUME TypeOK, Standing, Publish
  PROVE  TypeOK'
<1>1. /\ phase = "working" /\ called' = called + 1
      /\ publishing' = {<<Session.id, Session.event, incidents>>}
      /\ UNCHANGED <<sent, inbox, core, pending, durable, faults, history>>
  BY DEF Publish
<1>2. publishing' \subseteq Nat \X Nat \X Nat
  <2>1. Opened
    BY <1>1 DEF Standing
  <2>2. Session.id \in Nat /\ Session.event \in Nat /\ incidents \in Nat
    BY <2>1, OpenTypes DEF TypeOK
  <2>3. <<Session.id, Session.event, incidents>> \in Nat \X Nat \X Nat
    BY <2>2
  <2> QED BY <1>1, <2>3
<1>3. ArrivalsType'
  BY <1>1 DEF core, ArrivalsType, TypeOK
<1>4. WorkType'
  BY <1>1, <1>2 DEF core, history, WorkType, TypeOK, Session, Acc
<1>5. NumbersType'
  BY <1>1 DEF core, durable, NumbersType, TypeOK
<1>6. HistoryType'
  BY <1>1 DEF history, HistoryType, TypeOK
<1> QED BY <1>3, <1>4, <1>5, <1>6, TypePartsNext

LEMMA PublishedType ==
  ASSUME TypeOK, Published
  PROVE  TypeOK'
<1>1. /\ filed' \subseteq filed \cup publishing /\ publishing' = {}
      /\ UNCHANGED <<sent, inbox, core, pending, called, durable, faults, log, told,
                     ended, given, excused>>
  BY DEF Published
<1>2. ArrivalsType'
  BY <1>1 DEF core, ArrivalsType, TypeOK
<1>3. WorkType'
  BY <1>1 DEF core, WorkType, TypeOK, Session, Acc
<1>4. NumbersType'
  BY <1>1 DEF core, durable, NumbersType, TypeOK
<1>5. HistoryType'
  BY <1>1 DEF HistoryType, TypeOK
<1> QED BY <1>2, <1>3, <1>4, <1>5, TypePartsNext

LEMMA LogType ==
  ASSUME TypeOK, NEW r \in RecordType, log' = Append(log, r)
  PROVE  log' \in Seq(RecordType)
<1>1. log \in Seq(RecordType)
  BY DEF TypeOK
<1> QED BY <1>1, AppendIs

LEMMA DisplaceType ==
  ASSUME TypeOK, Standing, Accounts, Displace
  PROVE  TypeOK'
<1>1. PICK n \in DOMAIN sent, written \in BOOLEAN :
        /\ Take(n) /\ sent[n] # "command" /\ Opened /\ ~Reuses(n)
        /\ turn' = n /\ word' = <<>>
        /\ BeginClose(written)
        /\ faults' = faults + (IF written THEN 0 ELSE 1)
        /\ UNCHANGED <<sent, sessions, idle, outside, durable, told,
                       ended, given, filed, excused>>
  BY DEF Displace
<1>2. n \in 1..Len(sent) /\ inbox' \in Seq(1..Len(sent))
  BY <1>1, TakeIs
<1>3. /\ phase' = "closing" /\ session' = <<>> /\ acc' = <<>> /\ recallGiven' = FALSE /\ incidents' = 0
  BY <1>1 DEF BeginClose
<1>4. log' \in Seq(RecordType)
  <2>1. CASE Acc.flushed
    BY <1>1, <2>1 DEF BeginClose, TypeOK
  <2>2. CASE ~Acc.flushed
    <3>1. log' = Append(log, Record(Session, Acc, written))
      BY <1>1, <2>2 DEF BeginClose, WriteRecord
    <3>2. Record(Session, Acc, written) \in RecordType
      BY <1>1, <2>2, RecordNow
    <3> QED BY <3>1, <3>2, LogType
  <2> QED BY <2>1, <2>2
<1>5. ArrivalsType'
  BY <1>1, <1>2, <1>3, Bounds DEF ArrivalsType, TypeOK
<1>6. WorkType'
  BY <1>1, <1>3 DEF outside, WorkType, TypeOK
<1>7. NumbersType'
  <2>1. faults' \in Nat
    BY <1>1 DEF TypeOK
  <2> QED BY <1>1, <1>3, <2>1 DEF outside, durable, NumbersType, TypeOK
<1>8. HistoryType'
  BY <1>1, <1>4 DEF HistoryType, TypeOK
<1> QED BY <1>5, <1>6, <1>7, <1>8, TypePartsNext

LEMMA EndingIs ==
  ASSUME NEW signal \in Signal, NEW raised \in BOOLEAN, NEW text \in BOOLEAN
  PROVE  LET e == ClassifyEnding(signal, raised, text)
         IN /\ e \in Ending /\ (e = "error" <=> signal = "fault" \/ raised)
            /\ (e = "no-reply" => ~text)
            /\ (text /\ e # "error" => e \in {"completed", "refused"})
BY DEF ClassifyEnding, Ending, Signal

LEMMA EndOwnerIs ==
  ASSUME TypeOK, Standing, NEW signal \in Signal, NEW raised \in BOOLEAN, NEW text \in BOOLEAN,
         EndOwnerTurn(signal, raised, text)
  PROVE  /\ phase = "working" /\ Opened /\ ~Acc.flushed /\ turn \in 1..Len(sent) /\ sent[turn] = "say"
         /\ acc' = <<Acc'>> /\ acc' # <<>> /\ Acc' \in AccType
         /\ Acc'.flushed = Acc.flushed /\ Acc'.approvals = Acc.approvals
         /\ Acc'.baseline = Acc.baseline /\ Acc'.hash = Acc.hash
         /\ raised => Acc'.outcome = "error"
         /\ ~raised => Acc'.outcome = Worse(Acc.outcome, ClassifyEnding(signal, raised, text))
<1> DEFINE e == ClassifyEnding(signal, raised, text)
           failed == [Acc EXCEPT !.outcome = "error"]
           counted == [Acc EXCEPT !.turns = @ + 1]
           went == [counted EXCEPT !.outcome = Worse(Acc.outcome, e)]
<1>1. /\ phase = "working" /\ sent[turn] = "say"
      /\ acc' = <<IF raised THEN [Acc EXCEPT !.outcome = "error"]
                  ELSE [Acc EXCEPT !.turns = @ + 1, !.outcome = Worse(@, e)]>>
  BY DEF EndOwnerTurn, Ends
<1>2. Opened /\ ~Acc.flushed /\ turn # 0
  BY <1>1 DEF Standing
<1>3. turn \in 1..Len(sent)
  BY <1>2, Bounds DEF TypeOK
<1>4. Acc \in AccType /\ Acc.outcome \in Ending /\ Acc.turns \in Nat
  BY <1>2, OpenTypes
<1>5. Worse(Acc.outcome, e) \in Ending
  <2>1. e \in Ending
    BY EndingIs
  <2> QED BY <2>1, <1>4 DEF Worse
<1> HIDE DEF e
<1>6. [Acc EXCEPT !.turns = @ + 1, !.outcome = Worse(@, e)] = went
  <2> DEFINE a == Acc
             w == Worse(a.outcome, e)
             t == a.turns + 1
  <2>1. a.turns + 1 = t /\ Worse(a.outcome, e) = w
    OBVIOUS
  <2> QED BY <2>1, Zenon
<1>7. /\ failed \in AccType /\ failed.flushed = Acc.flushed /\ failed.approvals = Acc.approvals
      /\ failed.baseline = Acc.baseline /\ failed.hash = Acc.hash /\ failed.outcome = "error"
  BY <1>4 DEF AccType, Ending
<1>8. /\ counted \in AccType /\ counted.flushed = Acc.flushed /\ counted.approvals = Acc.approvals
      /\ counted.baseline = Acc.baseline /\ counted.hash = Acc.hash
  BY <1>4 DEF AccType
<1> HIDE DEF counted
<1>9. /\ went \in AccType /\ went.flushed = Acc.flushed /\ went.approvals = Acc.approvals
      /\ went.baseline = Acc.baseline /\ went.hash = Acc.hash
      /\ went.outcome = Worse(Acc.outcome, e)
  BY <1>5, <1>8 DEF AccType
<1> HIDE DEF failed, went
<1>10. acc' = <<IF raised THEN failed ELSE went>>
  BY <1>1, <1>6 DEF failed
<1>11. Acc' = (IF raised THEN failed ELSE went) /\ acc' # <<>>
  BY <1>10 DEF Acc
<1> QED BY <1>1, <1>2, <1>3, <1>7, <1>9, <1>10, <1>11 DEF e

LEMMA EndedType ==
  ASSUME TypeOK, NEW e \in Ending, NEW b \in BOOLEAN, ended' = [ended EXCEPT ![turn] = <<e, b>>]
  PROVE  ended' \in [1..MaxTurns -> (Ending \cup {"none"}) \X BOOLEAN]
<1>1. <<e, b>> \in (Ending \cup {"none"}) \X BOOLEAN
  OBVIOUS
<1> QED BY <1>1 DEF TypeOK

LEMMA EndOwnerType ==
  ASSUME TypeOK, Standing, NEW signal \in Signal, NEW raised \in BOOLEAN, NEW text \in BOOLEAN,
         EndOwnerTurn(signal, raised, text)
  PROVE  TypeOK'
<1> DEFINE e == ClassifyEnding(signal, raised, text)
<1>1. /\ faults' = faults + (IF raised \/ signal = "fault" THEN 1 ELSE 0)
      /\ ended' = [ended EXCEPT ![turn] = <<e, text /\ e # "error">>]
      /\ idle' = (idle /\ raised)
      /\ UNCHANGED <<sent, inbox, session, leaving, sessions, recallGiven,
                     incidents, outside, durable, log, told, given, filed, excused>>
  BY DEF EndOwnerTurn, Ends
<1>2. IF e = "error" THEN Say("error", raised) /\ UNCHANGED turn
      ELSE IF text   THEN Say("reply", FALSE) /\ UNCHANGED turn
      ELSE Silent
  BY DEF EndOwnerTurn
<1>3. acc' = <<Acc'>> /\ acc' # <<>> /\ Acc' \in AccType
  BY EndOwnerIs
<1>4. e \in Ending
  BY EndingIs
<1> HIDE DEF e
<1>5. ended' \in [1..MaxTurns -> (Ending \cup {"none"}) \X BOOLEAN]
  <2>1. (text /\ e # "error") \in BOOLEAN
    OBVIOUS
  <2> QED BY <1>1, <1>4, <2>1, EndedType
<1>6. /\ turn' \in {0, turn} /\ phase' \in {"idle", "speaking"}
      /\ phase' = "speaking" => word' \in Word \X BOOLEAN
  <2>1. <<"error", raised>> \in Word \X BOOLEAN /\ <<"reply", FALSE>> \in Word \X BOOLEAN
    BY DEF Word
  <2> QED BY <1>2, <2>1 DEF Say, Silent
<1>7. ArrivalsType'
  BY <1>1, <1>6, Bounds DEF ArrivalsType, TypeOK
<1>8. WorkType'
  BY <1>1, <1>3 DEF outside, WorkType, TypeOK, Session
<1>9. NumbersType'
  <2>1. faults' \in Nat
    BY <1>1 DEF TypeOK
  <2>2. idle' \in BOOLEAN
    BY <1>1
  <2> QED BY <1>1, <2>1, <2>2 DEF outside, durable, NumbersType, TypeOK
<1>10. HistoryType'
  BY <1>1, <1>5 DEF HistoryType, TypeOK
<1> QED BY <1>7, <1>8, <1>9, <1>10, TypePartsNext

LEMMA EndEventIs ==
  ASSUME TypeOK, Standing, Accounts,
         NEW signal \in Signal, NEW raised \in BOOLEAN, NEW text \in BOOLEAN, NEW written \in BOOLEAN,
         EndEventTurn(signal, raised, text, written)
  PROVE  /\ phase = "working" /\ Opened /\ ~Acc.flushed /\ turn \in 1..Len(sent)
         /\ sent[turn] \in Event /\ Session.event = turn
         /\ acc' = <<Acc'>> /\ acc' # <<>> /\ Acc' \in AccType /\ Acc'.flushed
         /\ Acc'.baseline = Acc.baseline /\ Acc'.hash = Acc.hash
         /\ Acc'.outcome = ClassifyEnding(signal, raised, text)
         /\ \E r \in RecordType :
              /\ log' = Append(log, r)
              /\ r.session = Session.id /\ r.event = turn /\ r.written = written /\ r.hash = Acc.hash
              /\ Len(r.calls) = Len(Session.calls) - Acc.baseline
              /\ Cardinality(ExecutedIn(r)) = Cardinality(PermittedIn(r))
              /\ Len(r.approvals) = Cardinality(ReceiptedIn(r))
<1> DEFINE e == ClassifyEnding(signal, raised, text)
           rated == [Acc EXCEPT !.outcome = e]
           t == IF raised THEN Acc.turns ELSE Acc.turns + 1
           done == [rated EXCEPT !.turns = t]
           closed == [done EXCEPT !.flushed = TRUE]
           r == Record(Session, done, written)
           asIs == [Acc EXCEPT !.outcome = e, !.turns = IF raised THEN @ ELSE @ + 1]
<1>1. /\ phase = "working" /\ sent[turn] \in Event
      /\ log' = Append(log, Record(Session, asIs, written))
      /\ acc' = <<[asIs EXCEPT !.flushed = TRUE]>>
  BY DEF EndEventTurn
<1>2. /\ Opened /\ ~Acc.flushed /\ turn # 0 /\ Session.event = turn
  BY <1>1 DEF Standing
<1>3. turn \in 1..Len(sent)
  BY <1>2, Bounds DEF TypeOK
<1>4. Acc \in AccType /\ Acc.turns \in Nat /\ Session \in SessionType
  BY <1>2, OpenTypes
<1>5. e \in Ending /\ t \in Nat
  BY <1>4, EndingIs
<1> HIDE DEF e
<1>6. asIs = done
  BY Zenon
<1> HIDE DEF asIs
<1> HIDE DEF t
<1>7. /\ rated \in AccType /\ rated.outcome = e /\ rated.baseline = Acc.baseline
      /\ rated.hash = Acc.hash /\ rated.approvals = Acc.approvals
  BY <1>4, <1>5 DEF AccType
<1> HIDE DEF rated
<1>8. /\ done \in AccType /\ done.outcome = e /\ done.baseline = Acc.baseline
      /\ done.hash = Acc.hash /\ done.approvals = Acc.approvals
  BY <1>5, <1>7 DEF AccType
<1> HIDE DEF done
<1>9. /\ closed \in AccType /\ closed.outcome = e /\ closed.baseline = Acc.baseline
      /\ closed.hash = Acc.hash /\ closed.flushed
  BY <1>8 DEF AccType
<1> HIDE DEF closed
<1>10. acc' = <<closed>> /\ log' = Append(log, r)
  BY <1>1, <1>6 DEF closed
<1>11. Acc' = closed /\ acc' # <<>>
  BY <1>10 DEF Acc
<1>12. /\ r \in RecordType
       /\ r.session = Session.id /\ r.event = Session.event /\ r.written = written
       /\ r.hash = done.hash /\ Len(r.calls) = Len(Session.calls) - done.baseline
       /\ Cardinality(ExecutedIn(r)) = Cardinality(PermittedIn(r))
       /\ Len(r.approvals) = Cardinality(ReceiptedIn(r))
  <2>1. StatsSince(Session, done) = StatsSince(Session, Acc)
    BY <1>8 DEF StatsSince
  <2>2. Acc.baseline <= Len(Session.calls) /\ Balanced(StatsSince(Session, Acc), Acc.approvals)
    BY <1>2 DEF Accounts
  <2>3. done.baseline <= Len(Session.calls) /\ Balanced(StatsSince(Session, done), done.approvals)
    BY <1>8, <2>1, <2>2
  <2> QED BY <1>4, <1>8, <2>3, RecordIs
<1> HIDE DEF r
<1>13. \E rec \in RecordType :
              /\ log' = Append(log, rec)
              /\ rec.session = Session.id /\ rec.event = turn /\ rec.written = written
              /\ rec.hash = Acc.hash
              /\ Len(rec.calls) = Len(Session.calls) - Acc.baseline
              /\ Cardinality(ExecutedIn(rec)) = Cardinality(PermittedIn(rec))
              /\ Len(rec.approvals) = Cardinality(ReceiptedIn(rec))
  <2>1. r.event = turn /\ r.hash = Acc.hash /\ Len(r.calls) = Len(Session.calls) - Acc.baseline
    BY <1>2, <1>8, <1>12
  <2> QED BY <1>10, <1>12, <2>1, Zenon
<1>14. acc' = <<Acc'>> /\ Acc' \in AccType /\ Acc'.flushed
  BY <1>9, <1>10, <1>11
<1>15. Acc'.baseline = Acc.baseline /\ Acc'.hash = Acc.hash /\ Acc'.outcome = e
  BY <1>9, <1>11
<1> QED BY <1>1, <1>2, <1>3, <1>11, <1>13, <1>14, <1>15 DEF e

LEMMA EndEventType ==
  ASSUME TypeOK, Standing, Accounts,
         NEW signal \in Signal, NEW raised \in BOOLEAN, NEW text \in BOOLEAN, NEW written \in BOOLEAN,
         EndEventTurn(signal, raised, text, written)
  PROVE  TypeOK'
<1> DEFINE e == ClassifyEnding(signal, raised, text)
<1>1. /\ faults' = faults + (IF raised \/ signal = "fault" THEN 1 ELSE 0)
                         + (IF written THEN 0 ELSE 1)
      /\ ended' = [ended EXCEPT ![turn] = <<e, text /\ e # "error">>]
      /\ idle' = FALSE /\ blocked' = (blocked \/ ~written)
      /\ checkpoint' = IF written /\ ~blocked THEN turn ELSE checkpoint
      /\ UNCHANGED <<sent, inbox, session, leaving, sessions, recallGiven,
                     incidents, outside, memory, told, given, filed, excused>>
  BY DEF EndEventTurn
<1>2. IF Announced(turn, e)
        THEN Say(IF e = "completed" THEN "triage" ELSE "notice", FALSE) /\ UNCHANGED turn
        ELSE Silent
  BY DEF EndEventTurn
<1>3. /\ acc' = <<Acc'>> /\ acc' # <<>> /\ Acc' \in AccType
      /\ \E r \in RecordType : log' = Append(log, r)
  <2> HIDE DEF e
  <2> QED BY EndEventIs
<1>4. e \in Ending
  BY EndingIs
<1> HIDE DEF e
<1>5. ended' \in [1..MaxTurns -> (Ending \cup {"none"}) \X BOOLEAN]
  <2>1. (text /\ e # "error") \in BOOLEAN
    OBVIOUS
  <2> QED BY <1>1, <1>4, <2>1, EndedType
<1>6. /\ turn' \in {0, turn} /\ phase' \in {"idle", "speaking"}
      /\ phase' = "speaking" => word' \in Word \X BOOLEAN
  <2>1. <<"triage", FALSE>> \in Word \X BOOLEAN /\ <<"notice", FALSE>> \in Word \X BOOLEAN
    BY DEF Word
  <2>2. CASE Announced(turn, e)
    <3>1. turn' = turn /\ phase' = "speaking"
          /\ word' = <<IF e = "completed" THEN "triage" ELSE "notice", FALSE>>
      BY <1>2, <2>2 DEF Say
    <3>2. word' \in Word \X BOOLEAN
      BY <3>1, <2>1
    <3> QED BY <3>1, <3>2
  <2>3. CASE ~Announced(turn, e)
    BY <1>2, <2>3 DEF Silent
  <2> QED BY <2>2, <2>3
<1>7. log' \in Seq(RecordType)
  BY <1>3, LogType
<1>8. ArrivalsType'
  BY <1>1, <1>6, Bounds DEF ArrivalsType, TypeOK
<1>9. WorkType'
  BY <1>1, <1>3 DEF outside, WorkType, TypeOK, Session
<1>10. NumbersType'
  <2>1. faults' \in Nat /\ checkpoint' \in Nat
    BY <1>1, Bounds DEF TypeOK
  <2>2. idle' \in BOOLEAN /\ blocked' \in BOOLEAN
    BY <1>1
  <2> QED BY <1>1, <2>1, <2>2 DEF outside, NumbersType, TypeOK
<1>11. HistoryType'
  BY <1>1, <1>5, <1>7 DEF HistoryType, TypeOK
<1> QED BY <1>8, <1>9, <1>10, <1>11, TypePartsNext

LEMMA DownIs ==
  ASSUME TypeOK, Standing, Accounts, Kill \/ Stop
  PROVE  \E records \in Seq(RecordType) :
           /\ Down(records) /\ log' = records
           /\ \/ records = log
              \/ Opened /\ ~Acc.flushed /\ records = Append(log, Record(Session, Acc, TRUE))
<1>1. log \in Seq(RecordType)
  BY DEF TypeOK
<1>2. \A records : Down(records) => log' = records
  BY DEF Down
<1>3. CASE Down(log)
  BY <1>1, <1>2, <1>3
<1>4. CASE Unwritten /\ Down(Append(log, Record(Session, Acc, TRUE)))
  <2>1. Opened /\ ~Acc.flushed
    BY <1>4 DEF Unwritten
  <2>2. Record(Session, Acc, TRUE) \in RecordType
    BY <2>1, RecordNow
  <2>3. Append(log, Record(Session, Acc, TRUE)) \in Seq(RecordType)
    BY <1>1, <2>2, AppendIs
  <2> QED BY <1>2, <1>4, <2>1, <2>3
<1> QED BY <1>3, <1>4 DEF Kill, Stop

\* What a restart delivers again.
LEMMA Again ==
  ASSUME TypeOK, NEW records \in Seq(RecordType), Down(records)
  PROVE  \E again \in SUBSET (1..Len(sent)) :
           /\ inbox' \in Seq(1..Len(sent)) /\ ToSet(inbox') = again
           /\ \A i, j \in DOMAIN inbox' : i < j => inbox'[i] < inbox'[j]
           /\ \A n \in again : /\ sent[n] \in Event
                               /\ ~\E i \in DOMAIN records : records[i].event = n /\ records[i].written
           /\ excused' = excused \cup ((ToSet(inbox) \cup ({turn} \ {0})) \ again)
<1> DEFINE again == {n \in DOMAIN sent : sent[n] \in Event /\ n > checkpoint} \ Armed(records)
           c == Cardinality(again)
<1>1. /\ inbox' \in InOrder(again)
      /\ excused' = excused \cup ((ToSet(inbox) \cup ({turn} \ {0})) \ again)
  BY DEF Down
<1>2. again \subseteq 1..Len(sent)
  BY Bounds
<1>3. \A n \in again : /\ sent[n] \in Event
                       /\ ~\E i \in DOMAIN records : records[i].event = n /\ records[i].written
  BY DEF Armed
<1> HIDE DEF again
<1>4. c \in Nat
  BY <1>2, Bounds, Counted
<1> HIDE DEF c
<1>5. /\ inbox' \in [1..c -> again] /\ (\A t \in again : \E s \in 1..c : inbox'[s] = t)
      /\ \A i, j \in DOMAIN inbox' : i < j => inbox'[i] < inbox'[j]
  BY <1>1 DEF InOrder, Bijection, Injection, Surjection, c
<1>6. inbox' \in Seq(1..Len(sent)) /\ DOMAIN inbox' = 1..c
  <2>1. inbox' \in [1..c -> 1..Len(sent)]
    BY <1>2, <1>5
  <2>2. \A s \in [1..c -> 1..Len(sent)] : s \in Seq(1..Len(sent))
    BY <1>4
  <2> QED BY <1>5, <2>1, <2>2
<1>7. ToSet(inbox') = again
  BY <1>5, <1>6 DEF ToSet
<1> QED BY <1>1, <1>2, <1>3, <1>5, <1>6, <1>7

LEMMA DownType ==
  ASSUME TypeOK, NEW records \in Seq(RecordType), Down(records)
  PROVE  TypeOK'
<1>1. /\ turn' = 0 /\ phase' = "idle" /\ word' = <<>>
      /\ session' = <<>> /\ leaving' = <<>> /\ acc' = <<>>
      /\ idle' = FALSE /\ recallGiven' = FALSE /\ incidents' = 0
      /\ pending' = <<>> /\ publishing' = {} /\ called' = called /\ blocked' = FALSE
      /\ log' = records /\ faults' = faults + 1
      /\ UNCHANGED <<sent, sessions, memory, checkpoint, told, ended, given, filed>>
  BY DEF Down
<1>2. PICK again \in SUBSET (1..Len(sent)) :
        /\ inbox' \in Seq(1..Len(sent))
        /\ excused' = excused \cup ((ToSet(inbox) \cup ({turn} \ {0})) \ again)
  BY Again
<1>3. excused' \subseteq 1..Len(sent)
  <2>1. ToSet(inbox) \subseteq 1..Len(sent)
    BY DEF ToSet, TypeOK
  <2>2. turn # 0 => turn \in 1..Len(sent)
    BY Bounds DEF TypeOK
  <2>3. excused \subseteq 1..Len(sent)
    BY DEF TypeOK
  <2> QED BY <1>2, <2>1, <2>2, <2>3
<1>4. ArrivalsType'
  BY <1>1, <1>2, Bounds DEF ArrivalsType, TypeOK
<1>5. WorkType'
  BY <1>1 DEF WorkType, TypeOK
<1>6. NumbersType'
  <2>1. /\ sessions' \in Nat /\ memory' \in Nat /\ called' \in Nat /\ faults' \in Nat
        /\ checkpoint' \in Nat /\ incidents' \in Nat
    BY <1>1 DEF TypeOK
  <2> QED BY <1>1, <2>1 DEF NumbersType
<1>7. HistoryType'
  BY <1>1, <1>3 DEF HistoryType, TypeOK
<1> QED BY <1>4, <1>5, <1>6, <1>7, TypePartsNext

LEMMA TypeStep ==
  ASSUME TypeOK, Standing, Outstanding, Accounts, [Next]_vars
  PROVE  TypeOK'
<1>1. CASE World
  BY <1>1, SubmitType, GrowIdleType DEF World
<1>2. CASE Turns
  BY <1>2, CommandType, ContinueType, StartType, DisplaceType, ClosedType, SpokenType DEF Turns
<1>3. CASE Tools
  BY <1>3, AskType, DecideType, PublishType, PublishedType DEF Tools
<1>4. CASE Model
  BY <1>4, EndOwnerType, EndEventType DEF Model
<1>5. CASE Kill \/ Stop
  BY <1>5, DownIs, DownType
<1>6. CASE UNCHANGED vars
  BY <1>6 DEF vars, core, outside, durable, history, TypeOK, Session, Acc
<1> QED BY <1>1, <1>2, <1>3, <1>4, <1>5, <1>6 DEF Next

(***************************************************************************)
(* The queue.                                                              *)
(***************************************************************************)
LEMMA QueueTaken ==
  ASSUME TypeOK, Queue, NEW n \in DOMAIN sent, Take(n), turn' \in {0, n}
  PROVE  Queue'
<1>1. inbox # <<>> /\ n = Head(inbox) /\ inbox' = Tail(inbox) /\ inbox \in Seq(1..Len(sent))
  BY TakeIs DEF TypeOK
<1>2. /\ n = inbox[1] /\ 1 \in DOMAIN inbox /\ inbox' \in Seq(1..Len(sent))
      /\ \A i \in DOMAIN inbox' : i + 1 \in DOMAIN inbox /\ inbox'[i] = inbox[i + 1]
  BY <1>1, TailIs
<1>3. \A i \in DOMAIN inbox' : i \in Nat /\ 1 <= i /\ inbox'[i] \in Nat
  BY <1>2
<1>4. \A i, j \in DOMAIN inbox' : i < j => inbox'[i] < inbox'[j]
  BY <1>2, <1>3 DEF Queue
<1>5. \A i \in DOMAIN inbox' : n < inbox'[i] /\ 0 < inbox'[i]
  BY <1>2, <1>3 DEF Queue
<1> QED BY <1>4, <1>5 DEF Queue

LEMMA QueueRests ==
  ASSUME TypeOK, Queue, inbox' = inbox, turn' \in {0, turn}
  PROVE  Queue'
<1>1. \A i \in DOMAIN inbox : 0 < inbox[i]
  BY DEF TypeOK
<1> QED BY <1>1 DEF Queue

LEMMA OpenTurn ==
  ASSUME NEW n, Open(n)
  PROVE  turn' \in {0, n} /\ turn' = IF phase' = "idle" THEN 0 ELSE n
BY DEF Open

LEMMA EndsQueue ==
  ASSUME NEW signal, NEW raised, NEW text, NEW written,
         EndOwnerTurn(signal, raised, text) \/ EndEventTurn(signal, raised, text, written)
  PROVE  inbox' = inbox /\ turn' \in {0, turn}
<1>1. CASE EndOwnerTurn(signal, raised, text)
  BY <1>1 DEF EndOwnerTurn, Silent
<1>2. CASE EndEventTurn(signal, raised, text, written)
  BY <1>2 DEF EndEventTurn, Silent
<1> QED BY <1>1, <1>2

LEMMA QueueStep ==
  ASSUME TypeOK, Standing, Accounts, Queue, [Next]_vars
  PROVE  Queue'
<1>1. ASSUME NEW k \in Kind, Submit(k) PROVE Queue'
  <2>1. inbox' = Append(inbox, Len(sent) + 1) /\ turn' = turn
    BY <1>1 DEF Submit, core
  <2>2. inbox \in Seq(Nat) /\ Len(sent) + 1 \in Nat /\ turn <= Len(sent)
    BY DEF TypeOK
  <2>3. \A i \in DOMAIN inbox : inbox[i] <= Len(sent)
    BY DEF TypeOK
  <2> DEFINE m == Len(inbox) + 1
             q == inbox'
  <2>4. /\ DOMAIN q = DOMAIN inbox \cup {m} /\ q[m] = Len(sent) + 1
        /\ \A i \in DOMAIN inbox : q[i] = inbox[i]
    BY <2>1, <2>2, AppendIs
  <2>5. \A i \in DOMAIN inbox : i \in Nat /\ i < m /\ inbox[i] \in Nat
    BY <2>2
  <2>6. m \in Nat /\ Len(sent) \in Nat /\ turn \in Nat
    BY <2>2, Bounds
  <2> HIDE DEF m, q
  <2>7. \A i, j \in DOMAIN q : i < j => q[i] < q[j]
    BY <2>3, <2>4, <2>5, <2>6 DEF Queue
  <2>8. \A i \in DOMAIN q : turn < q[i]
    BY <2>2, <2>4, <2>6 DEF Queue
  <2> QED BY <2>1, <2>7, <2>8 DEF Queue, q
<1>2. CASE GrowIdle
  BY <1>2, QueueRests DEF GrowIdle
<1>3. CASE Command
  BY <1>3, QueueTaken DEF Command
<1>4. CASE Continue
  BY <1>4, QueueTaken DEF Continue
<1>5. CASE Start
  <2>1. PICK n \in DOMAIN sent : Take(n) /\ Open(n)
    BY <1>5 DEF Start
  <2> QED BY <2>1, OpenTurn, QueueTaken
<1>6. CASE Displace
  BY <1>6, QueueTaken DEF Displace
<1>7. CASE Closed
  <2>1. Open(turn) /\ inbox' = inbox
    BY <1>7 DEF Closed
  <2> QED BY <2>1, OpenTurn, QueueRests
<1>8. CASE Spoken
  BY <1>8, QueueRests DEF Spoken
<1>9. CASE Tools
  <2>1. inbox' = inbox /\ turn' = turn
    BY <1>9 DEF Tools, Ask, Decide, Publish, Published, core
  <2> QED BY <2>1, QueueRests
<1>10. CASE Model
  BY <1>10, EndsQueue, QueueRests DEF Model
<1>11. CASE Kill \/ Stop
  <2>1. PICK records \in Seq(RecordType) : Down(records)
    BY <1>11, DownIs
  <2>2. /\ inbox' \in Seq(1..Len(sent))
        /\ \A i, j \in DOMAIN inbox' : i < j => inbox'[i] < inbox'[j]
    BY <2>1, Again
  <2>3. turn' = 0
    BY <2>1 DEF Down
  <2>4. \A i \in DOMAIN inbox' : 0 < inbox'[i]
    BY <2>2
  <2> QED BY <2>2, <2>3, <2>4 DEF Queue
<1>12. CASE UNCHANGED vars
  BY <1>12, QueueRests DEF vars, core
<1> QED BY <1>1, <1>2, <1>3, <1>4, <1>5, <1>6, <1>7, <1>8, <1>9, <1>10, <1>11, <1>12
        DEF Next, World, Turns

(***************************************************************************)
(* What stands open.                                                       *)
(***************************************************************************)
LEMMA StandingRests ==
  ASSUME Standing, UNCHANGED <<sent, session, acc, incidents, sessions>>,
         \/ phase' = phase /\ turn' = turn
         \/ phase' \in {"idle", "speaking"} /\ (turn' = 0 <=> phase' = "idle")
  PROVE  Standing'
<1>1. session' = session /\ acc' = acc /\ incidents' = incidents /\ sessions' = sessions /\ sent' = sent
  OBVIOUS
<1> QED BY <1>1 DEF Standing, Session, Acc, Opened

LEMMA StandingSubmit ==
  ASSUME TypeOK, Standing, NEW k \in Kind, Submit(k)
  PROVE  Standing'
<1>1. /\ UNCHANGED <<session, acc, incidents, sessions, phase, turn>> /\ sent' = Append(sent, k)
  BY DEF Submit, core
<1>2. /\ 1..Len(sent) \subseteq 1..Len(sent') /\ \A n \in 1..Len(sent) : sent'[n] = sent[n]
  <2>1. sent \in Seq(Kind)
    BY DEF TypeOK
  <2> QED BY <1>1, <2>1, AppendIs, Bounds
<1>3. Session' = Session /\ Acc' = Acc /\ Opened' = Opened
  BY <1>1 DEF Session, Acc, Opened
<1>4. phase \in {"working", "closing"} => turn \in 1..Len(sent)
  BY Bounds DEF Standing, TypeOK
<1> QED BY <1>1, <1>2, <1>3, <1>4 DEF Standing

\* The session goes on: a tool answered, or the turn ended.
LEMMA StandingWorks ==
  ASSUME Standing, Opened, UNCHANGED <<sent, sessions, incidents>>, session' # <<>>, acc' # <<>>,
         Session'.id = Session.id, Session'.event = Session.event,
         Acc'.flushed => Session.event # 0,
         \/ phase' = phase /\ turn' = turn /\ Acc'.flushed = Acc.flushed /\ Acc'.outcome = Acc.outcome
         \/ phase' \in {"idle", "speaking"} /\ (turn' = 0 <=> phase' = "idle")
  PROVE  Standing'
<1>1. Opened'
  BY DEF Opened
<1>2. sent' = sent /\ sessions' = sessions /\ incidents' = incidents
  OBVIOUS
<1>3. phase' = "closing" => FALSE
  BY DEF Standing, Opened
<1> QED BY <1>1, <1>2, <1>3 DEF Standing

LEMMA StandingTools ==
  ASSUME TypeOK, Standing, Outstanding, Tools
  PROVE  Standing'
<1>1. CASE Ask
  <2>1. UNCHANGED <<sent, sessions, incidents, phase, turn>>
    BY <1>1 DEF Ask
  <2>2. /\ Opened /\ ~Acc.flushed /\ session' # <<>> /\ acc' # <<>>
        /\ Session'.id = Session.id /\ Session'.event = Session.event
        /\ Acc'.flushed = Acc.flushed /\ Acc'.outcome = Acc.outcome
    BY <1>1, AskIs
  <2> QED BY <2>1, <2>2, StandingWorks
<1>2. ASSUME NEW o \in {"approved", "denied"}, Decide(o) PROVE Standing'
  <2>1. UNCHANGED <<sent, sessions, incidents, phase, turn>>
    BY <1>2 DEF Decide
  <2>2. CASE Opened
    <3>1. /\ session' # <<>> /\ acc' # <<>>
          /\ Session'.id = Session.id /\ Session'.event = Session.event
          /\ Acc'.flushed = Acc.flushed /\ Acc'.outcome = Acc.outcome
      BY <1>2, <2>2, DecideIs DEF Standing, Opened
    <3>2. Acc'.flushed => Session.event # 0
      BY <2>2, <3>1 DEF Standing
    <3> QED BY <2>1, <2>2, <3>1, <3>2, StandingWorks
  <2>3. CASE ~Opened
    <3>1. session' = session /\ acc' = acc
      BY <1>2, <2>3, DecideIs DEF Standing, Opened
    <3> QED BY <2>1, <3>1, StandingRests
  <2> QED BY <2>2, <2>3
<1>3. CASE Publish \/ Published
  BY <1>3, StandingRests DEF Publish, Published, core
<1> QED BY <1>1, <1>2, <1>3 DEF Tools

LEMMA RecallIs ==
  ASSUME NEW a \in AccType, memory \in Nat, NEW already \in BOOLEAN, NEW readable \in BOOLEAN,
         TakeRecall(a, already, readable)
  PROVE  /\ acc' = <<Acc'>> /\ acc' # <<>> /\ recallGiven' = (already \/ readable)
         /\ Acc'.flushed = a.flushed /\ Acc'.baseline = a.baseline
         /\ Acc'.approvals = a.approvals /\ Acc'.outcome = a.outcome
         /\ \/ Acc'.hash = a.hash /\ given' = given
            \/ ~already /\ readable /\ Acc'.hash = memory
               /\ given' = given \cup {<<Session'.id, memory>>}
<1>1. CASE already \/ ~readable \/ memory = 0
  <2>1. acc' = <<a>> /\ given' = given /\ recallGiven' = (already \/ readable)
    BY <1>1 DEF TakeRecall
  <2> QED BY <2>1 DEF Acc
<1>2. CASE ~(already \/ ~readable \/ memory = 0)
  <2> DEFINE b == [a EXCEPT !.hash = memory]
  <2>1. /\ acc' = <<b>> /\ given' = given \cup {<<Session'.id, memory>>}
        /\ recallGiven' = (already \/ readable)
    BY <1>2 DEF TakeRecall, Session
  <2>2. /\ b.flushed = a.flushed /\ b.baseline = a.baseline /\ b.approvals = a.approvals
        /\ b.outcome = a.outcome /\ b.hash = memory
    BY DEF AccType
  <2> HIDE DEF b
  <2>3. Acc' = b /\ acc' = <<Acc'>> /\ acc' # <<>>
    BY <2>1 DEF Acc
  <2> QED BY <1>2, <2>1, <2>2, <2>3
<1> QED BY <1>1, <1>2

\* What an opening leaves: a confirmed reset, a fresh session, or an error.
WasReset(n) ==
  /\ sent[n] = "reset" /\ turn' = n /\ phase' = "speaking" /\ word' = <<"confirmation", FALSE>>
  /\ session' = <<>> /\ acc' = <<>> /\ recallGiven' = FALSE /\ incidents' = 0
  /\ UNCHANGED <<sessions, log, ended, given, filed, excused>>
WasOpened(n) ==
  /\ sent[n] # "reset" /\ turn' = n /\ phase' = "working"
  /\ sessions' = sessions + 1 /\ session' # <<>> /\ acc' # <<>>
  /\ Session'.id = sessions + 1 /\ Session'.calls = <<>>
  /\ Session'.event = (IF sent[n] \in Event THEN n ELSE 0) /\ incidents' = Session'.event
  /\ ~Acc'.flushed /\ Acc'.baseline = 0 /\ Acc'.approvals = <<>> /\ Acc'.outcome = "completed"
  /\ \/ Acc'.hash = 0 /\ given' = given
     \/ recallGiven' /\ Acc'.hash = memory /\ given' = given \cup {<<Session'.id, memory>>}
  /\ UNCHANGED <<log, ended, filed, excused>>
DidNotOpen(n) ==
  /\ sent[n] # "reset"
  /\ session' = <<>> /\ acc' = <<>> /\ recallGiven' = FALSE /\ incidents' = 0
  /\ IF sent[n] \in Event
       THEN phase' = "idle" /\ turn' = 0 /\ excused' = excused \cup {n}
       ELSE /\ phase' = "speaking" /\ word' = <<"error", FALSE>> /\ turn' = n
            /\ excused' = excused
  /\ UNCHANGED <<sessions, log, ended, given, filed>>

LEMMA OpenIs ==
  ASSUME TypeOK, NEW n \in 1..Len(sent), Open(n)
  PROVE  WasReset(n) \/ WasOpened(n) \/ DidNotOpen(n)
<1>1. turn' = (IF phase' = "idle" THEN 0 ELSE n)
  BY DEF Open
<1>2. CASE sent[n] = "reset" /\ Reset
  BY <1>1, <1>2 DEF Reset, Say, WasReset
<1>3. ASSUME sent[n] # "reset", NEW readable \in BOOLEAN, OpenSession(n, readable)
      PROVE  WasOpened(n)
  <2> DEFINE event == sent[n] \in Event
             a == NewAcc(IF event THEN "event" ELSE "owner", IF event THEN "event" ELSE "chat")
             e == IF event THEN n ELSE 0
             s == NewSession(sessions + 1, e)
  <2>1. /\ sessions' = sessions + 1 /\ session' = <<s>>
        /\ incidents' = e /\ TakeRecall(a, FALSE, readable)
        /\ phase' = "working" /\ UNCHANGED <<log, ended, filed, excused>>
    BY <1>3 DEF OpenSession
  <2>2. s.id = sessions + 1 /\ s.event = e /\ s.calls = <<>>
    BY DEF NewSession
  <2>3. /\ a \in AccType /\ a.flushed = FALSE /\ a.baseline = 0 /\ a.approvals = <<>>
        /\ a.outcome = "completed" /\ a.hash = 0
    BY DEF NewAcc, AccType, Ending
  <2> HIDE DEF a, s
  <2>4. Session' = s /\ session' # <<>>
    BY <2>1 DEF Session
  <2>5. FALSE \in BOOLEAN /\ memory \in Nat
    BY DEF TypeOK
  <2>6. /\ acc' # <<>> /\ recallGiven' = (FALSE \/ readable)
        /\ Acc'.flushed = a.flushed /\ Acc'.baseline = a.baseline
        /\ Acc'.approvals = a.approvals /\ Acc'.outcome = a.outcome
        /\ \/ Acc'.hash = a.hash /\ given' = given
           \/ ~FALSE /\ readable /\ Acc'.hash = memory
              /\ given' = given \cup {<<Session'.id, memory>>}
    BY <2>1, <2>3, <2>5, RecallIs
  <2>7. \/ Acc'.hash = 0 /\ given' = given
        \/ recallGiven' /\ Acc'.hash = memory /\ given' = given \cup {<<Session'.id, memory>>}
    BY <2>3, <2>6, Zenon
  <2>8. Session'.id = sessions + 1 /\ Session'.event = e /\ Session'.calls = <<>>
    BY <2>2, <2>4
  <2>9. turn' = n
    BY <1>1, <2>1
  <2> QED BY <1>3, <2>1, <2>3, <2>4, <2>6, <2>7, <2>8, <2>9, Zenon DEF WasOpened
<1>4. CASE sent[n] # "reset" /\ OpenFails(n)
  <2>1. CASE sent[n] \in Event
    BY <1>1, <1>4, <2>1 DEF OpenFails, DidNotOpen
  <2>2. CASE sent[n] \notin Event
    BY <1>1, <1>4, <2>2 DEF OpenFails, DidNotOpen, Say
  <2> QED BY <2>1, <2>2
<1> QED BY <1>2, <1>3, <1>4 DEF Open

LEMMA StandingOpens ==
  ASSUME TypeOK, NEW n \in 1..Len(sent), Open(n), sent' = sent, sent[n] # "command"
  PROVE  Standing'
<1>0. n # 0 /\ sent[n] \in Kind
  BY DEF TypeOK
<1>1. CASE WasReset(n)
  BY <1>0, <1>1 DEF WasReset, Standing, Opened
<1>2. CASE WasOpened(n)
  <2>1. sent[n] \in Event \cup {"say"}
    BY <1>0, <1>2 DEF WasOpened, Kind, Event
  <2>2. turn' = n /\ phase' = "working" /\ Opened' /\ ~Acc'.flushed /\ Acc'.outcome = "completed"
    BY <1>2 DEF WasOpened, Opened
  <2>3. /\ session' # <<>> /\ acc' # <<>> /\ Session'.id = sessions' /\ incidents' = Session'.event
        /\ Session'.event = (IF sent[n] \in Event THEN n ELSE 0)
    BY <1>2 DEF WasOpened
  <2> QED BY <1>0, <2>1, <2>2, <2>3 DEF Standing
<1>3. CASE DidNotOpen(n)
  BY <1>0, <1>3 DEF DidNotOpen, Standing, Opened
<1> QED BY <1>1, <1>2, <1>3, OpenIs

LEMMA ContinueIs ==
  ASSUME TypeOK, Standing, Continue
  PROVE  \E n \in 1..Len(sent) :
           /\ Take(n) /\ sent[n] = "say" /\ Opened /\ turn' = n /\ phase' = "working"
           /\ UNCHANGED <<session, sent, sessions, incidents, outside, log, told, ended,
                          filed, excused>>
           /\ acc' # <<>> /\ ~Acc'.flushed
           /\ IF Acc.flushed
                THEN Acc'.baseline = Len(Session.calls) /\ Acc'.approvals = <<>>
                ELSE /\ Acc'.baseline = Acc.baseline /\ Acc'.approvals = Acc.approvals
                     /\ Acc'.outcome = Acc.outcome
           /\ \/ Acc'.hash = Acc.hash /\ given' = given /\ (recallGiven => recallGiven')
              \/ ~recallGiven /\ recallGiven' /\ Acc'.hash = memory
                 /\ given' = given \cup {<<Session'.id, memory>>}
<1>1. PICK n \in DOMAIN sent, readable \in BOOLEAN :
        /\ Take(n) /\ Reuses(n)
        /\ turn' = n /\ phase' = "working" /\ word' = <<>>
        /\ UNCHANGED session
        /\ TakeRecall(IF Acc.flushed THEN Continued(Acc, Session) ELSE Acc, recallGiven, readable)
        /\ faults' = faults + (IF readable THEN 0 ELSE 1)
        /\ UNCHANGED <<sent, leaving, sessions, idle, incidents, outside,
                       durable, log, told, ended, filed, excused>>
  BY DEF Continue
<1> DEFINE a == IF Acc.flushed THEN Continued(Acc, Session) ELSE Acc
<1>2. Opened /\ sent[n] = "say"
  BY <1>1 DEF Reuses
<1>3. Acc \in AccType /\ Session \in SessionType /\ memory \in Nat /\ recallGiven \in BOOLEAN
  BY <1>2, OpenTypes DEF TypeOK
<1>4. /\ a \in AccType /\ a.hash = Acc.hash /\ ~a.flushed
      /\ IF Acc.flushed
           THEN a.baseline = Len(Session.calls) /\ a.approvals = <<>>
           ELSE /\ a.baseline = Acc.baseline /\ a.approvals = Acc.approvals
                /\ a.outcome = Acc.outcome
  <2>1. CASE Acc.flushed
    BY <1>3, <2>1, ContinuedType
  <2>2. CASE ~Acc.flushed
    BY <1>3, <2>2
  <2> QED BY <2>1, <2>2
<1> HIDE DEF a
<1>5. TakeRecall(a, recallGiven, readable)
  BY <1>1 DEF a
<1>6. /\ acc' # <<>> /\ recallGiven' = (recallGiven \/ readable)
      /\ Acc'.flushed = a.flushed /\ Acc'.baseline = a.baseline
      /\ Acc'.approvals = a.approvals /\ Acc'.outcome = a.outcome
      /\ \/ Acc'.hash = a.hash /\ given' = given
         \/ ~recallGiven /\ readable /\ Acc'.hash = memory
            /\ given' = given \cup {<<Session'.id, memory>>}
  BY <1>3, <1>4, <1>5, RecallIs
<1>7. \/ Acc'.hash = Acc.hash /\ given' = given /\ (recallGiven => recallGiven')
      \/ ~recallGiven /\ recallGiven' /\ Acc'.hash = memory
         /\ given' = given \cup {<<Session'.id, memory>>}
  BY <1>4, <1>6, Zenon
<1>8. IF Acc.flushed
        THEN Acc'.baseline = Len(Session.calls) /\ Acc'.approvals = <<>>
        ELSE /\ Acc'.baseline = Acc.baseline /\ Acc'.approvals = Acc.approvals
             /\ Acc'.outcome = Acc.outcome
  BY <1>4, <1>6, Zenon
<1>9. ~Acc'.flushed
  BY <1>4, <1>6, Zenon
<1>10. n \in 1..Len(sent)
  BY Bounds
<1> QED BY <1>1, <1>2, <1>6, <1>7, <1>8, <1>9, <1>10, Zenon

LEMMA StandingTurns ==
  ASSUME TypeOK, Standing, Turns
  PROVE  Standing'
<1>1. CASE Command
  <2>1. PICK n \in DOMAIN sent : turn' = n /\ Say("result", FALSE)
                                 /\ UNCHANGED <<sent, session, sessions, acc, incidents>>
    BY <1>1 DEF Command
  <2>2. turn' # 0 /\ phase' = "speaking"
    BY <2>1, Bounds DEF Say
  <2> QED BY <2>1, <2>2, StandingRests
<1>2. CASE Continue
  <2>1. PICK n \in 1..Len(sent) :
          /\ sent[n] = "say" /\ Opened /\ turn' = n /\ phase' = "working"
          /\ UNCHANGED <<session, sent, sessions, incidents>>
          /\ acc' # <<>> /\ ~Acc'.flushed
    BY <1>2, ContinueIs
  <2>2. Session' = Session /\ Opened' /\ session' # <<>> /\ n # 0 /\ "say" \notin Event
    BY <2>1 DEF Session, Opened, Event
  <2> QED BY <2>1, <2>2 DEF Standing
<1>3. CASE Start
  <2>1. PICK n \in DOMAIN sent : sent[n] # "command" /\ Open(n) /\ sent' = sent
    BY <1>3 DEF Start
  <2> QED BY <2>1, StandingOpens, Bounds
<1>4. CASE Displace
  <2>1. PICK n \in DOMAIN sent, written \in BOOLEAN :
          sent[n] # "command" /\ turn' = n /\ BeginClose(written) /\ sent' = sent
    BY <1>4 DEF Displace
  <2>2. phase' = "closing" /\ session' = <<>> /\ acc' = <<>> /\ incidents' = 0 /\ n # 0
    BY <2>1, Bounds DEF BeginClose
  <2> QED BY <2>1, <2>2 DEF Standing, Opened
<1>5. CASE Closed
  <2>1. phase = "closing" /\ Open(turn) /\ sent' = sent
    BY <1>5 DEF Closed
  <2>2. turn \in 1..Len(sent) /\ sent[turn] # "command"
    BY <2>1, Bounds DEF Standing, TypeOK
  <2> QED BY <2>1, <2>2, StandingOpens
<1>6. CASE Spoken
  BY <1>6, StandingRests DEF Spoken
<1> QED BY <1>1, <1>2, <1>3, <1>4, <1>5, <1>6 DEF Turns

LEMMA StandingEnds ==
  ASSUME TypeOK, Standing, Accounts, Model
  PROVE  Standing'
<1>1. ASSUME NEW signal \in Signal, NEW raised \in BOOLEAN, NEW text \in BOOLEAN,
             EndOwnerTurn(signal, raised, text)
      PROVE  Standing'
  <2>1. /\ UNCHANGED <<sent, session, sessions, incidents>>
        /\ (turn' = 0 /\ phase' = "idle") \/ (turn' = turn /\ phase' = "speaking")
    BY <1>1 DEF EndOwnerTurn, Say, Silent
  <2>2. Opened /\ acc' # <<>> /\ Acc'.flushed = Acc.flushed /\ ~Acc.flushed /\ turn # 0
    BY <1>1, EndOwnerIs DEF Standing
  <2>3. session' # <<>> /\ Session' = Session
    BY <2>1, <2>2 DEF Session, Opened
  <2> QED BY <2>1, <2>2, <2>3, StandingWorks
<1>2. ASSUME NEW signal \in Signal, NEW raised \in BOOLEAN, NEW text \in BOOLEAN,
             NEW written \in BOOLEAN, EndEventTurn(signal, raised, text, written)
      PROVE  Standing'
  <2>1. /\ UNCHANGED <<sent, session, sessions, incidents>>
        /\ (turn' = 0 /\ phase' = "idle") \/ (turn' = turn /\ phase' = "speaking")
    BY <1>2 DEF EndEventTurn, Say, Silent
  <2>2. Opened /\ acc' # <<>> /\ Session.event = turn /\ turn \in 1..Len(sent)
    BY <1>2, EndEventIs
  <2>3. session' # <<>> /\ Session' = Session /\ turn # 0
    BY <2>1, <2>2 DEF Session, Opened
  <2> QED BY <2>1, <2>2, <2>3, StandingWorks
<1> QED BY <1>1, <1>2 DEF Model

LEMMA StandingStep ==
  ASSUME TypeOK, Standing, Outstanding, Accounts, [Next]_vars
  PROVE  Standing'
<1>1. CASE GrowIdle \/ UNCHANGED vars
  BY <1>1, StandingRests DEF GrowIdle, vars, core
<1>2. CASE Kill \/ Stop
  <2>1. PICK records : Down(records)
    BY <1>2 DEF Kill, Stop
  <2> QED BY <2>1 DEF Down, Standing, Opened
<1> QED BY <1>1, <1>2, StandingSubmit, StandingTurns, StandingTools, StandingEnds DEF Next, World

(***************************************************************************)
(* What waits for the owner, and what is being filed.                      *)
(***************************************************************************)
LEMMA OutstandingRests ==
  ASSUME Outstanding, UNCHANGED <<session, pending>>,
         pending # <<>> => Opened \/ phase' = "closing",
         publishing' \subseteq publishing, filed' \subseteq filed \cup publishing
  PROVE  Outstanding'
<1>1. Session' = Session /\ Opened' = Opened /\ pending' = pending
  BY DEF Session, Opened
<1>2. FiledUnderItsIncident'
  BY DEF Outstanding, FiledUnderItsIncident
<1> QED BY <1>1, <1>2 DEF Outstanding

LEMMA OutstandingAsk ==
  ASSUME TypeOK, Standing, Outstanding, Ask
  PROVE  Outstanding'
<1>1. /\ Opened /\ session' # <<>>
      /\ Session'.id = Session.id /\ Session'.event = Session.event
      /\ \/ /\ pending' = pending
            /\ Session'.calls = Append(Session.calls, [permitted |-> FALSE, receipted |-> TRUE])
         \/ /\ Session.event = 0
            /\ pending' = <<Session.id, Len(Session.calls) + 1>>
            /\ Session'.calls = Append(Session.calls, [permitted |-> FALSE, receipted |-> FALSE])
  BY AskIs
<1>2. FiledUnderItsIncident'
  BY DEF Ask, history, Outstanding, FiledUnderItsIncident
<1>3. Session.calls \in Seq(Call)
  BY <1>1, OpenTypes
<1>4. Opened'
  BY <1>1 DEF Opened
<1>5. CASE /\ pending' = pending
           /\ Session'.calls = Append(Session.calls, [permitted |-> FALSE, receipted |-> TRUE])
  <2>1. [permitted |-> FALSE, receipted |-> TRUE] \in Call
    BY DEF Call
  <2>2. \A i \in DOMAIN Session.calls :
          i \in DOMAIN Session'.calls /\ Session'.calls[i] = Session.calls[i]
    BY <1>3, <1>5, <2>1, AppendIs
  <2> QED BY <1>1, <1>2, <1>4, <1>5, <2>2 DEF Outstanding
<1>6. CASE /\ Session.event = 0
           /\ pending' = <<Session.id, Len(Session.calls) + 1>>
           /\ Session'.calls = Append(Session.calls, [permitted |-> FALSE, receipted |-> FALSE])
  <2> DEFINE c == [permitted |-> FALSE, receipted |-> FALSE]
             k == Len(Session.calls) + 1
  <2>1. c \in Call /\ c.permitted = FALSE /\ c.receipted = FALSE
    BY DEF Call
  <2> HIDE DEF c
  <2>2. k \in DOMAIN Session'.calls /\ Session'.calls[k] = c
    BY <1>3, <1>6, <2>1, AppendIs DEF c
  <2> HIDE DEF k
  <2>3. pending'[1] = Session.id /\ pending'[2] = k
    BY <1>6 DEF k
  <2> QED BY <1>1, <1>2, <1>4, <1>6, <2>1, <2>2, <2>3 DEF Outstanding
<1> QED BY <1>1, <1>5, <1>6

LEMMA OutstandingOpens ==
  ASSUME TypeOK, Outstanding, NEW n \in 1..Len(sent), Open(n), pending' = <<>>, publishing' \subseteq publishing
  PROVE  Outstanding'
<1>1. filed' = filed
  BY OpenIs DEF WasReset, WasOpened, DidNotOpen
<1> QED BY <1>1 DEF Outstanding, FiledUnderItsIncident

LEMMA OutstandingStep ==
  ASSUME TypeOK, Standing, Outstanding, Accounts, [Next]_vars
  PROVE  Outstanding'
<1>0. pending # <<>> /\ phase # "closing" => Opened
  BY DEF Outstanding
<1>1. CASE World \/ UNCHANGED vars
  <2>1. UNCHANGED <<session, pending, publishing, filed, phase>>
    BY <1>1 DEF World, Submit, GrowIdle, vars, core, outside, history
  <2> QED BY <1>0, <2>1, OutstandingRests
<1>2. CASE Command
  <2>1. PICK n \in DOMAIN sent :
          phase = "idle" /\ UNCHANGED <<session, outside, history>>
    BY <1>2 DEF Command, Take
  <2> QED BY <1>0, <2>1, OutstandingRests DEF outside, history
<1>3. CASE Continue
  <2>1. Opened /\ UNCHANGED <<session, outside, filed>>
    BY <1>3 DEF Continue, Reuses
  <2> QED BY <2>1, OutstandingRests DEF outside
<1>4. CASE Start
  <2>1. PICK n \in DOMAIN sent :
          Take(n) /\ ~Opened /\ Open(n) /\ UNCHANGED outside
    BY <1>4 DEF Start
  <2>2. pending' = <<>> /\ publishing' = publishing
    BY <1>0, <2>1, TakeIs DEF outside
  <2> QED BY <2>1, <2>2, OutstandingOpens, Bounds
<1>5. CASE Displace
  <2>1. PICK written : BeginClose(written) /\ UNCHANGED <<outside, filed>>
    BY <1>5 DEF Displace
  <2>2. phase' = "closing" /\ session' = <<>>
    BY <2>1 DEF BeginClose
  <2>3. FiledUnderItsIncident'
    BY <2>1 DEF outside, Outstanding, FiledUnderItsIncident
  <2> QED BY <2>2, <2>3 DEF Outstanding, Opened
<1>6. CASE Closed
  <2>1. phase = "closing" /\ Open(turn) /\ pending' = <<>> /\ publishing' = {}
    BY <1>6 DEF Closed
  <2>2. turn \in 1..Len(sent)
    BY <2>1, Bounds DEF Standing, TypeOK
  <2> QED BY <2>1, <2>2, OutstandingOpens
<1>7. CASE Spoken
  BY <1>0, <1>7, OutstandingRests DEF Spoken, outside
<1>8. ASSUME NEW o \in {"approved", "denied"}, Decide(o) PROVE Outstanding'
  <2>1. pending' = <<>> /\ UNCHANGED <<publishing, filed>>
    BY <1>8 DEF Decide, history
  <2> QED BY <2>1 DEF Outstanding, FiledUnderItsIncident
<1>9. CASE Publish
  <2>1. /\ phase = "working" /\ publishing' = {<<Session.id, Session.event, incidents>>}
        /\ UNCHANGED <<session, pending, phase, filed>>
    BY <1>9 DEF Publish, core, history
  <2>2. Opened /\ incidents = Session.event
    BY <2>1 DEF Standing
  <2>3. FiledUnderItsIncident'
    BY <2>1, <2>2 DEF Outstanding, FiledUnderItsIncident
  <2>4. Session' = Session /\ Opened' = Opened /\ pending' = pending
    BY <2>1 DEF Session, Opened
  <2> QED BY <2>1, <2>2, <2>3, <2>4 DEF Outstanding
<1>10. CASE Published
  <2>1. /\ publishing' = {} /\ filed' \subseteq filed \cup publishing
        /\ UNCHANGED <<session, pending, phase>>
    BY <1>10 DEF Published, core
  <2> QED BY <1>0, <2>1, OutstandingRests
<1>11. CASE Model
  <2>1. phase = "working" /\ UNCHANGED <<session, outside, filed>>
    <3>1. ASSUME NEW signal, NEW raised, NEW text, EndOwnerTurn(signal, raised, text) 
          PROVE  phase = "working" /\ UNCHANGED <<session, outside, filed>>
      BY <3>1 DEF EndOwnerTurn, Ends
    <3>2. ASSUME NEW signal, NEW raised, NEW text, NEW written,
                 EndEventTurn(signal, raised, text, written) 
          PROVE  phase = "working" /\ UNCHANGED <<session, outside, filed>>
      BY <3>2 DEF EndEventTurn
    <3> QED BY <1>11, <3>1, <3>2 DEF Model
  <2> QED BY <1>0, <2>1, OutstandingRests DEF outside
<1>12. CASE Kill \/ Stop
  <2>1. PICK records : Down(records)
    BY <1>12 DEF Kill, Stop
  <2> QED BY <2>1 DEF Down, Outstanding, FiledUnderItsIncident
<1> QED BY <1>1, <1>2, <1>3, <1>4, <1>5, <1>6, <1>7, <1>8, <1>9, <1>10, <1>11, <1>12, OutstandingAsk
        DEF Next, Turns, Tools

(***************************************************************************)
(* The accounts.                                                           *)
(***************************************************************************)
Kept(records, created) ==
  \A i \in DOMAIN records :
    /\ records[i].session <= created
    /\ Cardinality(ExecutedIn(records[i])) = Cardinality(PermittedIn(records[i]))
    /\ Len(records[i].approvals) = Cardinality(ReceiptedIn(records[i]))

\* What the records hold of session s, whose account is a.
Accounted(s, a, records) ==
  /\ a.baseline <= Len(s.calls)
  /\ s.event = 0 => a.baseline = 0
  /\ ~a.flushed => Balanced(StatsSince(s, a), a.approvals)
  /\ IsFiniteSet(RecordedIn(records, s.id))
  /\ Cardinality(RecordedIn(records, s.id)) = (IF a.flushed THEN Len(s.calls) ELSE a.baseline)

LEMMA AccountsAre ==
  Accounts <=> Kept(log, sessions) /\ (Opened => Accounted(Session, Acc, log))
BY Zenon DEF Accounts, Kept, Accounted, RecordedOf, RecordedIn

LEMMA AccountsAreNext ==
  Accounts' <=> Kept(log', sessions') /\ (Opened' => Accounted(Session', Acc', log'))
<1>1. RecordedOf(Session.id)' = RecordedIn(log', Session'.id)
  BY DEF RecordedOf, RecordedIn
<1>2. StatsSince(Session, Acc)' = StatsSince(Session', Acc')
  BY DEF StatsSince
<1>3. Balanced(StatsSince(Session, Acc), Acc.approvals)' <=> Balanced(StatsSince(Session', Acc'), Acc'.approvals)
  BY <1>2, Zenon DEF Balanced
<1> QED BY <1>1, <1>3, Zenon DEF Accounts, Kept, Accounted, ExecutedIn, PermittedIn, ReceiptedIn

LEMMA KeptMore ==
  ASSUME NEW records \in Seq(RecordType), NEW r \in RecordType, NEW created,
         Kept(records, created), r.session <= created,
         Cardinality(ExecutedIn(r)) = Cardinality(PermittedIn(r)),
         Len(r.approvals) = Cardinality(ReceiptedIn(r))
  PROVE  Kept(Append(records, r), created)
<1> DEFINE d == Append(records, r)
<1>1. /\ DOMAIN d = DOMAIN records \cup {Len(records) + 1} /\ d[Len(records) + 1] = r
      /\ \A i \in DOMAIN records : d[i] = records[i]
  BY AppendIs
<1> HIDE DEF d
<1> SUFFICES ASSUME NEW i \in DOMAIN d
             PROVE  /\ d[i].session <= created
                    /\ Cardinality(ExecutedIn(d[i])) = Cardinality(PermittedIn(d[i]))
                    /\ Len(d[i].approvals) = Cardinality(ReceiptedIn(d[i]))
  BY DEF Kept, d
<1>2. CASE i \in DOMAIN records
  BY <1>1, <1>2 DEF Kept
<1>3. CASE i = Len(records) + 1
  BY <1>1, <1>3
<1> QED BY <1>1, <1>2, <1>3

LEMMA AccountsRest ==
  ASSUME Accounts, UNCHANGED <<log, sessions, session, acc>>
  PROVE  Accounts'
<1>1. Session' = Session /\ Acc' = Acc /\ Opened' = Opened /\ log' = log /\ sessions' = sessions
  BY DEF Session, Acc, Opened
<1>2. Kept(log, sessions) /\ (Opened => Accounted(Session, Acc, log))
  BY AccountsAre
<1> QED BY <1>1, <1>2, AccountsAreNext

LEMMA AccountsClosed ==
  ASSUME session' = <<>>, Kept(log', sessions')
  PROVE  Accounts'
BY AccountsAreNext DEF Opened

\* The record of the open session keeps them.
LEMMA KeptRecord ==
  ASSUME TypeOK, Standing, Accounts, Opened, ~Acc.flushed, NEW w \in BOOLEAN
  PROVE  Kept(Append(log, Record(Session, Acc, w)), sessions)
<1> DEFINE r == Record(Session, Acc, w)
<1>1. /\ r \in RecordType /\ r.session = Session.id
      /\ Cardinality(ExecutedIn(r)) = Cardinality(PermittedIn(r))
      /\ Len(r.approvals) = Cardinality(ReceiptedIn(r))
  BY RecordNow
<1> HIDE DEF r
<1>2. log \in Seq(RecordType) /\ sessions \in Nat
  BY DEF TypeOK
<1>3. r.session <= sessions
  BY <1>1, <1>2 DEF Standing
<1>4. Kept(log, sessions)
  BY AccountsAre
<1> QED BY <1>1, <1>2, <1>3, <1>4, KeptMore DEF r

LEMMA AccountsOpen ==
  ASSUME TypeOK, Accounts, NEW n \in 1..Len(sent), Open(n)
  PROVE  Accounts'
<1>1. Kept(log, sessions) /\ log \in Seq(RecordType) /\ sessions \in Nat
  BY AccountsAre DEF TypeOK
<1>2. CASE WasReset(n) \/ DidNotOpen(n)
  BY <1>1, <1>2, AccountsClosed DEF WasReset, DidNotOpen
<1>3. CASE WasOpened(n)
  <2>1. /\ sessions' = sessions + 1 /\ log' = log
        /\ Session'.id = sessions + 1 /\ Session'.calls = <<>>
        /\ ~Acc'.flushed /\ Acc'.baseline = 0 /\ Acc'.approvals = <<>>
    BY <1>3 DEF WasOpened
  <2>2. \A i \in DOMAIN log : log[i].session \in Nat /\ log[i].session <= sessions
    <3>1. \A i \in DOMAIN log : log[i] \in RecordType
      BY <1>1
    <3>2. \A i \in DOMAIN log : log[i].session \in Nat
      BY <3>1 DEF RecordType
    <3> QED BY <1>1, <3>2, Zenon DEF Kept
  <2>3. Kept(log', sessions')
    <3>1. \A i \in DOMAIN log : log[i].session <= sessions + 1
      BY <1>1, <2>2
    <3> QED BY <1>1, <2>1, <3>1 DEF Kept
  <2>4. RecordedIn(log', Session'.id) = {}
    <3>1. {j \in DOMAIN log : log[j].session = sessions + 1} = {}
      BY <1>1, <2>2
    <3> QED BY <2>1, <3>1 DEF RecordedIn
  <2>5. StatsSince(Session', Acc') = <<>>
    <3>1. <<>> \in Seq(Call)
      OBVIOUS
    <3>2. SubSeq(<<>>, 0 + 1, Len(<<>>)) = <<>>
      BY <3>1, WholeCut
    <3> QED BY <2>1, <3>2 DEF StatsSince
  <2>6. Balanced(StatsSince(Session', Acc'), Acc'.approvals)
    <3>1. {i \in DOMAIN <<>> : <<>>[i].receipted} = {} /\ {i \in DOMAIN <<>> : <<>>[i] = "approved"} = {}
          /\ {i \in DOMAIN <<>> : <<>>[i].permitted} = {} /\ Len(<<>>) = 0
      OBVIOUS
    <3>2. Cardinality({}) = 0
      BY FS_EmptySet
    <3> QED BY <2>1, <2>5, <3>1, <3>2, Zenon DEF Balanced
  <2>7. Accounted(Session', Acc', log')
    <3>1. Acc'.baseline <= Len(Session'.calls)
      BY <2>1
    <3>2. IsFiniteSet({}) /\ Cardinality({}) = 0
      BY FS_EmptySet
    <3> QED BY <2>1, <2>4, <2>6, <3>1, <3>2 DEF Accounted
  <2> QED BY <2>3, <2>7, AccountsAreNext
<1> QED BY <1>2, <1>3, OpenIs

\* One more call, with a receipt that is no leave or without one.
LEMMA BalanceOne ==
  ASSUME NEW calls \in Seq(Call), NEW receipts \in Seq(Receipt), NEW b \in Nat, b <= Len(calls),
         Balanced(SubSeq(calls, b + 1, Len(calls)), receipts),
         NEW more \in Seq(Call), NEW got \in Seq(Receipt),
         \/ /\ more = Append(calls, [permitted |-> FALSE, receipted |-> FALSE]) /\ got = receipts
         \/ /\ more = Append(calls, [permitted |-> FALSE, receipted |-> TRUE])
            /\ \E o \in Receipt \ {"approved"} : got = Append(receipts, o)
  PROVE  b <= Len(more) /\ Balanced(SubSeq(more, b + 1, Len(more)), got)
<1> DEFINE part == SubSeq(calls, b + 1, Len(calls))
           quiet == [permitted |-> FALSE, receipted |-> FALSE]
           loud == [permitted |-> FALSE, receipted |-> TRUE]
<1>1. part \in Seq(Call)
  BY CutIs
<1>2. /\ quiet \in Call /\ loud \in Call
      /\ ~quiet.permitted /\ ~quiet.receipted /\ ~loud.permitted /\ loud.receipted
  BY DEF Call
<1>3. /\ Len(receipts) = Cardinality(Answers(part))
      /\ Cardinality(Approvals(receipts)) = Cardinality(Permits(part))
      /\ Cardinality(Answers(part)) \in Nat /\ Cardinality(Permits(part)) \in Nat
  <2>1. Len(receipts) = Cardinality(Answers(part)) /\ Cardinality(Approvals(receipts)) = Cardinality(Permits(part))
    BY DEF Balanced, Answers, Approvals, Permits
  <2> HIDE DEF part
  <2>2. /\ Answers(part) \in SUBSET (1..Len(part)) /\ Permits(part) \in SUBSET (1..Len(part))
        /\ Len(part) \in Nat
    BY <1>1 DEF Answers, Permits
  <2> QED BY <2>1, <2>2, Counted
<1> HIDE DEF quiet, loud
<1>4. CASE more = Append(calls, quiet) /\ got = receipts
  <2>1. Len(more) = Len(calls) + 1 /\ SubSeq(more, b + 1, Len(more)) = Append(part, quiet)
    <3>1. quiet \in Call /\ more = Append(calls, quiet)
      BY <1>2, <1>4
    <3>2. Len(Append(calls, quiet)) = Len(calls) + 1
      BY <3>1, AppendIs
    <3>3. SubSeq(Append(calls, quiet), b + 1, Len(Append(calls, quiet)))
            = Append(SubSeq(calls, b + 1, Len(calls)), quiet)
      BY <3>1, CutAppend
    <3> QED BY <3>1, <3>2, <3>3, Zenon
  <2> HIDE DEF part
  <2>2. /\ Cardinality(Answers(Append(part, quiet))) = Cardinality(Answers(part)) + 0
        /\ Cardinality(Permits(Append(part, quiet))) = Cardinality(Permits(part)) + 0
    BY <1>1, <1>2, AnotherCall
  <2>3. /\ Cardinality(Answers(Append(part, quiet))) = Len(got)
        /\ Cardinality(Permits(Append(part, quiet))) = Cardinality(Approvals(got))
    BY <1>3, <1>4, <2>2
  <2>4. Balanced(Append(part, quiet), got)
    BY <2>3 DEF Balanced, Answers, Permits, Approvals
  <2>5. b <= Len(more)
    BY <2>1
  <2> QED BY <2>1, <2>4, <2>5
<1>5. CASE more = Append(calls, loud) /\ \E o \in Receipt \ {"approved"} : got = Append(receipts, o)
  <2>0. PICK o \in Receipt \ {"approved"} : got = Append(receipts, o)
    BY <1>5
  <2>1. Len(more) = Len(calls) + 1 /\ SubSeq(more, b + 1, Len(more)) = Append(part, loud)
    <3>1. loud \in Call /\ more = Append(calls, loud)
      BY <1>2, <1>5
    <3>2. Len(Append(calls, loud)) = Len(calls) + 1
      BY <3>1, AppendIs
    <3>3. SubSeq(Append(calls, loud), b + 1, Len(Append(calls, loud)))
            = Append(SubSeq(calls, b + 1, Len(calls)), loud)
      BY <3>1, CutAppend
    <3> QED BY <3>1, <3>2, <3>3, Zenon
  <2> HIDE DEF part
  <2>2. /\ Cardinality(Answers(Append(part, loud))) = Cardinality(Answers(part)) + 1
        /\ Cardinality(Permits(Append(part, loud))) = Cardinality(Permits(part)) + 0
    BY <1>1, <1>2, AnotherCall
  <2>3. /\ Len(got) = Len(receipts) + 1
        /\ Cardinality(Approvals(got)) = Cardinality(Approvals(receipts)) + 0
    BY <2>0, AppendIs, AnotherReceipt
  <2>4. /\ Cardinality(Answers(Append(part, loud))) = Len(got)
        /\ Cardinality(Permits(Append(part, loud))) = Cardinality(Approvals(got))
    BY <1>3, <2>2, <2>3
  <2>5. Balanced(Append(part, loud), got)
    BY <2>4 DEF Balanced, Answers, Permits, Approvals
  <2>6. b <= Len(more)
    BY <2>1
  <2> QED BY <2>1, <2>5, <2>6
<1> QED BY <1>4, <1>5 DEF quiet, loud

LEMMA AccountsAsk ==
  ASSUME TypeOK, Standing, Accounts, Ask
  PROVE  Accounts'
<1>1. /\ Opened /\ ~Acc.flushed /\ session' # <<>> /\ Session' \in SessionType
      /\ Session'.id = Session.id /\ Session'.event = Session.event
      /\ Acc' \in AccType /\ Acc'.flushed = Acc.flushed /\ Acc'.baseline = Acc.baseline
      /\ \/ /\ \E o \in Receipt \ {"approved"} : Acc'.approvals = Append(Acc.approvals, o)
            /\ Session'.calls = Append(Session.calls, [permitted |-> FALSE, receipted |-> TRUE])
         \/ /\ Acc'.approvals = Acc.approvals
            /\ Session'.calls = Append(Session.calls, [permitted |-> FALSE, receipted |-> FALSE])
  BY AskIs
<1>2. log' = log /\ sessions' = sessions
  BY DEF Ask, history
<1>3. /\ Session.calls \in Seq(Call) /\ Acc.approvals \in Seq(Receipt) /\ Acc.baseline \in Nat
  BY <1>1, OpenTypes
<1>4. Session'.calls \in Seq(Call) /\ Acc'.approvals \in Seq(Receipt)
  BY <1>1 DEF SessionType, AccType
<1>5. Kept(log, sessions) /\ Accounted(Session, Acc, log)
  BY <1>1, AccountsAre
<1>6. /\ Acc.baseline <= Len(Session.calls)
      /\ Balanced(SubSeq(Session.calls, Acc.baseline + 1, Len(Session.calls)), Acc.approvals)
  BY <1>1, <1>5 DEF Accounted, StatsSince
<1>7. /\ Acc.baseline <= Len(Session'.calls)
      /\ Balanced(SubSeq(Session'.calls, Acc.baseline + 1, Len(Session'.calls)), Acc'.approvals)
  BY <1>1, <1>3, <1>4, <1>6, BalanceOne
<1>8. Accounted(Session', Acc', log')
  <2>1. Balanced(StatsSince(Session', Acc'), Acc'.approvals)
    BY <1>1, <1>7 DEF StatsSince
  <2> QED BY <1>1, <1>2, <1>5, <1>7, <2>1 DEF Accounted
<1> QED BY <1>2, <1>5, <1>8, AccountsAreNext

LEMMA AccountsDecide ==
  ASSUME TypeOK, Standing, Outstanding, Accounts, NEW o \in {"approved", "denied"}, Decide(o)
  PROVE  Accounts'
<1>1. log' = log /\ sessions' = sessions
  BY DEF Decide, history
<1>2. CASE ~Opened
  <2>1. session' = session /\ acc' = acc
    BY <1>2, DecideIs DEF Standing, Opened
  <2> QED BY <1>1, <2>1, AccountsRest
<1>3. CASE Opened
  <2> DEFINE calls == Session.calls
             k == pending[2]
             p == (o = "approved")
             d == Answering(calls, k, p)
             got == Append(Acc.approvals, o)
  <2>1. /\ Session'.id = Session.id /\ Session'.event = Session.event /\ Session.event = 0
        /\ k \in DOMAIN calls /\ ~calls[k].permitted /\ ~calls[k].receipted
        /\ Session'.calls = d
        /\ Acc'.approvals = got /\ Acc'.flushed = Acc.flushed /\ Acc'.baseline = Acc.baseline
    BY <1>3, DecideIs DEF Answering
  <2>2. calls \in Seq(Call) /\ Acc.approvals \in Seq(Receipt) /\ o \in Receipt /\ p \in BOOLEAN
    BY <1>3, OpenTypes DEF Receipt
  <2>3. Kept(log, sessions) /\ Accounted(Session, Acc, log)
    BY <1>3, AccountsAre
  <2>4. ~Acc.flushed /\ Acc.baseline = 0
    BY <1>3, <2>1, <2>3 DEF Accounted, Standing
  <2>5. Balanced(calls, Acc.approvals)
    <3>1. StatsSince(Session, Acc) = calls
      BY <2>2, <2>4, WholeCut DEF StatsSince
    <3> QED BY <2>3, <2>4, <3>1 DEF Accounted
  <2>6. p => o = "approved"
    OBVIOUS
  <2>7. o = "approved" => p
    OBVIOUS
  <2> HIDE DEF calls, k, p
  <2>8. /\ d \in Seq(Call) /\ Len(d) = Len(calls)
        /\ Cardinality(Answers(d)) = Cardinality(Answers(calls)) + 1
        /\ Cardinality(Permits(d)) = Cardinality(Permits(calls)) + (IF p THEN 1 ELSE 0)
    <3>1. k \in DOMAIN calls /\ p \in BOOLEAN /\ ~calls[k].permitted /\ ~calls[k].receipted
      BY <2>1, <2>2
    <3>2. calls \in Seq(Call)
      BY <2>2
    <3> QED BY <3>1, <3>2, CallAnswered
  <2>9. /\ Len(got) = Len(Acc.approvals) + 1
        /\ Cardinality(Approvals(got)) = Cardinality(Approvals(Acc.approvals)) + (IF p THEN 1 ELSE 0)
    <3>1. Cardinality(Approvals(got)) = Cardinality(Approvals(Acc.approvals)) + (IF o = "approved" THEN 1 ELSE 0)
      BY <2>2, AnotherReceipt
    <3>2. Len(got) = Len(Acc.approvals) + 1
      BY <2>2, AppendIs
    <3> QED BY <2>6, <2>7, <3>1, <3>2
  <2>10. Len(Acc.approvals) = Cardinality(Answers(calls)) /\ Cardinality(Approvals(Acc.approvals)) = Cardinality(Permits(calls))
    BY <2>5 DEF Balanced, Answers, Approvals, Permits
  <2> HIDE DEF d, got
  <2>11. Balanced(d, got)
    BY <2>8, <2>9, <2>10 DEF Balanced, Answers, Approvals, Permits
  <2>12. StatsSince(Session', Acc') = d
    BY <2>1, <2>4, <2>8, WholeCut DEF StatsSince
  <2>13. Len(Session'.calls) = Len(Session.calls)
    BY <2>1, <2>8 DEF calls
  <2>14. Accounted(Session', Acc', log')
    BY <1>1, <2>1, <2>3, <2>4, <2>11, <2>12, <2>13 DEF Accounted
  <2> QED BY <1>1, <2>3, <2>14, AccountsAreNext
<1> QED BY <1>2, <1>3

LEMMA AccountsContinue ==
  ASSUME TypeOK, Standing, Accounts, Continue
  PROVE  Accounts'
<1>1. /\ Opened /\ UNCHANGED <<session, sessions, log>>
      /\ acc' # <<>> /\ ~Acc'.flushed
      /\ IF Acc.flushed
           THEN Acc'.baseline = Len(Session.calls) /\ Acc'.approvals = <<>>
           ELSE Acc'.baseline = Acc.baseline /\ Acc'.approvals = Acc.approvals
  BY ContinueIs
<1>2. Session' = Session /\ log' = log /\ sessions' = sessions
  BY <1>1 DEF Session
<1>3. Kept(log, sessions) /\ Accounted(Session, Acc, log)
  BY <1>1, AccountsAre
<1>4. Session.calls \in Seq(Call) /\ Len(Session.calls) \in Nat
  BY <1>1, OpenTypes
<1>5. Accounted(Session', Acc', log')
  <2>1. CASE Acc.flushed
    <3>1. Acc'.baseline = Len(Session.calls) /\ Acc'.approvals = <<>> /\ Session.event # 0
      BY <1>1, <2>1 DEF Standing
    <3>2. StatsSince(Session', Acc') = <<>>
      BY <1>2, <1>4, <3>1, WholeCut DEF StatsSince
    <3>3. Balanced(<<>>, <<>>)
      <4>1. {i \in DOMAIN <<>> : <<>>[i].receipted} = {} /\ {i \in DOMAIN <<>> : <<>>[i] = "approved"} = {}
            /\ {i \in DOMAIN <<>> : <<>>[i].permitted} = {} /\ Len(<<>>) = 0
        OBVIOUS
      <4>2. Cardinality({}) = 0
        BY FS_EmptySet
      <4> QED BY <4>1, <4>2, Zenon DEF Balanced
    <3>4. Acc'.baseline <= Len(Session'.calls)
      BY <1>2, <1>4, <3>1
    <3> QED BY <1>1, <1>2, <1>3, <2>1, <3>1, <3>2, <3>3, <3>4 DEF Accounted
  <2>2. CASE ~Acc.flushed
    <3>1. StatsSince(Session', Acc') = StatsSince(Session, Acc)
      BY <1>1, <1>2, <2>2 DEF StatsSince
    <3> QED BY <1>1, <1>2, <1>3, <2>2, <3>1 DEF Accounted
  <2> QED BY <2>1, <2>2
<1> QED BY <1>2, <1>3, <1>5, AccountsAreNext

LEMMA DownKeeps ==
  ASSUME TypeOK, Standing, Accounts, Kill \/ Stop
  PROVE  session' = <<>> /\ sessions' = sessions /\ given' = given /\ Kept(log', sessions)
<1>1. PICK records \in Seq(RecordType) :
        /\ Down(records) /\ log' = records
        /\ \/ records = log
           \/ Opened /\ ~Acc.flushed /\ records = Append(log, Record(Session, Acc, TRUE))
  BY DownIs
<1>2. session' = <<>> /\ sessions' = sessions /\ given' = given
  BY <1>1 DEF Down
<1>3. CASE records = log
  BY <1>1, <1>2, <1>3, AccountsAre
<1>4. CASE Opened /\ ~Acc.flushed /\ records = Append(log, Record(Session, Acc, TRUE))
  BY <1>1, <1>2, <1>4, KeptRecord
<1> QED BY <1>1, <1>3, <1>4

LEMMA AccountsEnds ==
  ASSUME TypeOK, Standing, Accounts, Model
  PROVE  Accounts'
<1>0. Kept(log, sessions) /\ sessions \in Nat /\ log \in Seq(RecordType)
  BY AccountsAre DEF TypeOK
<1>1. ASSUME NEW signal \in Signal, NEW raised \in BOOLEAN, NEW text \in BOOLEAN,
             EndOwnerTurn(signal, raised, text)
      PROVE  Accounts'
  <2>1. UNCHANGED <<session, sessions, log>>
    BY <1>1 DEF EndOwnerTurn
  <2>2. /\ Opened /\ Acc'.flushed = Acc.flushed /\ Acc'.approvals = Acc.approvals
        /\ Acc'.baseline = Acc.baseline
    BY <1>1, EndOwnerIs
  <2>3. Session' = Session /\ log' = log /\ sessions' = sessions
    BY <2>1 DEF Session
  <2>4. StatsSince(Session', Acc') = StatsSince(Session, Acc)
    BY <2>2, <2>3 DEF StatsSince
  <2>5. Accounted(Session', Acc', log')
    BY <2>2, <2>3, <2>4, AccountsAre DEF Accounted
  <2> QED BY <1>0, <2>3, <2>5, AccountsAreNext
<1>2. ASSUME NEW signal \in Signal, NEW raised \in BOOLEAN, NEW text \in BOOLEAN,
             NEW written \in BOOLEAN, EndEventTurn(signal, raised, text, written)
      PROVE  Accounts'
  <2>1. UNCHANGED <<session, sessions>>
    BY <1>2 DEF EndEventTurn
  <2>2. Opened /\ ~Acc.flushed /\ Acc'.flushed /\ Acc'.baseline = Acc.baseline
    BY <1>2, EndEventIs
  <2>3. PICK r \in RecordType :
              /\ log' = Append(log, r)
              /\ r.session = Session.id
              /\ Len(r.calls) = Len(Session.calls) - Acc.baseline
              /\ Cardinality(ExecutedIn(r)) = Cardinality(PermittedIn(r))
              /\ Len(r.approvals) = Cardinality(ReceiptedIn(r))
    BY <1>2, EndEventIs
  <2>4. Session' = Session /\ sessions' = sessions
    BY <2>1 DEF Session
  <2>5. Accounted(Session, Acc, log)
    BY <2>2, AccountsAre
  <2>6. /\ IsFiniteSet(RecordedIn(log, Session.id))
        /\ Cardinality(RecordedIn(log, Session.id)) = Acc.baseline
    BY <2>2, <2>5 DEF Accounted
  <2>7. /\ IsFiniteSet(RecordedIn(log', Session.id))
        /\ Cardinality(RecordedIn(log', Session.id)) = Acc.baseline + Len(r.calls)
    BY <1>0, <2>3, <2>6, RecordedMore
  <2>8. Acc.baseline + Len(r.calls) = Len(Session.calls)
    <3>1. Acc.baseline \in Nat /\ Len(Session.calls) \in Nat
      BY <2>2, OpenTypes
    <3> QED BY <2>3, <3>1
  <2>9. Accounted(Session', Acc', log')
    BY <2>2, <2>4, <2>5, <2>7, <2>8 DEF Accounted
  <2>10. Kept(log', sessions')
    <3>1. r.session <= sessions
      BY <1>0, <2>2, <2>3 DEF Standing
    <3> QED BY <1>0, <2>3, <2>4, <3>1, KeptMore
  <2> QED BY <2>9, <2>10, AccountsAreNext
<1> QED BY <1>1, <1>2 DEF Model

LEMMA AccountsTurns ==
  ASSUME TypeOK, Standing, Accounts, Turns
  PROVE  Accounts'
<1>0. Kept(log, sessions)
  BY AccountsAre
<1>1. CASE Command \/ Spoken
  BY <1>1, AccountsRest DEF Command, Spoken, history
<1>2. CASE Start
  <2>1. PICK n \in DOMAIN sent : Open(n)
    BY <1>2 DEF Start
  <2> QED BY <2>1, AccountsOpen, Bounds
<1>3. CASE Displace
  <2>1. PICK n \in DOMAIN sent, written \in BOOLEAN :
          Opened /\ BeginClose(written) /\ sessions' = sessions
    BY <1>3 DEF Displace
  <2>2. session' = <<>>
    BY <2>1 DEF BeginClose
  <2>3. CASE Acc.flushed
    BY <1>0, <2>1, <2>2, <2>3, AccountsClosed DEF BeginClose
  <2>4. CASE ~Acc.flushed
    <3>1. log' = Append(log, Record(Session, Acc, written))
      BY <2>1, <2>4 DEF BeginClose, WriteRecord
    <3> QED BY <2>1, <2>2, <2>4, <3>1, KeptRecord, AccountsClosed
  <2> QED BY <2>3, <2>4
<1>4. CASE Closed
  <2>1. phase = "closing" /\ Open(turn)
    BY <1>4 DEF Closed
  <2>2. turn \in 1..Len(sent)
    BY <2>1, Bounds DEF Standing, TypeOK
  <2> QED BY <2>1, <2>2, AccountsOpen
<1> QED BY <1>1, <1>2, <1>3, <1>4, AccountsContinue DEF Turns

LEMMA AccountsStep ==
  ASSUME TypeOK, Standing, Outstanding, Accounts, [Next]_vars
  PROVE  Accounts'
<1>1. CASE World \/ Publish \/ Published \/ UNCHANGED vars
  BY <1>1, AccountsRest DEF World, Submit, GrowIdle, Publish, Published, vars, core, history
<1>2. CASE Kill \/ Stop
  BY <1>2, DownKeeps, AccountsClosed
<1> QED BY <1>1, <1>2, AccountsTurns, AccountsAsk, AccountsDecide, AccountsEnds DEF Next, Tools

(***************************************************************************)
(* The recall blocks.                                                      *)
(***************************************************************************)
Dated(records, blocks) ==
  \A i \in DOMAIN records :
    records[i].hash # 0 => <<records[i].session, records[i].hash>> \in blocks
Fitted(id, hash, recalled, blocks) ==
  /\ hash = 0 \/ <<id, hash>> \in blocks
  /\ \A g \in blocks : g[1] = id => hash = g[2]
  /\ ~recalled => \A g \in blocks : g[1] # id

LEMMA BlocksAre ==
  Blocks <=> /\ \A g \in given : g[1] <= sessions
             /\ \A g, h \in given : g[1] = h[1] => g = h
             /\ Dated(log, given)
             /\ Opened => Fitted(Session.id, Acc.hash, recallGiven, given)
BY Zenon DEF Blocks, HashIsTheBlock, Dated, Fitted

LEMMA BlocksAreNext ==
  Blocks' <=> /\ \A g \in given' : g[1] <= sessions'
              /\ \A g, h \in given' : g[1] = h[1] => g = h
              /\ Dated(log', given')
              /\ Opened' => Fitted(Session'.id, Acc'.hash, recallGiven', given')
BY Zenon DEF Blocks, HashIsTheBlock, Dated, Fitted

LEMMA DatedMore ==
  ASSUME NEW records \in Seq(RecordType), NEW r \in RecordType, NEW blocks,
         Dated(records, blocks), r.hash = 0 \/ <<r.session, r.hash>> \in blocks
  PROVE  Dated(Append(records, r), blocks)
<1> DEFINE d == Append(records, r)
<1>1. /\ DOMAIN d = DOMAIN records \cup {Len(records) + 1} /\ d[Len(records) + 1] = r
      /\ \A i \in DOMAIN records : d[i] = records[i]
  BY AppendIs
<1> HIDE DEF d
<1> SUFFICES ASSUME NEW i \in DOMAIN d, d[i].hash # 0
             PROVE  <<d[i].session, d[i].hash>> \in blocks
  BY DEF Dated, d
<1>2. CASE i \in DOMAIN records
  BY <1>1, <1>2 DEF Dated
<1>3. CASE i = Len(records) + 1
  BY <1>1, <1>3
<1> QED BY <1>1, <1>2, <1>3

\* No block is given, and the open session goes on or ends.
LEMMA BlocksRest ==
  ASSUME Blocks, sessions' = sessions, given' = given, Dated(log', given),
         Opened' => /\ Opened /\ Session'.id = Session.id /\ Acc'.hash = Acc.hash
                    /\ recallGiven => recallGiven'
  PROVE  Blocks'
<1>1. /\ \A g \in given : g[1] <= sessions
      /\ \A g, h \in given : g[1] = h[1] => g = h
      /\ Opened => Fitted(Session.id, Acc.hash, recallGiven, given)
  BY BlocksAre
<1>2. ASSUME Opened' PROVE Fitted(Session'.id, Acc'.hash, recallGiven', given')
  BY <1>1, <1>2, Zenon DEF Fitted
<1> QED BY <1>1, <1>2, BlocksAreNext

\* A session that has none receives its block.
LEMMA BlocksTaken ==
  ASSUME TypeOK, Blocks, NEW id \in Nat, \A g \in given : g[1] # id,
         sessions' \in Nat, sessions <= sessions', id <= sessions',
         given' = given \cup {<<id, memory>>}, log' = log,
         Session'.id = id, Acc'.hash = memory, recallGiven'
  PROVE  Blocks'
<1>1. /\ \A g \in given : g[1] <= sessions
      /\ \A g, h \in given : g[1] = h[1] => g = h
      /\ Dated(log, given)
  BY BlocksAre
<1>2. given \subseteq Nat \X Nat /\ sessions \in Nat
  BY DEF TypeOK
<1> DEFINE b == <<id, memory>>
<1>3. b[1] = id /\ b[2] = memory
  OBVIOUS
<1>4. given' = given \cup {b} /\ <<id, memory>> = b
  OBVIOUS
<1> HIDE DEF b
<1>5. \A g \in given' : g[1] <= sessions'
  <2>1. \A g \in given : g[1] \in Nat
    BY <1>2
  <2>2. \A g \in given : g[1] <= sessions'
    BY <1>1, <1>2, <2>1
  <2> QED BY <1>3, <1>4, <2>2
<1>6. \A g, h \in given' : g[1] = h[1] => g = h
  BY <1>1, <1>3, <1>4, Zenon
<1>7. Dated(log', given')
  BY <1>1, <1>4 DEF Dated
<1>8. Fitted(Session'.id, Acc'.hash, recallGiven', given')
  <2>1. \A g \in given' : g[1] = id => memory = g[2]
    BY <1>3, <1>4, Zenon
  <2>2. <<Session'.id, Acc'.hash>> \in given'
    BY <1>4
  <2> QED BY <2>1, <2>2, Zenon DEF Fitted
<1> QED BY <1>5, <1>6, <1>7, <1>8, BlocksAreNext

LEMMA BlocksOpen ==
  ASSUME TypeOK, Blocks, NEW n \in 1..Len(sent), Open(n)
  PROVE  Blocks'
<1>0. /\ \A g \in given : g[1] <= sessions
      /\ \A g, h \in given : g[1] = h[1] => g = h
      /\ Dated(log, given)
  BY BlocksAre
<1>1. CASE WasReset(n) \/ DidNotOpen(n)
  BY <1>0, <1>1, BlocksRest DEF WasReset, DidNotOpen, Opened
<1>2. CASE WasOpened(n)
  <2>1. /\ sessions' = sessions + 1 /\ Session'.id = sessions + 1 /\ log' = log
        /\ \/ Acc'.hash = 0 /\ given' = given
           \/ recallGiven' /\ Acc'.hash = memory /\ given' = given \cup {<<Session'.id, memory>>}
    BY <1>2 DEF WasOpened
  <2>2. sessions \in Nat /\ \A g \in given : g[1] \in Nat
    BY DEF TypeOK
  <2>3. /\ \A g \in given : g[1] # sessions + 1 /\ g[1] <= sessions + 1
        /\ sessions' \in Nat /\ sessions <= sessions' /\ sessions + 1 \in Nat
        /\ sessions + 1 <= sessions'
    BY <1>0, <2>1, <2>2
  <2>4. CASE Acc'.hash = 0 /\ given' = given
    <3>1. Fitted(Session'.id, Acc'.hash, recallGiven', given')
      BY <2>1, <2>3, <2>4 DEF Fitted
    <3>2. \A g \in given' : g[1] <= sessions'
      BY <2>1, <2>3, <2>4
    <3> QED BY <1>0, <2>1, <2>4, <3>1, <3>2, BlocksAreNext
  <2>5. CASE recallGiven' /\ Acc'.hash = memory /\ given' = given \cup {<<Session'.id, memory>>}
    <3>1. given' = given \cup {<<sessions + 1, memory>>}
      BY <2>1, <2>5
    <3>2. \A g \in given : g[1] # sessions + 1
      BY <2>3
    <3> QED BY <2>1, <2>3, <2>5, <3>1, <3>2, BlocksTaken
  <2> QED BY <2>1, <2>4, <2>5
<1> QED BY <1>1, <1>2, OpenIs

LEMMA BlocksContinue ==
  ASSUME TypeOK, Standing, Blocks, Continue
  PROVE  Blocks'
<1>1. /\ Opened /\ UNCHANGED <<session, sessions, log>>
      /\ \/ Acc'.hash = Acc.hash /\ given' = given /\ (recallGiven => recallGiven')
         \/ ~recallGiven /\ recallGiven' /\ Acc'.hash = memory
            /\ given' = given \cup {<<Session'.id, memory>>}
  BY ContinueIs
<1>2. Session' = Session /\ log' = log /\ sessions' = sessions
  BY <1>1 DEF Session
<1>3. Dated(log, given) /\ Fitted(Session.id, Acc.hash, recallGiven, given)
  BY <1>1, BlocksAre
<1>4. Session.id \in Nat /\ Session.id = sessions /\ sessions \in Nat
  BY <1>1, OpenTypes DEF Standing
<1>5. CASE Acc'.hash = Acc.hash /\ given' = given /\ (recallGiven => recallGiven')
  <2>1. Session'.id = Session.id /\ Dated(log', given) /\ sessions' = sessions
    BY <1>2, <1>3
  <2> QED BY <1>1, <1>5, <2>1, BlocksRest
<1>6. CASE /\ ~recallGiven /\ recallGiven' /\ Acc'.hash = memory
           /\ given' = given \cup {<<Session'.id, memory>>}
  <2>1. \A g \in given : g[1] # Session.id
    BY <1>3, <1>6 DEF Fitted
  <2>2. /\ Session'.id = Session.id /\ given' = given \cup {<<Session.id, memory>>}
        /\ sessions' \in Nat /\ sessions <= sessions' /\ Session.id <= sessions'
    BY <1>2, <1>4, <1>6
  <2>3. log' = log /\ Acc'.hash = memory /\ recallGiven'
    BY <1>2, <1>6
  <2> QED BY <1>4, <2>1, <2>2, <2>3, BlocksTaken
<1> QED BY <1>1, <1>5, <1>6

\* A record of the open session carries its block.
LEMMA DatedRecord ==
  ASSUME TypeOK, Blocks, Opened, NEW r \in RecordType, r.session = Session.id, r.hash = Acc.hash
  PROVE  Dated(Append(log, r), given)
<1>1. Dated(log, given) /\ Fitted(Session.id, Acc.hash, recallGiven, given)
  BY BlocksAre
<1>2. log \in Seq(RecordType) /\ (r.hash = 0 \/ <<r.session, r.hash>> \in given)
  BY <1>1 DEF Fitted, TypeOK
<1> QED BY <1>1, <1>2, DatedMore

LEMMA BlocksStep ==
  ASSUME TypeOK, Standing, Outstanding, Accounts, Blocks, [Next]_vars
  PROVE  Blocks'
<1>0. Dated(log, given)
  BY BlocksAre
<1>1. CASE World \/ Publish \/ Published \/ Command \/ Spoken \/ UNCHANGED vars
  <2>1. UNCHANGED <<sessions, given, log, session, acc, recallGiven>>
    BY <1>1 DEF World, Submit, GrowIdle, Publish, Published, Command, Spoken, vars, core, history
  <2>2. Session' = Session /\ Acc' = Acc /\ Opened' = Opened
    BY <2>1 DEF Session, Acc, Opened
  <2> QED BY <1>0, <2>1, <2>2, BlocksRest
<1>2. CASE Start
  <2>1. PICK n \in DOMAIN sent : Open(n)
    BY <1>2 DEF Start
  <2> QED BY <2>1, BlocksOpen, Bounds
<1>3. CASE Closed
  <2>1. phase = "closing" /\ Open(turn)
    BY <1>3 DEF Closed
  <2>2. turn \in 1..Len(sent)
    BY <2>1, Bounds DEF Standing, TypeOK
  <2> QED BY <2>1, <2>2, BlocksOpen
<1>4. CASE Displace
  <2>1. PICK n \in DOMAIN sent, written \in BOOLEAN :
          Opened /\ BeginClose(written) /\ UNCHANGED <<sessions, given>>
    BY <1>4 DEF Displace
  <2>2. ~Opened'
    BY <2>1 DEF BeginClose, Opened
  <2>3. Dated(log', given)
    <3>1. CASE Acc.flushed
      BY <1>0, <2>1, <3>1 DEF BeginClose
    <3>2. CASE ~Acc.flushed
      <4> DEFINE r == Record(Session, Acc, written)
      <4>1. log' = Append(log, r)
        BY <2>1, <3>2 DEF BeginClose, WriteRecord
      <4>2. r \in RecordType /\ r.session = Session.id /\ r.hash = Acc.hash
        BY <2>1, <3>2, RecordNow
      <4> QED BY <2>1, <4>1, <4>2, DatedRecord
    <3> QED BY <3>1, <3>2
  <2> QED BY <2>1, <2>2, <2>3, BlocksRest
<1>5. CASE Ask
  <2>1. UNCHANGED <<sessions, given, log, recallGiven>>
    BY <1>5 DEF Ask, history
  <2>2. Opened /\ Session'.id = Session.id /\ Acc'.hash = Acc.hash
    BY <1>5, AskIs
  <2> QED BY <1>0, <2>1, <2>2, BlocksRest
<1>6. ASSUME NEW o \in {"approved", "denied"}, Decide(o) PROVE Blocks'
  <2>1. UNCHANGED <<sessions, given, log, recallGiven>>
    BY <1>6 DEF Decide, history
  <2>2. Opened' => Opened
    BY <1>6, DecideIs DEF Opened
  <2>3. Opened => Session'.id = Session.id /\ Acc'.hash = Acc.hash
    BY <1>6, DecideIs
  <2> QED BY <1>0, <2>1, <2>2, <2>3, BlocksRest
<1>7. ASSUME NEW signal \in Signal, NEW raised \in BOOLEAN, NEW text \in BOOLEAN,
             EndOwnerTurn(signal, raised, text)
      PROVE  Blocks'
  <2>1. UNCHANGED <<sessions, given, log, recallGiven, session>>
    BY <1>7 DEF EndOwnerTurn
  <2>2. Opened /\ Acc'.hash = Acc.hash
    BY <1>7, EndOwnerIs
  <2>3. Session'.id = Session.id
    BY <2>1 DEF Session
  <2> QED BY <1>0, <2>1, <2>2, <2>3, BlocksRest
<1>8. ASSUME NEW signal \in Signal, NEW raised \in BOOLEAN, NEW text \in BOOLEAN,
             NEW written \in BOOLEAN, EndEventTurn(signal, raised, text, written)
      PROVE  Blocks'
  <2>1. UNCHANGED <<sessions, given, recallGiven, session>>
    BY <1>8 DEF EndEventTurn
  <2>2. /\ Opened /\ Acc'.hash = Acc.hash
        /\ \E r \in RecordType : log' = Append(log, r) /\ r.session = Session.id /\ r.hash = Acc.hash
    BY <1>8, EndEventIs
  <2>3. Session'.id = Session.id /\ Dated(log', given)
    BY <2>1, <2>2, DatedRecord DEF Session
  <2> QED BY <2>1, <2>2, <2>3, BlocksRest
<1>9. CASE Kill \/ Stop
  <2>1. session' = <<>> /\ sessions' = sessions /\ given' = given
    BY <1>9, DownKeeps
  <2>2. Dated(log', given)
    <3>1. log' = log \/ (Opened /\ ~Acc.flushed /\ log' = Append(log, Record(Session, Acc, TRUE)))
      BY <1>9, DownIs
    <3>2. ASSUME Opened, ~Acc.flushed PROVE Dated(Append(log, Record(Session, Acc, TRUE)), given)
      <4> DEFINE r == Record(Session, Acc, TRUE)
      <4>1. r \in RecordType /\ r.session = Session.id /\ r.hash = Acc.hash
        BY <3>2, RecordNow
      <4> QED BY <3>2, <4>1, DatedRecord
    <3> QED BY <1>0, <3>1, <3>2
  <2> QED BY <2>1, <2>2, BlocksRest DEF Opened
<1> QED BY <1>1, <1>2, <1>3, <1>4, <1>5, <1>6, <1>7, <1>8, <1>9, BlocksContinue
        DEF Next, Turns, Tools, Model

(***************************************************************************)
(* What the owner hears.                                                   *)
(***************************************************************************)
\* The records name incidents that arrived.
Named(records, kinds) ==
  \A i \in DOMAIN records :
    records[i].event # 0 => records[i].event \in 1..Len(kinds) /\ kinds[records[i].event] \in Event

\* What is being sent is not the text of a turn that failed.
Worded(p, w, e) == p = "speaking" /\ w[1] \in {"reply", "triage"} => e[1] \in {"completed", "refused"}

LEMMA HearingIs ==
  Hearing <=> /\ Named(log, sent) /\ Worded(phase, word, ended[turn])
              /\ \A n \in 1..MaxTurns :
                   IF n \in 1..Len(sent) THEN Heard(n) ELSE told[n] = <<>> /\ ended[n][1] = "none"
BY Zenon DEF Hearing, Named, Worded

LEMMA HearingIsNext ==
  Hearing' <=> /\ Named(log', sent') /\ Worded(phase', word', ended'[turn'])
               /\ \A n \in 1..MaxTurns :
                    IF n \in 1..Len(sent') THEN Heard(n)' ELSE told'[n] = <<>> /\ ended'[n][1] = "none"
BY Zenon DEF Hearing, Named, Worded

\* The log grows by a record at most, of an owner's session or of an incident.
Grown ==
  \/ log' = log
  \/ \E r \in RecordType :
       /\ log' = Append(log, r)
       /\ r.event # 0 => r.event \in 1..Len(sent) /\ sent[r.event] \in Event

LEMMA NamedNow ==
  ASSUME TypeOK, Named(log, sent), Grown, sent' = sent
  PROVE  Named(log', sent')
<1>1. CASE log' = log
  BY <1>1
<1>2. ASSUME NEW r \in RecordType, log' = Append(log, r),
             r.event # 0 => r.event \in 1..Len(sent) /\ sent[r.event] \in Event
      PROVE  Named(log', sent')
  <2> DEFINE d == Append(log, r)
  <2>1. log \in Seq(RecordType)
    BY DEF TypeOK
  <2>2. /\ DOMAIN d = DOMAIN log \cup {Len(log) + 1} /\ d[Len(log) + 1] = r
        /\ \A i \in DOMAIN log : d[i] = log[i]
    BY <2>1, AppendIs
  <2> HIDE DEF d
  <2> SUFFICES ASSUME NEW i \in DOMAIN d, d[i].event # 0
               PROVE  d[i].event \in 1..Len(sent) /\ sent[d[i].event] \in Event
    BY <1>2 DEF Named, d
  <2>3. CASE i \in DOMAIN log
    BY <2>2, <2>3 DEF Named
  <2>4. CASE i = Len(log) + 1
    BY <1>2, <2>2, <2>4
  <2> QED BY <2>2, <2>3, <2>4
<1> QED BY <1>1, <1>2 DEF Grown

LEMMA LostGrows ==
  ASSUME TypeOK, Grown, NEW n
  PROVE  /\ Cardinality(Lost(n)) \in Nat /\ Cardinality(Lost(n)') \in Nat
         /\ Cardinality(Lost(n)) <= Cardinality(Lost(n)')
         /\ Known(n) => Known(n)'
<1>1. Lost(n) = LostIn(log, n) /\ Lost(n)' = LostIn(log', n)
  BY DEF Lost, LostIn
<1>2. log \in Seq(RecordType)
  BY DEF TypeOK
<1>3. CASE log' = log
  BY <1>1, <1>2, <1>3, LostCounted DEF Known
<1>4. ASSUME NEW r \in RecordType, log' = Append(log, r)
      PROVE  /\ Cardinality(LostIn(log, n)) \in Nat /\ Cardinality(LostIn(log', n)) \in Nat
             /\ Cardinality(LostIn(log, n)) <= Cardinality(LostIn(log', n))
             /\ Known(n) => Known(n)'
  <2>1. /\ Cardinality(LostIn(log, n)) \in Nat
        /\ Cardinality(LostIn(log', n))
             = Cardinality(LostIn(log, n)) + (IF r.event = n /\ ~r.written THEN 1 ELSE 0)
    BY <1>2, <1>4, LostMore
  <2> DEFINE a == Cardinality(LostIn(log, n))
             b == Cardinality(LostIn(log', n))
             c == IF r.event = n /\ ~r.written THEN 1 ELSE 0
  <2>2. c \in {0, 1}
    OBVIOUS
  <2> HIDE DEF a, b, c
  <2>3. a \in Nat /\ b = a + c
    BY <2>1 DEF a, b, c
  <2>4. b \in Nat /\ a <= b
    BY <2>2, <2>3
  <2>5. \A i \in DOMAIN log : i \in DOMAIN log' /\ log'[i] = log[i]
    BY <1>2, <1>4, AppendIs
  <2>6. Known(n) => Known(n)'
    BY <2>5, Zenon DEF Known
  <2> QED BY <2>3, <2>4, <2>6 DEF a, b
<1> QED BY <1>1, <1>3, <1>4 DEF Grown

LEMMA HeardTypes ==
  ASSUME TypeOK, NEW n \in 1..Len(sent)
  PROVE  /\ n \in 1..MaxTurns /\ n # 0
         /\ told[n] \in Seq(Word \X (Ending \cup {"none"})) /\ Len(told[n]) \in Nat
         /\ (Len(told[n]) = 0 <=> told[n] = <<>>)
<1>1. n \in 1..MaxTurns /\ n # 0
  BY Bounds
<1>2. told[n] \in Seq(Word \X (Ending \cup {"none"}))
  BY <1>1 DEF TypeOK
<1> QED BY <1>1, <1>2

\* A turn that is not spoken of now, and is to come only as it was.
LEMMA HeardRests ==
  ASSUME TypeOK, Grown, NEW n \in 1..Len(sent), Heard(n),
         sent'[n] = sent[n], ended'[n] = ended[n], told'[n] = told[n],
         Speaking(n)' => Speaking(n),
         ToCome(n)' => \/ ToCome(n)
                       \/ Len(told[n]) <= Cardinality(Lost(n)) /\ sent[n] # "say",
         n \in ToSet(inbox) \cup {turn} \cup excused
           => n \in ToSet(inbox') \cup {turn'} \cup excused'
  PROVE  Heard(n)'
<1>1. Owed(n)' <=> Owed(n)
  BY DEF Owed
<1>2. /\ Cardinality(Lost(n)) \in Nat /\ Cardinality(Lost(n)') \in Nat
      /\ Cardinality(Lost(n)) <= Cardinality(Lost(n)') /\ (Known(n) => Known(n)')
  BY LostGrows
<1>3. Done(n) => Done(n)'
  BY <1>2, Zenon DEF Done
<1>4. Len(told[n]) \in Nat
  BY HeardTypes
<1> DEFINE s == IF Speaking(n) THEN 1 ELSE 0
           t == IF Speaking(n)' THEN 1 ELSE 0
           d == IF Done(n) THEN 1 ELSE 0
           e == IF Done(n)' THEN 1 ELSE 0
           l == Cardinality(Lost(n))
           m == Cardinality(Lost(n)')
           c == Len(told[n])
<1>5. s \in {0, 1} /\ t \in {0, 1} /\ d \in {0, 1} /\ e \in {0, 1} /\ t <= s /\ d <= e
  BY <1>3
<1>6. c + s <= l + d
  BY DEF Heard
<1>7. ToCome(n) => c <= l
  BY DEF Heard
<1>8. c \in Nat /\ l \in Nat /\ m \in Nat /\ l <= m
  BY <1>2, <1>4
<1> HIDE DEF s, t, d, e, l, m, c
<1>9. c + t <= m + e
  BY <1>5, <1>6, <1>8
<1>10. ToCome(n)' => c <= m
  <2>1. ToCome(n)' => c <= l
    BY <1>7 DEF c, l
  <2> QED BY <2>1, <1>8
<1>11. Len(told'[n]) + (IF Speaking(n)' THEN 1 ELSE 0) <= Cardinality(Lost(n)') + (IF Done(n)' THEN 1 ELSE 0)
  BY <1>9 DEF c, t, m, e
<1>12. ToCome(n)' => Len(told'[n]) <= Cardinality(Lost(n)') /\ (sent'[n] = "say" => ended'[n][1] = "none")
  <2>1. ToCome(n) => (sent[n] = "say" => ended[n][1] = "none")
    BY DEF Heard
  <2>2. ToCome(n)' => Len(told'[n]) <= Cardinality(Lost(n)')
    BY <1>10 DEF c, m
  <2> QED BY <2>1, <2>2
<1>13. ~Owed(n)' => told'[n] = <<>> /\ ~Speaking(n)'
  BY <1>1 DEF Heard
<1>14. Owed(n)' => n \in ToSet(inbox') \cup {turn'} \cup excused' \/ told'[n] # <<>>
  BY <1>1 DEF Heard
<1>15. \A i \in DOMAIN told'[n] :
         told'[n][i][1] \in {"reply", "triage"} => told'[n][i][2] \in {"completed", "refused"}
  BY DEF Heard
<1> QED BY <1>11, <1>12, <1>13, <1>14, <1>15, Zenon DEF Heard

\* A turn at work begins to be spoken of.
LEMMA HeardSpeaks ==
  ASSUME TypeOK, Grown, NEW n \in 1..Len(sent), Heard(n), ToCome(n),
         sent'[n] = sent[n], told'[n] = told[n],
         turn' = n, phase' = "speaking", n \notin ToSet(inbox'), Owed(n)',
         sent[n] \in Event => \/ Known(n)'
                              \/ Cardinality(Lost(n)') = Cardinality(Lost(n)) + 1
  PROVE  Heard(n)'
<1>1. /\ Cardinality(Lost(n)) \in Nat /\ Cardinality(Lost(n)') \in Nat
      /\ Cardinality(Lost(n)) <= Cardinality(Lost(n)')
  BY LostGrows
<1>2. Len(told[n]) \in Nat
  BY HeardTypes
<1> DEFINE e == IF Done(n)' THEN 1 ELSE 0
           l == Cardinality(Lost(n))
           m == Cardinality(Lost(n)')
           c == Len(told[n])
<1>3. e \in {0, 1} /\ (e = 1 \/ m = l + 1)
  BY DEF Done
<1>4. c <= l
  BY DEF Heard
<1> HIDE DEF e
<1>5. c + 1 <= m + e
  <2> HIDE DEF l, m, c
  <2>1. l \in Nat /\ m \in Nat /\ c \in Nat /\ l <= m
    BY <1>1, <1>2 DEF l, m, c
  <2> QED BY <1>3, <1>4, <2>1
<1>6. Speaking(n)' /\ ~ToCome(n)'
  BY DEF Speaking, ToCome
<1>7. Len(told'[n]) + (IF Speaking(n)' THEN 1 ELSE 0) <= Cardinality(Lost(n)') + (IF Done(n)' THEN 1 ELSE 0)
  BY <1>5, <1>6 DEF e
<1>8. \A i \in DOMAIN told'[n] :
         told'[n][i][1] \in {"reply", "triage"} => told'[n][i][2] \in {"completed", "refused"}
  BY DEF Heard
<1>9. n \in ToSet(inbox') \cup {turn'} \cup excused'
  OBVIOUS
<1> QED BY <1>6, <1>7, <1>8, <1>9, Zenon DEF Heard

\* A turn ends that nothing is owed for.
LEMMA HeardEnds ==
  ASSUME TypeOK, Grown, Named(log, sent), NEW n \in 1..Len(sent), Heard(n), ToCome(n),
         sent'[n] = sent[n], told'[n] = told[n],
         turn' # n, n \notin ToSet(inbox'), ~Owed(n)', sent[n] = "say" \/ sent[n] = "capped"
  PROVE  Heard(n)'
<1>1. told[n] = <<>>
  <2>1. CASE sent[n] = "capped"
    BY <2>1 DEF Heard, Owed
  <2>2. CASE sent[n] = "say"
    <3>1. \A i \in DOMAIN log : log[i].event # n
      BY <2>2, HeardTypes DEF Named, Event
    <3>2. log \in Seq(RecordType) /\ Lost(n) = LostIn(log, n)
      BY DEF TypeOK, Lost, LostIn
    <3>3. Cardinality(Lost(n)) = 0
      BY <3>1, <3>2, LostCounted
    <3>4. Len(told[n]) <= Cardinality(Lost(n))
      BY DEF Heard
    <3> QED BY <3>3, <3>4, HeardTypes
  <2> QED BY <2>1, <2>2
<1>2. Cardinality(Lost(n)') \in Nat
  BY LostGrows
<1>3. ~Speaking(n)' /\ ~ToCome(n)'
  BY DEF Speaking, ToCome
<1> DEFINE e == IF Done(n)' THEN 1 ELSE 0
           m == Cardinality(Lost(n)')
<1>4. e \in {0, 1}
  OBVIOUS
<1> HIDE DEF e, m
<1>5. 0 + 0 <= m + e
  BY <1>2, <1>4 DEF m
<1>6. Len(told'[n]) + (IF Speaking(n)' THEN 1 ELSE 0) <= Cardinality(Lost(n)') + (IF Done(n)' THEN 1 ELSE 0)
  <2>1. Len(told'[n]) = 0 /\ (IF Speaking(n)' THEN 1 ELSE 0) = 0
    BY <1>1, <1>3
  <2> QED BY <2>1, <1>5 DEF e, m
<1>7. DOMAIN told'[n] = {} /\ told'[n] = <<>>
  BY <1>1
<1> QED BY <1>3, <1>6, <1>7, Zenon DEF Heard

(***************************************************************************)
(* The same for every turn.                                                *)
(***************************************************************************)
LEMMA HearingRests ==
  ASSUME TypeOK, Hearing, Grown, UNCHANGED <<sent, told, ended>>,
         phase' = "speaking" => UNCHANGED <<phase, turn, word>>,
         \A n \in 1..Len(sent) :
           /\ ToCome(n)' => \/ ToCome(n)
                            \/ Len(told[n]) <= Cardinality(Lost(n)) /\ sent[n] # "say"
           /\ n \in ToSet(inbox) \cup {turn} \cup excused
                => n \in ToSet(inbox') \cup {turn'} \cup excused'
  PROVE  Hearing'
<1>1. Named(log', sent')
  BY NamedNow, HearingIs
<1>2. Worded(phase', word', ended'[turn'])
  BY HearingIs DEF Worded
<1>3. ASSUME NEW n \in 1..Len(sent) PROVE Heard(n)'
  <2>1. Heard(n) /\ n \in 1..MaxTurns
    BY HearingIs, HeardTypes
  <2>2. Speaking(n)' => Speaking(n)
    BY DEF Speaking
  <2>3. /\ ToCome(n)' => \/ ToCome(n)
                         \/ Len(told[n]) <= Cardinality(Lost(n)) /\ sent[n] # "say"
        /\ n \in ToSet(inbox) \cup {turn} \cup excused
             => n \in ToSet(inbox') \cup {turn'} \cup excused'
    BY Zenon
  <2> QED BY <2>1, <2>2, <2>3, HeardRests
<1>4. sent' = sent /\ told' = told /\ ended' = ended
  OBVIOUS
<1> QED BY <1>1, <1>2, <1>3, <1>4, HearingIs, HearingIsNext

\* All but the one at work.
LEMMA HearingOthers ==
  ASSUME TypeOK, Hearing, Grown, NEW n \in 1..Len(sent), sent' = sent,
         turn \in {0, n}, turn' \in {0, n},
         \A m \in 1..Len(sent) : m # n => /\ told'[m] = told[m] /\ ended'[m] = ended[m]
                                          /\ m \in ToSet(inbox') <=> m \in ToSet(inbox)
                                          /\ m \in excused => m \in excused',
         \A m \in 1..MaxTurns : m \notin 1..Len(sent) => told'[m] = told[m] /\ ended'[m] = ended[m],
         Heard(n)', Worded(phase', word', ended'[turn'])
  PROVE  Hearing'
<1>1. Named(log', sent')
  BY NamedNow, HearingIs
<1>2. ASSUME NEW m \in 1..Len(sent) PROVE Heard(m)'
  <2>1. Heard(m) /\ m \in 1..MaxTurns /\ m # 0
    BY HearingIs, HeardTypes
  <2>2. CASE m = n
    BY <2>2
  <2>3. CASE m # n
    <3>1. /\ told'[m] = told[m] /\ ended'[m] = ended[m]
          /\ (m \in ToSet(inbox') <=> m \in ToSet(inbox))
          /\ (m \in excused => m \in excused')
      BY <2>3, Zenon
    <3>5. turn # m /\ turn' # m /\ sent'[m] = sent[m]
      BY <2>1, <2>3
    <3>2. Speaking(m)' => Speaking(m)
      BY <3>5 DEF Speaking
    <3>3. ToCome(m)' => ToCome(m)
      BY <3>1, <3>5 DEF ToCome
    <3>4. m \in ToSet(inbox) \cup {turn} \cup excused
             => m \in ToSet(inbox') \cup {turn'} \cup excused'
      BY <3>1, <3>5
    <3> QED BY <2>1, <3>1, <3>2, <3>3, <3>4, <3>5, HeardRests
  <2> QED BY <2>2, <2>3
<1> QED BY <1>1, <1>2, HearingIs, HearingIsNext

LEMMA TakenIs ==
  ASSUME TypeOK, Standing, Queue, NEW n \in 1..Len(sent), Take(n)
  PROVE  /\ turn = 0 /\ n \in ToSet(inbox) /\ n \notin ToSet(inbox')
         /\ ToSet(inbox) = ToSet(inbox') \cup {n} /\ ToCome(n)
<1>1. phase = "idle" /\ inbox # <<>> /\ n = Head(inbox) /\ inbox' = Tail(inbox)
  BY DEF Take
<1>2. inbox \in Seq(1..Len(sent))
  BY DEF TypeOK
<1>3. /\ n = inbox[1] /\ 1 \in DOMAIN inbox /\ inbox' \in Seq(1..Len(sent))
      /\ \A i \in DOMAIN inbox' : i + 1 \in DOMAIN inbox /\ inbox'[i] = inbox[i + 1]
      /\ \A i \in DOMAIN inbox : i # 1 => i - 1 \in DOMAIN inbox' /\ inbox[i] = inbox'[i - 1]
  BY <1>1, <1>2, TailIs
<1>4. n \in ToSet(inbox)
  BY <1>3 DEF ToSet
<1>5. n \notin ToSet(inbox')
  <2>1. \A i \in DOMAIN inbox' : i \in Nat /\ 1 < i + 1 /\ inbox'[i] \in Nat
    BY <1>3
  <2>2. \A i \in DOMAIN inbox' : n < inbox'[i]
    BY <1>3, <2>1 DEF Queue
  <2>3. \A i \in DOMAIN inbox' : n # inbox'[i]
    BY <2>1, <2>2
  <2> QED BY <2>3 DEF ToSet
<1>6. ToSet(inbox) = ToSet(inbox') \cup {n}
  <2>1. \A x : x \in ToSet(inbox) <=> \E i \in DOMAIN inbox : inbox[i] = x
    BY Zenon DEF ToSet
  <2>2. \A x : x \in ToSet(inbox') <=> \E i \in DOMAIN inbox' : inbox'[i] = x
    BY Zenon DEF ToSet
  <2>3. \A x \in ToSet(inbox) : x \in ToSet(inbox') \cup {n}
    BY <1>3, <2>1, <2>2
  <2>4. \A x \in ToSet(inbox') : x \in ToSet(inbox)
    BY <1>3, <2>1, <2>2
  <2> QED BY <1>4, <2>3, <2>4
<1>7. turn = 0
  BY <1>1 DEF Standing
<1> QED BY <1>4, <1>5, <1>6, <1>7 DEF ToCome

LEMMA NotQueued ==
  ASSUME TypeOK, Queue
  PROVE  turn \notin ToSet(inbox)
<1>1. \A i \in DOMAIN inbox : turn # inbox[i]
  BY Bounds DEF Queue, TypeOK
<1> QED BY <1>1 DEF ToSet

LEMMA HearingCommand ==
  ASSUME TypeOK, Standing, Queue, Hearing, Command
  PROVE  Hearing'
<1>1. PICK n \in DOMAIN sent :
        /\ Take(n) /\ sent[n] = "command" /\ turn' = n /\ Say("result", FALSE)
        /\ UNCHANGED <<sent, history>>
  BY DEF Command
<1>2. /\ n \in 1..Len(sent) /\ turn = 0 /\ n \notin ToSet(inbox')
      /\ ToSet(inbox) = ToSet(inbox') \cup {n} /\ ToCome(n)
  BY <1>1, TakenIs, Bounds
<1>3. /\ sent' = sent /\ told' = told /\ ended' = ended /\ excused' = excused /\ Grown
      /\ phase' = "speaking" /\ word' = <<"result", FALSE>>
  BY <1>1 DEF history, Grown, Say
<1>4. Owed(n)' /\ sent[n] \notin Event
  BY <1>1, <1>3 DEF Owed, Event
<1>5. Heard(n)
  BY <1>2, HearingIs, HeardTypes
<1>6. Heard(n)'
  BY <1>1, <1>2, <1>3, <1>4, <1>5, HeardSpeaks
<1>7. Worded(phase', word', ended'[turn'])
  BY <1>3 DEF Worded
<1> QED BY <1>1, <1>2, <1>3, <1>6, <1>7, HearingOthers

\* What an opening answers, for the turn that was at work or was taken up.
LEMMA HearingOpens ==
  ASSUME TypeOK, Hearing, NEW n \in 1..Len(sent), Open(n), sent' = sent, told' = told,
         sent[n] # "command", ToCome(n), n \notin ToSet(inbox'),
         ToSet(inbox) \cup {turn} = ToSet(inbox') \cup {turn, n},
         \A m \in 1..Len(sent) : m # n => (m \in ToSet(inbox') <=> m \in ToSet(inbox)),
         turn \in {0, n}
  PROVE  Hearing'
<1>0. Heard(n) /\ sent[n] \in Kind /\ n # 0
  BY HearingIs, HeardTypes DEF TypeOK
<1>1. log' = log /\ ended' = ended /\ Grown
  BY OpenIs DEF WasReset, WasOpened, DidNotOpen, Grown
<1>2. CASE WasOpened(n) \/ (DidNotOpen(n) /\ sent[n] \in Event)
  <2>1. /\ phase' # "speaking" /\ turn' \in {0, n} /\ excused \subseteq excused'
        /\ (n = turn' \/ n \in excused')
    BY <1>2 DEF WasOpened, DidNotOpen
  <2>2. ASSUME NEW m \in 1..Len(sent), ToCome(m)' PROVE ToCome(m)
    BY <2>1, <2>2 DEF ToCome
  <2>3. ASSUME NEW m \in 1..Len(sent), m \in ToSet(inbox) \cup {turn} \cup excused
        PROVE  m \in ToSet(inbox') \cup {turn'} \cup excused'
    <3>1. m # 0
      BY HeardTypes
    <3> QED BY <2>1, <2>3, <3>1
  <2> QED BY <1>1, <2>1, <2>2, <2>3, HearingRests
<1>3. CASE WasReset(n) \/ (DidNotOpen(n) /\ sent[n] \notin Event)
  <2>1. /\ phase' = "speaking" /\ turn' = n /\ excused' = excused
        /\ word' \in {<<"confirmation", FALSE>>, <<"error", FALSE>>} /\ sent[n] \notin Event
    BY <1>3 DEF WasReset, DidNotOpen, Event
  <2>2. Owed(n)'
    <3>1. sent[n] = "say" => ended[n][1] = "none"
      BY <1>0 DEF Heard
    <3>2. sent[n] # "capped"
      BY <2>1 DEF Event
    <3> QED BY <1>1, <3>1, <3>2 DEF Owed
  <2>3. Heard(n)'
    BY <1>0, <1>1, <2>1, <2>2, HeardSpeaks
  <2>4. Worded(phase', word', ended'[turn'])
    <3>1. word'[1] \in {"confirmation", "error"}
      <4>1. CASE word' = <<"confirmation", FALSE>>
        BY <4>1
      <4>2. CASE word' = <<"error", FALSE>>
        BY <4>2
      <4> QED BY <2>1, <4>1, <4>2
    <3> QED BY <3>1 DEF Worded
  <2> QED BY <1>1, <2>1, <2>3, <2>4, HearingOthers
<1> QED BY <1>2, <1>3, OpenIs

LEMMA HearingStart ==
  ASSUME TypeOK, Standing, Queue, Hearing, Start
  PROVE  Hearing'
<1>1. PICK n \in DOMAIN sent :
        Take(n) /\ sent[n] # "command" /\ Open(n) /\ UNCHANGED <<sent, told>>
  BY DEF Start
<1>2. /\ n \in 1..Len(sent) /\ turn = 0 /\ n \notin ToSet(inbox')
      /\ ToSet(inbox) = ToSet(inbox') \cup {n} /\ ToCome(n)
  BY <1>1, TakenIs, Bounds
<1>3. \A m \in 1..Len(sent) : m # n => (m \in ToSet(inbox') <=> m \in ToSet(inbox))
  BY <1>2
<1>4. ToSet(inbox) \cup {turn} = ToSet(inbox') \cup {turn, n}
  BY <1>2
<1> QED BY <1>1, <1>2, <1>3, <1>4, HearingOpens

LEMMA HearingClosed ==
  ASSUME TypeOK, Standing, Queue, Hearing, Closed
  PROVE  Hearing'
<1>1. phase = "closing" /\ Open(turn) /\ UNCHANGED <<sent, inbox, told>>
  BY DEF Closed
<1>2. PICK n \in 1..Len(sent) : n = turn
  BY <1>1, Bounds DEF Standing, TypeOK
<1>3. sent[n] # "command" /\ ToCome(n) /\ n \notin ToSet(inbox) /\ Open(n)
  BY <1>1, <1>2, NotQueued DEF Standing, ToCome
<1>4. ToSet(inbox) \cup {turn} = ToSet(inbox') \cup {turn, n}
  BY <1>1, <1>2
<1> QED BY <1>1, <1>2, <1>3, <1>4, HearingOpens

LEMMA HearingContinue ==
  ASSUME TypeOK, Standing, Queue, Hearing, Continue
  PROVE  Hearing'
<1>1. PICK n \in 1..Len(sent) :
        /\ Take(n) /\ turn' = n /\ phase' = "working"
        /\ UNCHANGED <<sent, log, told, ended, excused>>
  BY ContinueIs
<1>2. turn = 0 /\ ToSet(inbox) = ToSet(inbox') \cup {n} /\ ToCome(n)
  BY <1>1, TakenIs
<1>3. ASSUME NEW m \in 1..Len(sent), ToCome(m)' PROVE ToCome(m)
  BY <1>1, <1>2, <1>3 DEF ToCome
<1>4. ASSUME NEW m \in 1..Len(sent), m \in ToSet(inbox) \cup {turn} \cup excused
      PROVE  m \in ToSet(inbox') \cup {turn'} \cup excused'
  <2>1. m # 0
    BY HeardTypes
  <2> QED BY <1>1, <1>2, <1>4, <2>1
<1>5. phase' # "speaking" /\ Grown
  BY <1>1 DEF Grown
<1> QED BY <1>1, <1>3, <1>4, <1>5, HearingRests

LEMMA GrownByRecord ==
  ASSUME TypeOK, Standing, Accounts, Opened, ~Acc.flushed, NEW w \in BOOLEAN,
         log' = Append(log, Record(Session, Acc, w))
  PROVE  Grown
<1> DEFINE r == Record(Session, Acc, w)
<1>1. r \in RecordType /\ r.event = Session.event
  BY RecordNow
<1>2. Session.event # 0 => Session.event \in 1..Len(sent) /\ sent[Session.event] \in Event
  BY DEF Standing
<1> HIDE DEF r
<1>3. log' = Append(log, r)
  BY DEF r
<1> QED BY <1>1, <1>2, <1>3 DEF Grown

LEMMA HearingDisplace ==
  ASSUME TypeOK, Standing, Queue, Accounts, Hearing, Displace
  PROVE  Hearing'
<1>1. PICK n \in DOMAIN sent, written \in BOOLEAN :
        /\ Take(n) /\ Opened /\ turn' = n /\ BeginClose(written)
        /\ UNCHANGED <<sent, told, ended, excused>>
  BY DEF Displace
<1>2. /\ n \in 1..Len(sent) /\ turn = 0 /\ ToSet(inbox) = ToSet(inbox') \cup {n} /\ ToCome(n)
  BY <1>1, TakenIs, Bounds
<1>3. ASSUME NEW m \in 1..Len(sent), ToCome(m)' PROVE ToCome(m)
  BY <1>1, <1>2, <1>3 DEF ToCome
<1>4. ASSUME NEW m \in 1..Len(sent), m \in ToSet(inbox) \cup {turn} \cup excused
      PROVE  m \in ToSet(inbox') \cup {turn'} \cup excused'
  <2>1. m # 0
    BY HeardTypes
  <2> QED BY <1>1, <1>2, <1>4, <2>1
<1>5. phase' # "speaking"
  BY <1>1 DEF BeginClose
<1>6. Grown
  <2>1. CASE Acc.flushed
    BY <1>1, <2>1 DEF BeginClose, Grown
  <2>2. CASE ~Acc.flushed
    <3>1. log' = Append(log, Record(Session, Acc, written))
      BY <1>1, <2>2 DEF BeginClose, WriteRecord
    <3> QED BY <1>1, <2>2, <3>1, GrownByRecord
  <2> QED BY <2>1, <2>2
<1> QED BY <1>1, <1>3, <1>4, <1>5, <1>6, HearingRests

LEMMA HearingSpoken ==
  ASSUME TypeOK, Standing, Queue, Hearing, Spoken
  PROVE  Hearing'
<1>1. /\ phase = "speaking"
      /\ told' = [told EXCEPT ![turn] = Append(@, <<word[1], ended[turn][1]>>)]
      /\ turn' = 0 /\ phase' = "idle"
      /\ UNCHANGED <<sent, inbox, log, ended, excused>>
  BY DEF Spoken
<1>2. PICK n \in 1..Len(sent) : n = turn
  BY <1>1, Bounds DEF Standing, TypeOK
<1>3. Heard(n) /\ n \in 1..MaxTurns /\ n # 0 /\ Speaking(n) /\ n \notin ToSet(inbox)
  BY <1>1, <1>2, HearingIs, HeardTypes, NotQueued DEF Speaking
<1> DEFINE x == <<word[1], ended[n][1]>>
           t == told[n]
           u == Append(t, x)
<1>4. x \in Word \X (Ending \cup {"none"})
  <2>1. ended[n] \in (Ending \cup {"none"}) \X BOOLEAN
    BY <1>3 DEF TypeOK
  <2>2. word \in Word \X BOOLEAN
    BY <1>1 DEF TypeOK
  <2>3. word[1] \in Word /\ ended[n][1] \in Ending \cup {"none"}
    BY <2>1, <2>2
  <2> QED BY <2>3
<1>5. x[1] = word[1] /\ x[2] = ended[n][1]
  OBVIOUS
<1> HIDE DEF x
<1>6. t \in Seq(Word \X (Ending \cup {"none"}))
  BY HeardTypes
<1>7. /\ u # <<>> /\ Len(u) = Len(t) + 1 /\ DOMAIN u = DOMAIN t \cup {Len(t) + 1}
      /\ u[Len(t) + 1] = x /\ \A i \in DOMAIN t : u[i] = t[i]
  BY <1>4, <1>6, AppendIs
<1>8. /\ told'[n] = u /\ \A m \in 1..MaxTurns : m # n => told'[m] = told[m]
  <2>1. told' = [told EXCEPT ![n] = u] /\ DOMAIN told = 1..MaxTurns
    BY <1>1, <1>2 DEF x, TypeOK
  <2> HIDE DEF u
  <2> QED BY <1>3, <2>1
<1> HIDE DEF u
<1>9. Grown /\ sent' = sent /\ ended' = ended /\ inbox' = inbox /\ excused' = excused
  BY <1>1 DEF Grown
<1>10. ~Speaking(n)' /\ ~ToCome(n)' /\ (Owed(n)' <=> Owed(n)) /\ (Done(n)' <=> Done(n))
  <2>1. ~Speaking(n)' /\ ~ToCome(n)'
    BY <1>1, <1>3 DEF Speaking, ToCome
  <2>2. Owed(n)' <=> Owed(n)
    BY <1>9 DEF Owed
  <2>3. Done(n)' <=> Done(n)
    BY <1>1 DEF Done, Known
  <2> QED BY <2>1, <2>2, <2>3
<1>11. Lost(n)' = Lost(n)
  BY <1>1 DEF Lost
<1>12. Len(u) <= Cardinality(Lost(n)') + (IF Done(n)' THEN 1 ELSE 0)
  <2>1. Len(t) + (IF Speaking(n) THEN 1 ELSE 0) <= Cardinality(Lost(n)) + (IF Done(n) THEN 1 ELSE 0)
    BY <1>3 DEF Heard
  <2>2. (IF Speaking(n) THEN 1 ELSE 0) = 1
    BY <1>3
  <2>3. (IF Done(n)' THEN 1 ELSE 0) = (IF Done(n) THEN 1 ELSE 0)
    BY <1>10
  <2> QED BY <1>7, <1>11, <2>1, <2>2, <2>3
<1>13. Len(told'[n]) + (IF Speaking(n)' THEN 1 ELSE 0) <= Cardinality(Lost(n)') + (IF Done(n)' THEN 1 ELSE 0)
  <2>1. Len(u) + 0 = Len(u)
    BY <1>6, <1>7
  <2>2. (IF Speaking(n)' THEN 1 ELSE 0) = 0
    BY <1>10
  <2> QED BY <1>8, <1>12, <2>1, <2>2
<1>14. Owed(n)'
  BY <1>3, <1>10 DEF Heard
<1>15. \A i \in DOMAIN told'[n] :
         told'[n][i][1] \in {"reply", "triage"} => told'[n][i][2] \in {"completed", "refused"}
  <2>1. x[1] \in {"reply", "triage"} => x[2] \in {"completed", "refused"}
    BY <1>1, <1>2, <1>5, HearingIs DEF Worded
  <2>2. \A i \in DOMAIN t : t[i][1] \in {"reply", "triage"} => t[i][2] \in {"completed", "refused"}
    BY <1>3 DEF Heard
  <2> HIDE DEF t
  <2> QED BY <1>7, <1>8, <2>1, <2>2
<1>16. Heard(n)'
  BY <1>7, <1>8, <1>10, <1>13, <1>14, <1>15, Zenon DEF Heard
<1>17. Worded(phase', word', ended'[turn'])
  BY <1>1 DEF Worded
<1>18. \A m \in 1..Len(sent) : m # n => /\ told'[m] = told[m] /\ ended'[m] = ended[m]
                                        /\ m \in ToSet(inbox') <=> m \in ToSet(inbox)
                                        /\ m \in excused => m \in excused'
  BY <1>8, <1>9, HeardTypes
<1>19. \A m \in 1..MaxTurns : m \notin 1..Len(sent) => told'[m] = told[m] /\ ended'[m] = ended[m]
  BY <1>8, <1>9
<1> QED BY <1>1, <1>2, <1>9, <1>16, <1>17, <1>18, <1>19, HearingOthers

LEMMA HearingSubmit ==
  ASSUME TypeOK, Standing, Hearing, NEW k \in Kind, Submit(k)
  PROVE  Hearing'
<1>1. /\ sent' = Append(sent, k) /\ inbox' = Append(inbox, Len(sent) + 1)
      /\ Len(sent) < MaxTurns
      /\ UNCHANGED <<phase, turn, word, log, told, ended, excused>>
  BY DEF Submit, core, history
<1>2. PICK n \in Nat : n = Len(sent) + 1
  BY Bounds
<1>3. /\ sent' \in Seq(Kind) /\ Len(sent') = n /\ sent'[n] = k
      /\ \A m \in 1..Len(sent) : sent'[m] = sent[m]
      /\ n \in 1..MaxTurns /\ n \notin 1..Len(sent) /\ 1..n = 1..Len(sent) \cup {n}
  <2>1. sent \in Seq(Kind) /\ MaxTurns \in Nat /\ Len(sent) \in Nat
    BY Bounds DEF TypeOK
  <2>2. sent' \in Seq(Kind) /\ Len(sent') = n /\ sent'[n] = k
        /\ \A m \in 1..Len(sent) : sent'[m] = sent[m]
    BY <1>1, <1>2, <2>1, AppendIs
  <2> QED BY <1>1, <1>2, <2>1, <2>2
<1>4. inbox \in Seq(Nat) /\ n \in Nat /\ inbox' = Append(inbox, n)
  BY <1>1, <1>2 DEF TypeOK
<1>5. ToSet(inbox') = ToSet(inbox) \cup {n}
  <2> DEFINE q == Append(inbox, n)
  <2>1. /\ DOMAIN q = DOMAIN inbox \cup {Len(inbox) + 1} /\ q[Len(inbox) + 1] = n
        /\ \A i \in DOMAIN inbox : q[i] = inbox[i]
    BY <1>4, AppendIs
  <2> HIDE DEF q
  <2>2. ToSet(q) = ToSet(inbox) \cup {n}
    BY <2>1 DEF ToSet
  <2> QED BY <1>4, <2>2 DEF q
<1>6. Grown
  BY <1>1 DEF Grown
<1>7. Named(log', sent')
  <2>1. Named(log, sent) /\ log' = log
    BY <1>1, HearingIs
  <2>2. \A m \in 1..Len(sent) : m \in 1..Len(sent') /\ sent'[m] = sent[m]
    BY <1>3
  <2> QED BY <2>1, <2>2, Zenon DEF Named
<1>8. Worded(phase', word', ended'[turn'])
  BY <1>1, HearingIs DEF Worded
<1>9. ASSUME NEW m \in 1..Len(sent) PROVE Heard(m)'
  <2>1. Heard(m) /\ m \in 1..MaxTurns /\ m # n
    BY <1>3, HearingIs, HeardTypes
  <2>2. sent'[m] = sent[m] /\ ended'[m] = ended[m] /\ told'[m] = told[m]
    BY <1>1, <1>3
  <2>3. (Speaking(m)' => Speaking(m)) /\ (ToCome(m)' => ToCome(m))
    BY <1>1, <1>5, <2>1 DEF Speaking, ToCome
  <2>4. m \in ToSet(inbox) \cup {turn} \cup excused
          => m \in ToSet(inbox') \cup {turn'} \cup excused'
    BY <1>1, <1>5
  <2> QED BY <1>6, <2>1, <2>2, <2>3, <2>4, HeardRests
<1>10. Heard(n)'
  <2>1. told'[n] = <<>> /\ ended'[n][1] = "none"
    BY <1>1, <1>3, HearingIs
  <2>2. n \in ToSet(inbox') /\ turn' # n
    <3>1. turn <= Len(sent) /\ Len(sent) \in Nat /\ turn \in Nat
      BY Bounds DEF TypeOK
    <3> QED BY <1>1, <1>2, <1>5, <3>1
  <2>3. ~Speaking(n)' /\ n \in ToSet(inbox') \cup {turn'} \cup excused'
    BY <2>2 DEF Speaking
  <2>4. Cardinality(Lost(n)') \in Nat
    BY <1>6, LostGrows
  <2>5. Len(told'[n]) = 0 /\ DOMAIN told'[n] = {}
    BY <2>1
  <2> DEFINE e == IF Done(n)' THEN 1 ELSE 0
             m == Cardinality(Lost(n)')
  <2>6. e \in {0, 1}
    OBVIOUS
  <2> HIDE DEF e, m
  <2>7. 0 + 0 <= m + e /\ 0 <= m
    BY <2>4, <2>6 DEF m
  <2>8. Len(told'[n]) + (IF Speaking(n)' THEN 1 ELSE 0) <= Cardinality(Lost(n)') + (IF Done(n)' THEN 1 ELSE 0)
    <3>1. (IF Speaking(n)' THEN 1 ELSE 0) = 0
      BY <2>3
    <3> QED BY <2>5, <2>7, <3>1 DEF e, m
  <2>9. Len(told'[n]) <= Cardinality(Lost(n)')
    BY <2>5, <2>7 DEF m
  <2> QED BY <2>1, <2>3, <2>5, <2>8, <2>9, Zenon DEF Heard
<1>11. ASSUME NEW m \in 1..MaxTurns, m \notin 1..Len(sent') PROVE told'[m] = <<>> /\ ended'[m][1] = "none"
  BY <1>1, <1>3, <1>11, HearingIs
<1>12. \A m \in 1..MaxTurns : m \in 1..Len(sent') => Heard(m)'
  BY <1>3, <1>9, <1>10
<1> QED BY <1>7, <1>8, <1>11, <1>12, HearingIsNext

\* A tool, or time: the turn at work and the queue stay as they are.
LEMMA HearingSame ==
  ASSUME TypeOK, Hearing, UNCHANGED <<sent, inbox, turn, phase, word, log, told, ended, excused>>
  PROVE  Hearing'
<1>1. Grown /\ UNCHANGED <<sent, told, ended>>
  BY DEF Grown
<1>2. ASSUME NEW n \in 1..Len(sent), ToCome(n)' PROVE ToCome(n)
  BY <1>2 DEF ToCome
<1>3. phase' = "speaking" => UNCHANGED <<phase, turn, word>>
  OBVIOUS
<1>4. \A n \in 1..Len(sent) : n \in ToSet(inbox) \cup {turn} \cup excused
             => n \in ToSet(inbox') \cup {turn'} \cup excused'
  OBVIOUS
<1> QED BY <1>1, <1>2, <1>3, <1>4, HearingRests

LEMMA HearingDown ==
  ASSUME TypeOK, Standing, Accounts, Hearing, Kill \/ Stop
  PROVE  Hearing'
<1>1. PICK records \in Seq(RecordType) :
        /\ Down(records) /\ log' = records
        /\ \/ records = log
           \/ Opened /\ ~Acc.flushed /\ records = Append(log, Record(Session, Acc, TRUE))
  BY DownIs
<1>2. /\ turn' = 0 /\ phase' = "idle" /\ UNCHANGED <<sent, told, ended>>
  BY <1>1 DEF Down
<1>3. PICK again \in SUBSET (1..Len(sent)) :
        /\ ToSet(inbox') = again
        /\ \A n \in again : /\ sent[n] \in Event
                            /\ ~\E i \in DOMAIN records : records[i].event = n /\ records[i].written
        /\ excused' = excused \cup ((ToSet(inbox) \cup ({turn} \ {0})) \ again)
  BY <1>1, Again
<1>4. Grown
  <2>1. CASE records = log
    BY <1>1, <2>1 DEF Grown
  <2>2. CASE Opened /\ ~Acc.flushed /\ records = Append(log, Record(Session, Acc, TRUE))
    BY <1>1, <2>2, GrownByRecord
  <2> QED BY <1>1, <2>1, <2>2
<1>5. ASSUME NEW n \in 1..Len(sent), ToCome(n)'
      PROVE  Len(told[n]) <= Cardinality(Lost(n)) /\ sent[n] # "say"
  <2>1. n \in again
    <3>1. turn' # n
      BY <1>2, HeardTypes
    <3> QED BY <1>3, <1>5, <3>1 DEF ToCome
  <2>2. sent[n] \in Event /\ sent[n] # "say" /\ ~Known(n)'
    BY <1>1, <1>3, <2>1 DEF Known, Event
  <2>3. ~Done(n)
    BY <1>4, <2>2, LostGrows DEF Done
  <2>4. Len(told[n]) + (IF Speaking(n) THEN 1 ELSE 0) <= Cardinality(Lost(n)) + (IF Done(n) THEN 1 ELSE 0)
    BY HearingIs, HeardTypes DEF Heard
  <2>5. Len(told[n]) \in Nat /\ Cardinality(Lost(n)) \in Nat
    BY <1>4, LostGrows, HeardTypes
  <2> DEFINE s == IF Speaking(n) THEN 1 ELSE 0
             c == Len(told[n])
             l == Cardinality(Lost(n))
  <2>6. s \in {0, 1} /\ c + s <= l + 0
    BY <2>3, <2>4
  <2> HIDE DEF s, c, l
  <2>7. c <= l
    BY <2>5, <2>6 DEF c, l
  <2> QED BY <2>2, <2>7 DEF c, l
<1>6. ASSUME NEW n \in 1..Len(sent), n \in ToSet(inbox) \cup {turn} \cup excused
      PROVE  n \in ToSet(inbox') \cup {turn'} \cup excused'
  <2>1. n # 0
    BY HeardTypes
  <2> QED BY <1>3, <1>6, <2>1
<1>7. phase' # "speaking"
  BY <1>2
<1> QED BY <1>2, <1>4, <1>5, <1>6, <1>7, HearingRests

\* The others while the turn at work ends.
LEMMA HearingEnds ==
  ASSUME TypeOK, Hearing, Grown, NEW n \in 1..Len(sent), n = turn, turn' \in {0, n},
         UNCHANGED <<sent, inbox, told, excused>>, NEW x, ended' = [ended EXCEPT ![n] = x],
         Heard(n)', Worded(phase', word', ended'[turn'])
  PROVE  Hearing'
<1>1. DOMAIN ended = 1..MaxTurns /\ n \in 1..MaxTurns
  BY HeardTypes DEF TypeOK
<1>2. \A m \in 1..MaxTurns : m # n => ended'[m] = ended[m]
  BY <1>1
<1>3. \A m \in 1..Len(sent) : m # n => /\ told'[m] = told[m] /\ ended'[m] = ended[m]
                                       /\ m \in ToSet(inbox') <=> m \in ToSet(inbox)
                                       /\ m \in excused => m \in excused'
  BY <1>2, HeardTypes
<1>4. \A m \in 1..MaxTurns : m \notin 1..Len(sent) => told'[m] = told[m] /\ ended'[m] = ended[m]
  BY <1>2
<1>5. sent' = sent /\ turn \in {0, n}
  OBVIOUS
<1> QED BY <1>3, <1>4, <1>5, HearingOthers

LEMMA HearingOwner ==
  ASSUME TypeOK, Standing, Queue, Hearing,
         NEW signal \in Signal, NEW raised \in BOOLEAN, NEW text \in BOOLEAN,
         EndOwnerTurn(signal, raised, text)
  PROVE  Hearing'
<1> DEFINE e == ClassifyEnding(signal, raised, text)
           b == text /\ e # "error"
<1>1. /\ ended' = [ended EXCEPT ![turn] = <<e, b>>]
      /\ UNCHANGED <<sent, inbox, log, told, excused>>
  BY DEF EndOwnerTurn
<1>2. IF e = "error" THEN Say("error", raised) /\ UNCHANGED turn
      ELSE IF text   THEN Say("reply", FALSE) /\ UNCHANGED turn
      ELSE Silent
  BY DEF EndOwnerTurn
<1>3. phase = "working" /\ turn \in 1..Len(sent) /\ sent[turn] = "say"
  BY EndOwnerIs
<1>4. PICK n \in 1..Len(sent) : n = turn
  BY <1>3
<1>5. e \in Ending /\ (text /\ e # "error" => e \in {"completed", "refused"})
  BY EndingIs
<1> HIDE DEF e
<1>6. PICK said \in BOOLEAN : said = b
  OBVIOUS
<1>7. Heard(n) /\ n # 0 /\ n \in 1..MaxTurns /\ ToCome(n) /\ n \notin ToSet(inbox)
  BY <1>3, <1>4, HearingIs, HeardTypes, NotQueued DEF ToCome
<1> DEFINE x == <<e, said>>
<1>8. x[1] = e /\ x[2] = said
  OBVIOUS
<1> HIDE DEF x
<1>9. ended' = [ended EXCEPT ![n] = x] /\ ended'[n] = x
  <2>1. ended' = [ended EXCEPT ![n] = x]
    BY <1>1, <1>4, <1>6 DEF x
  <2> QED BY <1>7, <2>1 DEF TypeOK
<1>10. Grown /\ sent' = sent /\ told' = told /\ inbox' = inbox /\ excused' = excused
  BY <1>1 DEF Grown
<1>11. sent'[n] = "say" /\ sent[n] = "say" /\ "say" \notin Event
  BY <1>3, <1>4, <1>10 DEF Event
<1>12. e # "none"
  BY <1>5 DEF Ending
<1>13. Owed(n)' <=> e = "error" \/ said
  BY <1>8, <1>9, <1>11, <1>12 DEF Owed
<1>14. CASE e = "error" \/ text
  <2>1. turn' = n /\ phase' = "speaking"
        /\ word' = (IF e = "error" THEN <<"error", raised>> ELSE <<"reply", FALSE>>)
    BY <1>2, <1>4, <1>14 DEF Say
  <2>2. Owed(n)'
    BY <1>6, <1>13, <1>14
  <2>3. Heard(n)'
    BY <1>7, <1>10, <1>11, <2>1, <2>2, HeardSpeaks
  <2>4. Worded(phase', word', ended'[turn'])
    <3>1. CASE e = "error"
      <4>1. word'[1] = "error"
        BY <2>1, <3>1
      <4> QED BY <4>1 DEF Worded
    <3>2. CASE e # "error"
      <4>1. ended'[turn'][1] \in {"completed", "refused"}
        BY <1>5, <1>8, <1>9, <1>14, <2>1, <3>2
      <4> QED BY <4>1 DEF Worded
    <3> QED BY <3>1, <3>2
  <2> QED BY <1>4, <1>9, <1>10, <2>1, <2>3, <2>4, HearingEnds
<1>15. CASE ~(e = "error" \/ text)
  <2>1. turn' = 0 /\ phase' = "idle"
    BY <1>2, <1>15 DEF Silent
  <2>2. ~Owed(n)'
    BY <1>6, <1>13, <1>15
  <2>3. Heard(n)'
    BY <1>7, <1>10, <1>11, <2>1, <2>2, HearingIs, HeardEnds
  <2>4. Worded(phase', word', ended'[turn'])
    BY <2>1 DEF Worded
  <2> QED BY <1>4, <1>9, <1>10, <2>1, <2>3, <2>4, HearingEnds
<1> QED BY <1>14, <1>15

LEMMA HearingEvent ==
  ASSUME TypeOK, Standing, Queue, Accounts, Hearing,
         NEW signal \in Signal, NEW raised \in BOOLEAN, NEW text \in BOOLEAN, NEW written \in BOOLEAN,
         EndEventTurn(signal, raised, text, written)
  PROVE  Hearing'
<1> DEFINE e == ClassifyEnding(signal, raised, text)
           x == <<e, text /\ e # "error">>
<1>1. /\ ended' = [ended EXCEPT ![turn] = x]
      /\ UNCHANGED <<sent, inbox, told, excused>>
  BY DEF EndEventTurn
<1>2. IF sent[turn] = "incident"
        THEN Say(IF e = "completed" THEN "triage" ELSE "notice", FALSE) /\ UNCHANGED turn
        ELSE Silent
  BY DEF EndEventTurn, Announced
<1>3. phase = "working" /\ turn \in 1..Len(sent) /\ sent[turn] \in Event
  BY EndEventIs
<1>4. PICK r \in RecordType : log' = Append(log, r) /\ r.event = turn /\ r.written = written
  BY EndEventIs
<1>5. PICK n \in 1..Len(sent) : n = turn
  BY <1>3
<1>6. x[1] = e
  OBVIOUS
<1> HIDE DEF x
<1>7. Heard(n) /\ n # 0 /\ n \in 1..MaxTurns /\ ToCome(n) /\ n \notin ToSet(inbox)
  BY <1>3, <1>5, HearingIs, HeardTypes, NotQueued DEF ToCome
<1>8. ended' = [ended EXCEPT ![n] = x] /\ ended'[n] = x
  <2>1. ended' = [ended EXCEPT ![n] = x]
    BY <1>1, <1>5
  <2> QED BY <1>7, <2>1 DEF TypeOK
<1>9. Grown /\ sent' = sent /\ told' = told /\ inbox' = inbox /\ excused' = excused
  <2>1. r.event # 0 => r.event \in 1..Len(sent) /\ sent[r.event] \in Event
    BY <1>3, <1>4
  <2> QED BY <1>1, <1>4, <2>1 DEF Grown
<1>10. Known(n)' \/ Cardinality(Lost(n)') = Cardinality(Lost(n)) + 1
  <2>1. log \in Seq(RecordType)
    BY DEF TypeOK
  <2>2. CASE written
    <3>1. Len(log) + 1 \in DOMAIN log' /\ log'[Len(log) + 1] = r
      BY <1>4, <2>1, AppendIs
    <3>2. r.event = n /\ r.written
      BY <1>4, <1>5, <2>2
    <3> QED BY <3>1, <3>2, Zenon DEF Known
  <2>3. CASE ~written
    <3>1. Cardinality(LostIn(Append(log, r), n))
            = Cardinality(LostIn(log, n)) + (IF r.event = n /\ ~r.written THEN 1 ELSE 0)
      BY <2>1, LostMore
    <3>2. r.event = n /\ ~r.written
      BY <1>4, <1>5, <2>3
    <3>3. Lost(n) = LostIn(log, n) /\ Lost(n)' = LostIn(log', n)
      BY DEF Lost, LostIn
    <3> QED BY <1>4, <3>1, <3>2, <3>3
  <2> QED BY <2>2, <2>3
<1>11. CASE sent[n] = "incident"
  <2>1. turn' = n /\ phase' = "speaking"
        /\ word' = <<IF e = "completed" THEN "triage" ELSE "notice", FALSE>>
    BY <1>2, <1>5, <1>11 DEF Say
  <2>2. Owed(n)'
    BY <1>9, <1>11 DEF Owed
  <2>3. Heard(n)'
    BY <1>7, <1>9, <1>10, <2>1, <2>2, HeardSpeaks
  <2>4. Worded(phase', word', ended'[turn'])
    <3>1. CASE e = "completed"
      <4>1. ended'[turn'][1] = "completed"
        BY <1>6, <1>8, <2>1, <3>1
      <4> QED BY <4>1 DEF Worded
    <3>2. CASE e # "completed"
      <4>1. word'[1] = "notice"
        BY <2>1, <3>2
      <4> QED BY <4>1 DEF Worded
    <3> QED BY <3>1, <3>2
  <2> QED BY <1>5, <1>8, <1>9, <2>1, <2>3, <2>4, HearingEnds
<1>12. CASE sent[n] # "incident"
  <2>1. turn' = 0 /\ phase' = "idle" /\ sent[n] = "capped"
    BY <1>2, <1>3, <1>5, <1>12 DEF Silent, Event
  <2>2. ~Owed(n)'
    BY <1>9, <2>1 DEF Owed
  <2>3. Heard(n)'
    BY <1>7, <1>9, <2>1, <2>2, HearingIs, HeardEnds
  <2>4. Worded(phase', word', ended'[turn'])
    BY <2>1 DEF Worded
  <2> QED BY <1>5, <1>8, <1>9, <2>1, <2>3, <2>4, HearingEnds
<1> QED BY <1>11, <1>12

LEMMA HearingStep ==
  ASSUME TypeOK, Queue, Standing, Accounts, Hearing, [Next]_vars
  PROVE  Hearing'
<1>1. CASE GrowIdle \/ Ask \/ Publish \/ Published \/ UNCHANGED vars
  BY <1>1, HearingSame DEF GrowIdle, Ask, Publish, Published, vars, core, history
<1>2. ASSUME NEW o \in {"approved", "denied"}, Decide(o) PROVE Hearing'
  BY <1>2, HearingSame DEF Decide, history
<1>3. CASE Turns
  BY <1>3, HearingCommand, HearingContinue, HearingStart, HearingDisplace, HearingClosed,
     HearingSpoken DEF Turns
<1>4. CASE Model
  BY <1>4, HearingOwner, HearingEvent DEF Model
<1> QED BY <1>1, <1>2, <1>3, <1>4, HearingSubmit, HearingDown DEF Next, World, Tools

(***************************************************************************)
(* The invariant, and what it says of every behaviour.                     *)
(***************************************************************************)
LEMMA InitHolds == Init => IInv
<1> SUFFICES ASSUME Init PROVE IInv
  OBVIOUS
<1>1. TypeOK
  BY InitType
<1>2. Queue /\ Standing
  BY DEF Init, Queue, Standing, Opened
<1>3. Outstanding
  BY DEF Init, Outstanding, FiledUnderItsIncident
<1>4. Accounts
  BY DEF Init, Accounts, Opened
<1>5. Blocks
  BY DEF Init, Blocks, HashIsTheBlock, Opened
<1>6. Hearing
  <2>1. /\ sent = <<>> /\ log = <<>> /\ phase = "idle"
        /\ told = [n \in 1..MaxTurns |-> <<>>]
        /\ ended = [n \in 1..MaxTurns |-> <<"none", FALSE>>]
    BY DEF Init
  <2>2. Named(log, sent) /\ Worded(phase, word, ended[turn])
    BY <2>1 DEF Named, Worded
  <2>3. \A n \in 1..MaxTurns : n \notin 1..Len(sent) /\ told[n] = <<>> /\ ended[n][1] = "none"
    BY <2>1
  <2> QED BY <2>2, <2>3, HearingIs
<1> QED BY <1>1, <1>2, <1>3, <1>4, <1>5, <1>6 DEF IInv

LEMMA Inductive == IInv /\ [Next]_vars => IInv'
<1> SUFFICES ASSUME IInv, [Next]_vars PROVE IInv'
  OBVIOUS
<1>1. TypeOK /\ Queue /\ Standing /\ Outstanding /\ Accounts /\ Blocks /\ Hearing
  BY DEF IInv
<1> QED BY <1>1, TypeStep, QueueStep, StandingStep, OutstandingStep, AccountsStep, BlocksStep,
           HearingStep DEF IInv

LEMMA IInvAlways == Spec => []IInv
BY InitHolds, Inductive, PTL DEF Spec

\* Types, of the queue, the open session and everything it leaves behind
\* (core.py _process_owner, _process_event, _close_session).
THEOREM TypeCorrect == Spec => []TypeOK
<1>1. IInv => TypeOK
  BY DEF IInv
<1> QED BY <1>1, IInvAlways, PTL

\* Whoever the queue took up hears back, once and once more at most for each
\* record of his incident that was lost, and never with the text of a turn that
\* failed: nothing is to come of a turn that is out of the queue, so what was
\* told of it is all there will be, and the invariant counts it against the
\* records (core.py _process_owner, _process_event, aclose).
THEOREM NobodyIsEverLeft == Spec => []NobodyIsLeftWaiting
<1>1. IInv => NobodyIsLeftWaiting
  <2> SUFFICES ASSUME IInv, NEW n \in DOMAIN sent
               PROVE  /\ n \notin ToSet(inbox) \cup {turn} \cup excused =>
                           IF Owed(n) THEN Len(told[n]) \in 1..1 + Cardinality(Lost(n))
                                      ELSE told[n] = <<>>
                      /\ \A i \in DOMAIN told[n] :
                           told[n][i][1] \in {"reply", "triage"}
                             => told[n][i][2] \in {"completed", "refused"}
    BY DEF NobodyIsLeftWaiting
  <2>1. TypeOK /\ n \in 1..Len(sent)
    BY Bounds DEF IInv
  <2>2. Heard(n)
    BY <2>1, HearingIs, HeardTypes DEF IInv
  <2>3. ASSUME n \notin ToSet(inbox) \cup {turn} \cup excused, Owed(n)
        PROVE  Len(told[n]) \in 1..1 + Cardinality(Lost(n))
    <3>1. told[n] # <<>>
      BY <2>2, <2>3 DEF Heard
    <3>2. Len(told[n]) \in Nat /\ Len(told[n]) # 0
      BY <2>1, <3>1, HeardTypes
    <3>3. Cardinality(Lost(n)) \in Nat
      <4>1. log \in Seq(RecordType) /\ Lost(n) = LostIn(log, n)
        BY <2>1 DEF TypeOK, Lost, LostIn
      <4> QED BY <4>1, LostCounted
    <3>4. Len(told[n]) + (IF Speaking(n) THEN 1 ELSE 0)
            <= Cardinality(Lost(n)) + (IF Done(n) THEN 1 ELSE 0)
      BY <2>2 DEF Heard
    <3> DEFINE s == IF Speaking(n) THEN 1 ELSE 0
               d == IF Done(n) THEN 1 ELSE 0
               c == Len(told[n])
               l == Cardinality(Lost(n))
    <3>5. s \in {0, 1} /\ d \in {0, 1} /\ c + s <= l + d
      BY <3>4
    <3> HIDE DEF s, d, c, l
    <3>6. c \in 1..1 + l
      BY <3>2, <3>3, <3>5 DEF c, l
    <3> QED BY <3>6 DEF c, l
  <2>4. ~Owed(n) => told[n] = <<>>
    BY <2>2 DEF Heard
  <2>5. \A i \in DOMAIN told[n] :
          told[n][i][1] \in {"reply", "triage"} => told[n][i][2] \in {"completed", "refused"}
    BY <2>2 DEF Heard
  <2> QED BY <2>3, <2>4, <2>5
<1> QED BY <1>1, IInvAlways, PTL

\* A session's records hold each of its calls once, with as many marked executed
\* as were permitted, and name the one recall block it was given: the receipts
\* of the open record balance its calls, also across a triage's own record and
\* a close while a call waits (core.py _write_audit_record, _stats_since, _take_recall).
THEOREM RecordsAreAlwaysTrue == Spec => []RecordsAreTrue
<1>1. IInv => RecordsAreTrue
  BY Zenon DEF IInv, Accounts, Blocks, RecordsAreTrue, RecordsAddUp
<1> QED BY <1>1, IInvAlways, PTL

\* A hand-off is filed under the incident of the session that published it: the
\* incident context is the open session's whenever one may publish, and what was
\* read stays what is filed (publish_handoff.py _run, core.py _close_session).
THEOREM AlwaysFiledUnderItsIncident == Spec => []FiledUnderItsIncident
<1>1. IInv => FiledUnderItsIncident
  BY DEF IInv, Outstanding
<1> QED BY <1>1, IInvAlways, PTL

\* The record that carries an error carries it on, while its session is open.
LEMMA OutcomeCarried ==
  ASSUME IInv, [Next]_vars, Carrying
  PROVE  Acc'.outcome = "error"
<1>0. /\ TypeOK /\ Standing /\ Outstanding /\ Accounts
      /\ Opened /\ session' # <<>> /\ Acc.outcome = "error" /\ ~Acc.flushed
  BY DEF IInv, Carrying
<1>1. CASE World \/ Publish \/ Published \/ Command \/ Spoken \/ UNCHANGED vars
  <2>1. acc' = acc
    BY <1>1 DEF World, Submit, GrowIdle, Publish, Published, Command, Spoken, vars, core
  <2> QED BY <1>0, <2>1 DEF Acc
<1>2. CASE Continue
  BY <1>0, <1>2, ContinueIs
<1>3. CASE Start \/ Displace
  BY <1>0, <1>3 DEF Start, Displace, BeginClose
<1>4. CASE Closed
  BY <1>0, <1>4 DEF Closed, Standing, Opened
<1>5. CASE Ask
  BY <1>0, <1>5, AskIs
<1>6. ASSUME NEW o \in {"approved", "denied"}, Decide(o) PROVE Acc'.outcome = "error"
  BY <1>0, <1>6, DecideIs
<1>7. ASSUME NEW signal \in Signal, NEW raised \in BOOLEAN, NEW text \in BOOLEAN,
             EndOwnerTurn(signal, raised, text)
      PROVE  Acc'.outcome = "error"
  <2>1. /\ raised => Acc'.outcome = "error"
        /\ ~raised => Acc'.outcome = Worse(Acc.outcome, ClassifyEnding(signal, raised, text))
    BY <1>0, <1>7, EndOwnerIs
  <2> QED BY <1>0, <2>1 DEF Worse
<1>8. ASSUME NEW signal \in Signal, NEW raised \in BOOLEAN, NEW text \in BOOLEAN,
             NEW written \in BOOLEAN, EndEventTurn(signal, raised, text, written)
      PROVE  FALSE
  <2>1. phase = "working" /\ sent[turn] \in Event
    BY <1>0, <1>8, EndEventIs
  <2> QED BY <1>0, <2>1 DEF Standing
<1>9. CASE Kill \/ Stop
  BY <1>0, <1>9, DownKeeps
<1> QED BY <1>1, <1>2, <1>3, <1>4, <1>5, <1>6, <1>7, <1>8, <1>9
        DEF Next, Turns, Tools, Model

\* A turn that fails marks its record.
LEMMA OutcomeTaken ==
  ASSUME IInv, [Next]_vars, NEW n \in DOMAIN sent, NewlyFailed(n)
  PROVE  Acc'.outcome = "error"
<1>0. /\ TypeOK /\ Standing /\ Accounts /\ ended'[n] # ended[n] /\ ended'[n][1] = "error"
      /\ n \in 1..MaxTurns
  BY Bounds DEF IInv, NewlyFailed
<1>1. CASE World \/ Command \/ Spoken \/ Tools \/ UNCHANGED vars
  <2>1. ended' = ended
    BY <1>1 DEF World, Submit, GrowIdle, Tools, Ask, Decide, Publish, Published, Command, Spoken,
                vars, history
  <2> QED BY <1>0, <2>1
<1>2. CASE Continue \/ Displace
  BY <1>0, <1>2 DEF Continue, Displace
<1>3. ASSUME NEW m \in 1..Len(sent), Open(m) PROVE FALSE
  BY <1>0, <1>3, OpenIs DEF WasReset, WasOpened, DidNotOpen
<1>4. CASE Start
  BY <1>0, <1>3, <1>4, Bounds DEF Start
<1>5. CASE Closed
  <2>1. phase = "closing" /\ Open(turn)
    BY <1>5 DEF Closed
  <2>2. turn \in 1..Len(sent)
    BY <1>0, <2>1, Bounds DEF Standing, TypeOK
  <2> QED BY <1>3, <2>1, <2>2
<1>6. CASE Kill \/ Stop
  <2>1. PICK records : Down(records)
    BY <1>6 DEF Kill, Stop
  <2> QED BY <1>0, <2>1 DEF Down
<1>7. ASSUME NEW signal \in Signal, NEW raised \in BOOLEAN, NEW text \in BOOLEAN,
             ended' = [ended EXCEPT ![turn] =
                         <<ClassifyEnding(signal, raised, text),
                           text /\ ClassifyEnding(signal, raised, text) # "error">>]
      PROVE  ClassifyEnding(signal, raised, text) = "error"
  <2> DEFINE e == ClassifyEnding(signal, raised, text)
             x == <<e, text /\ e # "error">>
  <2>1. x[1] = e
    OBVIOUS
  <2> HIDE DEF e, x
  <2>2. ended' = [ended EXCEPT ![turn] = x]
    BY <1>7 DEF e, x
  <2>3. ended'[n] = (IF n = turn THEN x ELSE ended[n])
    BY <1>0, <2>2 DEF TypeOK
  <2>4. x[1] = "error"
    BY <1>0, <2>3
  <2> QED BY <2>1, <2>4 DEF e
<1>8. ASSUME NEW signal \in Signal, NEW raised \in BOOLEAN, NEW text \in BOOLEAN,
             EndOwnerTurn(signal, raised, text)
      PROVE  Acc'.outcome = "error"
  <2>1. ClassifyEnding(signal, raised, text) = "error"
    BY <1>7, <1>8 DEF EndOwnerTurn
  <2>2. /\ Acc.outcome \in Ending
        /\ raised => Acc'.outcome = "error"
        /\ ~raised => Acc'.outcome = Worse(Acc.outcome, ClassifyEnding(signal, raised, text))
    BY <1>0, <1>8, EndOwnerIs, OpenTypes
  <2> QED BY <2>1, <2>2 DEF Worse
<1>9. ASSUME NEW signal \in Signal, NEW raised \in BOOLEAN, NEW text \in BOOLEAN,
             NEW written \in BOOLEAN, EndEventTurn(signal, raised, text, written)
      PROVE  Acc'.outcome = "error"
  <2>1. ClassifyEnding(signal, raised, text) = "error"
    BY <1>7, <1>9 DEF EndEventTurn
  <2> QED BY <1>0, <1>9, <2>1, EndEventIs
<1> QED BY <1>1, <1>2, <1>4, <1>5, <1>6, <1>8, <1>9 DEF Next, Turns, Model

\* An error is on its session's record, and stays on it until that record is
\* written: no later turn of the session masks it (core.py _process_owner).
THEOREM ErrorsAreAlwaysRecorded == Spec => ErrorsAreRecorded
<1>1. IInv /\ [Next]_vars =>
        [(\E n \in DOMAIN sent : NewlyFailed(n)) \/ Carrying => acc'[1].outcome = "error"]_vars
  <2>1. ASSUME IInv, [Next]_vars PROVE
          (\E n \in DOMAIN sent : NewlyFailed(n)) \/ Carrying => acc'[1].outcome = "error"
    <3>1. acc'[1] = Acc'
      BY DEF Acc
    <3> QED BY <2>1, <3>1, OutcomeCarried, OutcomeTaken
  <2> QED BY <2>1
<1> QED BY <1>1, IInvAlways, PTL DEF Spec, ErrorsAreRecorded
===============================================================================
