--------------------------- MODULE HandoffDigest ---------------------------
(***************************************************************************)
(* Which earlier hand-offs an event turn is shown: the identity of an      *)
(* alert, the incidents of a turn, the relation of an archived hand-off to *)
(* them, the order in which hand-offs compete for a place, the greedy fill *)
(* of the digest's room and what the turn is told of each reference.  No   *)
(* state: HenkStore reads its archive through these operators.             *)
(*                                                                         *)
(* A row of the archive is                                                 *)
(*   [id, mid, at, keys, rules, nodes, size]                               *)
(* with mid the id of the published message, NoId where it has none, and   *)
(* size the length of its document.  An event is [source, name, scope,     *)
(* nodes], scope being NoScope unless the rule of the alert asks for one.  *)
(***************************************************************************)
EXTENDS Integers, Sequences, FiniteSets

CONSTANTS
  MaxEntries,    \* DIGEST_MAX_ENTRIES
  EntryChars,    \* DIGEST_ENTRY_MAX_CHARS
  RefChars,      \* DIGEST_RECURRENCE_MAX_CHARS
  MaxChars,      \* DIGEST_MAX_CHARS
  HeadChars,     \* what the digest's header takes
  EntryHead,     \* what an entry's header takes
  MarkChars,     \* what either marker takes, "shortened" or "omitted"
  Window         \* RECENT_WINDOW_SECONDS

ASSUME DigestAssumption ==
  /\ {MaxEntries, EntryChars, RefChars, MaxChars, HeadChars, EntryHead, MarkChars, Window} \subseteq Nat
  /\ MaxEntries > 0

NoId == "no id"
NoScope == "no scope"
RECENT_MAX_ENTRIES == 2

\* The members of S in the order Before, which must be total and strict on it.
InOrder(S, Before(_, _)) ==
  [n \in 1..Cardinality(S) |->
     CHOOSE x \in S : Cardinality({y \in S : Before(y, x)}) = n - 1]
Newer(a, b) == a.at > b.at \/ (a.at = b.at /\ a.id > b.id)

-----------------------------------------------------------------------------
(* Identities and incidents.                                               *)

\* One alert name firing for several subjects has several identities, and one rule.
IdentityKey(event) == <<event.source, event.name, event.scope>>
RuleKey(event) ==
  IF event.source = "grafana" THEN <<event.source, event.name, NoScope>> ELSE IdentityKey(event)
\* What a session started by these events is about.
Context(events) ==
  [keys  |-> {IdentityKey(e) : e \in events},
   rules |-> {RuleKey(e) : e \in events},
   nodes |-> UNION {e.nodes : e \in events}]

-----------------------------------------------------------------------------
(* Relations.                                                              *)

Relation(h, context) ==
  IF h.keys \cap context.keys # {}        THEN "same identity"
  ELSE IF h.rules \cap context.rules # {} THEN "same rule"
  ELSE IF h.nodes \cap context.nodes # {} THEN "same node"
  ELSE "none"
Rank == [r \in {"same identity", "same rule", "same node"} |->
           CASE r = "same identity" -> 0 [] r = "same rule" -> 1 [] OTHER -> 2]

\* Every related hand-off once, at its best rank, newest first within a rank.
RankRelated(hs, context, exclude) ==
  LET related == {h \in hs : h.id \notin exclude /\ Relation(h, context) # "none"}
      Best(a, b) ==
        LET ra == Rank[Relation(a, context)]
            rb == Rank[Relation(b, context)]
        IN ra < rb \/ (ra = rb /\ Newer(a, b))
  IN InOrder(related, Best)

\* The hand-offs published shortly before, whatever they are about: the newest and
\* the oldest are placed, the others are not.
InWindow(hs, now, exclude) ==
  {h \in hs : h.id \notin exclude /\ now - h.at \in 0..Window}
Placed(hs, now, exclude) ==
  LET window == InOrder(InWindow(hs, now, exclude), Newer)
  IN IF Len(window) <= RECENT_MAX_ENTRIES THEN window
     ELSE SubSeq(window, 1, RECENT_MAX_ENTRIES - 1) \o <<window[Len(window)]>>
Unplaced(hs, now, exclude) ==
  LET placed == Placed(hs, now, exclude)
  IN InWindow(hs, now, exclude) \ {placed[i] : i \in DOMAIN placed}

-----------------------------------------------------------------------------
(* Rendering.  A candidate is [row, why, bound].                           *)

EntrySize(candidate) ==
  LET size == candidate.row.size
  IN EntryHead + IF size > candidate.bound THEN candidate.bound + MarkChars ELSE size

\* Greedy, in order: one that does not fit is skipped whole, and a later, smaller one
\* may still fit.  Gives the room used and the candidates shown.
Fill(candidates, reserve) ==
  LET filled[n \in 0..Len(candidates)] ==
        IF n = 0 THEN [used |-> HeadChars + reserve, shown |-> <<>>]
        ELSE LET before == filled[n - 1]
                 cost == EntrySize(candidates[n])
             IN IF Len(before.shown) >= MaxEntries \/ before.used + cost > MaxChars THEN before
                ELSE [used |-> before.used + cost, shown |-> Append(before.shown, candidates[n])]
  IN filled[Len(candidates)]

\* The omission marker has its room reserved, once it is known to be needed.
RenderDigest(recurrence, placed, related, extraOmitted) ==
  LET candidates ==
        [i \in DOMAIN recurrence |-> [row |-> recurrence[i], why |-> "recurrence", bound |-> RefChars]]
        \o [i \in DOMAIN placed |-> [row |-> placed[i], why |-> "same window", bound |-> EntryChars]]
        \o [i \in DOMAIN related |-> [row |-> related[i], why |-> "related", bound |-> EntryChars]]
      first == Fill(candidates, 0)
      final == IF Len(first.shown) < Len(candidates) \/ extraOmitted > 0
               THEN Fill(candidates, MarkChars) ELSE first
      nothing == [shown |-> <<>>, omitted |-> 0, chars |-> 0]
  IN IF candidates = <<>> \/ final.shown = <<>> THEN nothing
     ELSE [shown   |-> [i \in DOMAIN final.shown |-> final.shown[i].row.id],
           omitted |-> Len(candidates) - Len(final.shown) + extraOmitted,
           chars   |-> final.used]

-----------------------------------------------------------------------------
(* Reading.  found[ref] is the row the archive has for a reference, in a   *)
(* set of at most one, eligible what it holds within retention.            *)

ReadDigest(refs, found, eligible, context, now) ==
  LET some == {i \in DOMAIN refs : found[refs[i]] # {}}
      RowOf(i) == CHOOSE h \in found[refs[i]] : TRUE
      reference == IF some = {} THEN <<>>
                   ELSE <<RowOf(CHOOSE i \in some : \A j \in some : i <= j)>>
      exclude == {reference[i].id : i \in DOMAIN reference}
      all == eligible \cup {RowOf(i) : i \in some}
      placed == Placed(all, now, exclude)
      aside == {h \in Unplaced(all, now, exclude) : Relation(h, context) = "none"}
      related == RankRelated(all, context, exclude \cup {placed[i].id : i \in DOMAIN placed})
      digest == RenderDigest(reference, placed, related, Cardinality(aside))
      shown == {digest.shown[i] : i \in DOMAIN digest.shown}
      State(ref) ==
        IF found[ref] = {} THEN "not retained"
        ELSE LET id == (CHOOSE h \in found[ref] : TRUE).id
             IN IF id \notin shown THEN "omitted"
                ELSE IF id \in exclude /\ digest.shown[1] = id THEN "reference" ELSE "shown"
  IN [shown |-> digest.shown, omitted |-> digest.omitted, chars |-> digest.chars,
      refs |-> [i \in DOMAIN refs |-> State(refs[i])]]
=============================================================================
