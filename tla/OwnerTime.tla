----------------------------- MODULE OwnerTime ------------------------------
(***************************************************************************)
(* What a submitted time means on the owner's clock                        *)
(* (henk/reminders/timeparse.py): the classification of a local reading,   *)
(* the three families of forms, and the search for the next occurrence of  *)
(* a bare clock reading.                                                   *)
(*                                                                         *)
(* An instant and a local reading are integers, counted in minutes of a    *)
(* short day.  A zone has one transition: `before` and `after` are its     *)
(* offsets, `at` the instant it changes.  What zoneinfo does with a        *)
(* reading (PEP 495) is FoldOffset.  A string is the record of what its    *)
(* shape says; the wording of an answer is left out.                       *)
(***************************************************************************)
EXTENDS Integers, FiniteSets

CONSTANTS
  DayLength,   \* minutes in a day
  Zones,       \* the zones an owner may live in
  Magnitudes,  \* magnitudes of a relative offset
  DaysAhead,   \* how many days ahead a dated reading may lie
  HorizonDays, \* horizon_days
  Skew,        \* clock_skew_tolerance_seconds
  Instants     \* the instants at which something may be asked

ASSUME OwnerTimeAssumption ==
  /\ DayLength \in Nat \ {0} /\ HorizonDays \in Nat \ {0}
  /\ Skew \in Nat /\ DaysAhead \in Nat
  /\ Magnitudes \subseteq Nat /\ Instants \subseteq Int
  /\ Zones \subseteq [at : Int, before : Int, after : Int]

VARIABLES
  zone,    \* the configured zone
  now,     \* the one reading of the clock
  asked,   \* what was asked, and on which path; or the idle value
  answer   \* the resolution

timeVars == <<zone, now, asked, answer>>

-----------------------------------------------------------------------------
(* The zone *)

Least(S) == CHOOSE x \in S : \A y \in S : x <= y
Greatest(S) == CHOOSE x \in S : \A y \in S : x >= y

Offset(i) == IF i < zone.at THEN zone.before ELSE zone.after
WallAt(i) == i + Offset(i)

\* The offset zoneinfo gives a reading: with fold 0 the old one until the later
\* of the transition's two readings, with fold 1 until the earlier.
FoldOffset(reading, fold) ==
  LET edges == {zone.at + zone.before, zone.at + zone.after}
      edge == IF fold = 0 THEN Greatest(edges) ELSE Least(edges)
  IN  IF reading < edge THEN zone.before ELSE zone.after

InstantOf(reading, fold) == reading - FoldOffset(reading, fold)

\* Slip: the round trip alone.
ClassifyByRoundTrip(reading) ==
  IF WallAt(InstantOf(reading, 0)) = reading THEN "normal" ELSE "imaginary"

\* Two offsets single out the readings of a transition; the round trip through
\* UTC tells a gap from a repetition.
Classify(reading) ==
  IF FoldOffset(reading, 0) = FoldOffset(reading, 1) THEN "normal"
  ELSE IF WallAt(InstantOf(reading, 0)) = reading THEN "ambiguous"
  ELSE "imaginary"

\* Bisection between the two instants of an imaginary reading.
Transition(reading) ==
  LET new == FoldOffset(reading, 1)
      low == InstantOf(reading, 1)
      high == InstantOf(reading, 0)
      search[span \in (low..high) \X (low..high)] ==
        LET lo == span[1]  hi == span[2]  mid == (lo + hi) \div 2
        IN  IF lo + 1 >= hi THEN hi
            ELSE IF Offset(mid) = new THEN search[<<lo, mid>>] ELSE search[<<mid, hi>>]
  IN  search[<<low, high>>]

\* Slip: the neighbours a fixed step away.
NeighboursByStep(reading) == [before |-> reading - 1, after |-> reading + 1]

\* The last reading before the gap and the first one after it.
Neighbours(reading) ==
  LET jump == Transition(reading) IN [before |-> WallAt(jump - 1), after |-> WallAt(jump)]

-----------------------------------------------------------------------------
(* What is asked *)

DayOf(reading) == reading \div DayLength
TimeOfDay(reading) == reading % DayLength

None == [form |-> "none"]
Duration == [form : {"duration"}, value : Magnitudes]
Dated == {[form |-> "dated", value |-> r] :
            r \in UNION {(DayOf(i) * DayLength)..((DayOf(i) + DaysAhead + 1) * DayLength - 1)
                           : i \in Instants}}
\* The last value is no clock time.
Clock == [form : {"clock"}, value : 0..DayLength]
\* Shapes refused before anything is parsed, and a dated form of no real date.
Unreadable == [form : {"offset-carrying", "date-only", "unrecognized", "no-real-date"}]
Path == {"tool", "command"}
Question == [when : Duration \cup Dated \cup Clock \cup Unreadable, path : Path]

Resolved(due, which) == [ok |-> TRUE, due |-> due, which |-> which]
Refused(why) == [ok |-> FALSE, why |-> why]
Gap(reading) == [ok |-> FALSE, why |-> "imaginary", reading |-> reading,
                 neighbours |-> Neighbours(reading)]
NoAnswer == Refused("nothing asked")

-----------------------------------------------------------------------------
(* The resolver *)

WithinHorizon(due) == due <= now + HorizonDays * DayLength
PastAllowed(due) == due >= now - Skew

\* A chosen instant is the search's; without one the first occurrence is taken.
Evaluated(reading, chosen) ==
  LET first == InstantOf(reading, 0)
      due == IF chosen = {} THEN first ELSE Least(chosen)
  IN  CASE Classify(reading) = "imaginary" -> Gap(reading)
        [] Classify(reading) = "normal" -> Resolved(due, "")
        [] Classify(reading) = "ambiguous" ->
             Resolved(due, IF due = first THEN "first" ELSE "second")

Bounded(resolution) ==
  IF resolution.ok /\ ~WithinHorizon(resolution.due)
  THEN Refused("beyond-horizon") ELSE resolution

ResolveDuration(n) ==
  IF n = 0 THEN Refused("duration-zero") ELSE Bounded(Resolved(now + n, ""))

ResolveDated(reading) ==
  LET resolution == Evaluated(reading, {})
  IN  IF resolution.ok /\ ~PastAllowed(resolution.due)
      THEN Refused("past") ELSE Bounded(resolution)

\* The instants of the reading on that date that are still to come.
Candidates(day, time) ==
  {i \in {InstantOf(day * DayLength + time, fold) : fold \in {0, 1}} : i > now}

\* Slip: only the first occurrence of a repeated reading is considered.
ResolveClockByFirst(time) ==
  LET today == DayOf(WallAt(now))
      day == IF InstantOf(today * DayLength + time, 0) > now THEN today ELSE today + 1
  IN  IF time >= DayLength THEN Refused("invalid-clock-reading")
      ELSE Bounded(Evaluated(day * DayLength + time,
                             {InstantOf(day * DayLength + time, 0)}))

\* Selection first, then the evaluation; at most one date forward.
ResolveClock(time) ==
  LET today == DayOf(WallAt(now))
      day == IF Candidates(today, time) # {} THEN today ELSE today + 1
  IN  IF time >= DayLength THEN Refused("invalid-clock-reading")
      ELSE IF Candidates(day, time) = {} THEN Refused("clock-reading-unreachable")
      ELSE Bounded(Evaluated(day * DayLength + time, Candidates(day, time)))

Resolution(question) ==
  LET when == question.when
  IN  CASE when.form = "duration" -> ResolveDuration(when.value)
        [] when.form = "dated" -> ResolveDated(when.value)
        [] when.form = "no-real-date" -> Refused("invalid-calendar-value")
        [] when.form = "clock" /\ question.path = "command" -> ResolveClock(when.value)
        [] when.form = "clock" /\ question.path = "tool" -> Refused("bare-clock-on-tool-path")
        [] OTHER -> Refused(when.form)

-----------------------------------------------------------------------------
TimeInit ==
  /\ zone \in Zones
  /\ now \in Instants
  /\ asked = None
  /\ answer = NoAnswer

Resolve(question) ==
  /\ asked = None
  /\ asked' = question
  /\ answer' = Resolution(question)
  /\ UNCHANGED <<zone, now>>

TimeNext == \E question \in Question : Resolve(question)

TimeSpec == TimeInit /\ [][TimeNext]_timeVars

-----------------------------------------------------------------------------
(* Properties: what the owner's own clock shows *)

Asked(form) == asked # None /\ asked.when.form = form

\* The instants at which the owner's clock shows this reading.
Shown(reading) ==
  {i \in (reading - Greatest({zone.before, zone.after}))
           ..(reading - Least({zone.before, zone.after})) : WallAt(i) = reading}

\* The answer says which of its occurrences the reading is, when it has two.
Disclosed(due) ==
  answer.which =
    LET all == Shown(WallAt(due))
    IN  IF Cardinality(all) < 2 THEN "" ELSE IF due = Least(all) THEN "first" ELSE "second"

\* An accepted time is one the owner's clock will show: a dated reading its
\* first occurrence, a bare reading its next one, not a day later than the first
\* that exists and not in the other pass of a repeated hour; a relative offset
\* has exactly its length.  What occurs twice is disclosed (timeparse.py
\* _evaluate, _select_candidate, _resolve_duration).
MeansWhatItShows ==
  answer.ok =>
    /\ Disclosed(answer.due) \/ Asked("duration")
    /\ Asked("duration") => answer.due - now = asked.when.value
    /\ Asked("dated") => answer.due = Least(Shown(asked.when.value))
    /\ Asked("clock") =>
         /\ answer.due > now
         /\ TimeOfDay(WallAt(answer.due)) = asked.when.value
         /\ \A i \in (now + 1)..(answer.due - 1) : TimeOfDay(WallAt(i)) # asked.when.value

\* A time is refused for the clocks only if they skip it, and the two readings
\* named instead exist and are the nearest that do (timeparse.py gap_neighbours).
SkippedIsSkipped ==
  ~answer.ok /\ answer.why = "imaginary" =>
    LET r == answer.reading  near == answer.neighbours
    IN  /\ Shown(r) = {}
        /\ near.before < r /\ Shown(near.before) # {}
        /\ near.after > r /\ Shown(near.after) # {}
        /\ \A x \in (near.before + 1)..(near.after - 1) : Shown(x) = {}

\* What the owner is told of a time, or refused for one, is what his clock will show.
ClockIsTheOwners == MeansWhatItShows /\ SkippedIsSkipped

\* "for a reading that fell inside that date's gap and has already passed ...
\* scheduled for that reading on the following date, which exists, rather than
\* being refused as nonexistent" (openspec/specs/reminders/spec.md:291).
PassedGapIsTomorrow ==
  Asked("clock") /\ ~answer.ok /\ answer.why = "imaginary" => WallAt(now) < answer.reading
=============================================================================
