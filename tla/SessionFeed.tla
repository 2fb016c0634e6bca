---------------------------- MODULE SessionFeed ----------------------------
(***************************************************************************)
(* The session feed: the workstation's publisher (a timer job that posts a *)
(* snapshot of the live coding sessions), the ntfy topic that caches the   *)
(* posts, and Henk's sessions_read tool, which polls the topic when asked. *)
(* Nothing connects the two ends but the frames, so what the owner is told *)
(* about the estate rests on the publisher's gates and heartbeat, on its   *)
(* state file, and on the reader's choice of a frame.                      *)
(***************************************************************************)
EXTENDS Integers, Sequences, FiniteSets, SequencesExt

CONSTANTS
  Setups,        \* <<publisher configuration file, Henk's sessions settings>>
  Worlds,        \* [agents, ages]: what herdr may list, whether claude-estate answers
  Runs,          \* the timer's process and one started by hand
  Real,          \* what realpath makes of a reported path that is a link
  Unsafe,        \* canonical paths too broad to be an allow root
  Repository,    \* canonical path -> owner of its origin, or NotGit
  OddPanes,      \* pane ids outside the shape Henk renders
  OddLabels,     \* labels outside that shape
  SessionCost, MarkCost, Budget,   \* the body budget, in abstract bytes
  Retention,     \* how long the server caches a frame
  ReadBudget,    \* frames a poll reads before it is cut short
  MaxAge, MaxClock, MaxFrames, MaxChanges, MaxFaults,
  Calm           \* bounds of a run: no change and no failure after Calm

VARIABLES
  cfg,      \* the publisher's configuration file
  henk,     \* Henk's settings
  now,
  estate,   \* what herdr would list now
  ages,     \* whether claude-estate answers now
  run,      \* the publisher processes
  lock,     \* holder of the advisory lock
  stored,   \* last.json: at most one [key, at], of the last acknowledged publish
  topic,    \* frames in the server's cache, in the order of its clock
  poll,     \* a sessions_read call between its two requests
  answer,   \* what a sessions_read call has just said
  \* History, read by no action of the program:
  served,   \* a run of this slot completed: published, or found nothing new
  missed,   \* slots in a row that passed unserved
  since,    \* when the estate or a source last changed
  changes, faults

publisher == <<run, lock, stored>>
history   == <<served, missed, since, changes, faults>>
vars == <<cfg, henk, now, estate, ages, run, lock, stored, topic, poll, answer,
          served, missed, since, changes, faults>>

None    == "none"
NotGit  == "not-git"
Unknown == -1   \* an age the estate CLI could not give

(* The bound on failures: so many, and none after Calm. *)
MayFail == faults < MaxFaults /\ now <= Calm

-----------------------------------------------------------------------------
(* Loading the two configurations *)

(* canonicalise: the path every gate decides on. *)
Canonical(path) == IF path \in DOMAIN Real THEN Real[path] ELSE path

(* Any files and any estate: the roots of a file are finitely many, and     *)
(* what herdr lists is a sequence of records.                               *)
Agents == UNION {Range(w.agents) : w \in Worlds}
ASSUME FeedAssumption ==
  /\ \A s \in Setups : /\ s = <<s[1], s[2]>>
                       /\ IsFiniteSet(s[1].allow) /\ s[1].unlisted \in BOOLEAN
  /\ \A s \in Setups : \A e \in s[1].allow : e.label # None /\ Len(Canonical(e.path)) \in Nat
  /\ \A w \in Worlds : w.agents \in Seq(Agents) /\ w.ages \in BOOLEAN
  /\ \A a \in Agents :
       /\ a = [pane |-> a.pane, status |-> a.status, cwd |-> a.cwd,
               foreground |-> a.foreground, age |-> a.age]
       /\ a.age \in Nat \cup {Unknown}
  /\ \A s \in Setups : {s[1].heartbeat, s[1].tick, s[2].stale, s[2].lookback} \subseteq Int
  /\ SessionCost \in Nat /\ MarkCost \in Nat /\ Budget \in Nat /\ MaxAge \in Nat
  /\ Retention \in Int /\ ReadBudget \in Int
  /\ None \notin Runs

(* _is_under: containment by whole segments. *)
Under(path, root) == IsPrefix(root, path)

(* load_config: a closed schema, positive durations, and allow roots that  *)
(* are labelled, distinct, and narrower than the unsafe roots.             *)
Loads(c) ==
  /\ c.unknown = {}
  /\ c.heartbeat > 0 /\ c.tick > 0
  /\ \A e \in c.allow : /\ e.label \notin OddLabels
                        /\ Canonical(e.path) \notin Unsafe
  /\ \A e, f \in c.allow : e.label = f.label => e = f

(* _validate_sessions_settings *)
HenkLoads(h) == /\ h.stale > 0 /\ h.lookback > 0
                /\ h.lookback >= h.stale

-----------------------------------------------------------------------------
(* The two gates *)

Denied(path) == \E d \in cfg.deny : Under(path, Canonical(d))
Allowing(path) == {e \in cfg.allow : Under(path, Canonical(e.path))}

(* root_gate: deny wins at any depth, else the longest root labels. *)
RootLabel(path) ==
  IF Denied(path) \/ Allowing(path) = {} THEN None
  ELSE (CHOOSE e \in Allowing(path) :
          \A f \in Allowing(path) :
             Len(Canonical(f.path)) <= Len(Canonical(e.path))).label

(* owner_gate: every failure of git is a refusal. *)
OwnerPasses(path, git) ==
  /\ git
  /\ \/ Repository[path] = NotGit
     \/ Repository[path] \in cfg.owners

(* classify: both gates, on every path a pane reports. *)
\* Slip: only the shell's directory is looked at.
ReportedShell(a) == {a.cwd}
Reported(a) == {a.cwd} \cup (IF a.foreground = <<>> THEN {} ELSE {a.foreground})
Admitted(a, git) ==
  \A p \in Reported(a) : /\ RootLabel(Canonical(p)) # None
                         /\ OwnerPasses(Canonical(p), git)

-----------------------------------------------------------------------------
(* The snapshot *)

(* session_order_key, as one number: the third band by age, unknown last. *)
Rank(s) == CASE s.status = "blocked" -> 0
             [] s.status = "working" -> 1
             [] OTHER -> IF s.age = Unknown THEN 3 + MaxAge ELSE 2 + s.age

(* The sort of degrade and of the reader's body, of the sessions at the     *)
(* indices I: stable, by that key.                                          *)
Before(ss, i, j) ==
  Rank(ss[i]) < Rank(ss[j]) \/ (Rank(ss[i]) = Rank(ss[j]) /\ i < j)
Place(ss, I, i) == Cardinality({j \in I : Before(ss, j, i)})
Ordered(ss, I) ==
  [k \in 1 .. Cardinality(I) |-> ss[CHOOSE i \in I : Place(ss, I, i) = k - 1]]

(* serialise measures; the mark of a degraded snapshot costs bytes too. *)
Bytes(kept, dropped) == SessionCost * kept + (IF dropped > 0 THEN MarkCost ELSE 0)

(* degrade: drop from the tail, measuring again after every drop. *)
\* Slip: measured without the mark.
DroppedUnmarked(n) == Min({d \in 0 .. n : d = n \/ SessionCost * (n - d) <= Budget})
Dropped(n) == Min({d \in 0 .. n : d = n \/ Bytes(n - d, d) <= Budget})

(* The two integers said of the sessions the gates refused.                *)
Blocked(I) == {i \in I : estate[i].status = "blocked"}
\* Slip: the blocked ones are left out of the count.
UnlistedApart(refused) ==
  <<Cardinality(refused \ Blocked(refused)), Cardinality(Blocked(refused))>>
Unlisted(refused) == <<Cardinality(refused), Cardinality(Blocked(refused))>>

(* parse_estate: without an age source, or a usable age, there is none.    *)
Dated(a) == [a EXCEPT !.age = IF ages THEN @ ELSE Unknown]

(* build_snapshot: four keys per admitted session.                         *)
SessionOf(a) == [pane |-> a.pane, project |-> RootLabel(Canonical(a.cwd)),
                 status |-> a.status, age |-> a.age]

Snapshot(git) ==
  LET admitted == {i \in DOMAIN estate : Admitted(estate[i], git)}
      refused  == DOMAIN estate \ admitted
      sorted   == Ordered([i \in DOMAIN estate |-> Dated(estate[i])], admitted)
      dropped  == Dropped(Len(sorted))
  IN  [ sessions |-> [k \in 1 .. Len(sorted) - dropped |-> SessionOf(sorted[k])],
        dropped  |-> dropped,
        ages     |-> ages,
        unlisted |-> IF cfg.unlisted THEN Unlisted(refused) ELSE <<>>,
        at       |-> now,
        about    |-> [agents |-> estate, git |-> git] ]   \* history

(* comparison_key: the snapshot without its time, its cadence and its ages. *)
Key(s) ==
  << [i \in DOMAIN s.sessions |->
        <<s.sessions[i].pane, s.sessions[i].project, s.sessions[i].status>>],
     s.dropped, s.ages, s.unlisted >>

(* should_publish *)
\* Slip: no heartbeat.
WantedOnChange(key) == \A s \in stored : key # s.key
\* Slip: the heartbeat is a tick late.
WantedLate(key) ==
  \A s \in stored : key # s.key \/ now - s.at > cfg.heartbeat
Wanted(key) ==
  \A s \in stored : \/ key # s.key
                    \/ (now - s.at) + cfg.tick > cfg.heartbeat

(* An answer of the tool: its row, and the lines of a shown snapshot. *)
Says(row) == [row |-> row, headline |-> None, listed |-> <<>>, filtered |-> 0,
              unusable |-> 0, notes |-> {}, frame |-> <<>>]
Quiet == Says("nothing yet")

-----------------------------------------------------------------------------
(* The publisher: one locked run at a time, one request per run *)

Idle == [pc |-> "idle", snap |-> <<>>]

(* How a run ends: the lock goes, whatever happened. *)
Ends(r, completed) ==
  /\ run' = [run EXCEPT ![r] = Idle]
  /\ lock' = None
  /\ served' = (served \/ completed)

(* tick, up to the publish decision: a git that does not answer denies     *)
(* every session, and a snapshot that is not wanted ends the run well.     *)
Start(r, git) ==
  /\ Loads(cfg)
  /\ run[r].pc = "idle" /\ lock = None
  /\ LET snap == Snapshot(git)
     IN  IF Wanted(Key(snap))
         THEN /\ run' = [run EXCEPT ![r] = [pc |-> "post", snap |-> snap]]
              /\ lock' = r
              /\ UNCHANGED served
         ELSE Ends(r, TRUE)
  /\ faults' = IF git THEN faults ELSE faults + 1
  /\ since' = IF git THEN since ELSE now
  /\ answer' = Quiet
  /\ UNCHANGED <<cfg, henk, now, estate, ages, stored, topic, poll,
                 missed, changes>>

(* EstateError: herdr fails, or one of its records is not usable. A partial *)
(* estate is not published.                                                *)
SourceFails(r) ==
  /\ Loads(cfg) /\ MayFail
  /\ run[r].pc = "idle" /\ lock = None
  /\ faults' = faults + 1
  /\ answer' = Quiet
  /\ UNCHANGED <<cfg, henk, now, estate, ages, publisher, topic, poll, served,
                 missed, since, changes>>

(* load_token: no request without a token, and no state written.           *)
NoToken(r) ==
  /\ run[r].pc = "post" /\ MayFail
  /\ Ends(r, FALSE)
  /\ faults' = faults + 1
  /\ answer' = Quiet
  /\ UNCHANGED <<cfg, henk, now, estate, ages, stored, topic, poll, missed,
                 since, changes>>

(* LockBusy: the other run is doing this tick's work. *)
Busy(r) ==
  /\ Loads(cfg)
  /\ run[r].pc = "idle" /\ lock # None
  /\ UNCHANGED vars

Frame(kind, snap) == [kind |-> kind, time |-> now, snap |-> snap]

(* publish: the one request. It reaches the server or not, and its answer  *)
(* comes back or not; anything but a 2xx ends the run with no state        *)
(* written.                                                                *)
Post(r, reaches, answered) ==
  /\ run[r].pc = "post"
  /\ topic' = IF reaches THEN Append(topic, Frame("snapshot", run[r].snap)) ELSE topic
  /\ IF reaches /\ answered
     THEN /\ run' = [run EXCEPT ![r].pc = "write"]
          /\ UNCHANGED <<lock, served>>
     ELSE Ends(r, FALSE)
  /\ faults' = IF reaches /\ answered THEN faults ELSE faults + 1
  /\ answer' = Quiet
  /\ UNCHANGED <<cfg, henk, now, estate, ages, stored, poll, missed, since, changes>>

(* write_state, once the publish was acknowledged. *)
Finish(r) ==
  /\ run[r].pc = "write"
  /\ stored' = {[key |-> Key(run[r].snap), at |-> run[r].snap.at]}
  /\ Ends(r, TRUE)
  /\ answer' = Quiet
  /\ UNCHANGED <<cfg, henk, now, estate, ages, topic, poll, missed, since,
                 changes, faults>>

(* The unit's start timeout, or a write that fails: the process is gone,   *)
(* and the lock with it.                                                   *)
Die(r) ==
  /\ run[r].pc # "idle" /\ MayFail
  /\ Ends(r, FALSE)
  /\ faults' = faults + 1
  /\ answer' = Quiet
  /\ UNCHANGED <<cfg, henk, now, estate, ages, stored, topic, poll, missed,
                 since, changes>>

(* A state file that reads back corrupt is a first run. *)
Corrupt ==
  /\ stored # {} /\ lock = None /\ MayFail
  /\ stored' = {}
  /\ faults' = faults + 1
  /\ answer' = Quiet
  /\ UNCHANGED <<cfg, henk, now, estate, ages, run, lock, topic, poll, served,
                 missed, since, changes>>

-----------------------------------------------------------------------------
(* The poll: one or two polls, one frame chosen, three lines said *)

(* The frames one poll reads: those of its window, oldest first, until the *)
(* read budget stops it.                                                   *)
Window(seconds) == {i \in DOMAIN topic : topic[i].time >= now - seconds}
Polled(seconds) ==
  {i \in Window(seconds) : Cardinality({j \in Window(seconds) : j < i}) < ReadBudget}
Cut(seconds)    == Cardinality(Window(seconds)) > ReadBudget

(* _consume: a candidate is a frame of this publisher, of any schema; what  *)
(* is none is counted.                                                      *)
Candidates(polled) == {i \in polled : topic[i].kind \in {"snapshot", "schema"}}
Skipped(polled)    == Cardinality({i \in polled : topic[i].kind = "other"})

(* What both polls of a call have met so far: the counts are summed.       *)
Tally(seconds, before) ==
  [ skipped |-> before.skipped + Skipped(Polled(seconds)),
    cut     |-> before.cut \/ Cut(seconds) ]
Nothing == [skipped |-> 0, cut |-> FALSE]

(* _headline *)
Headline(s) == IF now - s.at > henk.stale THEN "stale" ELSE "fresh"

(* _notes: what qualifies the listed sessions.                             *)
Notes(s, met, listed, filtered, unusable) ==
  {n \in {"ages", "degraded", "filtered", "unusable", "unlisted", "cut",
          "skipped", "drift", "caveat"} :
     CASE n = "ages"     -> ~s.ages
       [] n = "degraded" -> s.dropped > 0
       [] n = "filtered" -> filtered > 0
       [] n = "unusable" -> unusable > 0
       [] n = "unlisted" -> s.unlisted # <<>>
       [] n = "cut"      -> met.cut
       [] n = "skipped"  -> met.skipped > 0
       [] n = "drift"    -> cfg.heartbeat + 2 * cfg.tick > henk.stale
       [] n = "caveat"   -> listed > 0 /\ filtered = 0 /\ s.unlisted = <<>>}

(* _render, over the chosen frame: each reported session is unusable, else *)
(* filtered, else listed.                                                  *)
Shown(frame, met) ==
  LET s        == frame.snap
      usable   == {i \in DOMAIN s.sessions : /\ s.sessions[i].pane \notin OddPanes
                                             /\ s.sessions[i].project \notin OddLabels}
      listed   == {i \in usable : s.sessions[i].project \in henk.allow}
      filtered == Cardinality(usable \ listed)
      unusable == Cardinality(DOMAIN s.sessions \ usable)
  IN  [ row |-> "shown", headline |-> Headline(s),
        listed |-> Ordered(s.sessions, listed),
        filtered |-> filtered, unusable |-> unusable, frame |-> <<frame>>,
        notes |-> Notes(s, met, Cardinality(listed), filtered, unusable) ]

(* The end of _run: the newest candidate decides, an unknown schema is     *)
(* terminal, and with no candidate the counts say why.                     *)
Concluded(seconds, met) ==
  IF Candidates(Polled(seconds)) # {}
  THEN LET newest == topic[Max(Candidates(Polled(seconds)))]
       IN  IF newest.kind = "schema" THEN Says("G4") ELSE Shown(newest, met)
  ELSE IF met.skipped = 0 THEN Says("G2") ELSE Says("G3")

(* _run, stage one: no request at all on an empty allowlist; the second    *)
(* request only when the first met no candidate and would look further.    *)
Ask ==
  /\ HenkLoads(henk) /\ poll = <<>>
  /\ LET met == Tally(henk.stale, Nothing)
     IN  IF henk.allow # {} /\ Candidates(Polled(henk.stale)) = {}
               /\ henk.lookback # henk.stale
         THEN poll' = <<met>> /\ UNCHANGED answer
         ELSE /\ answer' = IF henk.allow = {} THEN Says("G0")
                           ELSE Concluded(henk.stale, met)
              /\ UNCHANGED poll
  /\ UNCHANGED <<cfg, henk, now, estate, ages, publisher, topic, history>>

AskFurther ==
  /\ poll # <<>>
  /\ answer' = Concluded(henk.lookback, Tally(henk.lookback, poll[1]))
  /\ poll' = <<>>
  /\ UNCHANGED <<cfg, henk, now, estate, ages, publisher, topic, history>>

(* A request of either stage fails. *)
AskFails ==
  /\ HenkLoads(henk) /\ henk.allow # {} /\ MayFail
  /\ answer' = Says("G1")
  /\ poll' = <<>>
  /\ faults' = faults + 1
  /\ UNCHANGED <<cfg, henk, now, estate, ages, publisher, topic, served, missed,
                 since, changes>>

-----------------------------------------------------------------------------
(* The rest of the world *)

(* The timer's slots are cfg.tick long and a run takes seconds, as a call   *)
(* does: time passes between them. A slot nobody served is a missed one:    *)
(* the machine slept (the timer is not persistent), or its run failed. The  *)
(* server forgets what is older than its cache, and that comes first.       *)
Forgotten(time) == Cardinality({i \in DOMAIN topic : topic[i].time < time})
Tick ==
  /\ now < MaxClock
  /\ \A r \in Runs : run[r].pc = "idle"
  /\ poll = <<>>
  /\ now' = now + 1
  /\ IF (now + 1) % cfg.tick = 0
     THEN /\ missed' = IF served THEN 0 ELSE Min({missed + 1, 3})
          /\ since' = IF served THEN since ELSE now + 1
          /\ served' = FALSE
     ELSE UNCHANGED <<missed, since, served>>
  /\ answer' = Quiet
  /\ topic' = SubSeq(topic, Forgotten(now + 1 - Retention) + 1, Len(topic))
  /\ UNCHANGED <<cfg, henk, estate, ages, publisher, poll, changes, faults>>

(* Sessions come, go, move and change status; claude-estate stops and       *)
(* resumes answering.                                                       *)
WorldChanges ==
  /\ changes < MaxChanges /\ now <= Calm
  /\ \E w \in Worlds : estate' = w.agents /\ ages' = w.ages
  /\ changes' = changes + 1
  /\ since' = now
  /\ answer' = Quiet
  /\ UNCHANGED <<cfg, henk, now, publisher, topic, poll, served, missed, faults>>

(* Anything else that writes the topic: a body that does not parse or names *)
(* another publisher (both only counted), or a schema of another version.   *)
Stray(kind) ==
  /\ Len(topic) < MaxFrames /\ MayFail
  /\ topic' = Append(topic, Frame(kind, <<>>))
  /\ faults' = faults + 1
  /\ answer' = Quiet
  /\ UNCHANGED <<cfg, henk, now, estate, ages, publisher, poll, served, missed,
                 since, changes>>

-----------------------------------------------------------------------------
Init ==
  /\ \E s \in Setups : cfg = s[1] /\ henk = s[2]
  /\ now = 0
  /\ \E w \in Worlds : estate = w.agents /\ ages = w.ages
  /\ run = [r \in Runs |-> Idle]
  /\ lock = None
  /\ stored = {}
  /\ topic = <<>>
  /\ poll = <<>>
  /\ answer = Quiet
  /\ served = FALSE /\ missed = 0 /\ since = 0
  /\ changes = 0 /\ faults = 0

Publish(r) ==
  \/ \E git \in BOOLEAN : (git \/ MayFail) /\ Start(r, git)
  \/ SourceFails(r)
  \/ NoToken(r)
  \/ Busy(r)
  \/ \E reaches, answered \in BOOLEAN :
       /\ Len(topic) < MaxFrames
       /\ (reaches /\ answered) \/ MayFail
       /\ Post(r, reaches, answered)
  \/ Finish(r)
  \/ Die(r)

Next ==
  \/ \E r \in Runs : Publish(r)
  \/ Corrupt
  \/ Ask \/ AskFurther \/ AskFails
  \/ Tick \/ WorldChanges
  \/ \E kind \in {"other", "schema"} : Stray(kind)

Spec == Init /\ [][Next]_vars

-----------------------------------------------------------------------------
(* Properties *)

TypeOK ==
  /\ <<cfg, henk>> \in Setups
  /\ now \in 0 .. MaxClock
  /\ \E w \in Worlds : estate = w.agents /\ ages = w.ages
  /\ \A r \in Runs : run[r].pc \in {"idle", "post", "write"}
  /\ lock \in Runs \cup {None}
  /\ Cardinality(stored) <= 1
  /\ Len(topic) <= MaxFrames /\ Len(poll) <= 1
  /\ missed \in 0 .. 3 /\ since \in 0 .. now

(* A path the owner did not clear for sharing: under a deny root, under no  *)
(* allow root but an unsafe one, or in somebody else's repository.          *)
Private(path) ==
  \/ \E d \in cfg.deny : Under(Canonical(path), Canonical(d))
  \/ \A e \in cfg.allow : Under(Canonical(path), Canonical(e.path))
                            => Canonical(e.path) \in Unsafe
  \/ Repository[Canonical(path)] \notin cfg.owners \cup {NotGit}

(* No session is told to the owner's chat of which any reported path was    *)
(* private when the snapshot was taken, nor one whose label Henk does not   *)
(* allow; whatever the links, the excursions of a pane's foreground, the    *)
(* failures of git and the file the publisher was given.                    *)
NothingPrivateIsTold ==
  \A i \in DOMAIN answer.listed :
     /\ answer.listed[i].project \in henk.allow
     /\ \E a \in Range(answer.frame[1].snap.about.agents) :
          /\ a.pane = answer.listed[i].pane
          /\ \A p \in {a.cwd, a.foreground} \ {<<>>} : ~Private(p)

(* The owner is told the workstation is probably asleep only when it is: at *)
(* least two timer slots in a row passed with no run that completed. One    *)
(* lost run, the timer's jitter and the heartbeat's rounding never add up   *)
(* to a stale report, unless the notes say the cadence is too slow or the   *)
(* poll was cut short.                                                      *)
StaleMeansStopped ==
  [][ answer' # answer /\ answer'.headline = "stale"
        /\ answer'.notes \cap {"drift", "cut"} = {}
      => missed >= 2 ]_vars

(* Every session the snapshot was taken from is in exactly one of the       *)
(* populations the answer counts, the publisher's two included.             *)
EverySessionIsCounted ==
  answer.row = "shown" /\ cfg.unlisted =>
    LET s == answer.frame[1].snap
    IN  Len(s.about.agents) = Len(answer.listed) + answer.filtered
                                + answer.unusable + s.dropped + s.unlisted[1]

(* A posted body fits the budget, no more sessions were dropped than that   *)
(* takes, and a blocked session is never dropped for one that is not.       *)
WellCut(s) ==
  LET panes == {x.pane : x \in Range(s.sessions)}
      lost  == {a \in Range(s.about.agents) :
                  /\ s.about.git /\ a.pane \notin panes
                  /\ \A p \in Reported(a) : ~Private(p)}
  IN  /\ s.sessions # <<>> => Bytes(Len(s.sessions), s.dropped) <= Budget
      /\ s.dropped > 0 => Bytes(Len(s.sessions) + 1, s.dropped - 1) > Budget
      /\ \A a \in lost, x \in Range(s.sessions) :
           a.status = "blocked" => x.status = "blocked"
UrgentIsKept ==
  \A i \in DOMAIN topic : topic[i].kind = "snapshot" => WellCut(topic[i].snap)

(* What the budget leaves out is neither hidden nor ill chosen.             *)
DroppingIsHonest == EverySessionIsCounted /\ UrgentIsKept

Ours == {i \in DOMAIN topic : topic[i].kind = "snapshot"}

(* When the estate and its sources have not changed, and no slot was        *)
(* missed, for a heartbeat and a tick, the newest snapshot of the topic is  *)
(* the estate's, even if a publish in between reached the server and its    *)
(* answer did not come back, or the state file was lost.                    *)
ReportConverges ==
  Loads(cfg) /\ now - since >= cfg.heartbeat + cfg.tick =>
    Ours # {} /\ Key(topic[Max(Ours)].snap) = Key(Snapshot(TRUE))

(* What the module docstring of the publisher says of the state file: that  *)
(* it names the last snapshot the topic carries.                            *)
StoredIsCarried ==
  \A s \in stored :
    lock = None => Ours # {} /\ Key(topic[Max(Ours)].snap) = s.key

=============================================================================
