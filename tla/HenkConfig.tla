----------------------------- MODULE HenkConfig -----------------------------
(***************************************************************************)
(* Loading the configuration (henk/config.py), and the toolset built from  *)
(* it (henk/tools/__init__.py): what each section reads, the order of the  *)
(* refusals and the settings each one names, the prompt that enumerates    *)
(* the tools and the registry that holds them.                             *)
(*                                                                         *)
(* A YAML value is [kind, n]; a number counts halves, so that truncation   *)
(* shows.  A string is what the checks tell apart about it.  The file is   *)
(* raw[section][key]; raw[section]["section"] is what the section itself   *)
(* is.  The message of a refusal is the settings it names, and a refusal   *)
(* that names none is an exception no one reworded.                        *)
(***************************************************************************)
EXTENDS Integers, Sequences, FiniteSets, TLC

CONSTANTS
  Bases,  \* the deployments' files
  Edits,  \* what an operator has written into one: sets of <<section, key, value>>
  Words   \* what a flag may be changed to

VARIABLES
  raw,      \* the file as written
  outcome,  \* what loading it gave
  prompt,   \* the tools the session prompt enumerates
  tools,    \* the names of the registry, in order
  flip      \* the flag changed since, and the outcome before

configVars == <<raw, outcome, prompt, tools, flip>>

-----------------------------------------------------------------------------
(* Values *)

Value(kind, n) == [kind |-> kind, n |-> n]
Number(x) == Value("number", 2 * x)
Half == Value("number", 1)
Quoted(x) == Value("quoted", 2 * x)
Flag(on) == Value("flag", IF on THEN 2 ELSE 0)
NaN == Value("nan", 0)
Infinity == Value("infinity", 0)
Absent == Value("absent", 0)
Null == Value("null", 0)
Blank == Value("blank", 0)
Word == Value("word", 0)        \* one plain word: a name, a url, an id
TwoWords == Value("pair", 0)    \* with a comma or a slash in it
Region == Value("region", 0)    \* a zone key that is known
NoRegion == Value("no-region", 0) \* of the right shape, and unknown
Host == Value("host", 0)        \* "localtime", "UTC": resolves, and names no region
Level == Value("level", 0)      \* a member of the enumeration
List == Value("list", 0)        \* of strings
OddList == Value("odd-list", 0) \* holding something else
Mapping == Value("mapping", 0)

Strings == {"quoted", "blank", "word", "pair", "region", "no-region", "host", "level"}
Truthy(v) == v.kind \notin {"absent", "null", "blank"} /\ (v.kind \in {"number", "flag"} => v.n # 0)

\* The exceptions of a coercion, told apart by who catches them.
Mistake == Value("type-or-value", 0)
Overflow == Value("overflow", 0)
Fails(v) == v.kind \in {"type-or-value", "overflow"}

AsFloat(v) ==
  CASE v.kind \in {"number", "quoted", "flag"} -> Value("number", v.n)
    [] v.kind \in {"nan", "infinity"} -> v
    [] OTHER -> Mistake

AsInt(v) ==
  CASE v.kind \in {"number", "quoted", "flag"} ->
         Value("number", IF v.n >= 0 THEN 2 * (v.n \div 2) ELSE -(2 * ((-v.n) \div 2)))
    [] v.kind = "infinity" -> Overflow
    [] OTHER -> Mistake

Cast(cast, v) == IF cast = "int" THEN AsInt(v) ELSE AsFloat(v)

\* Every comparison with NaN is false.
Below(v, w) ==
  /\ v.kind = "number"
  /\ w.kind = "infinity" \/ (w.kind = "number" /\ v.n < w.n)
AtMost(v, w) == Below(v, w) \/ (v = w /\ v.kind \in {"number", "infinity"})

-----------------------------------------------------------------------------
(* The settings and their defaults *)

OwnerConfig == [id |-> Absent, timezone |-> Absent]
AgentConfig ==
  [model |-> Word, effort |-> Level, thinking |-> Level, event_model |-> Absent,
   event_effort |-> Absent, event_thinking |-> Absent, idle_timeout_seconds |-> Number(3600),
   approval_timeout_seconds |-> Number(300), system_prompt |-> Absent]
SignalConfig ==
  [bridge_url |-> Absent, account |-> Absent, safe_length |-> Number(2000),
   send_timeout_seconds |-> Number(10), open_timeout_seconds |-> Number(30),
   acknowledge_owner |-> Flag(TRUE), acknowledge_timeout_seconds |-> Number(5),
   styled_prompts |-> Flag(FALSE)]
EndpointConfig == [base_url |-> Absent, timeout_seconds |-> Number(10)]
NtfyConfig ==
  [base_url |-> Absent, topic |-> Absent, timeout_seconds |-> Number(10),
   keepalive_interval_seconds |-> Number(45)]
EventsConfig ==
  [enabled |-> Flag(FALSE), events_topic |-> Word, handoffs_topic |-> Word,
   debounce_seconds |-> Number(120), cooldown_seconds |-> Number(21600),
   recurrence_window_seconds |-> Number(86400), cap_per_24h |-> Number(3),
   cooldown_overrides |-> Absent, liveness_deadline_seconds |-> Number(135),
   liveness_report_interval_seconds |-> Number(3600)]
GateConfig == [demote_standing |-> Flag(FALSE)]
StoreConfig ==
  [path |-> Word, memory_pinned_cap |-> Number(50), memory_agent_cap |-> Number(20),
   fact_length_limit |-> Number(500), recall_render_limit |-> Number(8000),
   inbox_page_size |-> Number(20)]
RemindersConfig ==
  [enabled |-> Flag(FALSE), max_pending |-> Number(100), text_length_limit |-> Number(500),
   horizon_days |-> Number(365), clock_skew_tolerance_seconds |-> Number(120),
   page_size |-> Number(20), poll_interval_seconds |-> Number(30),
   retry_floor_seconds |-> Number(900), crash_attempt_limit |-> Number(3),
   late_grace_seconds |-> Number(86400), late_delivery_threshold_seconds |-> Number(300),
   report_horizon_seconds |-> Number(86400), tick_delivery_limit |-> Number(10),
   note_window_seconds |-> Number(43200), note_max_items |-> Number(10)]
PersonalDataConfig ==
  [todo_note_allowlist |-> Absent, docs_path_allowlist |-> Absent,
   session_project_allowlist |-> Absent, calendar_creator_allowlist |-> Absent]
HomelabQueryConfig == [enabled |-> Flag(TRUE), query_range_max_points |-> Number(60)]
HomelabDocsConfig ==
  [enabled |-> Flag(FALSE), path |-> Absent, stamp_max_age_seconds |-> Number(93600),
   read_byte_budget |-> Number(8000), search_result_count |-> Number(5)]
SessionsConfig ==
  [enabled |-> Flag(FALSE), topic |-> Word, stale_after_seconds |-> Number(1500),
   lookback_seconds |-> Number(21600)]
CalendarConfig ==
  [enabled |-> Flag(FALSE), calendar_id |-> Absent, hold_alerts |-> Flag(TRUE),
   lookahead_days |-> Number(14), refresh_seconds |-> Number(300),
   grace_minutes |-> Number(30), max_window_hours |-> Number(8),
   stale_after_seconds |-> Number(21600), timeout_seconds |-> Number(10),
   unknown |-> Absent]
TriageRecordingConfig == [enabled |-> Flag(TRUE), unknown |-> Absent]
ReplayConfig == [judge_model |-> Word, judge_effort |-> Level, unknown |-> Absent]
\* The environment: what the calendar's key decodes to.
Secrets == [google_calendar_key |-> Absent]

Endpoints == {"gatus", "prometheus", "taiga", "todo"}
Default ==
  [s \in Endpoints |-> EndpointConfig] @@
  [owner |-> OwnerConfig, agent |-> AgentConfig, signal |-> SignalConfig, ntfy |-> NtfyConfig,
   events |-> EventsConfig, gate |-> GateConfig, store |-> StoreConfig,
   reminders |-> RemindersConfig, personal_data |-> PersonalDataConfig,
   homelab_query |-> HomelabQueryConfig, homelab_docs |-> HomelabDocsConfig,
   sessions |-> SessionsConfig, calendar |-> CalendarConfig,
   triage_recording |-> TriageRecordingConfig, replay |-> ReplayConfig, secrets |-> Secrets]
Sections == DOMAIN Default

\* A file that names nothing: every section there, every key left out.
Unwritten ==
  [s \in Sections |-> ("section" :> Mapping) @@ [k \in DOMAIN Default[s] |-> Absent]]

Edited(file, writes) ==
  [s \in Sections |->
     [k \in DOMAIN file[s] |->
        LET here == {w \in writes : w[1] = s /\ w[2] = k}
        IN  IF here = {} THEN file[s][k] ELSE (CHOOSE w \in here : TRUE)[3]]]

\* `section.get(key, default)`; a section that is not a mapping reads as empty.
Written(file, s, k) == IF file[s]["section"] = Mapping THEN file[s][k] ELSE Absent
Read(file, s, k) ==
  IF Written(file, s, k) = Absent THEN Default[s][k] ELSE Written(file, s, k)

-----------------------------------------------------------------------------
(* The refusals, in the order they are made *)

Check(named, bad) == [about |-> named, fails |-> bad]
Named(s, keys) == {<<s, k>> : k \in keys}

\* section() and endpoint() for what is required; `or {}` for what is not, where
\* anything but a mapping has no get().
Required(file, s) == <<Check(Named(s, {"section"}), file[s]["section"] # Mapping)>>
Lenient(file, s) ==
  <<Check({}, Truthy(file[s]["section"]) /\ file[s]["section"] # Mapping)>>

\* _optional_section.
Optional(file, s) ==
  <<Check(Named(s, {"section"}), file[s]["section"].kind \notin {"mapping", "absent", "null"}),
    Check(Named(s, {"unknown"}), Written(file, s, "unknown") # Absent)>>

\* int() or float() around a get(), with nothing around it.
Bare(file, s, cast, keys) ==
  <<Check({}, \E k \in keys : Fails(Cast(cast, Read(file, s, k))))>>

\* _delivery_settings and _bounded_settings: a mistake is reworded, an overflow
\* is not.
Reworded(file, s, k, cast) ==
  LET v == Cast(cast, Read(file, s, k))
  IN  Check(IF v = Overflow THEN {} ELSE {<<s, k>>}, Fails(v))

Positive(file, s, k, cast) ==
  Check({<<s, k>>}, AtMost(Cast(cast, Read(file, s, k)), Number(0)))

Delivery ==
  <<<<"poll_interval_seconds", "float">>, <<"retry_floor_seconds", "float">>,
    <<"crash_attempt_limit", "int">>, <<"late_grace_seconds", "float">>,
    <<"late_delivery_threshold_seconds", "float">>, <<"report_horizon_seconds", "float">>,
    <<"tick_delivery_limit", "int">>, <<"note_window_seconds", "float">>,
    <<"note_max_items", "int">>>>
Query == <<<<"query_range_max_points", "int">>>>
Docs ==
  <<<<"stamp_max_age_seconds", "float">>, <<"read_byte_budget", "int">>,
    <<"search_result_count", "int">>>>
Feed == <<<<"stale_after_seconds", "int">>, <<"lookback_seconds", "int">>>>

Coerced(file, s, table) == [i \in DOMAIN table |-> Reworded(file, s, table[i][1], table[i][2])]
AllPositive(file, s, table) ==
  [i \in DOMAIN table |-> Positive(file, s, table[i][1], table[i][2])]

\* Slip: only for an enabled capability.
ValidateDeliveryIfEnabled(file) ==
  IF Truthy(Read(file, "reminders", "enabled"))
  THEN LET of(k) == AsFloat(Read(file, "reminders", k))
       IN  AllPositive(file, "reminders", Delivery) \o
           <<Check(Named("reminders", {"late_delivery_threshold_seconds", "late_grace_seconds"}),
                   AtMost(of("late_grace_seconds"), of("late_delivery_threshold_seconds")))>>
  ELSE <<>>

ValidateDelivery(file) ==
  LET of(k) == AsFloat(Read(file, "reminders", k))
  IN  AllPositive(file, "reminders", Delivery) \o
      <<Check(Named("reminders", {"late_delivery_threshold_seconds", "late_grace_seconds"}),
              AtMost(of("late_grace_seconds"), of("late_delivery_threshold_seconds"))),
        Check(Named("reminders", {"report_horizon_seconds", "retry_floor_seconds"}),
              AtMost(of("report_horizon_seconds"), of("retry_floor_seconds")))>>

ValidateReadDepth(file) ==
  AllPositive(file, "homelab_query", Query) \o AllPositive(file, "homelab_docs", Docs) \o
  <<Check(Named("homelab_query", {"query_range_max_points"}),
          Below(AsInt(Read(file, "homelab_query", "query_range_max_points")), Number(2))),
    Check(Named("homelab_docs", {"enabled", "path"}),
          /\ Truthy(Read(file, "homelab_docs", "enabled"))
          /\ Read(file, "homelab_docs", "path").kind \in {"absent", "null", "blank"})>>

\* normalise_label_allowlist.
Allowlist(file, k) ==
  Check(Named("personal_data", {k}),
        Read(file, "personal_data", k).kind \notin {"absent", "null", "list"})

ValidateSessions(file) ==
  LET of(k) == AsInt(Read(file, "sessions", k))
      topic == Read(file, "sessions", "topic")
  IN  AllPositive(file, "sessions", Feed) \o
      <<Check(Named("sessions", {"lookback_seconds", "stale_after_seconds"}),
              Below(of("lookback_seconds"), of("stale_after_seconds"))),
        Check(Named("sessions", {"topic"}),
              topic.kind \notin Strings \ {"blank"} \/ topic = TwoWords)>>

StrictFlag(file, s, k) == Check({<<s, k>>}, Read(file, s, k).kind # "flag")

CalendarNumbers ==
  <<<<"lookahead_days", "int">>, <<"refresh_seconds", "float">>, <<"grace_minutes", "int">>,
    <<"max_window_hours", "int">>, <<"stale_after_seconds", "float">>,
    <<"timeout_seconds", "float">>>>
CalendarRanges == [grace_minutes |-> <<0, 240>>, max_window_hours |-> <<1, 24>>]

\* _finite_calendar_settings: finiteness before the ranges.
Finite(file) ==
  [i \in DOMAIN CalendarNumbers |->
     Check(Named("calendar", {CalendarNumbers[i][1]}),
           AsFloat(Read(file, "calendar", CalendarNumbers[i][1])).kind # "number")]

WithinRange(file) ==
  [i \in DOMAIN CalendarNumbers |->
     LET k == CalendarNumbers[i][1]
         v == Cast(CalendarNumbers[i][2], Read(file, "calendar", k))
     IN  Check(Named("calendar", {k}),
               IF k \in DOMAIN CalendarRanges
               THEN Below(v, Number(CalendarRanges[k][1])) \/ Below(Number(CalendarRanges[k][2]), v)
               ELSE AtMost(v, Number(0)))]

CalendarSettings(file) ==
  <<StrictFlag(file, "calendar", "enabled"), StrictFlag(file, "calendar", "hold_alerts")>> \o
  IF ~Truthy(Read(file, "calendar", "enabled")) THEN <<>>
  ELSE <<Check(Named("calendar", {"enabled", "calendar_id"}),
               Read(file, "calendar", "calendar_id").kind \notin Strings \ {"blank"})>> \o
       Finite(file) \o WithinRange(file)

\* _require_choice: null means unset.
Choice(file, s, k) == Check({<<s, k>>}, Read(file, s, k).kind \notin {"level", "null", "absent"})
\* _require_level: and null does not.
RequireLevel(file, s, k) == Check({<<s, k>>}, Read(file, s, k).kind # "level")
\* _require_model; an absent event model inherits the chat model unchecked.
RequireModel(file, s, k) ==
  Check({<<s, k>>}, Written(file, s, k) # Absent /\ Read(file, s, k).kind \notin Strings \ {"blank"})
NonEmpty(file, s, k) == Check({<<s, k>>}, Read(file, s, k).kind \notin Strings \ {"blank"})
Key(file, s, k) == Check({<<s, k>>}, Written(file, s, k) = Absent)

\* _require_owner_timezone.
OwnerTimezone(file) ==
  LET zone == Read(file, "owner", "timezone")
      on(s) == Truthy(Read(file, s, "enabled"))
      missing == zone.kind \in {"absent", "null", "blank"}
  IN  <<Check({<<"owner", "timezone">>, <<"reminders", "enabled">>}, missing /\ on("reminders")),
        Check({<<"owner", "timezone">>, <<"calendar", "enabled">>}, missing /\ on("calendar")),
        Check({<<"owner", "timezone">>}, ~missing /\ zone # Region)>>

\* _require_safe_length; the longest code point takes four bytes.
SafeLength(file) ==
  Bare(file, "signal", "int", {"safe_length"}) \o
  <<Check(Named("signal", {"safe_length"}),
          Below(AsInt(Read(file, "signal", "safe_length")), Number(4)))>>

\* _require_acknowledge_timeout: at most the typing refresh.
AcknowledgeTimeout(file) ==
  LET v == Read(file, "signal", "acknowledge_timeout_seconds")
  IN  <<Check(Named("signal", {"acknowledge_timeout_seconds"}),
              \/ v.kind \notin {"number", "nan", "infinity"}
              \/ ~Below(Number(0), v)
              \/ Below(Number(7), v))>>

Endpoint(file, s) ==
  <<Check(Named(s, {"section"}), file[s]["section"] # Mapping), Key(file, s, "base_url")>> \o
  Bare(file, s, "float", {"timeout_seconds"})

\* parse_service_account_key, reached only for an enabled calendar; a word
\* stands for a key that decodes to a service account's.
CalendarKey(file) ==
  <<Check({<<"calendar", "enabled">>, <<"secrets", "google_calendar_key">>},
          /\ Truthy(Read(file, "calendar", "enabled"))
          /\ Read(file, "secrets", "google_calendar_key") # Word)>>

\* _validate_liveness_ordering, across two sections.
LivenessOrdering(file) ==
  LET interval == AsFloat(Read(file, "ntfy", "keepalive_interval_seconds"))
      deadline == AsFloat(Read(file, "events", "liveness_deadline_seconds"))
      both == {<<"ntfy", "keepalive_interval_seconds">>, <<"events", "liveness_deadline_seconds">>}
  IN  <<Check(both, AtMost(interval, Number(0)) \/ AtMost(deadline, Number(0))),
        Check(both, Below(deadline, [interval EXCEPT !.n = 3 * @]))>>

EventsRead(file) ==
  Lenient(file, "events") \o
  <<Check({}, Read(file, "events", "cooldown_overrides").kind \notin {"absent", "null", "blank", "list"})>> \o
  Bare(file, "events", "float",
       {"debounce_seconds", "cooldown_seconds", "recurrence_window_seconds",
        "liveness_deadline_seconds", "liveness_report_interval_seconds"}) \o
  Bare(file, "events", "int", {"cap_per_24h"})

StoreRead(file) ==
  Lenient(file, "store") \o
  Bare(file, "store", "int",
       {"memory_pinned_cap", "memory_agent_cap", "fact_length_limit", "recall_render_limit",
        "inbox_page_size"})

RemindersRead(file) ==
  Lenient(file, "reminders") \o
  Bare(file, "reminders", "int", {"max_pending", "text_length_limit", "horizon_days", "page_size"}) \o
  Bare(file, "reminders", "float", {"clock_skew_tolerance_seconds"}) \o
  Coerced(file, "reminders", Delivery) \o ValidateDelivery(file)

CapabilitiesRead(file) ==
  Lenient(file, "personal_data") \o
  <<Allowlist(file, "session_project_allowlist"), Allowlist(file, "calendar_creator_allowlist")>> \o
  Lenient(file, "homelab_query") \o Coerced(file, "homelab_query", Query) \o
  Lenient(file, "homelab_docs") \o Coerced(file, "homelab_docs", Docs) \o ValidateReadDepth(file) \o
  Lenient(file, "sessions") \o Coerced(file, "sessions", Feed) \o ValidateSessions(file) \o
  Optional(file, "calendar") \o CalendarSettings(file) \o
  Optional(file, "triage_recording") \o Optional(file, "replay") \o
  <<RequireModel(file, "replay", "judge_model"), RequireLevel(file, "replay", "judge_effort")>>

OwnerAndAgentRead(file) ==
  <<Choice(file, "agent", "effort"), Choice(file, "agent", "thinking"),
    NonEmpty(file, "owner", "id")>> \o OwnerTimezone(file) \o
  <<RequireModel(file, "agent", "event_model"), Choice(file, "agent", "event_effort"),
    Choice(file, "agent", "event_thinking")>> \o
  Bare(file, "agent", "int", {"idle_timeout_seconds", "approval_timeout_seconds"})

SignalRead(file) ==
  <<NonEmpty(file, "signal", "bridge_url"), NonEmpty(file, "signal", "account")>> \o
  SafeLength(file) \o
  Bare(file, "signal", "float", {"send_timeout_seconds", "open_timeout_seconds"}) \o
  <<StrictFlag(file, "signal", "acknowledge_owner")>> \o AcknowledgeTimeout(file) \o
  <<StrictFlag(file, "signal", "styled_prompts")>>

\* from_dict, from its first line to its last.
Checks(file) ==
  Required(file, "owner") \o Required(file, "signal") \o Lenient(file, "agent") \o
  Required(file, "ntfy") \o EventsRead(file) \o Lenient(file, "gate") \o StoreRead(file) \o
  RemindersRead(file) \o CapabilitiesRead(file) \o OwnerAndAgentRead(file) \o SignalRead(file) \o
  Endpoint(file, "gatus") \o Endpoint(file, "prometheus") \o Endpoint(file, "taiga") \o
  Endpoint(file, "todo") \o
  <<Key(file, "ntfy", "base_url"), Key(file, "ntfy", "topic")>> \o
  Bare(file, "ntfy", "float", {"timeout_seconds", "keepalive_interval_seconds"}) \o
  CalendarKey(file) \o LivenessOrdering(file)

Accepted == [loaded |-> TRUE, about |-> {}]
FromDict(file) ==
  LET checks == Checks(file)
      failed == {i \in DOMAIN checks : checks[i].fails}
  IN  IF failed = {} THEN Accepted
      ELSE [loaded |-> FALSE,
            about |-> checks[CHOOSE i \in failed : \A j \in failed : i <= j].about]

-----------------------------------------------------------------------------
(* The prompt and the registry *)

BaseTools ==
  <<"homelab_health", "todo_read", "notify", "publish_handoff", "store_memory", "capture",
    "inbox_read">>
ReminderTools == <<"remind", "cancel_reminder", "reminders_read">>
QueryTools == <<"homelab_query">>
DocsTools == <<"homelab_docs">>
SessionsTools == <<"sessions_read">>
CalendarTools == <<"calendar_upcoming", "calendar_create_event">>
CountWords == 7..15

If(on, names) == IF on THEN names ELSE <<>>

\* What the prompt says Henk cannot do, and the capabilities that drop the word.
Contradicts == [scheduling |-> {"reminders", "calendar"}, files |-> {"homelab_docs"}]

\* Slip: a quoted "false" read as it is meant.
BuildSystemPromptOfMeaning(file) ==
  LET on(s) == Read(file, s, "enabled") = Flag(TRUE)
      summaries == BaseTools \o If(on("reminders"), ReminderTools) \o
                   If(on("homelab_query"), QueryTools) \o If(on("homelab_docs"), DocsTools) \o
                   If(on("sessions"), SessionsTools) \o If(on("calendar"), CalendarTools)
  IN  [lists |-> summaries, denies |-> {}]

\* The flags are the loaded booleans; an explicit prompt wins unread, and is <<>>.
BuildSystemPrompt(file) ==
  LET on(s) == Truthy(Read(file, s, "enabled"))
      summaries == BaseTools \o If(on("reminders"), ReminderTools) \o
                   If(on("homelab_query"), QueryTools) \o If(on("homelab_docs"), DocsTools) \o
                   If(on("sessions"), SessionsTools) \o If(on("calendar"), CalendarTools)
  IN  IF Written(file, "agent", "system_prompt") # Absent THEN [lists |-> <<>>, denies |-> {}]
      ELSE [lists |-> summaries,
            denies |-> {w \in {"scheduling", "files"} :
                          ~\E s \in Contradicts[w] : on(s)}]

\* Registered one by one; a duplicate name or a tool without its classification
\* is refused by ToolRegistry.register, which no build reaches.
Register(names, more) == names \o SelectSeq(more, LAMBDA n : \A i \in DOMAIN names : names[i] # n)

BuildProductionRegistry(file) ==
  LET on(s) == Truthy(Read(file, s, "enabled"))
      reminders == Register(BaseTools, If(on("reminders"), ReminderTools))
      query == Register(reminders, If(on("homelab_query"), QueryTools))
      docs == Register(query, If(on("homelab_docs"), DocsTools))
      sessions == Register(docs, If(on("sessions"), SessionsTools))
  IN  Register(sessions, If(on("calendar"), CalendarTools))

-----------------------------------------------------------------------------
NoFlip == [flag |-> <<>>, before |-> Accepted]
NotLoaded == [loaded |-> FALSE, about |-> {<<"file", "unread">>}]
NoPrompt == [lists |-> <<>>, denies |-> {}]

ConfigInit ==
  /\ \E base \in Bases, writes \in Edits : raw = Edited(base, writes)
  /\ outcome = NotLoaded
  /\ prompt = NoPrompt
  /\ tools = <<>>
  /\ flip = NoFlip

\* Startup: the file is read, and a refusal ends it.
Load ==
  /\ outcome = NotLoaded
  /\ outcome' = FromDict(raw)
  /\ prompt' = IF outcome'.loaded THEN BuildSystemPrompt(raw) ELSE NoPrompt
  /\ UNCHANGED <<raw, tools, flip>>

\* build_runtime, from a configuration that loaded.
Build ==
  /\ outcome.loaded /\ tools = <<>>
  /\ tools' = BuildProductionRegistry(raw)
  /\ UNCHANGED <<raw, outcome, prompt, flip>>

\* The operator changes one flag of a file that loaded, and restarts.
Flip(s, v) ==
  /\ tools # <<>> /\ flip = NoFlip
  /\ Read(raw, s, "enabled") # v
  /\ raw' = [raw EXCEPT ![s]["section"] = Mapping, ![s]["enabled"] = v]
  /\ flip' = [flag |-> <<s, v>>, before |-> outcome]
  /\ outcome' = NotLoaded
  /\ prompt' = NoPrompt
  /\ tools' = <<>>

Flagged == {"reminders", "homelab_query", "homelab_docs", "sessions", "calendar", "events"}
ConfigNext == Load \/ Build \/ \E s \in Flagged, v \in Words : Flip(s, v)

ConfigSpec == ConfigInit /\ [][ConfigNext]_configVars

-----------------------------------------------------------------------------
(* Properties *)

\* The session is told of exactly the tools the gate will know, in the order they
\* are registered, with a word for their number, and is not told it has no
\* scheduling or files while it holds a tool that does just that (config.py
\* build_system_prompt; tools/__init__.py build_production_registry).
PromptMatchesRegistry ==
  tools # <<>> /\ Written(raw, "agent", "system_prompt") = Absent =>
    LET held == {tools[i] : i \in DOMAIN tools}
    IN  /\ prompt.lists = tools
        /\ Len(tools) \in CountWords
        /\ "scheduling" \in prompt.denies <=> held \cap {"remind", "calendar_create_event"} = {}
        /\ "files" \in prompt.denies <=> "homelab_docs" \notin held

\* A capability that was off can be turned on over SSH: what else is wrong with
\* the file was already refused, so the restart fails only for the companion the
\* capability has by design, and names it.  Turning one off never fails.
\* (config.py _validate_delivery_settings, _validate_read_depth_settings,
\* _validate_sessions_settings; the calendar is checked only while it is on.)
Companions(s) ==
  CASE s = "reminders" -> {<<"owner", "timezone">>}
    [] s = "homelab_docs" -> {<<"homelab_docs", "path">>}
    [] s = "calendar" -> {<<"owner", "timezone">>, <<"secrets", "google_calendar_key">>}
                         \cup Named("calendar", DOMAIN CalendarConfig \ {"enabled", "unknown"})
    [] OTHER -> {}

FlipIsSafe ==
  flip # NoFlip /\ outcome # NotLoaded /\ ~outcome.loaded =>
    \/ /\ Truthy(flip.flag[2])
       /\ outcome.about \cap Companions(flip.flag[1]) # {}
    \/ flip.flag[1] = "calendar" /\ flip.flag[2].kind # "flag"
=============================================================================
