-------------------------- MODULE OwnerSettingsMC ---------------------------
EXTENDS OwnerSettings

Required1 ==
  {<<s, "base_url", Word>> : s \in Endpoints \cup {"ntfy"}} \cup
  {<<"owner", "id", Word>>, <<"signal", "bridge_url", Word>>, <<"signal", "account", Word>>,
   <<"ntfy", "topic", Word>>}
ZoneSet == {<<"owner", "timezone", Region>>}
RemindersOn == {<<"reminders", "enabled", Flag(TRUE)>>}
TheRest ==
  {<<"homelab_docs", "enabled", Flag(TRUE)>>, <<"homelab_docs", "path", Word>>,
   <<"sessions", "enabled", Flag(TRUE)>>, <<"calendar", "enabled", Flag(TRUE)>>,
   <<"calendar", "calendar_id", Word>>, <<"secrets", "google_calendar_key", Word>>}

Smallest == Edited(Unwritten, Required1)
Zoned == Edited(Smallest, ZoneSet)
Reminding == Edited(Zoned, RemindersOn)
Everything == Edited(Reminding, TheRest)
MCBases == {Smallest, Zoned, Everything}

Odd ==
  {Null, Blank, Word, TwoWords, Region, NoRegion, Host, Level, List, OddList, NaN, Infinity,
   Flag(TRUE), Flag(FALSE), Quoted(5), Half}
  \cup {Number(x) : x \in {-1, 0, 1, 3, 7, 8, 25, 241, 900, 86400}}
Singles == UNION {{{<<s, k, v>>} : k \in DOMAIN Unwritten[s], v \in Odd} : s \in Sections}

\* Settings some check relates, and numbers on either side of it.
Related ==
  {<<"reminders", "late_grace_seconds", "reminders", "late_delivery_threshold_seconds">>,
   <<"reminders", "report_horizon_seconds", "reminders", "retry_floor_seconds">>,
   <<"sessions", "stale_after_seconds", "sessions", "lookback_seconds">>,
   <<"ntfy", "keepalive_interval_seconds", "events", "liveness_deadline_seconds">>,
   <<"calendar", "grace_minutes", "calendar", "max_window_hours">>,
   <<"homelab_docs", "path", "homelab_docs", "enabled">>,
   <<"owner", "timezone", "reminders", "enabled">>}
Near == {Absent, Null, Half, NaN, Flag(TRUE)} \cup {Number(x) : x \in {0, 1, 2, 3, 6, 900}}
Pairs == {{<<r[1], r[2], v>>, <<r[3], r[4], w>>} : r \in Related, v \in Near, w \in Near}

Switches == {Absent, Flag(TRUE), Flag(FALSE), Word}
Switched ==
  {{<<"reminders", "enabled", a>>, <<"homelab_query", "enabled", b>>,
    <<"homelab_docs", "enabled", c>>, <<"sessions", "enabled", d>>, <<"calendar", "enabled", e>>}
     : a \in Switches, b \in Switches, c \in Switches, d \in Switches,
       e \in {Absent, Flag(TRUE), Flag(FALSE)}}

MCEdits == {{}, RemindersOn} \cup Singles \cup Pairs \cup Switched
MCAsked == {Reminding}
MCWords == {Flag(TRUE), Flag(FALSE), Word}
TestZones == [at : {6, 8, 11}, before : {0, 2}, after : {0, 1, 2, 3}]
TestInstants == 0..24
=============================================================================
