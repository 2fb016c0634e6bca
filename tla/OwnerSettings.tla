--------------------------- MODULE OwnerSettings ----------------------------
(***************************************************************************)
(* The configuration and the resolver built from it: a time can be asked   *)
(* for only in a process whose file loaded with reminders on, through the  *)
(* tool if the registry holds it, through the command if there is a        *)
(* resolver (henk/tools/__init__.py build_time_resolver).                  *)
(***************************************************************************)
EXTENDS HenkConfig, OwnerTime

CONSTANTS
  AskedFiles  \* bound: the files whose process is asked for a time

vars == <<raw, outcome, prompt, tools, flip, zone, now, asked, answer>>

\* A process that is not asked runs at one instant in one zone.
Init ==
  /\ ConfigInit
  /\ TimeInit
  /\ raw \notin AskedFiles =>
       now = Least(Instants) /\ zone = CHOOSE z \in Zones : TRUE

\* One resolver for the tools and the commands, or none.
BuildTimeResolver(file) ==
  Truthy(Read(file, "reminders", "enabled")) /\ Read(file, "owner", "timezone") = Region

Ask(question) ==
  /\ tools # <<>> /\ raw \in AskedFiles /\ flip = NoFlip
  /\ BuildTimeResolver(raw)
  /\ question.path = "tool" => \E i \in DOMAIN tools : tools[i] = "remind"
  /\ Resolve(question)
  /\ UNCHANGED configVars

Next ==
  \/ asked = None /\ ConfigNext /\ UNCHANGED timeVars
  \/ \E question \in Question : Ask(question)

Spec == Init /\ [][Next]_vars
=============================================================================
