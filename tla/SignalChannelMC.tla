-------------------------- MODULE SignalChannelMC --------------------------
(***************************************************************************)
(* SignalChannel on a small instance: two senders with every pair of jobs  *)
(* from a short list, texts that split at each kind of boundary and inside *)
(* a run of two-byte characters, and one turn of the indicator.            *)
(***************************************************************************)
EXTENDS SignalChannel

CONSTANTS s1, s2

Say(kind, text, notice, ref) == [kind |-> kind, text |-> text, notice |-> notice, ref |-> ref]
Errands == {Say("reply", <<"a", " ", "a", "a", "a">>, TRUE, "absent"),
         Say("reply", <<"a", "\n", "\n", "a", " ", "w", "w">>, TRUE, "absent"),
         Say("reply", <<>>, TRUE, "absent"),
         Say("proactive", <<"w", "w", "w">>, FALSE, "absent"),
         Say("proactive", <<"a", "\n", "a">>, TRUE, "absent"),
         Say("prompt", <<"a", "a">>, FALSE, "absent"),
         Say("prompt", <<"a", "*", "*">>, FALSE, "absent"),
         Say("edit", <<"a">>, FALSE, "digits"),
         Say("edit", <<"a">>, FALSE, "other")}
Pairs == [Senders -> Errands]

Item(what, sender, group, raw) == [what |-> what, sender |-> sender, group |-> group, raw |-> raw]
Items == {Item("message", "owner", FALSE, "integer"), Item("message", "owner", FALSE, "absent"),
          Item("message", "owner", TRUE, "integer"), Item("message", "stranger", FALSE, "integer"),
          Item("reaction", "owner", FALSE, "digits"), Item("nothing", "owner", FALSE, "integer")}
=============================================================================
