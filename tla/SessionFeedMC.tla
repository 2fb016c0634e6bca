--------------------------- MODULE SessionFeedMC ---------------------------
(* Instances of SessionFeed for TLC: a tree with an allowed root, another  *)
(* inside it and a denied one, a link into the denied one, and a path in a *)
(* repository of somebody else.                                            *)
EXTENDS SessionFeed, TLC

Root    == <<"src">>
Inner   == <<"src", "henk">>
Secret  == <<"src", "work">>
Below   == <<"src", "work", "client">>
Fork    == <<"src", "fork">>
Outside == <<"notes">>
Link    == <<"tmp", "scratch">>
Home    == <<>>

LinkTo == Link :> Below
TooBroad == {Home}
Origins == [p \in {Root, Inner, Secret, Below, Fork, Outside} |->
              IF p = Fork THEN "stranger" ELSE IF p \in {Root, Outside} THEN NotGit ELSE "owner"]

Entry(path, label) == [path |-> path, label |-> label]
Good == [ unknown |-> {}, heartbeat |-> 4, tick |-> 2, unlisted |-> FALSE,
          owners |-> {"owner"}, deny |-> {Secret},
          allow |-> {Entry(Root, "misc"), Entry(Inner, "henk")} ]
Broad  == [Good EXCEPT !.allow = {Entry(Home, "all")}]
Typo   == [Good EXCEPT !.unknown = {"deny_root"}, !.deny = {}]
Telling == [Good EXCEPT !.unlisted = TRUE]

Reads(allow, stale, lookback) == [allow |-> allow, stale |-> stale, lookback |-> lookback]
SomeSetups == { <<Good, Reads({"henk", "misc"}, 8, 9)>>,
                <<Telling, Reads({"henk"}, 4, 7)>>,
                <<Broad, Reads({}, 8, 9)>>, <<Typo, Reads({"henk"}, 8, 6)>> }

Agent(pane, status, cwd, foreground, age) ==
  [pane |-> pane, status |-> status, cwd |-> cwd, foreground |-> foreground, age |-> age]
Crowd == << Agent("p1", "idle", Inner, <<>>, Unknown), Agent("p2", "idle", Root, Inner, 0),
            Agent("p3", "blocked", Inner, <<>>, 1) >>
Mixed == << Agent("p1", "working", Inner, Below, 0), Agent("p2", "blocked", Link, <<>>, 0),
            Agent("p!", "idle", Root, <<>>, 0), Agent("p4", "idle", Outside, <<>>, 1),
            Agent("p5", "idle", Fork, <<>>, 0) >>
SomeWorlds == {[agents |-> Crowd, ages |-> TRUE], [agents |-> Mixed, ages |-> FALSE]}
Interchangeable == Permutations(Runs)
=============================================================================
