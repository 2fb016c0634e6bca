--------------------------- MODULE ApprovalGateMC ---------------------------
(* Values of the constants of ApprovalGate for model checking. *)
EXTENDS ApprovalGate

\* A read-only source of taint, a standing write, which the kill-switch turns
\* into a per-instance one, and a per-instance source that event turns may use.
Reader == [kind |-> "free", scope |-> TurnType, taints |-> TRUE]
Store == [kind |-> "standing", scope |-> {"owner"}, taints |-> FALSE]
Operate == [kind |-> "per-instance", scope |-> TurnType, taints |-> TRUE]

AllTools == {Reader, Store, Operate}
OneTool == {Operate}
=============================================================================
