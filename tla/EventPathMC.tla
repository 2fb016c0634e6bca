---------------------------- MODULE EventPathMC ----------------------------
(* Values of the constants of EventPath for model checking. *)
EXTENDS EventPath, TLC

\* No fault of any kind, and the given number of some kinds.
NoFault == [k \in FaultKind |-> 0]
Bounds(f) == [k \in FaultKind |-> IF k \in DOMAIN f THEN f[k] ELSE 0]

\* One window, or two that overlap.
OneStart == [w \in {1} |-> 0]
OneEnd == [w \in {1} |-> 1]
TwoStarts == [w \in {1, 2} |-> 0]
TwoEnds == [w \in {1, 2} |-> w]
LateStart == [w \in {1} |-> 1]
LateEnd == [w \in {1} |-> 2]
NoneStart == [w \in {} |-> 0]

\* Identities are interchangeable.
Symmetry == Permutations(Ident)

HoldFaults == Bounds([crash |-> 1, audit |-> 1, checkpoint |-> 1, mark |-> 1])
TryFaults == Bounds([crash |-> 1, reject |-> 1, lose |-> 1, mark |-> 1, escape |-> 1])
EscapeFaults == Bounds([escape |-> 1])
LoseFaults == Bounds([reject |-> 1, lose |-> 1])
=============================================================================
