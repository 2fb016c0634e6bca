--------------------------- MODULE ConversationMC ---------------------------
(* Conversation on a small instance: what repeats is messages and incidents. *)
EXTENDS Conversation

Few == [k \in Kind |-> IF k \in {"say", "incident"} THEN 2 ELSE 1]
=============================================================================
