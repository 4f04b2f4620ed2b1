--------------------------- MODULE MCConversation ---------------------------
(* A small instance of Conversation for TLC.  Commands that only ask for an  *)
(* answer and the start of the bot are left out: they change nothing that    *)
(* the void message does not change as well.                                 *)
EXTENDS Conversation

MCKinds == AllKinds \ {"info", "start"}
MCShare == [k \in MCKinds |-> CASE k \in {"text", "press"} -> 2 [] OTHER -> 1]
=============================================================================
