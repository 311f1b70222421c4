----------------------------- MODULE MCRealtime -----------------------------
(* Instances of Realtime for TLC. *)
EXTENDS Realtime, TLC

NoConversations == [c \in Conversation |-> CHOOSE ch \in Channel : TRUE]
=============================================================================
