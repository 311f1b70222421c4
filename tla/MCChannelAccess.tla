-------------------------- MODULE MCChannelAccess --------------------------
(* Instances of ChannelAccess for TLC. *)
EXTENDS ChannelAccess, TLC

\* The conversations are on one channel.
OneChannel == [c \in Conversation |-> CHOOSE ch \in Channel : TRUE]

RequestSymmetry == Permutations(Request)
=============================================================================
