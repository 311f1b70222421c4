------------------------------ MODULE MCHistory ------------------------------
(* Instances of History for TLC. *)
EXTENDS History, TLC

\* One conversation.
OneThread == [m \in Message |-> "a"]
=============================================================================
