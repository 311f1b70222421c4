-------------------------- MODULE MCDeliveryOutbox --------------------------
(* Instances of DeliveryOutbox for TLC. *)
EXTENDS DeliveryOutbox, TLC

\* Every message belongs to one conversation: the case where order matters.
OneConversation == [m \in Message |-> 1]

\* RQ job identities are interchangeable.
JobSymmetry == Permutations(Job)
=============================================================================
