-------------------------- MODULE MCProviderInbox --------------------------
(* Instances of ProviderInbox for TLC. *)
EXTENDS ProviderInbox, TLC

\* Event 1 carries message 1 and event 2 edits it; event 3 carries it again,
\* under another event id.
KindOfEvent == [e \in Event |-> IF e = 2 THEN "edit" ELSE "message"]
AboutFirst == [e \in Event |-> 1]
OneThread == [m \in Message |-> 1]
=============================================================================
