----------------------------- MODULE MCSyncRuns -----------------------------
(* Instances of SyncRuns for TLC. *)
EXTENDS SyncRuns, TLC

\* The first request asks for everything, the next one for messages only.
AllThenMessages == [r \in Run |-> IF r = 1 THEN "all" ELSE "messages"]
=============================================================================
