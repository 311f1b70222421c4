----------------------------- MODULE MCReceipts -----------------------------
(* Instances of Receipts for TLC. *)
EXTENDS Receipts, TLC

\* One message, a delivered and a read receipt for it.
OneMessageIds == [e \in Event |-> Message]

\* Receipt 1 lists every message and reports them delivered, the others list
\* message 1 and report it read.
BatchIds == [e \in Event |-> IF e = 1 THEN Message ELSE {1}]
FirstDelivered == [e \in Event |-> IF e = 1 THEN "delivered" ELSE "read"]

\* Handlers are interchangeable, and so are workers.
TxSymmetry == Permutations(Webhook) \cup Permutations(Worker)

\* What the safety properties can tell apart when no loop runs: which handlers
\* died is history, and the age of an event is asked by the loop alone.
WithoutLoop == <<row, delivery, event, tx, retries>>
=============================================================================
