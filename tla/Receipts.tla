------------------------------ MODULE Receipts ------------------------------
(***************************************************************************)
(* Delivery receipts of fluvius-core (src/api/app/providers): the gateway  *)
(* reports by webhook that a message was delivered or read.  A receipt may *)
(* overtake the answer to the send that it is about, and several kinds of  *)
(* transaction write a message row at the same time: webhook handlers and  *)
(* the reconcile loop that apply receipts, delivery workers that store the *)
(* outcome of a send, and people who retry a failed message.               *)
(*                                                                         *)
(* A transaction loads rows without locking them, changes its copies and   *)
(* commits; PostgreSQL runs at READ COMMITTED and an UPDATE names only the *)
(* columns whose value differs from the one loaded.  So every transaction  *)
(* here is a load and a later commit, and a delivery worker, which loads   *)
(* the message before it calls the gateway, writes its outcome over        *)
(* whatever the row has become during the call.                            *)
(*                                                                         *)
(* Abstracted: payloads and timestamps (a timestamp is set or not), the    *)
(* delivery row but for what it lets a worker do, the row locks the loop   *)
(* takes on events (a commit inside its batch gives them up, and then the  *)
(* batch counts as two), the batch limit and the age of seven days after   *)
(* which the loop stops looking.  A message has one id at the gateway,     *)
(* since every attempt sends the same idempotency key.                     *)
(***************************************************************************)
EXTENDS Naturals, FiniteSets

CONSTANTS
    Message,        \* outgoing messages
    Event,          \* receipt events, one per distinct webhook_event_id
    IdsOf,          \* the messages an event lists in MessageIDs
    TargetOf,       \* the status it reports
    Webhook,        \* processes that handle webhooks
    Reconciler,     \* processes that run the reconcile loop
    Worker,         \* delivery workers, one job at a time
    Operator,       \* requests to retry a message
    NoMessage,      \* the message of a transaction that sends or retries none
    MaxRetries,     \* bound: manual retries per message
    MaxRollbacks    \* bound: batches of the loop that are rolled back

ASSUME ReceiptsAssumption ==
    /\ IdsOf \in [Event -> SUBSET Message]
    /\ TargetOf \in [Event -> {"delivered", "read"}]
    /\ NoMessage \notin Message
    /\ Webhook \cap Reconciler = {}
    /\ Webhook \cap Worker = {}
    /\ Reconciler \cap Worker = {}
    /\ Operator \cap (Webhook \cup Reconciler \cup Worker) = {}
    /\ MaxRetries \in Nat
    /\ MaxRollbacks \in Nat

VARIABLES
    row,        \* the message rows
    delivery,   \* what the message_deliveries row lets a worker do
    event,      \* the provider_events rows
    tx,         \* the transactions, handlers and jobs that are running
    retries,    \* manual retries of each message
    rollbacks,  \* batches of the loop rolled back so far
    stale,      \* events older than the 15 minutes of stale_cutoff
    orphaned    \* history: events whose handler died between its two commits

vars == <<row, delivery, event, tx, retries, rollbacks, stale, orphaned>>

Tx == Webhook \cup Reconciler \cup Worker \cup Operator
Status == {"pending", "sent", "delivered", "read", "failed"}
Row == [status : Status, hasId : BOOLEAN, deliveredAt : BOOLEAN, readAt : BOOLEAN]
\* "open": queued, enqueued or retry_wait; "closed": completed or failed.
Delivery == {"open", "processing", "closed"}
EventRow == [stored : BOOLEAN, processed : BOOLEAN, waiting : BOOLEAN, expired : BOOLEAN]

\* Where a transaction is: "calling" the gateway about a message, "applying"
\* receipts (a worker: after it has flushed a confirmed send), "closing" a
\* delivery without an answer, "retrying" a message for a person.
Stage == {"idle", "calling", "applying", "closing", "retrying"}

\* What a transaction keeps: the message it sends, closes or retries, the events
\* it still has to look at, which of its events it loaded as waiting, those it
\* has looked at, for which messages each found a row, and its copies of the
\* rows (Unread where it has none).
Unread == [status |-> "failed", hasId |-> FALSE, deliveredAt |-> FALSE, readAt |-> FALSE]
TxState == [stage : Stage, about : Message \cup {NoMessage},
            todo : SUBSET Event, waited : SUBSET Event, seen : SUBSET Event,
            found : SUBSET (Event \X Message), copy : [Message -> Row]]
Idle == [stage |-> "idle", about |-> NoMessage, todo |-> {}, waited |-> {}, seen |-> {},
         found |-> {}, copy |-> [i \in Message |-> Unread]]
Looking(events) ==
    [Idle EXCEPT !.stage = "applying", !.todo = events,
                 !.waited = {e \in events : event[e].waiting}]
Holding(stage, m) ==
    [Idle EXCEPT !.stage = stage, !.about = m,
                 !.copy = [i \in Message |-> IF i = m THEN row[m] ELSE Unread]]

TypeOK ==
    /\ row \in [Message -> Row]
    /\ delivery \in [Message -> Delivery]
    /\ event \in [Event -> EventRow]
    /\ tx \in [Tx -> TxState]
    /\ retries \in [Message -> Nat]
    /\ rollbacks \in Nat
    /\ stale \in SUBSET Event
    /\ orphaned \in SUBSET Event

NewRow == [status |-> "pending", hasId |-> FALSE, deliveredAt |-> FALSE, readAt |-> FALSE]

Init ==
    /\ row = [m \in Message |-> NewRow]
    /\ delivery = [m \in Message |-> "open"]
    /\ event = [e \in Event |-> [stored |-> FALSE, processed |-> FALSE,
                                 waiting |-> FALSE, expired |-> FALSE]]
    /\ tx = [t \in Tx |-> Idle]
    /\ retries = [m \in Message |-> 0]
    /\ rollbacks = 0
    /\ stale = {}
    /\ orphaned = {}

-----------------------------------------------------------------------------
(* Applying receipts. *)

\* STATUS_ORDER; a failed message has no place in it.
Rank(s) == CASE s = "pending" -> 0 [] s = "sent" -> 1 [] s = "delivered" -> 2 [] s = "read" -> 3

CanAdvance(current, target) == current # "failed" /\ Rank(target) > Rank(current)

\* The rows the query of apply_message_status_update returns to t: those with
\* the provider's id, and the row to which t itself has flushed it.
Matches(t, m) == row[m].hasId \/ (tx[t].about = m /\ ~tx[t].copy[m].hasId)

\* The receipts t applies to m.
TargetsFor(t, m) == {TargetOf[p[1]] : p \in {q \in tx[t].found : q[2] = m}}

\* The status t ends with for m: that of its copy, or the furthest receipt.
Advanced(t, m) ==
    LET current == IF tx[t].about = m THEN "sent" ELSE tx[t].copy[m].status
        better == {s \in TargetsFor(t, m) : CanAdvance(current, s)}
    IN  IF better = {} THEN current ELSE CHOOSE s \in better : \A o \in better : Rank(o) <= Rank(s)

\* The columns of m that t's UPDATE names.
SetsStatus(t, m) == tx[t].about = m \/ Advanced(t, m) # tx[t].copy[m].status
SetsDelivered(t, m) == TargetsFor(t, m) # {} /\ ~tx[t].copy[m].deliveredAt
SetsRead(t, m) == "read" \in TargetsFor(t, m) /\ ~tx[t].copy[m].readAt
Updates(t, m) == SetsStatus(t, m) \/ SetsDelivered(t, m) \/ SetsRead(t, m)

\* Mutant: the UPDATE names every column, changed or not.
WrittenWhole(t, m) ==
    IF ~Updates(t, m) THEN row[m]
    ELSE [status |-> Advanced(t, m), hasId |-> TRUE,
          deliveredAt |-> tx[t].copy[m].deliveredAt \/ SetsDelivered(t, m),
          readAt |-> tx[t].copy[m].readAt \/ SetsRead(t, m)]

\* The row after t's UPDATE: columns whose value t did not change keep what
\* other transactions wrote to them meanwhile.
Written(t, m) ==
    [status |-> IF SetsStatus(t, m) THEN Advanced(t, m) ELSE row[m].status,
     hasId |-> row[m].hasId \/ (tx[t].about = m /\ ~tx[t].copy[m].hasId),
     deliveredAt |-> row[m].deliveredAt \/ SetsDelivered(t, m),
     readAt |-> row[m].readAt \/ SetsRead(t, m)]

\* No worker holds a row that t's UPDATE would have to wait for.
MayUpdate(t) ==
    \A m \in Message, o \in Worker \ {t} :
        Updates(t, m) => ~(tx[o].stage = "applying" /\ tx[o].about = m)

\* StatusApplication.covers: every message of the event was found.
Covers(t, e) == \A m \in IdsOf[e] : <<e, m>> \in tx[t].found

\* An event t resolves; processing_error is written only if t loaded one.
Resolved(t, e) ==
    [event[e] EXCEPT !.processed = TRUE, !.waiting = event[e].waiting /\ e \notin tx[t].waited]

\* t looks at one event: its query finds rows, which t copies unless it holds
\* a copy already.
Load(t, e) ==
    LET rows == {m \in IdsOf[e] : Matches(t, m)}
        held == {p[2] : p \in tx[t].found} \cup {tx[t].about}
    IN  /\ tx[t].stage = "applying"
        /\ e \in tx[t].todo
        /\ tx' = [tx EXCEPT ![t] =
              [tx[t] EXCEPT !.todo = tx[t].todo \ {e},
                            !.seen = tx[t].seen \cup {e},
                            !.found = tx[t].found \cup {<<e, m>> : m \in rows},
                            !.copy = [m \in Message |->
                                         IF m \in rows \ held THEN row[m] ELSE tx[t].copy[m]]]]
        /\ UNCHANGED <<row, delivery, event, retries, rollbacks, stale, orphaned>>

-----------------------------------------------------------------------------
(* The webhook handler. *)

\* First transaction: the event is stored, or found not yet processed.  An
\* event found processed is answered as a duplicate and changes nothing.
Accept(t, e) ==
    /\ tx[t].stage = "idle"
    /\ ~event[e].processed
    /\ event' = [event EXCEPT ![e].stored = TRUE]
    /\ tx' = [tx EXCEPT ![t] = Looking({e})]
    /\ UNCHANGED <<row, delivery, retries, rollbacks, stale, orphaned>>

\* Second transaction: messages and event are written, the event as processed
\* or as waiting for the messages it did not find.
CommitReceipt(t, e) ==
    /\ tx[t].stage = "applying"
    /\ tx[t].seen = {e}
    /\ MayUpdate(t)
    /\ row' = [m \in Message |-> Written(t, m)]
    /\ event' = [event EXCEPT ![e] =
                    IF Covers(t, e) THEN Resolved(t, e)
                    ELSE [event[e] EXCEPT !.waiting = event[e].waiting \/ e \notin tx[t].waited]]
    /\ tx' = [tx EXCEPT ![t] = Idle]
    /\ UNCHANGED <<delivery, retries, rollbacks, stale, orphaned>>

\* The process dies, or the second transaction is rolled back.
HandlerDies(t) ==
    /\ tx[t].stage # "idle"
    /\ orphaned' = orphaned \cup tx[t].todo \cup tx[t].seen
    /\ tx' = [tx EXCEPT ![t] = Idle]
    /\ UNCHANGED <<row, delivery, event, retries, rollbacks, stale>>

-----------------------------------------------------------------------------
(* The reconcile loop. *)

StartReconcile(t) ==
    LET batch == {e \in Event : event[e].stored /\ ~event[e].processed /\ event[e].waiting}
    IN  /\ tx[t].stage = "idle"
        /\ batch # {}
        /\ tx' = [tx EXCEPT ![t] = Looking(batch)]
        /\ UNCHANGED <<row, delivery, event, retries, rollbacks, stale, orphaned>>

\* Mutant: events are never given up.
CommitBatchPatiently(t) ==
    /\ tx[t].stage = "applying"
    /\ tx[t].todo = {}
    /\ MayUpdate(t)
    /\ row' = [m \in Message |-> Written(t, m)]
    /\ event' = [e \in Event |->
                   IF e \in tx[t].seen /\ Covers(t, e) THEN Resolved(t, e) ELSE event[e]]
    /\ tx' = [tx EXCEPT ![t] = Idle]
    /\ UNCHANGED <<delivery, retries, rollbacks, stale, orphaned>>

\* One commit for the batch.  An event that is too old is given up.
CommitBatch(t) ==
    /\ tx[t].stage = "applying"
    /\ tx[t].todo = {}
    /\ MayUpdate(t)
    /\ row' = [m \in Message |-> Written(t, m)]
    /\ event' = [e \in Event |->
                   IF e \in tx[t].seen /\ Covers(t, e)
                   THEN Resolved(t, e)
                   ELSE IF e \in tx[t].seen \cap stale
                   THEN [event[e] EXCEPT !.processed = TRUE, !.waiting = FALSE, !.expired = TRUE]
                   ELSE event[e]]
    /\ tx' = [tx EXCEPT ![t] = Idle]
    /\ UNCHANGED <<delivery, retries, rollbacks, stale, orphaned>>

\* An event of the batch raises, the transaction fails, the process stops.
Rollback(t) ==
    /\ tx[t].stage # "idle"
    /\ rollbacks < MaxRollbacks
    /\ rollbacks' = rollbacks + 1
    /\ tx' = [tx EXCEPT ![t] = Idle]
    /\ UNCHANGED <<row, delivery, event, retries, stale, orphaned>>

\* Fifteen minutes pass.
GrowsStale(e) ==
    /\ event[e].stored
    /\ e \notin stale
    /\ stale' = stale \cup {e}
    /\ UNCHANGED <<row, delivery, event, tx, retries, rollbacks, orphaned>>

-----------------------------------------------------------------------------
(* The delivery worker.  From its flush to its commit a session holds the   *)
(* row locks of its message and delivery; whoever waits for one waits.       *)

DeliveryLocked(m) ==
    \E o \in Worker : tx[o].about = m /\ tx[o].stage \in {"applying", "closing"}

\* Mutant: the attempt is not committed before the gateway is called.
ClaimInMemory(t, m) ==
    /\ tx[t].stage = "idle"
    /\ delivery[m] = "open"
    /\ ~DeliveryLocked(m)
    /\ row[m].status = "pending"
    /\ tx' = [tx EXCEPT ![t] = Holding("calling", m)]
    /\ UNCHANGED <<row, delivery, event, retries, rollbacks, stale, orphaned>>

\* The attempt is committed, which ends the row lock, and the gateway called;
\* the session keeps the message as it was.
Claim(t, m) ==
    /\ tx[t].stage = "idle"
    /\ delivery[m] = "open"
    /\ ~DeliveryLocked(m)
    /\ row[m].status = "pending"
    /\ delivery' = [delivery EXCEPT ![m] = "processing"]
    /\ tx' = [tx EXCEPT ![t] = Holding("calling", m)]
    /\ UNCHANGED <<row, event, retries, rollbacks, stale, orphaned>>

\* The gateway confirmed the send: whatever the row is by now, the worker
\* flushes status and provider id and then looks for receipts that are stored
\* but not processed.
Confirm(t, m) ==
    LET early == {e \in Event : event[e].stored /\ ~event[e].processed /\ m \in IdsOf[e]}
    IN  /\ tx[t].stage = "calling"
        /\ tx[t].about = m
        /\ ~DeliveryLocked(m)
        /\ tx' = [tx EXCEPT ![t] =
              [tx[t] EXCEPT !.stage = "applying", !.todo = early,
                            !.waited = {e \in early : event[e].waiting}]]
        /\ UNCHANGED <<row, delivery, event, retries, rollbacks, stale, orphaned>>

CommitConfirm(t) ==
    /\ tx[t].stage = "applying"
    /\ tx[t].todo = {}
    /\ MayUpdate(t)
    /\ row' = [m \in Message |-> Written(t, m)]
    /\ event' = [e \in Event |->
                   IF e \in tx[t].seen /\ Covers(t, e)
                   THEN Resolved(t, e)
                   ELSE event[e]]
    /\ delivery' = [delivery EXCEPT ![tx[t].about] = "closed"]
    /\ tx' = [tx EXCEPT ![t] = Idle]
    /\ UNCHANGED <<retries, rollbacks, stale, orphaned>>

\* The answer is a failure, and failed is written whatever the row is by now.
\* The id is set to NULL, which the UPDATE names only if the copy had one.
SendFails(t, m) ==
    /\ tx[t].stage = "calling"
    /\ tx[t].about = m
    /\ ~DeliveryLocked(m)
    /\ row' = [row EXCEPT ![m].status = "failed", ![m].hasId = @ /\ ~tx[t].copy[m].hasId]
    /\ delivery' = [delivery EXCEPT ![m] = "closed"]
    /\ tx' = [tx EXCEPT ![t] = Idle]
    /\ UNCHANGED <<event, retries, rollbacks, stale, orphaned>>

\* The answer may be tried again: the delivery goes back to retry_wait.  The
\* message is pending in the session's copy, so its UPDATE names no column.
SendLater(t, m) ==
    /\ tx[t].stage = "calling"
    /\ tx[t].about = m
    /\ ~DeliveryLocked(m)
    /\ delivery' = [delivery EXCEPT ![m] = "open"]
    /\ tx' = [tx EXCEPT ![t] = Idle]
    /\ UNCHANGED <<row, event, retries, rollbacks, stale, orphaned>>

\* A delivery is locked to be closed without an answer: a job finds its message
\* or channel unfit, records an internal failure (its own or, as a duplicate,
\* over another job's call), or the dispatcher finds the row stale.
Close(t, m) ==
    /\ tx[t].stage = "idle"
    /\ delivery[m] # "closed"
    /\ ~DeliveryLocked(m)
    /\ tx' = [tx EXCEPT ![t] = Holding("closing", m)]
    /\ UNCHANGED <<row, delivery, event, retries, rollbacks, stale, orphaned>>

\* Only a message that was pending when it was read becomes failed.
CommitClose(t, m) ==
    /\ tx[t].stage = "closing"
    /\ tx[t].about = m
    /\ row' = IF tx[t].copy[m].status = "pending"
              THEN [row EXCEPT ![m].status = "failed"] ELSE row
    /\ delivery' = [delivery EXCEPT ![m] = "closed"]
    /\ tx' = [tx EXCEPT ![t] = Idle]
    /\ UNCHANGED <<event, retries, rollbacks, stale, orphaned>>

\* An exception, RQ's timeout, a deadlock PostgreSQL breaks, a killed process:
\* nothing of the open transaction stays.
Breaks(t) ==
    /\ tx[t].stage # "idle"
    /\ tx' = [tx EXCEPT ![t] = Idle]
    /\ UNCHANGED <<row, delivery, event, retries, rollbacks, stale, orphaned>>

-----------------------------------------------------------------------------
(* Manual retries. *)

\* Mutant: any outgoing message may be sent again.
BeginRetryOfAny(t, m) ==
    /\ tx[t].stage = "idle"
    /\ retries[m] < MaxRetries
    /\ \A o \in Operator : tx[o].about # m
    /\ tx' = [tx EXCEPT ![t] = Holding("retrying", m)]
    /\ UNCHANGED <<row, delivery, event, retries, rollbacks, stale, orphaned>>

\* retry_message reads a failed message; the conversation is locked, so nobody
\* else retries it.
BeginRetry(t, m) ==
    /\ tx[t].stage = "idle"
    /\ row[m].status = "failed"
    /\ retries[m] < MaxRetries
    /\ \A o \in Operator : tx[o].about # m
    /\ tx' = [tx EXCEPT ![t] = Holding("retrying", m)]
    /\ UNCHANGED <<row, delivery, event, retries, rollbacks, stale, orphaned>>

\* It clears the id and both timestamps, those its copy had, and opens the
\* delivery again.
CommitRetry(t, m) ==
    LET copy == tx[t].copy[m]
    IN  /\ tx[t].stage = "retrying"
        /\ tx[t].about = m
        /\ ~DeliveryLocked(m)
        /\ row' = [row EXCEPT ![m] = [status |-> "pending", hasId |-> @.hasId /\ ~copy.hasId,
                                      deliveredAt |-> @.deliveredAt /\ ~copy.deliveredAt,
                                      readAt |-> @.readAt /\ ~copy.readAt]]
        /\ delivery' = [delivery EXCEPT ![m] = "open"]
        /\ retries' = [retries EXCEPT ![m] = @ + 1]
        /\ tx' = [tx EXCEPT ![t] = Idle]
        /\ UNCHANGED <<event, rollbacks, stale, orphaned>>

-----------------------------------------------------------------------------
HandleWebhook(t) ==
    (\E e \in Event : Load(t, e) \/ CommitReceipt(t, e)) \/ HandlerDies(t)

Reconcile(t) == (\E e \in Event : Load(t, e)) \/ CommitBatch(t)

Begin(t, m) == Claim(t, m) \/ Close(t, m)

Answer(t, m) == Confirm(t, m) \/ SendFails(t, m) \/ SendLater(t, m)

\* A job that has begun goes on.
Deliver(t) ==
    \/ \E m \in Message : Answer(t, m) \/ CommitClose(t, m)
    \/ (\E e \in Event : Load(t, e)) \/ CommitConfirm(t)
    \/ Breaks(t)

Next ==
    \/ \E t \in Webhook : HandleWebhook(t) \/ \E e \in Event : Accept(t, e)
    \/ \E t \in Reconciler : StartReconcile(t) \/ Reconcile(t) \/ Rollback(t)
    \/ \E t \in Worker : Deliver(t) \/ \E m \in Message : Begin(t, m)
    \/ \E t \in Operator : Breaks(t) \/ \E m \in Message : BeginRetry(t, m) \/ CommitRetry(t, m)
    \/ \E e \in Event : GrowsStale(e)

Spec == Init /\ [][Next]_vars

-----------------------------------------------------------------------------
(* What receipts must achieve. *)

\* A receipt marked as processed, and not given up, has left its timestamps on
\* every message it lists: none was overwritten by a concurrent transaction or
\* lost because only some of the messages were known.  A message that was
\* retried twice is excepted: the first retry may leave two calls out, and the
\* second clears what was received in between.
ReceiptLeavesTimestamp ==
    \A e \in Event : event[e].processed /\ ~event[e].expired =>
        \A m \in IdsOf[e] :
            retries[m] <= 1 => row[m].deliveredAt /\ (TargetOf[e] = "read" => row[m].readAt)

\* Nothing takes a timestamp from a message but a person's retry, and not the
\* first one: no transaction writes back an older copy of it.
OnlyRetryClears ==
    [][\A m \in Message :
         \/ row[m].deliveredAt /\ ~row'[m].deliveredAt
         \/ row[m].readAt /\ ~row'[m].readAt
         => retries[m] >= 1 /\ retries'[m] = retries[m] + 1]_row

\* The changes of status that need no retry.  A late confirmation may make a
\* failed message known, and of two receipts that read the same row the later
\* commit wins: read becomes delivered.
StatusSteps ==
    {<<"pending", "sent">>, <<"pending", "delivered">>, <<"pending", "read">>,
     <<"pending", "failed">>, <<"failed", "sent">>, <<"failed", "delivered">>,
     <<"failed", "read">>, <<"sent", "delivered">>, <<"sent", "read">>,
     <<"delivered", "read">>, <<"read", "delivered">>}

\* Until a person retries the message, what the gateway knows is never again
\* pending, sent or failed, whoever answers late.  Only a retry ever makes a
\* message pending.  (The documents' "a atualização é monotônica" would allow
\* no step from read to delivered either; the code makes it.)
StatusPath ==
    [][\A m \in Message : row'[m].status # row[m].status =>
         /\ row'[m].status = "pending" => retries'[m] = retries[m] + 1
         /\ retries'[m] = 0 => <<row[m].status, row'[m].status>> \in StatusSteps]_row

-----------------------------------------------------------------------------
(* Fairness.  A handler and the loop run on (WF); the loop comes back after  *)
(* its pause and, MaxRollbacks being finite, is not rolled back for ever; a  *)
(* job that has begun goes on or is cut off by RQ's timeout, so the row      *)
(* locks it holds end; time passes.  Nothing makes the gateway repeat a      *)
(* webhook, a job start or a person act.                                     *)

Fairness ==
    /\ \A t \in Webhook : WF_vars(HandleWebhook(t))
    /\ \A t \in Reconciler : WF_vars(StartReconcile(t)) /\ WF_vars(Reconcile(t))
    /\ \A t \in Worker : WF_vars(Deliver(t))
    /\ \A e \in Event : WF_vars(GrowsStale(e))

FairSpec == Spec /\ Fairness

\* A stored receipt is eventually processed, for its messages or as one that
\* concerns none, unless its handler died between its two commits.
ReceiptSettles ==
    \A e \in Event : event[e].stored ~> (event[e].processed \/ e \in orphaned)
=============================================================================
