# A TLA+ model of fluvius-core

fluvius-core is a multi-tenant WhatsApp service desk: a FastAPI application
(`api/app`), RQ workers on Redis, PostgreSQL as the only durable store, an
Evolution Go gateway behind every WhatsApp channel, and a Vue client (`web`).
This directory models the parts whose correctness depends on the order in which
independent processes act.  TLC checks the modules on small instances; TLAPS proves
the theorems of section 12 for every value of the constants.

Run `tlc -config X.cfg MCModule` for a run of section 11 and `tlapm Module.tla` for a
proof module.  `PROJECT.json` lists components, runs, theorems, hazards by source
line, and for every definition that models code the lines it stands for.

## 1. Inventory

Processes that act on one database: the API processes (each also runs the
background loops of `main.py`: delivery dispatcher, inbox dispatcher, webhook
reconciler, history reconciler, realtime listener, cleanup), delivery workers, inbox
workers, bot and sync workers, and the gateway, which calls back through webhooks.
PostgreSQL runs at READ COMMITTED; a row lock ends with the transaction; a Python
session keeps the objects it loaded (`expire_on_commit=False`), so a handler that
commits, waits for the network and commits again writes what it read before, but
only the columns it changed.

| component | state | operations | what is hard | what must hold |
|---|---|---|---|---|
| delivery outbox (`delivery/`, `messages/router.py`) | `Message.status`, `MessageDelivery` row, RQ jobs | accept, retry, dispatch, claim, answer, recover | the provider is called outside any lock; jobs are duplicated and lost; two timeouts | nothing is sent twice unasked; order within a conversation; every message settles |
| receipts (`providers/status_updates.py`, `webhook_router.py`) | message status and timestamps, stored receipt events | apply a receipt, keep an early one, reconcile | receipts overtake the answer to the send; rows are read without a lock; an outcome is written from a copy older than the call | a receipt counted as applied left its timestamps; late outcomes do no harm until a retry; none is forgotten.  The documents also claim a monotone status, which does not hold (section 13) |
| provider inbox (`providers/inbox_*.py`) | `ProviderEvent`, `ProviderEventInbox` | accept a webhook, dispatch, process, fail, recover, reset | the gateway repeats events; recovery races a slow original | a message is stored once; processed means done; no event is forgotten |
| reconciliation (`providers/reconcile.py`) | the same rows, a Redis lock with a TTL | replay batches, give old events up, reset failed rows | the lock expires under its owner | replays are idempotent |
| message history (`providers/history_reconcile.py`, the HistorySync half of `webhook_router.py`) | a Redis lock, a cooldown per thread, stored batches | scan, ask the gateway, import its batch message by message | the lock and the cooldown expire, the batch is marked processed before its messages are accepted | lost messages come back; one request per thread |
| conversations (`conversations/`) | status, assignee, bot flag, read marker | assign, release, close, mark read | people, bots and webhooks act at once | a person who takes over is not talked over; the marker does not go back |
| bots and AI (`bots/`, `ai/`) | `BotSession`, `BotTurn`, channel configuration | a turn per incoming message, discard, claim, reply | the run waits for the bot server while people act | one POST per turn; one active session; order of replies; silence after take-over |
| sync runs (`sync/`) | `SyncRun` and its counters | create, run, record an item, finish, expire | a run dies half-way; an enqueue that raised may have queued its job | counters agree with items; never two active runs |
| channels and provisioning (`channels/`, `providers/evolution_provisioning.py`, `evolution_admin.py`) | `WhatsAppChannel`, credential; the gateway's instance | create, connect, status, delete, connection events | every handler commits, awaits the gateway and commits again; the gateway's answer is lost | an active credential has its instance; no instance outlives its channel unexplained; trying again heals |
| circuit breaker (`providers/evolution_circuit.py`) | failure count, open-until | allow, success, failure | when it closes every caller passes at once: there is no half-open probe | five failures open it for 30 s |
| realtime (`realtime/`) | sockets per process with the scope they were opened with, a Redis subscription | open, register, publish, disconnect | rights are read before registration; Pub/Sub forgets; the listener reconnects | nobody receives events under rights that were taken away |
| login limit (`auth/rate_limit.py`) | Redis counters | check, record, clear | check and count are separate calls | the limit holds |
| users and channel access (`users/`, `auth/dependencies.py`) | memberships, channels of an agent, the requests authenticated under them | create, update, suspend the tenant | a request keeps the rights it was authenticated with; the release of a revoked agent's conversations races assignments | no open conversation belongs to somebody who cannot see it; an administrator remains |
| attachments, contacts, quick replies, platform, tenants | rows and files | CRUD | uniqueness | tenant isolation |
| deployment (`deploy/scripts`) | blue and green slots | deploy, roll back | failure between steps | one slot serves |
| web client (`web/src/stores`) | Pinia stores | apply events, optimistic sends | events overtake responses | lists converge |

How they interact: the API stores messages and hands them to the outbox; the outbox
worker stores the gateway's id and applies receipts that waited for it; webhooks
become events of the inbox or receipts; an inbox run stores the incoming message,
prepares a bot turn and starts a bot run; a bot's reply is a message of the outbox;
operators change conversations under all of them; a change of rights releases
conversations in its own transaction and closes sockets, in every API process, through
Redis after it.  The database is the only channel between them that is not lossy: RQ
jobs and realtime events may be lost or repeated.

## 2. Plan

Done, in this order:

1. `SendPermits`, `DeliveryOutbox` (what a customer notices first) and its proofs.
2. `Receipts`.
3. `ProviderInbox` and its proofs.
4. `BotTurns`.
5. `SyncRuns` and its proofs: one active run per channel, expiry, counters.
6. `ChannelAccess`, its composition with the sockets in `Realtime`, and the proofs of
   both: assignment against loss of a channel, revocation, registration.
7. `Provisioning` and its proofs: a create with a key, lost and late answers, delete.
8. `History`: the scan that asks for lost messages and the import of what comes back.
9. The proofs of `Receipts`, `BotTurns` and `History` and of what a completed
   synchronisation run has done: every safety property of a run is now a theorem.  The
   abstract `TurnQueue`, which `BotTurns` implements.

Left:

10. A second edit of one message, receipts found in the gateway's history, the read
    marker and the login limit: each is a small addition to a module that exists, or
    a module of two actions.
11. Composition of `Receipts` with the outbox: its `Claim`, `Confirm`, `SendFails`,
    `SendLater` and `Close` are the outbox's actions with jobs, attempts and clocks left
    out, so `DeliveryOutbox` should imply that part of `Receipts`.
12. An abstract specification of the inbox (a message is stored once, an edit follows it, an
    event is done after its effect) that `ProviderInbox` implements, as `SendPermits` and
    `TurnQueue` are for the outbox and the bots.

## 3. The outbox: `SendPermits`, `DeliveryOutbox`

*Code*: `delivery/dispatcher.py`, `delivery/tasks.py`, `delivery/order.py`,
`delivery/service.py`, the send and retry handlers of `messages/router.py`.
One action per database transaction, Redis call or provider call.

| state | code |
|---|---|
| `mstat`, `dstat`, `attempts`, `rqJob` | `Message.status`, `MessageDelivery.status`, `.attempt_count`, `.rq_job_id` |
| `due`, `lockAge` | `next_attempt_at <= now`; ticks since `locked_at` |
| `job` | every RQ job: where it is, its message and, during a call, the `attempt_count` its session loaded and the age of the call |
| `sendable` | the channel is connected and its credential usable |
| `accepted`, `retries`, `late` | history: how often the gateway took the message, retries a person asked for, messages that became pending behind a running younger one |

| actions | code |
|---|---|
| `Create`, `Retry` | `send_message` (and the other handlers that store an outgoing message), `retry_message` |
| `Dispatch`, `Enqueue`, `EnqueueRaises`, `JobLost` | the two halves of `dispatch_delivery`; an enqueue that raises may have succeeded |
| `Sweep` | the recovery transaction of `dispatch_due_deliveries` |
| `StartJob`, `Skip`, `RefuseSettled`, `Postpone`, `RefuseChannel`, `Claim` | `_run_delivery` up to the provider call, one action per outcome of its checks |
| `AnswerSent`, `AnswerFailed`, `AnswerRetryable`, `AnswerExhausted` | its second half, which writes what the session loaded before the call |
| `Raise`, `MarkInternalFailure`, `FailureNotRecorded`, `Follow`, `EndJob` | the exception path and the `finally` clause of `run_delivery` |
| `Crash`, `Tick`, `ChannelFlips`, `BecomeDue` | environment: a killed work horse, time, the WhatsApp session |

`SendPermits` is the promise: a message is taken by the gateway at most as often as a
person asked for it.  `DeliveryOutbox` implements it under the mapping of
`ImplementsPermits`.  The other properties say what a unit test hardly reaches: the two
timeouts keep the recovery from closing the row of a call that is still out
(`StaleIsAbandoned`); order within a conversation (`InOrder`); one call at a time and at
most `max_attempts` while nobody retries by hand (`SoleAttempt`); message and row agree
on success (`SuccessAgreed`); every pending message settles (`PendingSettles`).  Proved
and not run again: no message is pending over a closed row (`NoOrphanPending`), and
`NoDuplicateSend`, which `ImplementsPermits` implies.

`InOrder` states the exact exception: `created_at` is the start of the transaction, so
a message may become visible as pending behind a younger one that is already being
sent; `delivery/order.py` cannot see it then.  `docs/ARCHITECTURE.md:453` speaks of one
active delivery per conversation without that exception.

## 4. Receipts: `Receipts`

*Code*: `providers/status_updates.py`, the receipt half of `whatsapp_webhook` and of the
reconcile loop, and what else writes a message row: the delivery worker
(`delivery/tasks.py`, `delivery/service.py`) and `retry_message`.

A transaction loads rows without locking them, changes its copies and commits; the
UPDATE names only the columns that differ from the copy.  The module keeps exactly
that: `tx[t]` holds the events a transaction still has to look at, the rows it copied
and the matches it found, and `Written` merges its changes into what the row has become
meanwhile.

| state | code |
|---|---|
| `row` | `Message.status`, whether it has `provider_message_id`, `delivered_at`, `read_at` |
| `delivery` | what `MessageDelivery.status` lets a worker do: claim it (`"open"`), wait for a claim of somebody else (`"processing"`), nothing (`"closed"`) |
| `event` | the `provider_events` row; `waiting` stands for the `processing_error` text by which the loop finds it |
| `tx` | sessions of handlers, of the loop, of jobs and of requests, with what they loaded |
| `retries`, `orphaned` | history: manual retries, events whose handler died between its commits |

| actions | code |
|---|---|
| `Accept`, `Load`, `CommitReceipt`, `HandlerDies` | `whatsapp_webhook` with its two commits |
| `StartReconcile`, `Load`, `CommitBatch`, `Rollback`, `GrowsStale` | the loop |
| `Claim`; `Confirm`, `Load`, `CommitConfirm`; `SendFails`; `SendLater` | `_run_delivery`: up to the provider call, and its three outcomes |
| `Close`, `CommitClose`, `Breaks` | `_fail_delivery`, `_mark_internal_failure` and `fail_stale_delivery`; a transaction that leaves nothing |
| `BeginRetry`, `CommitRetry` | `retry_message` |

After the call a worker asks nothing of the row: it writes the outcome from the copy it
loaded before the call, whatever a duplicate, a person, another worker and the receipts
have made of the message since.  Only locks delay it: a transaction that has flushed, or
has selected the delivery `FOR UPDATE`, holds that row until its commit
(`DeliveryLocked`, `MayUpdate`); the claim gives its lock up before the call.  All
attempts send the same idempotency key (`providers/evolution_go.py:118`), so a message has
one id at the gateway.

`ReceiptLeavesTimestamp`: a receipt counted as applied has left its timestamps on every
message it lists, until the message is retried a second time.  `OnlyRetryClears`: nothing
but a retry takes a timestamp off, and not the first one.  `StatusPath`: until somebody
retries, what the gateway knows never becomes pending, sent or failed again (it contains
the steps from `failed` to `sent` and from `read` to `delivered`), and only a retry ever
makes a message pending.  The exceptions are reached: after one retry two calls may be
out, the failure of the older one is written over a message that is sent, delivered or
read, and the second retry of that message clears what its processed receipts had left.
`ReceiptSettles`: a stored receipt settles, except one whose handler died between its two
commits.

## 5. Incoming events: `ProviderInbox`

*Code*: `_accept_message_event` of `providers/webhook_router.py`,
`providers/inbox_dispatcher.py`, `inbox_tasks.py`, `inbox_processor.py`, and what
`providers/reconcile.py` does to the same rows.

| state | code |
|---|---|
| `event`, `inbox` | `ProviderEvent` (`error` stands for the texts in `processing_error` that other code selects by) and `ProviderEventInbox` |
| `job` | RQ jobs and the enqueue calls that are out |
| `run` | what a worker or a loop is doing: started, claimed, in its open transaction with what it has read, failing |
| `stored`, `applied` | messages stored, edits with a revision |
| `old`, `expired` | events beyond the 15 minutes of `stale_cutoff`; those the loop gave up |

The open transaction of a run is explicit because others commit between its reads and
its commit.  The locks it holds are guards: the inbox row (`Locked`) and the advisory
lock of the conversation (`ThreadLockFree`).  `RecoverProcessing` may hit a row whose
original run is merely slow; both then go on.

A message is never inserted twice (`InsertsOnce`: an open transaction that saw no
message is never overtaken by one that stored it); a processed event has had its effect
(`ProcessedHasEffect`); an event that is not processed is in motion, failed for an
administrator, or an edit that waits (`NothingForgotten`); all settle (`EventSettles`).

## 6. Bots: `TurnQueue`, `BotTurns`

*Code*: `bots/service.py`, `bots/configuration.py`, `bots/router.py`, `ai/service.py`
and `ai/router.py` (the worker's turn and the configuration),
`conversations/router.py` (assign, release, close), the part of
`providers/inbox_processor.py` that decides about the bot.  One conversation.

| state | code |
|---|---|
| `conv` | the conversation's status, assignee and bot flag |
| `typebot`, `ai`, `connected` | the two configurations and the channel's status |
| `session`, `turn` | `bot_sessions` (by the message that started each) and `bot_turns` |
| `run`, `lock` | the process that handles each message; the advisory lock that outlives transactions |
| `order`, `posts`, `outgoing`, `overtaken`, `revived` | history: commits, POSTs, replies, work in flight at a take-over, and such work that saw the bot switched on again |

`Begin`, `LockConversation`, `CommitIncoming` are the transaction of an incoming
message, which reads the flow without locking the channel.  `Route` is
`execute_bot_turn`; `TakeTurnLock`, `PickTurn`, `Discard`, `ClaimTurn`, `PostTurn`,
`FinishTurn` are the loop of `_execute_typebot_turn` with its claim before the POST and
its second look under the row locks; `AskModel` and `AnswerModel` are the native AI.
People act through `assign_conversation`, `release_conversation`, `close_conversation`,
`toggle_conversation_bot`, `write_typebot_config`, `update_ai_config` at any time.

One POST per turn although runs die (`PostedOnce`); one active session although a flow
changes while a message is being stored (`OneActiveSession`); replies in the order of
the messages (`RepliesInOrder`); a run that ends by itself leaves no turn of its own or
an earlier message (`DrainsItsTurns`); every run ends (`RunEnds`).

`TurnQueue` is the promise behind these: the messages for Typebot form one queue in the
order they were stored; the oldest is put to Typebot at most once, and only a text is; it
is answered if it was put to Typebot, or asks for a person and is handed over, and leaves
the queue for good, answered or not; a younger one has to wait.  Turns are discarded by whoever
finds their session over, a run drains the turns of others, and a run may die after its
claim; still `BotTurns` implements the queue under the mapping of `ImplementsQueue`: `open` is
the set of stored turns that are queued or in processing ((`OpenTurns`), `answers` counts
the replies stored in Typebot's name per message.

`TakeoverSilences` says what a take-over guarantees.  Typebot's reply to a turn that was
in flight is never stored.  For the native AI, which has no session to compare, the
guarantee is weaker: if the conversation is released and the bot switched on again (or
closed and reopened) before the model answers, the old reply is stored.
`docs/ARCHITECTURE.md:81-83` says such answers are discarded.

## 7. Synchronisation runs: `SyncRuns`

*Code*: `sync/router.py`, `sync/tasks.py`, `sync/models.py`.  One channel; other
channels share nothing with it but the worker processes.

| state | code |
|---|---|
| `req` | where each `POST /admin/sync-runs` is |
| `row` | the `SyncRun`: status, the items it listed (`total_items`), `succeeded_items` and `failed_items` (`processed_items` is their sum), ticks since `updated_at` |
| `job` | its RQ job: phase, items left, and during an item the counters its session loaded; ticks since it started; whether `JobTimeoutException` has come |
| `pending` | provider events not processed |

`Refuse`, `Expire`, `Clear` are the outcomes of the locked query for an active run;
`Insert` is the transaction behind it, with the unique index as its guard; `Enqueue`,
`EnqueueRaises`, `RecordJob`, `RecordQueueError` are what follows.  `Claim`, `SkipRun`,
`ImportGroups`, `BeginItem`, `SkipItem`, `RecordContact`, `RecordEvent`, `LeaveItem`,
`RecordFailure`, `Finish`, `MarkFatal` follow the job; `Raise` is an exception at any point,
`Alarm` RQ's timeout in the two places where it does something an ordinary exception
cannot: after the commit of an item, still inside its `try`, and after the commit that
ends the run.

The row is locked to claim, fail and finish a run but not while an item runs, and
`RecordQueueError` looks at nothing.  So what holds is: expiry meets no living job, because
every commit refreshes `updated_at` and RQ ends a job within 31 minutes (`StaleIsDead`);
two jobs are at work at once only after an enqueue that raised (`OneAtWork`); an ended
run keeps its status except from that handler, which also turns `completed` into `failed`
(`FinalStays`); *completed* means every listed item succeeded and no listed event
is left (`CompletedIsComplete`); every run ends or has lost both its request and its job
(`RunSettles`).

## 8. Rights: `ChannelAccess` and `Realtime`

*Code*: `users/router.py`, `users/channel_access.py`, `auth/dependencies.py`,
`conversations/router.py` (assign, release, close), the suspension of a tenant in
`platform/router.py`; `realtime/router.py`, `manager.py`, `broker.py`.

| state | code |
|---|---|
| `tenant`, `member`, `grants` | `tenants.is_active`, `tenant_users` (role, is_active), `tenant_user_channels` |
| `conv` | status and assignee of a conversation |
| `req` | a request: its actor with the role it was authenticated with; during an assignment or an update what it has read and what it will write, between its lock and its commit |
| `sock`, `listening`, `bus` | sockets with their scope, from the reading of the scope on; the process's subscription; disconnections its listener holds |
| `raced`, `kept`, `strayed`, `missed` | history, the exceptions below |

`Authenticate` reads the rights and nothing reads them again: `View` is how a session
sees rows it has loaded already.  `UpdateUser` and `CommitUpdate` are the two halves of
`update_user` around its locks, `ValidateAssignee` and `CommitAssignment` those of
`assign_conversation`; the others are one transaction each.  `Realtime` extends the
module: its steps are the row steps with sockets unchanged, the announcement of a change
joined with its publication (`Publish`, `PublishFails`, `AnnouncerDies`), and the steps of
sockets and listeners.  Every behaviour of `Realtime` is one of `ChannelAccess`
(`AccessProofs!Composition`).

`OpenIsServed`: an open conversation is in the hands of somebody active who has its
channel.  Two exceptions are the code's: a conversation assigned while the assignee's
rights were being changed (`raced`: the release query runs before that assignment is
committed, and waits for no row that it does not find), and one that an administrator
held when demoted (`kept`: the release goes by grants that are removed, and an
administrator has none).  `AdministratorRemains`: only somebody who has meanwhile lost the
role can take it from the last administrator.  It does not say that a tenant keeps an
administrator, which two who demote each other at the same time refute; it says that
this takes such a race.  `ScopeFollowsRights`: a socket has its
user's present rights or its disconnection is coming, except a socket `missed` by it,
because the handshake was under way or the message was lost, and a user `strayed`, who
changed the own name from a session that still saw an administrator, which removes the
own grants and tells nobody.  `OutdatedCloses` is the liveness of the same.

## 9. Channels: `Provisioning`

*Code*: `channels/router.py`, `providers/evolution_provisioning.py`,
`evolution_admin.py`, `evolution_credentials.py`, the connection events of
`webhook_router.py`.

| state | code |
|---|---|
| `row` | `whatsapp_channels` with its `provider_credentials`; `cred` is the credential's status |
| `inst`, `late`, `news` | the gateway (external): its instances, creations it may still do, connection events on their way |
| `handler` | the requests: phase, what the session saw last of the status, the outcome to be recorded |
| `deserted`, `rivals`, `cut`, `spared`, `crossed`, `misled` | history, the exceptions below |

`CreateChannel`, `CreateAgain`, `Connect`, `ReadStatus`, `DeleteChannel` and
`ReceiveEvent` begin a request; `BeginProvision` to `Settle` are
`provision_evolution_channel` with its two transactions around the creation and its
confirmation; `Answered` and `WriteStatus` are the common end of status, connect and
connection events; `InstanceDeleted`, `DeletionFails`, `RemoveRow` are a deletion.
`Assigned` is the ORM's rule that a column is written when it differs from what this
session saw, not from what is stored.

`ActiveHasInstance`: an active credential has its instance, unless a deletion reached the
gateway and not the row (`cut`).  `OrphansAreExplained`: an instance outlives its channel only if
the gateway did not delete it (`spared`) or created it afterwards (`crossed`).
`ConnectedIsReal`: what is shown as connected is, or the news is on its way, except where
an answer or event was written after the session had changed again, an event was lost, or
a deletion was left half done (`misled`).  `ActiveStays`: nothing takes `active` away but
the late end of a rival attempt (`rivals`).  `RetryProvisions`: trying again heals a
channel whatever happened before.  `PendingIsAttended` (proved): a pending credential has
a request at work, or its request died (`deserted`).

## 10. Lost messages: `History`

*Code*: `providers/history_reconcile.py`, `_accept_history_sync_event` of
`webhook_router.py`, the request for history of `operations/router.py`.

| state | code |
|---|---|
| `sent`, `webhooks`, `batches` | the gateway (external): messages there are, webhooks on their way |
| `event`, `stored`, `imported` | rows of `provider_events` for messages, rows of `messages`, events of batches |
| `importer` | a HistorySync webhook being handled, with the messages left |
| `scan`, `lock`, `cooling` | scans with the anchors left and the one asked for; the loop's lock and the cooldowns in Redis |
| `torn` | history: messages of batches whose handler came to grief |

A scan reads the newest rows, takes the newest message of each thread as its anchor and
asks for what came before it; the answer comes as a webhook, whose event is committed as
processed before its messages are accepted one by one.  `AskedOnce`: one request at a
time per thread although the lock expires under its owner and is deleted by a former one.
`ImportedOrTorn`: a processed batch has left its messages in the inbox, is being
imported, or its handler came to grief.  `HistoryHeals`: what the history would bring is
accepted in the end, except the messages of a torn batch, which is a duplicate for good.

## 11. Runs, bounds and fairness

| run | instance | shows |
|---|---|---|
| `outbox_duplicates` | one message, three job identities, three workers, two attempts, two manual retries, calls of age 0 to 1 | `StaleIsAbandoned`, `SoleAttempt`, `SuccessAgreed`, `ImplementsPermits` |
| `outbox_liveness` | two messages of one conversation, two jobs, one worker that may die, two attempts | `InOrder`, `PendingSettles` |
| `receipts_late` | one message, a delivered and a read receipt, two handlers, two workers, two retries | `ReceiptLeavesTimestamp`, `StatusPath`, `OnlyRetryClears` |
| `receipts_batch` | one receipt for two messages, two handlers, the loop, a worker, one rollback | partial matches: `ReceiptSettles` |
| `inbox_safety` | a message, its edit, the message again under another event id; one worker, one loop, one crash or lost job, one reset | `NothingForgotten`, `ProcessedHasEffect`, `InsertsOnce` |
| `inbox_liveness` | a message and its edit, two attempts, one crash | `EventSettles` |
| `bots` | a text and a message that asks for a person, two flows, two moves of people or channel, one crash | everything of `BotTurns` |
| `sync` | two requests, one for a contact and an event, one for the event; two workers; RQ's limits at one tick, staleness at two | everything of `SyncRuns` |
| `access` | two users with any roles and grants, two channels, a conversation, two requests, three changes of rights | `OpenIsServed`, `AdministratorRemains` |
| `sockets` | one socket, two processes, one request at a time, two changes of rights, one lost connection or dead process | `ScopeFollowsRights`, `OutdatedCloses` |
| `provisioning` | one channel, two requests at a time, one failure | the five properties of section 9 that are not only proved |
| `history` | three messages of one thread, two loops, one handler, two faults | everything of `History` |

The type invariants of the outbox, receipts, inbox, sync, access and provisioning modules are
theorems and not run again.

*Why the bounds are enough.*  The outbox properties are about one message, or about an
older and a younger message of one conversation; jobs matter in pairs (an original and
its duplicate), and the third one lets a duplicate of the duplicate exist while both
run.  Two attempts make a first and a last one; the age of a call needs one tick below
`JobTimeout` and one above, which is why `JobTimeout < StaleAfter` is the only relation
of the two that the code fixes (90 s and 2 min).  Receipts: a delivered and a read receipt
with two handlers are the overlap of two receipts on one row; a late answer takes a second
worker, and the harm it can do takes two retries, one that leaves two calls out and one
that clears (`receipts_late`).  The loop, which does to a row what a handler does, is left
out there and with it the age of events; the run's `VIEW` therefore drops `stale` and the
histories `orphaned` and `rollbacks`, which no action of that instance and none of its
properties asks about.  The second message exists only in `receipts_batch`, where a
receipt is known in part; that it has then left its timestamps everywhere is
`LeavesCorrect`, which covers receipts for any number of messages, with the loop.  In the inbox one event id is enough for repetition
(the handler finds it stored), and the second id of the same message reaches the duplicate
check and the lock.  With the bots two messages are the least that let runs drain each
other's turns, one crash leaves a claimed turn to the next run, and two moves are a
take-over and what comes after it; a run with three moves finds no more.
Attachments to a turn (`"media"`) are in the module and not in the instance: they take
the path of a message that asks for a person, with another reason.

In `access` two users suffice, since a right concerns an actor and a subject; the second
channel separates the grants that are removed from those that stay; two requests are an
update against an assignment or a second update, and the third change lets an update work
with rights that were read before the first and changed by the second.  Requests are
interchangeable (symmetry; no liveness in that run).  `sockets` needs the second process
for the message that reaches one and not the other; the races of two requests are in
`access`, and the theorem covers their product.  Channels share nothing in
`Provisioning`, so one suffices, and two requests are a rival pair or a deletion against
an attempt; every exception occurs with one failure.  In `history` the third message
makes a batch of two, of which one may be lost; `RowLimit = 2` and `ThreadLimit = 1`
leave rows out of the scan; the instance has one handler, so the branch in which another
handler of the same batch commits first is in the module and not reached, and no
administrator's scan, which is a loop's without the lock.

`CHECK_DEADLOCK FALSE` stands where everything may be settled and no move be left:
receipts, inbox, bots, access and sockets (edits spent), provisioning (the channel is
gone), history.  The outbox can always flip its channel.

*Fairness*.  The outbox: the dispatcher loop sweeps and dispatches every two seconds,
calls end by answer or timeout, clocks advance (WF); an enqueue, a start and a run that
keep becoming possible eventually succeed (SF), since Redis and the workers are not
down for ever.  Receipts: a handler and the loop go on, a job that has begun goes on or is
cut off by RQ's timeout, so its row locks end, and time passes (WF); nothing makes the
gateway repeat, a job begin or a person retry.  Inbox: a run goes on and the sweep comes
round (WF); the loop takes its batch in order of creation, so no pending event is passed over for ever
(SF); nothing is asked of RQ, so `EventSettles` holds although every job be lost.  Bots: a
run goes on while nothing holds it up (WF); the lock is polled, and with finitely many
messages it is free in the end.  Sync runs: the API runs a request to its end, the
worker starts and runs its jobs (WF); since runs are finitely many a worker is free in the
end.  Sockets: a handler goes on after its commit, a listener handles what it received, a
handshake ends (WF); a listener need not come back.  Provisioning: a request goes on to
its end, since every call of the gateway has a timeout (WF); the administrator presses
"connect" again while the channel is not provisioned (SF, because every attempt makes
the button's request impossible for a while); the gateway is not forced, but its failures
are finitely many.  History: handlers, scans and the inbox go on, a loop scans again after
its pause, keys in Redis expire (WF); a scan of an administrator is never forced.  People
who write or change rights, faults and the gateway are never forced.

*Named bounds*: `MaxRetries`, `Job` (outbox), `MaxRetries`, `MaxRollbacks` (receipts),
`MaxCrashes`, `MaxResets` (inbox), `MaxMoves`, `MaxCrashes` (bots), `Run` (sync),
`MaxEdits` (access), `MaxBreaks` (sockets), `MaxFaults` (provisioning, history), and ages
that stop counting at `StaleAfter`.

## 12. What is proved

For every number of messages, jobs, workers, events, users, channels, sockets, requests
and every bound, from the assumptions named in the modules (`OutboxAssumption`: job
identities are finitely many, messages are numbered, `JobTimeout < StaleAfter`;
`InboxAssumption`; `SyncAssumption`: requests are numbered, items are finitely many,
`KillAfter < StaleAfter`; in the other modules only that the constants have their types,
that the kinds of processes do not overlap, that the values which stand for "nobody" are
not users, messages, channels or processes, and that bounds are natural numbers):

| theorem | says | argument |
|---|---|---|
| `DeliveryOutboxProofs!TypeCorrect` | `[]TypeOK` | by action |
| `!NoOrphan`, `!OrderKept` | `[]NoOrphanPending`, `[]InOrder` | inductive invariant `Rows`: message and row are written together, a delivery in processing has a pending message, a pending message behind a running younger one is `late`.  `InOrder` alone is not inductive: a claim must know that an older delivery in processing has a pending message, which is what its check looks at |
| `!StaleCorrect` | `[]StaleIsAbandoned` | `CallAges`: a call is no older than `JobTimeout`, and a row in processing was locked no earlier than a call still running for it began |
| `DeliveryOutboxProofs!NoDuplicate` | `[]NoDuplicateSend` | `Ledger`: accepted sends, outstanding calls and the open row together never exceed the permissions granted; a step moves one permission between these places.  The property alone says nothing of calls whose outcome is unknown |
| `DeliveryOutboxProofs!SoleAttemptCorrect`, `!SuccessCorrect` | `[]SoleAttempt`, `[]SuccessAgreed` | `Budget`: while nobody retried, the one permission is in one place, so the session that answers loaded the current `attempt_count` |
| `!PermitsImplemented` | `Spec => ImplementsPermits` | every step grants one permit, uses one that `Ledger` shows to be unused, or stutters |
| `ProviderInboxProofs!TypeCorrect` | `[](TypeOK /\ Named)` | runs and queued jobs name their event |
| `!InsertedOnce` | `[]InsertsOnce` | `ThreadExclusive`: two open transactions are never about one conversation |
| `!EffectCorrect` | `[]ProcessedHasEffect` | `Snapshots`: what an open transaction has read can go stale only in the harmless direction |
| `!NeverForgotten` | `[]NothingForgotten` | with `Snapshots`: no step moves an unprocessed event out of reach |
| `SyncRunsProofs!StaleCorrect` | `[]StaleIsDead` | `Young`: while a job is at work its run's row is no older than the job, and no job is older than `KillAfter` |
| `!OneAtWorkCorrect` | `[]OneAtWork` | `WorksForActive`, `OneActive`: a job at work has its run active unless the enqueue raised, and the index leaves one run active; expiry keeps this only because of `Young` |
| `!FinalCorrect`, `!TypeCorrect` | `FinalStays`, `[]TypeOK` | by action; a run that no request has stored has no status to lose |
| `!CompletedCorrect` | `[]CompletedIsComplete` | `Whole`: as long as a run has no failure, its successes number exactly the items it has dealt with, and none of those is pending.  For this an item's session must write back counters that are still the row's, which holds because nobody else counts for a run that is running.  An item that RQ's timeout counts again is counted as a failure, which keeps the run from being completed |
| `ReceiptsProofs!TypeCorrect` | `[]TypeOK` | by action |
| `!LeavesCorrect` | `[]ReceiptLeavesTimestamp` | inductive invariant `IInv`.  The property says nothing of transactions in flight, and of an unlocked copy little can be said: up to the second retry it has no timestamp that its row has not (`TimesSound`).  That no step undoes this rests on what holds before the first retry: a worker between claim and outcome is alone (`HeldSound`), keeps the message without an id (`SenderSound`), an id goes with a closed delivery (`RowSound`), and the first retry finds nothing to clear (`RetrierSound`) |
| `!StatusPathCorrect`, `!OnlyRetryCorrect` | `StatusPath`, `OnlyRetryClears` | from the same invariant, one case per kind of step (`RowChanges`): commits of receipts, outcomes and closed deliveries, retries.  Together they say what remains of the monotony the documents claim |
| `BotTurnsProofs!TypeCorrect` | `[]TypeOK` | by action |
| `!OneActiveCorrect` | `[]OneActiveSession` | inductive as it stands: the one step that begins a session looks at the sessions as they are, not at the flow its message had read, and ends every other active one |
| `!PostedOnceCorrect`, `!RepliesOrdered`, `!DrainsCorrect` | `[]PostedOnce`, `[]RepliesInOrder`, `[]DrainsItsTurns` | `LockHeld`, `Executed`: who drains holds the lock, and what he picked stays the oldest open turn until he has finished with it, since messages are appended behind it.  `PostsSound`: a turn nobody claimed was not posted.  `RepliesSound`: what has a reply is completed and stands before all that is still open |
| `!TakeoverCorrect` | `[]TakeoverSilences` | `OvertakenSound`: the session of an overtaken turn is not active and never becomes so again; while the bot is on, all that was overtaken has been revived |
| `!QueueImplemented` | `Spec => ImplementsQueue` | with `Executed`, `PostsSound` and `CallsSound` (the reason a turn was claimed with fits its kind, and who waits for an answer has posted it): a commit joins, a claimed turn's POST asks, a discard or the second transaction settles the oldest, and all else stutters.  Take-overs and closings, too, which end sessions and leave their turns in the queue |
| `HistoryProofs!TypeCorrect` | `[]TypeOK` | by action; that the largest of the messages left is one of them needs that those sent are finitely many, at any time |
| `!AskedOnceCorrect` | `[]AskedOnce` | `Cooled`: a thread that is being asked for is cooling.  The loops' lock plays no part in it.  It rests on a request giving up long before the 30 minutes of the cooldown (its HTTP timeout), which is the guard of `CooldownExpires` |
| `!ImportedCorrect` | `[]ImportedOrTorn` | `Covered`: each message of a batch that has its row is in the inbox, is torn, or is left to a handler that has *committed* the batch; one that has only found it covers nothing, since it gives up when the row is there |
| `AccessProofs!TypeCorrect` | `[]TypeOK` | by action |
| `!Served` | `[]OpenIsServed` | inductive invariant `IInv`.  The property alone says nothing of the two locked halves in flight: an update under way must have found, or keep entitled, every conversation its member holds (`Covers`), and an assignment under way rests on rights that are still there unless it was overtaken (`ChecksHold`); both need that one update at a time holds a member (`OneUpdate`) and that what a request saw at its authentication is still so unless it was overtaken (`SeenHolds`) |
| `!AdministratorStays` | `AdministratorRemains` | with `Preserves`: an update of the actor's own row leaves it as it is, so an actor who is still an administrator is the one who remains |
| `AccessProofs!Composition` | `SpecRealtime => Spec` | every step of a socket stutters, the others are steps of `ChannelAccess` |
| `!TypesCorrect`, `!ScopesFollow` | `[]TypesOK`, `[]ScopeFollowsRights` | `RInv`: the property is inductive together with the invariant of `ChannelAccess`, of which it needs `Preserves`: a commit that tells nobody leaves its subject's rights, or the subject has strayed |
| `ProvisioningProofs!TypeCorrect` | `[]TypeOK` | by action |
| `!ActiveCorrect`, `!OrphansCorrect`, `!ConnectedCorrect`, `!ActiveRemains`, `!PendingCorrect` | `[]ActiveHasInstance`, `[]OrphansAreExplained`, `[]ConnectedIsReal`, `ActiveStays`, `[]PendingIsAttended` | one inductive invariant: besides the properties, what a request in flight has learned still holds or is accounted for.  One about to record a success has its instance, or that was cut (`OkIsTrue`, `CutIsNone`; before the confirmation no outcome is a success, `Unconfirmed`); one about to remove the row has dealt with the gateway (`RemovalIsExplained`); attempts that meet, or outlive the success of another, are rivals (`RivalsAreKnown`) |

Of the properties that runs check, only the temporal ones beyond `[]` are left to TLC
alone: `PendingSettles`, `ReceiptSettles`, `EventSettles`, `RunEnds`, `RunSettles`,
`OutdatedCloses`, `RetryProvisions` and `HistoryHeals`.  They rest on fairness and so on
ENABLED, which TLAPS does not handle.  The inductive invariants were checked by TLC on the
instances of section 11 before they were proved.

## 13. Where code and documents disagree

The code departs from sentences of the documentation in the following places.  Each is an
explicit exception of a property that holds: within what its module models, the run and,
where there is one, the theorem show that this property needs no further exception.  Without
the exception the property fails in the instance of its run, except for `strayed`, which
takes two requests at once: those are in `access`, while `sockets` has one.

* *A duplicate RQ job is harmless* (`docs/ARCHITECTURE.md:58`, `docs/DATABASE.md:109`).
  An internal failure of a duplicate closes the row another job has claimed
  (`delivery/tasks.py:279`); the message is shown as failed, a person retries, and two
  calls are out at once: `SoleAttempt`, `SuccessAgreed` and the list of `StatusPath` speak
  of a time when nobody has retried.  After that the outcome of the older call is written
  over whatever the newer one and the receipts have made of the message
  (`delivery/tasks.py:211`): failed becomes sent, and sent, delivered or read become failed
  or sent again.  Retried once more, such a message loses the timestamps of receipts that
  stay processed: `retries` in `ReceiptLeavesTimestamp` and `OnlyRetryClears`.
* *One active delivery per conversation* (`docs/ARCHITECTURE.md:453`): `late` in `InOrder`.
* *The status is monotone* (`docs/ARCHITECTURE.md:43`, `docs/DATABASE.md:84`).  Two
  receipts read one row unlocked (`providers/status_updates.py:64`); the later commit
  wins and `read` becomes `delivered`, without any retry: this step is in the list of
  `StatusPath`.  `read_at` stays.
* *An early receipt waits in `provider_events`* (`docs/ARCHITECTURE.md:43`).  Not if its
  handler dies between its two commits (`webhook_router.py:499`): nobody selects the event
  afterwards, `orphaned` in `ReceiptSettles`.
* *Message, inbox and event are completed together; after eight attempts an item is
  failed and can be restarted* (`docs/ARCHITECTURE.md:226-240`).  The loop gives an event up
  by age while its item has attempts left (`reconcile.py:195`); the next run completes the
  item without storing the message (`inbox_processor.py:126`): `expired` in
  `ProcessedHasEffect`.
* *Late answers of a bot are discarded* (`docs/ARCHITECTURE.md:81-83`): `revived` in
  `TakeoverSilences`.
* *A conversation of a channel that is taken away goes back to the queue, a change of access
  closes sockets in every process* (`docs/ARCHITECTURE.md:317`, `:408-415`, `docs/DATABASE.md`
  rules 19 and 26): `raced` and `kept` in `OpenIsServed`, `missed` and `strayed` in
  `ScopeFollowsRights`.
* *Provisioning is idempotent and can be repeated* (`docs/ARCHITECTURE.md:253-255`,
  `docs/DATABASE.md` rule 25).  A deletion that dies between the gateway and the row leaves
  an active credential without an instance, and an active credential is never
  provisioned again: `cut` in `ActiveHasInstance`.  A rival attempt that fails late
  overwrites one that succeeded: `rivals` in `ActiveStays`.
* *The history brings lost messages back* (`docs/ARCHITECTURE.md:341-349`).  A batch whose
  import was interrupted is a duplicate for good (`torn`), and a scan sees only the newest
  rows, threads in their cooldown included, so a busy channel crowds older threads out:
  `Recoverable` speaks only of threads among the candidates.

## 14. What is not modelled

`PROJECT.json` gives the reason per component.  Within the modelled ones: message texts,
media and contacts; edits of sent messages and a second edit of a received one; the read
marker, which the documents say never goes back (`docs/DATABASE.md:81-82`) and which
`conversations/router.py:302` compares without a lock; the Redis lock of the reconcile
loop, which `ProviderInbox` does not need because its proofs cover any number of loops and
dispatchers (the runs have one); batch limits other than those of the history scan;
tenants, since every query filters by one; wall-clock time beyond the timeouts.  Row locks
are guards, so a wait is a disabled action and a deadlock PostgreSQL breaks is a run that
fails.

Components without a module: the circuit breaker (counters under a lock in one process,
used only for optional lookups), login and its limit, attachments and storage, the
cleanup, maintenance scripts, the stub providers, the web client, deployment and
migrations.
