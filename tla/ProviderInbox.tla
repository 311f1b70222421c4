---------------------------- MODULE ProviderInbox ----------------------------
(***************************************************************************)
(* Incoming messages and edits of fluvius-core (src/api/app/providers).    *)
(* The gateway calls a webhook, as often as it likes; the handler stores   *)
(* an event and an inbox row in one transaction and answers.  Workers run  *)
(* the inbox: RQ jobs that a dispatcher enqueues, and the reconcile loop,  *)
(* which runs pending items inside its own process.  A run claims the row  *)
(* in one transaction, does the work in a second and, if that fails,       *)
(* records the failure in a third.  An edit may arrive before the message  *)
(* it is about: it then waits for that message or for the loop.            *)
(*                                                                         *)
(* A transaction that is open is explicit here because others commit       *)
(* between its reads and its own commit; the locks it holds, on the inbox  *)
(* row and on the conversation, are the guards of Open.                    *)
(*                                                                         *)
(* Abstracted: payloads, contacts and conversations, media, back-off (an   *)
(* item is due at any time), the ages of the recovery sweep (a row that no *)
(* transaction holds may be old at any time) and the batches of the loop,  *)
(* which are taken event by event.                                         *)
(***************************************************************************)
EXTENDS Naturals, FiniteSets

CONSTANTS
    Event,          \* provider events, one per distinct webhook_event_id
    Message,        \* messages of the provider
    KindOf,         \* "message", "edit" or "ignored", as the adapter normalises it
    About,          \* the message an event carries, or edits
    ThreadOf,       \* the conversation of a message
    Worker,         \* RQ workers of the queue fluvius-webhooks
    Loop,           \* processes that run the reconcile loop
    Job,            \* RQ job ids
    NoEvent, NoJob,
    MaxAttempts,    \* max_attempts of an inbox row
    MaxCrashes,     \* bound: processes that die, jobs that Redis loses
    MaxResets       \* bound: administrative restarts of a failed item

\* What handle_webhook makes of an event: an incoming message, an edit of one,
\* or nothing this program keeps (reactions, confirmations, empty messages).
Kind == {"message", "edit", "ignored"}

ASSUME InboxAssumption ==
    /\ KindOf \in [Event -> Kind]
    /\ About \in [Event -> Message]
    /\ DOMAIN ThreadOf = Message
    /\ Worker \cap Loop = {}
    /\ NoEvent \notin Event
    /\ NoJob \notin Job
    /\ MaxAttempts \in Nat \ {0}
    /\ MaxCrashes \in Nat
    /\ MaxResets \in Nat

VARIABLES
    event,      \* the provider_events rows
    inbox,      \* the provider_event_inbox rows
    job,        \* the RQ jobs and the calls that enqueue them
    run,        \* what workers and loops are doing
    stored,     \* the messages stored
    applied,    \* the edits with a MessageRevision
    old,        \* events older than the 15 minutes of stale_cutoff
    expired,    \* history: events the loop has given up
    crashes,
    resets

vars == <<event, inbox, job, run, stored, applied, old, expired, crashes, resets>>
dataVars == <<stored, applied, expired>>
countVars == <<old, crashes, resets>>

Runner == Worker \cup Loop
InboxStatus == {"none", "queued", "enqueued", "processing", "retry_wait", "completed", "failed"}
\* processing_error: the texts by which other code finds an event.
Error == {"none", "incoming", "edit", "terminal", "expired"}
EventRow == [stored : BOOLEAN, processed : BOOLEAN, error : Error]
InboxRow == [status : InboxStatus, attempts : 0 .. MaxAttempts, job : Job \cup {NoJob}]
JobState == [state : {"none", "queued", "running"}, calling : BOOLEAN,
             event : Event \cup {NoEvent}]
\* What an open transaction has read: whether its event was processed, its
\* message stored, and the edits waiting for that message.
Phase == {"idle", "start", "claimed", "open", "failing", "after"}
RunState == [phase : Phase, event : Event \cup {NoEvent}, job : Job \cup {NoJob},
             processed : BOOLEAN, exists : BOOLEAN, edits : SUBSET Event]

TypeOK ==
    /\ event \in [Event -> EventRow]
    /\ inbox \in [Event -> InboxRow]
    /\ job \in [Job -> JobState]
    /\ run \in [Runner -> RunState]
    /\ stored \in SUBSET Message
    /\ applied \in SUBSET Event
    /\ old \in SUBSET Event
    /\ expired \in SUBSET Event
    /\ crashes \in 0 .. MaxCrashes
    /\ resets \in 0 .. MaxResets

NoEventRow == [stored |-> FALSE, processed |-> FALSE, error |-> "none"]
NoRow == [status |-> "none", attempts |-> 0, job |-> NoJob]
NoCall == [state |-> "none", calling |-> FALSE, event |-> NoEvent]
RunOf(phase, e, j) == [phase |-> phase, event |-> e, job |-> j,
                       processed |-> FALSE, exists |-> FALSE, edits |-> {}]
Idle == RunOf("idle", NoEvent, NoJob)

Init ==
    /\ event = [e \in Event |-> NoEventRow]
    /\ inbox = [e \in Event |-> NoRow]
    /\ job = [j \in Job |-> NoCall]
    /\ run = [r \in Runner |-> Idle]
    /\ stored = {}
    /\ applied = {}
    /\ old = {}
    /\ expired = {}
    /\ crashes = 0
    /\ resets = 0

-----------------------------------------------------------------------------
(* Rows, locks and job ids. *)

\* Some transaction holds the inbox row of e.
Locked(e) == \E r \in Runner : run[r].phase = "open" /\ run[r].event = e

\* Mutant: messages are stored without the advisory lock.
ThreadFree(r, e) == TRUE

\* No other transaction holds the advisory lock of the message's conversation.
ThreadLockFree(r, e) ==
    \A o \in Runner \ {r} :
        run[o].phase = "open" /\ KindOf[run[o].event] = "message" =>
            ThreadOf[About[run[o].event]] # ThreadOf[About[e]]

\* uuid4: an id that no row names and no queue holds.
Fresh(j) == job[j] = NoCall /\ \A e \in Event : inbox[e].job # j

\* The row leaves "enqueued"; its job id is not looked at again.
StatusSet(e, status) == [inbox EXCEPT ![e].status = status, ![e].job = NoJob]
ErrorSet(e, error) == [event EXCEPT ![e].error = error]
Processed(e) == [event EXCEPT ![e].processed = TRUE, ![e].error = "none"]
GivenUp(e) == [event EXCEPT ![e].processed = TRUE, ![e].error = "expired"]

\* Redis no longer has the job.
Taken(j) == [state |-> "none", calling |-> job[j].calling, event |-> NoEvent]

\* The enqueuing process has its answer, or none.
Answered(j) == IF job[j].state = "none" THEN NoCall ELSE [job[j] EXCEPT !.calling = FALSE]

\* How a run ends: a worker gives its job back, a loop looks at the event.
RunEnds(r) ==
    /\ run' = [run EXCEPT ![r] = IF r \in Loop THEN RunOf("after", @.event, NoJob) ELSE Idle]
    /\ job' = [j \in Job |-> IF j = run[r].job
                             THEN Taken(j) ELSE job[j]]

-----------------------------------------------------------------------------
(* The webhook handler.  A webhook that is repeated finds the event, or is  *)
(* stopped by uq_provider_events_external_id, and at most dispatches again. *)

Accept(e) ==
    /\ event[e] = NoEventRow
    /\ IF KindOf[e] = "ignored"
       THEN /\ event' = [event EXCEPT ![e] = [stored |-> TRUE, processed |-> TRUE, error |-> "none"]]
            /\ UNCHANGED inbox
       ELSE /\ event' = [event EXCEPT ![e] = [stored |-> TRUE, processed |-> FALSE, error |-> "incoming"]]
            /\ inbox' = StatusSet(e, "queued")
    /\ UNCHANGED <<job, run, dataVars, countVars>>

-----------------------------------------------------------------------------
(* The dispatcher: after a webhook, after a reset, and every two seconds. *)

Dispatch(e, j) ==
    /\ inbox[e].status \in {"queued", "retry_wait"}
    /\ ~Locked(e)
    /\ Fresh(j)
    /\ inbox' = [inbox EXCEPT ![e].status = "enqueued", ![e].job = j]
    /\ job' = [job EXCEPT ![j] = [state |-> "none", calling |-> TRUE, event |-> e]]
    /\ UNCHANGED <<event, run, dataVars, countVars>>

\* Redis takes the job.
Enqueue(j) ==
    /\ job[j].calling
    /\ job[j].state = "none"
    /\ job[j].event # NoEvent
    /\ job' = [job EXCEPT ![j].state = "queued"]
    /\ UNCHANGED <<event, inbox, run, dataVars, countVars>>

\* The call returns; or its process dies, also before Redis has the job.
EnqueueReturns(j) ==
    /\ job[j].calling
    /\ job[j].state = "none" /\ job[j].event # NoEvent => crashes < MaxCrashes
    /\ crashes' = IF job[j].state = "none" /\ job[j].event # NoEvent THEN crashes + 1 ELSE crashes
    /\ job' = [job EXCEPT ![j] = Answered(j)]
    /\ UNCHANGED <<event, inbox, run, dataVars, old, resets>>

\* The call raises, whether Redis has the job or not.
EnqueueRaises(j) ==
    /\ job[j].calling
    /\ job' = [job EXCEPT ![j] = Answered(j)]
    /\ inbox' = [e \in Event |-> IF inbox[e].status = "enqueued" /\ inbox[e].job = j
                                 THEN [inbox[e] EXCEPT !.status = "queued", !.job = NoJob]
                                 ELSE inbox[e]]
    /\ UNCHANGED <<event, run, dataVars, countVars>>

JobLost(j) ==
    /\ job[j].state = "queued"
    /\ crashes < MaxCrashes
    /\ crashes' = crashes + 1
    /\ job' = [job EXCEPT ![j] = Taken(j)]
    /\ UNCHANGED <<event, inbox, run, dataVars, old, resets>>

\* Mutant: only items with attempts left are recovered.
RecoverWithAttemptsLeft(e) ==
    /\ inbox[e].status = "processing"
    /\ ~Locked(e)
    /\ inbox[e].attempts < MaxAttempts
    /\ inbox' = StatusSet(e, "retry_wait")
    /\ UNCHANGED <<event, job, run, dataVars, countVars>>

\* Mutant: an item without attempts left fails, its event is not marked.
RecoverUnmarked(e) ==
    /\ inbox[e].status = "processing"
    /\ ~Locked(e)
    /\ inbox' = StatusSet(e, IF inbox[e].attempts >= MaxAttempts THEN "failed" ELSE "retry_wait")
    /\ UNCHANGED <<event, job, run, dataVars, countVars>>

\* The sweep finds a row in processing for two minutes.
RecoverProcessing(e) ==
    /\ inbox[e].status = "processing"
    /\ ~Locked(e)
    /\ IF inbox[e].attempts >= MaxAttempts
       THEN inbox' = StatusSet(e, "failed") /\ event' = ErrorSet(e, "terminal")
       ELSE inbox' = StatusSet(e, "retry_wait") /\ UNCHANGED event
    /\ UNCHANGED <<job, run, dataVars, countVars>>

\* The sweep finds a row enqueued for ten minutes, or for 15 seconds without an
\* active job.
RequeueEnqueued(e) ==
    /\ inbox[e].status = "enqueued"
    /\ ~Locked(e)
    /\ inbox' = StatusSet(e, "queued")
    /\ UNCHANGED <<event, job, run, dataVars, countVars>>

\* reset_failed_provider_inbox_for_channel.
Reset(e) ==
    /\ inbox[e].status = "failed"
    /\ ~event[e].processed
    /\ resets < MaxResets
    /\ resets' = resets + 1
    /\ inbox' = [inbox EXCEPT ![e] = [NoRow EXCEPT !.status = "queued"]]
    /\ event' = ErrorSet(e, "incoming")
    /\ UNCHANGED <<job, run, dataVars, old, crashes>>

-----------------------------------------------------------------------------
(* A run of run_provider_event_inbox. *)

StartJob(r, j) ==
    /\ r \in Worker
    /\ run[r] = Idle
    /\ job[j].state = "queued"
    /\ run' = [run EXCEPT ![r] = RunOf("start", job[j].event, j)]
    /\ job' = [job EXCEPT ![j].state = "running"]
    /\ UNCHANGED <<event, inbox, dataVars, countVars>>

\* The row needs no run, or has had its attempts.
Refuse(r) ==
    LET e == run[r].event
        due == inbox[e].status \in {"queued", "enqueued", "retry_wait"}
    IN  /\ run[r].phase = "start"
        /\ ~Locked(e)
        /\ due => inbox[e].attempts >= MaxAttempts
        /\ IF due
           THEN inbox' = StatusSet(e, "failed") /\ event' = ErrorSet(e, "terminal")
           ELSE UNCHANGED <<inbox, event>>
        /\ RunEnds(r)
        /\ UNCHANGED <<dataVars, countVars>>

\* First transaction.
Claim(r) ==
    LET e == run[r].event
    IN  /\ run[r].phase = "start"
        /\ ~Locked(e)
        /\ inbox[e].status \in {"queued", "enqueued", "retry_wait"}
        /\ inbox[e].attempts < MaxAttempts
        /\ inbox' = [inbox EXCEPT ![e] = [status |-> "processing", attempts |-> @.attempts + 1,
                                          job |-> NoJob]]
        /\ run' = [run EXCEPT ![r].phase = "claimed"]
        /\ UNCHANGED <<event, job, dataVars, countVars>>

\* Second transaction: row and conversation are locked and read.
Open(r) ==
    LET e == run[r].event
    IN  /\ run[r].phase = "claimed"
        /\ ~Locked(e)
        /\ inbox[e].status = "processing"
        /\ KindOf[e] = "message" => ThreadLockFree(r, e)
        /\ run' = [run EXCEPT ![r] =
                     [phase |-> "open", event |-> e, job |-> @.job,
                      processed |-> event[e].processed, exists |-> About[e] \in stored,
                      edits |-> {d \in Event : /\ KindOf[d] = "edit"
                                              /\ About[d] = About[e]
                                              /\ event[d].error = "edit"
                                              /\ ~event[d].processed}]]
        /\ UNCHANGED <<event, inbox, job, dataVars, countVars>>

\* Somebody else has settled the row since it was claimed.
FindsSettled(r) ==
    LET e == run[r].event
    IN  /\ run[r].phase = "claimed"
        /\ ~Locked(e)
        /\ inbox[e].status # "processing"
        /\ RunEnds(r)
        /\ UNCHANGED <<event, inbox, dataVars, countVars>>

\* apply_message_edit leaves one revision per edit, however often it is called.
Revised(edits) == applied \cup edits

\* The commit for an edit: applied to its message, or left to wait for it.
CommitEdit(r) ==
    LET e == run[r].event
    IN  /\ run[r].phase = "open"
        /\ KindOf[e] = "edit"
        /\ IF run[r].exists
           THEN applied' = Revised({e}) /\ event' = Processed(e)
           ELSE UNCHANGED applied /\ event' = ErrorSet(e, "edit")
        /\ inbox' = StatusSet(e, "completed")
        /\ RunEnds(r)
        /\ UNCHANGED <<stored, expired, countVars>>

\* Mutant: a new message does not look for the edits that wait for it.
CommitMessageAlone(r) ==
    LET e == run[r].event
        new == ~run[r].processed /\ ~run[r].exists
    IN  /\ run[r].phase = "open"
        /\ KindOf[e] = "message"
        /\ stored' = IF new THEN stored \cup {About[e]} ELSE stored
        /\ event' = [d \in Event |->
                        IF (d = e /\ ~run[r].processed) \/ (new /\ d \in run[r].edits)
                        THEN Processed(d)[d] ELSE event[d]]
        /\ inbox' = StatusSet(e, "completed")
        /\ RunEnds(r)
        /\ UNCHANGED <<applied, expired, countVars>>

\* The commit for a message: nothing if the event was processed, no second row
\* if the message was there, otherwise the message with its waiting edits.
CommitMessage(r) ==
    LET e == run[r].event
        new == ~run[r].processed /\ ~run[r].exists
    IN  /\ run[r].phase = "open"
        /\ KindOf[e] = "message"
        /\ stored' = IF new THEN stored \cup {About[e]} ELSE stored
        /\ applied' = IF new THEN Revised(run[r].edits) ELSE applied
        /\ event' = [d \in Event |->
                        IF (d = e /\ ~run[r].processed) \/ (new /\ d \in run[r].edits)
                        THEN Processed(d)[d] ELSE event[d]]
        /\ inbox' = StatusSet(e, "completed")
        /\ RunEnds(r)
        /\ UNCHANGED <<expired, countVars>>

\* Anything raises: storage, the adapter, a constraint, a deadlock, the timeout
\* of the job.  What was not committed is gone.
Raise(r) ==
    /\ run[r].phase \in {"claimed", "open"}
    /\ run' = [run EXCEPT ![r] = RunOf("failing", @.event, @.job)]
    /\ UNCHANGED <<event, inbox, job, dataVars, countVars>>

\* Third transaction, _record_processing_failure.
RecordFailure(r) ==
    LET e == run[r].event
    IN  /\ run[r].phase = "failing"
        /\ ~Locked(e)
        /\ IF inbox[e].status # "processing"
           THEN UNCHANGED <<inbox, event>>
           ELSE IF inbox[e].attempts >= MaxAttempts
           THEN inbox' = StatusSet(e, "failed") /\ event' = ErrorSet(e, "terminal")
           ELSE inbox' = StatusSet(e, "retry_wait") /\ event' = ErrorSet(e, "incoming")
        /\ RunEnds(r)
        /\ UNCHANGED <<dataVars, countVars>>

\* The process dies.
Crash(r) ==
    /\ run[r] # Idle
    /\ crashes < MaxCrashes
    /\ crashes' = crashes + 1
    /\ run' = [run EXCEPT ![r] = Idle]
    /\ job' = [j \in Job |-> IF j = run[r].job
                             THEN Taken(j) ELSE job[j]]
    /\ UNCHANGED <<event, inbox, dataVars, old, resets>>

-----------------------------------------------------------------------------
(* The reconcile loop. *)

\* An event that waits for its inbox is run in place, whatever its back-off.
PickIncoming(r, e) ==
    /\ r \in Loop
    /\ run[r] = Idle
    /\ event[e].error = "incoming"
    /\ ~event[e].processed
    /\ run' = [run EXCEPT ![r] = RunOf("start", e, NoJob)]
    /\ UNCHANGED <<event, inbox, job, dataVars, countVars>>

\* Afterwards an old event that is still not processed is given up.
AfterRun(r) ==
    LET e == run[r].event
        givenUp == ~event[e].processed /\ e \in old
    IN  /\ run[r].phase = "after"
        /\ event' = IF givenUp THEN GivenUp(e) ELSE event
        /\ expired' = IF givenUp THEN expired \cup {e} ELSE expired
        /\ run' = [run EXCEPT ![r] = Idle]
        /\ UNCHANGED <<inbox, job, stored, applied, countVars>>

\* A waiting edit is applied if its message is there, given up if it is old.
ReconcileEdit(r, e) ==
    /\ r \in Loop
    /\ run[r] = Idle
    /\ event[e].error = "edit"
    /\ ~event[e].processed
    /\ IF About[e] \in stored
       THEN /\ event' = Processed(e)
            /\ applied' = Revised({e})
            /\ UNCHANGED expired
       ELSE /\ e \in old
            /\ event' = GivenUp(e)
            /\ expired' = expired \cup {e}
            /\ UNCHANGED applied
    /\ UNCHANGED <<inbox, job, run, stored, countVars>>

GrowsOld(e) ==
    /\ event[e].stored
    /\ e \notin old
    /\ old' = old \cup {e}
    /\ UNCHANGED <<event, inbox, job, run, dataVars, crashes, resets>>

-----------------------------------------------------------------------------
RunStep(r) ==
    \/ Refuse(r) \/ Claim(r) \/ Open(r) \/ FindsSettled(r)
    \/ CommitEdit(r) \/ CommitMessage(r) \/ RecordFailure(r) \/ AfterRun(r)

Next ==
    \/ \E e \in Event : \/ Accept(e)
                        \/ \E j \in Job : Dispatch(e, j)
                        \/ RecoverProcessing(e)
                        \/ RequeueEnqueued(e)
                        \/ Reset(e)
                        \/ GrowsOld(e)
    \/ \E j \in Job : Enqueue(j) \/ EnqueueReturns(j) \/ EnqueueRaises(j) \/ JobLost(j)
    \/ \E r \in Runner : \/ RunStep(r)
                         \/ Raise(r)
                         \/ Crash(r)
                         \/ \E j \in Job : StartJob(r, j)
                         \/ \E e \in Event : PickIncoming(r, e) \/ ReconcileEdit(r, e)

Spec == Init /\ [][Next]_vars

-----------------------------------------------------------------------------
(* What the inbox must achieve. *)

\* No transaction is about to insert a message another one has stored since it
\* looked: the insert never meets uq_messages_provider_id.
InsertsOnce ==
    \A r \in Runner :
        run[r].phase = "open" /\ KindOf[run[r].event] = "message"
          /\ ~run[r].processed /\ ~run[r].exists =>
            About[run[r].event] \notin stored

\* An accepted event that is not processed can still be: its inbox row is in
\* motion, or failed and marked for an administrator, or it is an edit marked
\* as waiting for its message.
NothingForgotten ==
    \A e \in Event : event[e].stored /\ ~event[e].processed =>
        \/ inbox[e].status \in {"queued", "enqueued", "processing", "retry_wait"}
             /\ event[e].error = "incoming"
        \/ inbox[e].status = "failed" /\ event[e].error = "terminal"
        \/ inbox[e].status = "completed" /\ KindOf[e] = "edit" /\ event[e].error = "edit"

\* A processed event has had its effect unless the loop gave it up or the
\* adapter ignores it: its message is stored, its edit applied.
ProcessedHasEffect ==
    \A e \in Event : event[e].processed /\ e \notin expired /\ KindOf[e] # "ignored" =>
        IF KindOf[e] = "edit" THEN e \in applied ELSE About[e] \in stored

-----------------------------------------------------------------------------
(* Fairness: a run goes on; the loop goes through its batch in order of      *)
(* creation, so that no pending event is passed over for ever; the sweep     *)
(* comes round every two seconds.  Nothing is asked of RQ and of time.       *)

Fairness ==
    /\ \A r \in Runner : WF_vars(RunStep(r))
    /\ \A r \in Loop, e \in Event : SF_vars(PickIncoming(r, e)) /\ SF_vars(ReconcileEdit(r, e))
    /\ \A e \in Event : WF_vars(RecoverProcessing(e))

FairSpec == Spec /\ Fairness

\* Every accepted event settles, whatever becomes of its jobs: it is processed,
\* or failed and left to an administrator, or it is an edit whose message has
\* not come.
EventSettles ==
    \A e \in Event :
        event[e].stored ~> \/ event[e].processed
                           \/ inbox[e].status = "failed"
                           \/ KindOf[e] = "edit" /\ About[e] \notin stored
=============================================================================
