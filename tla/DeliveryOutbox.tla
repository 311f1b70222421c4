--------------------------- MODULE DeliveryOutbox ---------------------------
(***************************************************************************)
(* The delivery outbox of fluvius-core (src/api/app/delivery): a message   *)
(* accepted by the API is stored together with a MessageDelivery row, a    *)
(* dispatcher in every API process turns due rows into RQ jobs, and the    *)
(* delivery workers run the jobs, call the WhatsApp provider and store the *)
(* outcome.                                                                *)
(*                                                                         *)
(* An action is one database transaction, one Redis call or one provider   *)
(* call.  The claim commits (and so drops its row lock) before the provider*)
(* is called, so everything between Claim and the answer interleaves with  *)
(* the other workers, the dispatchers and the operators.                   *)
(*                                                                         *)
(* Abstracted: message contents, tenants (every query is filtered by one), *)
(* wall-clock time.  A back-off is the Boolean due; only the age of a      *)
(* running provider call is counted, because two timeouts (job_timeout and *)
(* PROCESSING_STALE_AFTER) are compared through it.                        *)
(***************************************************************************)
EXTENDS Naturals, FiniteSets

CONSTANTS
    Message,        \* outgoing messages, numbered by their created_at
    ConvOf,         \* the conversation of each message
    Job,            \* pool of RQ job identities (bounds the jobs alive at once)
    NoJob,          \* "no RQ job": a NULL rq_job_id
    NoMessage,      \* the message of a job identity that is not in use
    Workers,        \* number of delivery worker processes
    MaxAttempts,    \* MessageDelivery.max_attempts
    MaxRetries,     \* bound: manual retries per message
    JobTimeout,     \* the RQ job_timeout, in ticks
    StaleAfter      \* PROCESSING_STALE_AFTER, in ticks

\* Message ids are their creation rank; RQ cuts a job off before the
\* dispatcher may declare its delivery stale (90 s against 2 min).
ASSUME OutboxAssumption ==
    /\ Message \subseteq Nat
    /\ NoJob \notin Job
    /\ NoMessage \notin Message
    /\ IsFiniteSet(Job)
    /\ Workers \in Nat \ {0}
    /\ MaxAttempts \in Nat \ {0}
    /\ MaxRetries \in Nat
    /\ JobTimeout \in Nat
    /\ StaleAfter \in Nat
    /\ JobTimeout < StaleAfter

VARIABLES
    mstat,      \* Message.status; "absent" before the message is stored
    dstat,      \* MessageDelivery.status
    attempts,   \* MessageDelivery.attempt_count
    due,        \* next_attempt_at <= now
    lockAge,    \* ticks since locked_at
    rqJob,      \* MessageDelivery.rq_job_id
    job,        \* the RQ jobs: where each is, its message and, during a call,
                \* the attempt_count its session loaded and the call's age
    sendable,   \* channel connected and its credential usable
    accepted,   \* history: how often the provider took the message
    retries,    \* history: manual retries granted
    late        \* history: messages that became pending behind a running younger one

messageVars == <<mstat, accepted, retries, late>>
deliveryVars == <<dstat, attempts, due, lockAge, rqJob>>
vars == <<messageVars, deliveryVars, job, sendable>>

MessageStatus == {"absent", "pending", "sent", "failed"}
DeliveryStatus == {"none", "queued", "enqueued", "processing", "retry_wait",
                   "completed", "failed"}
\* "sending": the row says enqueued, the job is not in Redis yet; "calling":
\* the provider call is outstanding; "failing": run_delivery caught an
\* exception; "following": the finally clause is left to run.
Phase == {"free", "sending", "queued", "started", "calling", "failing", "following"}
JobState == [phase : Phase, msg : Message \cup {NoMessage}, loaded : Nat, age : Nat]
JobAt(p, m) == [phase |-> p, msg |-> m, loaded |-> 0, age |-> 0]
Idle == JobAt("free", NoMessage)

TypeOK ==
    /\ mstat \in [Message -> MessageStatus]
    /\ dstat \in [Message -> DeliveryStatus]
    /\ attempts \in [Message -> Nat]
    /\ due \in [Message -> BOOLEAN]
    /\ lockAge \in [Message -> Nat]
    /\ rqJob \in [Message -> Job \cup {NoJob}]
    /\ job \in [Job -> JobState]
    /\ \A j \in Job : job[j].phase # "free" => job[j].msg \in Message
    /\ sendable \in BOOLEAN
    /\ accepted \in [Message -> Nat]
    /\ retries \in [Message -> Nat]
    /\ late \in SUBSET Message

Init ==
    /\ mstat = [m \in Message |-> "absent"]
    /\ dstat = [m \in Message |-> "none"]
    /\ attempts = [m \in Message |-> 0]
    /\ due = [m \in Message |-> FALSE]
    /\ lockAge = [m \in Message |-> 0]
    /\ rqJob = [m \in Message |-> NoJob]
    /\ job = [j \in Job |-> Idle]
    /\ sendable = TRUE
    /\ accepted = [m \in Message |-> 0]
    /\ retries = [m \in Message |-> 0]
    /\ late = {}

-----------------------------------------------------------------------------
(* What the handlers read. *)

Waiting == {"queued", "retry_wait"}
Terminal == {"completed", "failed"}
Running(j) == job[j].phase \in {"started", "calling", "failing", "following"}

\* Job.fetch(...).get_status() is an active one: the job is in Redis.
JobActive(j) == j \in Job /\ (job[j].phase = "queued" \/ Running(j))

\* Mutant: only a predecessor that waits counts, not one being sent.
WaitingPredecessorOnly(m) ==
    \E o \in Message : o < m /\ ConvOf[o] = ConvOf[m] /\ dstat[o] \in Waiting

\* delivery/order.py: an older message of the conversation is still pending.
HasPendingPredecessor(m) ==
    \E o \in Message : o < m /\ ConvOf[o] = ConvOf[m] /\ mstat[o] = "pending"

\* The conditions dispatch_delivery puts on the row it locks.
Dispatchable(m) ==
    /\ dstat[m] \in Waiting
    /\ due[m]
    /\ mstat[m] = "pending"
    /\ ~HasPendingPredecessor(m)

\* uuid4 never repeats: a pool identity is taken again only when no enqueued
\* row still names it.
Fresh(j) ==
    /\ job[j].phase = "free"
    /\ \A m \in Message : rqJob[m] # j

\* A message becoming pending is late when a younger message of its
\* conversation is already being sent.
BecomesPending(m) ==
    late' = IF \E y \in Message : m < y /\ ConvOf[m] = ConvOf[y] /\ dstat[y] = "processing"
            THEN late \cup {m} ELSE late \ {m}

\* The row moves to a status that is not enqueued.  locked_at is NULL or, for
\* processing, now; rq_job_id is only ever read on enqueued rows.
RowBecomes(m, status) ==
    /\ dstat' = [dstat EXCEPT ![m] = status]
    /\ lockAge' = [lockAge EXCEPT ![m] = 0]
    /\ rqJob' = [rqJob EXCEPT ![m] = NoJob]

-----------------------------------------------------------------------------
(* The API: accepting a message and retrying a failed one. *)

\* send_message, send_contact_message, send_attachment and the bots: message
\* and delivery row in one transaction.  created_at is the start of that
\* transaction, so a message may appear after a younger one did.
Create(m) ==
    /\ mstat[m] = "absent"
    /\ sendable
    /\ mstat' = [mstat EXCEPT ![m] = "pending"]
    /\ RowBecomes(m, "queued")
    /\ due' = [due EXCEPT ![m] = TRUE]
    /\ BecomesPending(m)
    /\ UNCHANGED <<accepted, retries, attempts, job, sendable>>

\* retry_message with ensure_delivery(reset=True): only a failed message.
Retry(m) ==
    /\ mstat[m] = "failed"
    /\ sendable
    /\ retries[m] < MaxRetries
    /\ mstat' = [mstat EXCEPT ![m] = "pending"]
    /\ RowBecomes(m, "queued")
    /\ attempts' = [attempts EXCEPT ![m] = 0]
    /\ due' = [due EXCEPT ![m] = TRUE]
    /\ retries' = [retries EXCEPT ![m] = @ + 1]
    /\ BecomesPending(m)
    /\ UNCHANGED <<accepted, job, sendable>>

\* The channel disconnects or reconnects, its credential expires or is renewed.
ChannelFlips ==
    /\ sendable' = ~sendable
    /\ UNCHANGED <<messageVars, deliveryVars, job>>

-----------------------------------------------------------------------------
(* The dispatcher. *)

\* First transaction of dispatch_delivery, called by the dispatcher loop and
\* by every handler that has just stored or re-found a pending message.
Dispatch(m, j) ==
    /\ Dispatchable(m)
    /\ Fresh(j)
    /\ dstat' = [dstat EXCEPT ![m] = "enqueued"]
    /\ rqJob' = [rqJob EXCEPT ![m] = j]
    /\ job' = [job EXCEPT ![j] = JobAt("sending", m)]
    /\ UNCHANGED <<messageVars, attempts, due, lockAge, sendable>>

Enqueue(j) ==
    /\ job[j].phase = "sending"
    /\ job' = [job EXCEPT ![j] = JobAt("queued", @.msg)]
    /\ UNCHANGED <<messageVars, deliveryVars, sendable>>

\* enqueue raised: the row goes back to queued if it still names this job.
\* The exception may hide an answer that was lost, and then the job exists.
EnqueueRaises(j) ==
    /\ job[j].phase = "sending"
    /\ \E next \in {Idle, JobAt("queued", job[j].msg)} : job' = [job EXCEPT ![j] = next]
    /\ IF dstat[job[j].msg] = "enqueued" /\ rqJob[job[j].msg] = j
       THEN RowBecomes(job[j].msg, "queued")
       ELSE UNCHANGED <<dstat, lockAge, rqJob>>
    /\ UNCHANGED <<messageVars, attempts, due, sendable>>

\* The process dies between the commit and the enqueue, or Redis loses a
\* queued job.
JobLost(j) ==
    /\ job[j].phase \in {"sending", "queued"}
    /\ job' = [job EXCEPT ![j] = Idle]
    /\ UNCHANGED <<messageVars, deliveryVars, sendable>>

\* Mutant: a row is stale as soon as RQ may cut its call off.
StaleAtTimeout(m) == dstat[m] = "processing" /\ lockAge[m] >= JobTimeout

\* A processing row whose locked_at is older than PROCESSING_STALE_AFTER.
IsStale(m) == dstat[m] = "processing" /\ lockAge[m] >= StaleAfter

\* Mutant: the recovery looks at processing rows only.
SweepStaleOnly(skipped, expired) ==
    LET stale == {m \in Message \ skipped : IsStale(m)}
    IN  /\ stale # {}
        /\ mstat' = [m \in Message |->
                        IF m \in stale /\ mstat[m] = "pending" THEN "failed" ELSE mstat[m]]
        /\ dstat' = [m \in Message |-> IF m \in stale THEN "failed" ELSE dstat[m]]
        /\ lockAge' = [m \in Message |-> IF m \in stale THEN 0 ELSE lockAge[m]]
        /\ UNCHANGED <<accepted, retries, late, attempts, due, rqJob, job, sendable>>

\* The recovery transaction of dispatch_due_deliveries: fail_stale_delivery on
\* the stale rows, and back to queued the enqueued rows whose RQ job is not
\* active or that are expired, whatever their job.  Rows another transaction
\* has locked are skipped.
Sweep(skipped, expired) ==
    LET stale == {m \in Message \ skipped : IsStale(m)}
        requeued == {m \in Message \ skipped :
                        dstat[m] = "enqueued" /\ (m \in expired \/ ~JobActive(rqJob[m]))}
    IN  /\ stale \cup requeued # {}
        /\ mstat' = [m \in Message |->
                        IF m \in stale /\ mstat[m] = "pending" THEN "failed" ELSE mstat[m]]
        /\ dstat' = [m \in Message |->
                        IF m \in stale THEN "failed"
                        ELSE IF m \in requeued THEN "queued" ELSE dstat[m]]
        /\ rqJob' = [m \in Message |-> IF m \in requeued THEN NoJob ELSE rqJob[m]]
        /\ lockAge' = [m \in Message |-> IF m \in stale THEN 0 ELSE lockAge[m]]
        /\ UNCHANGED <<accepted, retries, late, attempts, due, job, sendable>>

-----------------------------------------------------------------------------
(* The delivery worker. *)

Busy == {j \in Job : Running(j)}

StartJob(j) ==
    /\ job[j].phase = "queued"
    /\ Cardinality(Busy) < Workers
    /\ job' = [job EXCEPT ![j] = JobAt("started", @.msg)]
    /\ UNCHANGED <<messageVars, deliveryVars, sendable>>

\* The early return under the row lock of _run_delivery is not taken.
Claimable(j) ==
    /\ job[j].phase = "started"
    /\ dstat[job[j].msg] \in Waiting \cup {"enqueued"}
    /\ due[job[j].msg]

\* Another job already claimed or settled the delivery, or it is not due.
Skip(j) ==
    /\ job[j].phase = "started"
    /\ ~Claimable(j)
    /\ job' = [job EXCEPT ![j] = JobAt("following", @.msg)]
    /\ UNCHANGED <<messageVars, deliveryVars, sendable>>

\* The message is not pending any more: the delivery is closed without it.
RefuseSettled(j) ==
    /\ Claimable(j)
    /\ mstat[job[j].msg] # "pending"
    /\ RowBecomes(job[j].msg, "failed")
    /\ job' = [job EXCEPT ![j] = JobAt("following", @.msg)]
    /\ UNCHANGED <<messageVars, attempts, due, sendable>>

\* An older message of the conversation is pending: wait two seconds.
Postpone(j) ==
    /\ Claimable(j)
    /\ mstat[job[j].msg] = "pending"
    /\ HasPendingPredecessor(job[j].msg)
    /\ RowBecomes(job[j].msg, "retry_wait")
    /\ due' = [due EXCEPT ![job[j].msg] = FALSE]
    /\ job' = [job EXCEPT ![j] = JobAt("following", @.msg)]
    /\ UNCHANGED <<messageVars, attempts, sendable>>

\* Both rows are failed and the job goes on to its finally clause.
Fail(j) ==
    /\ mstat' = [mstat EXCEPT ![job[j].msg] = "failed"]
    /\ RowBecomes(job[j].msg, "failed")
    /\ job' = [job EXCEPT ![j] = JobAt("following", @.msg)]

\* The channel is not connected or its credential cannot be used.
RefuseChannel(j) ==
    /\ Claimable(j)
    /\ mstat[job[j].msg] = "pending"
    /\ ~HasPendingPredecessor(job[j].msg)
    /\ ~sendable
    /\ Fail(j)
    /\ UNCHANGED <<accepted, retries, late, attempts, due, sendable>>

\* The attempt is committed, which ends the row lock, before the provider is
\* called.
Claim(j) ==
    /\ Claimable(j)
    /\ mstat[job[j].msg] = "pending"
    /\ ~HasPendingPredecessor(job[j].msg)
    /\ sendable
    /\ RowBecomes(job[j].msg, "processing")
    /\ attempts' = [attempts EXCEPT ![job[j].msg] = @ + 1]
    /\ job' = [job EXCEPT ![j] = 
                    [phase |-> "calling", msg |-> @.msg, loaded |-> attempts[@.msg] + 1, age |-> 0]]
    /\ UNCHANGED <<messageVars, due, sendable>>

\* The provider may or may not have taken a message whose answer is unclear.
MaybeAccepted(j) ==
    \E taken \in {0, 1} : accepted' = [accepted EXCEPT ![job[j].msg] = @ + taken]

\* A positive answer with a message id.  Nothing is read again: the session
\* writes what it changed since the claim.
AnswerSent(j) ==
    /\ job[j].phase = "calling"
    /\ accepted' = [accepted EXCEPT ![job[j].msg] = @ + 1]
    /\ mstat' = [mstat EXCEPT ![job[j].msg] = "sent"]
    /\ RowBecomes(job[j].msg, "completed")
    /\ job' = [job EXCEPT ![j] = JobAt("following", @.msg)]
    /\ UNCHANGED <<retries, late, attempts, due, sendable>>

\* Mutant: an uncertain answer is retried like a refused connection.
UncertainIsRetried(j) ==
    /\ job[j].phase = "calling"
    /\ MaybeAccepted(j)
    /\ RowBecomes(job[j].msg, "retry_wait")
    /\ due' = [due EXCEPT ![job[j].msg] = FALSE]
    /\ job' = [job EXCEPT ![j] = JobAt("following", @.msg)]
    /\ UNCHANGED <<mstat, retries, late, attempts, sendable>>

\* A definitive refusal, a positive answer without an id, or an answer the
\* adapter classifies as uncertain.
AnswerFailed(j) ==
    /\ job[j].phase = "calling"
    /\ MaybeAccepted(j)
    /\ Fail(j)
    /\ UNCHANGED <<retries, late, attempts, due, sendable>>

\* Mutant: one attempt too many.
RetryableOnceMore(j) ==
    /\ job[j].phase = "calling"
    /\ job[j].loaded <= MaxAttempts
    /\ RowBecomes(job[j].msg, "retry_wait")
    /\ due' = [due EXCEPT ![job[j].msg] = FALSE]
    /\ job' = [job EXCEPT ![j] = JobAt("following", @.msg)]
    /\ UNCHANGED <<messageVars, attempts, sendable>>

\* Refused before acceptance (connection refused, connect or pool timeout,
\* HTTP 429) with attempts left, by the count loaded at the claim.  The
\* session's message is still pending, so the UPDATE leaves its status alone.
AnswerRetryable(j) ==
    /\ job[j].phase = "calling"
    /\ job[j].loaded < MaxAttempts
    /\ RowBecomes(job[j].msg, "retry_wait")
    /\ due' = [due EXCEPT ![job[j].msg] = FALSE]
    /\ job' = [job EXCEPT ![j] = JobAt("following", @.msg)]
    /\ UNCHANGED <<messageVars, attempts, sendable>>

\* The same answer to the last attempt.
AnswerExhausted(j) ==
    /\ job[j].phase = "calling"
    /\ job[j].loaded >= MaxAttempts
    /\ Fail(j)
    /\ UNCHANGED <<accepted, retries, late, attempts, due, sendable>>

\* An exception leaves _run_delivery: a database error before the claim, or
\* the job timeout or a failed commit while the call is outstanding.
Raise(j) ==
    /\ job[j].phase \in {"started", "calling"}
    /\ IF job[j].phase = "calling" THEN MaybeAccepted(j) ELSE UNCHANGED accepted
    /\ job' = [job EXCEPT ![j] = JobAt("failing", @.msg)]
    /\ UNCHANGED <<mstat, retries, late, deliveryVars, sendable>>

\* Mutant: the internal failure is recorded whatever the delivery's status.
MarkFailureAlways(j) ==
    /\ job[j].phase = "failing"
    /\ RowBecomes(job[j].msg, "failed")
    /\ mstat' = [mstat EXCEPT ![job[j].msg] = IF @ = "pending" THEN "failed" ELSE @]
    /\ job' = [job EXCEPT ![j] = JobAt("following", @.msg)]
    /\ UNCHANGED <<accepted, retries, late, attempts, due, sendable>>

\* _mark_internal_failure, under the row lock: whatever job claimed the row.
MarkInternalFailure(j) ==
    /\ job[j].phase = "failing"
    /\ IF dstat[job[j].msg] \in Terminal
       THEN UNCHANGED <<dstat, lockAge, rqJob, mstat>>
       ELSE /\ RowBecomes(job[j].msg, "failed")
            /\ mstat' = [mstat EXCEPT ![job[j].msg] = IF @ = "pending" THEN "failed" ELSE @]
    /\ job' = [job EXCEPT ![j] = JobAt("following", @.msg)]
    /\ UNCHANGED <<accepted, retries, late, attempts, due, sendable>>

\* ... which itself raises: the row is left to the stale recovery.
FailureNotRecorded(j) ==
    /\ job[j].phase = "failing"
    /\ job' = [job EXCEPT ![j] = JobAt("following", @.msg)]
    /\ UNCHANGED <<messageVars, deliveryVars, sendable>>

\* dispatch_next_delivery: only after a terminal outcome, the oldest pending
\* delivery of the conversation that is due.
NextDelivery(j, n) ==
    LET waiting == {o \in Message : /\ ConvOf[o] = ConvOf[job[j].msg]
                                    /\ dstat[o] \in Waiting
                                    /\ due[o]
                                    /\ mstat[o] = "pending"}
    IN  /\ dstat[job[j].msg] \in Terminal
        /\ n \in waiting
        /\ \A o \in waiting : n <= o

\* The finally clause hands the conversation on and the job ends.
Follow(j, n, k) ==
    /\ job[j].phase = "following"
    /\ k # j
    /\ NextDelivery(j, n)
    /\ Dispatchable(n)
    /\ Fresh(k)
    /\ dstat' = [dstat EXCEPT ![n] = "enqueued"]
    /\ rqJob' = [rqJob EXCEPT ![n] = k]
    /\ job' = [job EXCEPT ![j] = Idle, ![k] = JobAt("sending", n)]
    /\ UNCHANGED <<messageVars, attempts, due, lockAge, sendable>>

\* The job ends without a successor: there is none, or the finally clause
\* swallowed an error.
EndJob(j) ==
    /\ job[j].phase = "following"
    /\ job' = [job EXCEPT ![j] = Idle]
    /\ UNCHANGED <<messageVars, deliveryVars, sendable>>

\* The work horse is killed; RQ fails the job and never runs it again.
Crash(j) ==
    /\ Running(j)
    /\ IF job[j].phase = "calling" THEN MaybeAccepted(j) ELSE UNCHANGED accepted
    /\ job' = [job EXCEPT ![j] = Idle]
    /\ UNCHANGED <<mstat, retries, late, deliveryVars, sendable>>

-----------------------------------------------------------------------------
(* Time. *)

\* next_attempt_at passes.
BecomeDue(m) ==
    /\ dstat[m] = "retry_wait"
    /\ ~due[m]
    /\ due' = [due EXCEPT ![m] = TRUE]
    /\ UNCHANGED <<messageVars, dstat, attempts, lockAge, rqJob, job, sendable>>

\* The death penalty of RQ stops a job before a call grows older than
\* JobTimeout.  Ages stop counting at StaleAfter.
Older(age) == IF age < StaleAfter THEN age + 1 ELSE age

Tick ==
    /\ \A j \in Job : job[j].phase = "calling" => job[j].age < JobTimeout
    /\ \E m \in Message : dstat[m] = "processing" /\ lockAge[m] < StaleAfter
    /\ lockAge' = [m \in Message |->
                     IF dstat[m] = "processing" THEN Older(lockAge[m]) ELSE lockAge[m]]
    /\ job' = [j \in Job |->
                 IF job[j].phase = "calling" THEN [job[j] EXCEPT !.age = Older(@)] ELSE job[j]]
    /\ UNCHANGED <<messageVars, dstat, attempts, due, rqJob, sendable>>

-----------------------------------------------------------------------------
RunJob(j) ==
    \/ Skip(j) \/ RefuseSettled(j) \/ Postpone(j) \/ RefuseChannel(j) \/ Claim(j)

\* send_text, send_media and send_contact end alike, and call_provider's
\* caller tells their results apart.
Answer(j) ==
    \/ AnswerSent(j) \/ AnswerFailed(j) \/ AnswerRetryable(j) \/ AnswerExhausted(j)

Next ==
    \/ \E m \in Message : Create(m) \/ Retry(m) \/ BecomeDue(m)
    \/ \E m \in Message, j \in Job : Dispatch(m, j)
    \/ \E skipped, expired \in SUBSET Message : Sweep(skipped, expired)
    \/ \E j \in Job :
          \/ Enqueue(j) \/ EnqueueRaises(j) \/ JobLost(j) \/ StartJob(j)
          \/ RunJob(j) \/ Answer(j)
          \/ Raise(j) \/ MarkInternalFailure(j) \/ FailureNotRecorded(j)
          \/ EndJob(j) \/ Crash(j)
    \/ \E j, k \in Job, n \in Message : Follow(j, n, k)
    \/ Tick
    \/ ChannelFlips

Spec == Init /\ [][Next]_vars

-----------------------------------------------------------------------------
(* What the outbox must guarantee. *)

\* The provider takes a message at most once for the send and once for each
\* manual retry: duplicate jobs, lost answers, crashes, stale recoveries and
\* late results never send a message nobody asked for again.
NoDuplicateSend == \A m \in Message : accepted[m] <= 1 + retries[m]

\* A pending message always has a delivery some recovery can find: no
\* interleaving leaves a message pending over a closed delivery row.
NoOrphanPending ==
    \A m \in Message :
        mstat[m] = "pending" => dstat[m] \in Waiting \cup {"enqueued", "processing"}

\* When fail_stale_delivery may close a processing row, no job is waiting for
\* the provider's answer to that message any more.
StaleIsAbandoned ==
    \A m \in Message : IsStale(m) =>
        \A j \in Job : ~(job[j].phase = "calling" /\ job[j].msg = m)

\* Two messages of a conversation are processed at once only if the older one
\* became pending while the younger one was already being sent.
InOrder ==
    \A m, y \in Message :
        /\ m < y
        /\ ConvOf[m] = ConvOf[y]
        /\ dstat[m] = "processing"
        /\ dstat[y] = "processing"
        => m \in late

\* Until an operator retries a message, at most one job is calling the
\* provider for it, and it is attempted at most MaxAttempts times.
SoleAttempt ==
    \A m \in Message : retries[m] = 0 =>
        /\ attempts[m] <= MaxAttempts
        /\ \A j, k \in Job : /\ job[j].phase = "calling" /\ job[k].phase = "calling"
                             /\ job[j].msg = m /\ job[k].msg = m
                             => j = k

\* Until an operator retries a message, message and delivery agree on success,
\* whatever failures other jobs record.
SuccessAgreed ==
    \A m \in Message : retries[m] = 0 => (mstat[m] = "sent") = (dstat[m] = "completed")

\* The outbox implements the permits of SendPermits: storing a message and each
\* manual retry grant one send.
Permits == INSTANCE SendPermits WITH
    granted <- [m \in Message |-> IF mstat[m] = "absent" THEN 0 ELSE 1 + retries[m]],
    used <- accepted
ImplementsPermits == Permits!Spec

-----------------------------------------------------------------------------
(* Fairness.  The dispatcher loop sweeps and dispatches every two seconds,   *)
(* the workers keep taking jobs, calls are cut off by a timeout and clocks   *)
(* advance (WF).  Faults do not hit a message every time: an enqueue, a      *)
(* start and a run that keep becoming possible eventually succeed (SF).      *)
(* Nothing forces people, the channel or a fault to act.                     *)

ForMessage(m, j) == job[j].msg = m

Fairness ==
    /\ WF_vars(Sweep({}, {}))
    /\ WF_vars(Tick)
    /\ \A m \in Message :
          /\ WF_vars(\E j \in Job : Dispatch(m, j))
          /\ WF_vars(BecomeDue(m))
          /\ SF_vars(\E j \in Job : ForMessage(m, j) /\ Enqueue(j))
          /\ SF_vars(\E j \in Job : ForMessage(m, j) /\ StartJob(j))
          /\ SF_vars(\E j \in Job : ForMessage(m, j) /\ RunJob(j))
    /\ \A j \in Job :
          /\ WF_vars(Answer(j) \/ Raise(j))
          /\ WF_vars(MarkInternalFailure(j) \/ FailureNotRecorded(j))
          /\ WF_vars(EndJob(j) \/ \E k \in Job, n \in Message : Follow(j, n, k))

FairSpec == Spec /\ Fairness

\* Every message that becomes pending is eventually sent or failed, through
\* lost jobs, crashed workers and back-offs.
PendingSettles ==
    \A m \in Message : mstat[m] = "pending" ~> mstat[m] \in {"sent", "failed"}
=============================================================================
