------------------------------ MODULE SyncRuns ------------------------------
(***************************************************************************)
(* The administrative synchronisation of one channel (src/api/app/sync):   *)
(* an administrator's request stores a SyncRun row and enqueues an RQ job, *)
(* and the job walks over the contacts and pending provider events it      *)
(* listed, one short transaction per item.                                 *)
(*                                                                         *)
(* The row of the run is locked when the run is claimed, failed or         *)
(* finished, but read without a lock before each item, and the counters    *)
(* are written back from that reading after a call to the provider.  A     *)
(* request that finds the active run too old, and one whose enqueue raised,*)
(* fail the run in between.                                                *)
(*                                                                         *)
(* Abstracted: tenants, the error shown with the run, the limits of the    *)
(* two listings (any subset may be listed), the channel's connection and   *)
(* the contact's profile (a request may be refused and an item fail), and  *)
(* the wall clock, of which only the ages two timeouts compare are kept.   *)
(***************************************************************************)
EXTENDS Naturals, FiniteSets

CONSTANTS
    Run,            \* requests to synchronise the channel, and their SyncRun
                    \* rows, numbered in the order the requests arrive
    SyncType,       \* the sync_type each request asks for
    Contact,        \* contacts with a conversation on the channel
    Event,          \* its provider events with a pending receipt or edit
    NoItem,         \* no item is being synchronised
    Workers,        \* worker processes of the queue fluvius-maintenance
    JobTimeout,     \* RQ raises JobTimeoutException in the job, in ticks
    KillAfter,      \* RQ kills the job's process, in ticks
    StaleAfter      \* STALE_AFTER, in ticks

\* RQ kills a job a minute after its job_timeout of 30 min; a run is stale
\* after an hour.
ASSUME SyncAssumption ==
    /\ Run \subseteq Nat
    /\ SyncType \in [Run -> {"contacts", "messages", "all"}]
    /\ IsFiniteSet(Contact) /\ IsFiniteSet(Event)
    /\ Contact \cap Event = {}
    /\ NoItem \notin Contact \cup Event
    /\ Workers \in Nat \ {0}
    /\ JobTimeout \in Nat /\ KillAfter \in Nat /\ StaleAfter \in Nat
    /\ JobTimeout <= KillAfter /\ KillAfter < StaleAfter

VARIABLES
    req,        \* where the request of each run is
    row,        \* the SyncRun rows; age is counted from updated_at
    job,        \* the RQ jobs; loaded is the row an item's session read
    pending     \* the events not processed yet

vars == <<req, row, job, pending>>

Item == Contact \cup Event

\* "clear": no active run was found; "stored": the row is committed; "sent":
\* the job is in Redis; "raised": enqueue raised; "queueError": and the run was
\* failed for it; "done": answered, refused or cut off.
Request == {"none", "clear", "stored", "sent", "raised", "queueError", "done"}

Active == {"queued", "running"}
Final == {"completed", "partial", "failed"}
Tally == [ok : Nat, bad : Nat]
NoTally == [ok |-> 0, bad |-> 0]
Row == [status : Active \cup Final \cup {"absent"}, items : SUBSET Item,
        tally : Tally, age : Nat]

\* "importing": the claim is committed; "items": between two items; "calling":
\* an item is being synchronised; "recorded": its result is committed but the
\* try block not left; "recovering": in its exception handler; "finished":
\* _finish_run has committed; "fatal": in the handler of run_sync.
Working == {"importing", "items", "calling", "recorded", "recovering"}
Busy == Working \cup {"started", "finished", "fatal"}
JobState == [phase : Busy \cup {"none", "queued", "ended"}, todo : SUBSET Item,
             item : Item \cup {NoItem}, loaded : Tally, age : Nat, alarmed : BOOLEAN]
JobAt(p) == [phase |-> p, todo |-> {}, item |-> NoItem, loaded |-> NoTally,
             age |-> 0, alarmed |-> FALSE]

TypeOK ==
    /\ req \in [Run -> Request]
    /\ row \in [Run -> Row]
    /\ job \in [Run -> JobState]
    /\ pending \in SUBSET Event

Init ==
    /\ req = [r \in Run |-> "none"]
    /\ row = [r \in Run |-> [status |-> "absent", items |-> {}, tally |-> NoTally, age |-> 0]]
    /\ job = [r \in Run |-> JobAt("none")]
    /\ pending = Event

IsActive(r) == row[r].status \in Active

\* A commit that changes a row sets its updated_at.  Ends(r): nothing of an RQ
\* job is read once it is over.
Writes(r, status, tally) ==
    row' = [row EXCEPT ![r] = [@ EXCEPT !.status = status, !.tally = tally, !.age = 0]]
Goes(r, phase) == job' = [job EXCEPT ![r] = [@ EXCEPT !.phase = phase]]
Ends(r) == job' = [job EXCEPT ![r] = JobAt("ended")]
Answers(r, phase) == req' = [req EXCEPT ![r] = phase]

-----------------------------------------------------------------------------
(* The request: create_sync_run. *)

Arrives(r) == req[r] = "none" /\ \A s \in Run : s < r => req[s] # "none"

\* Mutant: a run is stale when RQ may still let its job run.
StaleAtTimeout(r) == IsActive(r) /\ row[r].age >= KillAfter

IsStale(r) == IsActive(r) /\ row[r].age >= StaleAfter

\* The active run of the channel is locked and read; a young one is a 409.
Refuse(r) ==
    /\ Arrives(r)
    /\ \E a \in Run : IsActive(a) /\ ~IsStale(a)
    /\ Answers(r, "done")
    /\ UNCHANGED <<row, job, pending>>

\* A stale one is failed, and committed before the new run is stored.
Expire(r) ==
    /\ Arrives(r)
    /\ \E a \in Run : IsStale(a) /\ Writes(a, "failed", row[a].tally)
    /\ Answers(r, "clear")
    /\ UNCHANGED <<job, pending>>

Clear(r) ==
    /\ Arrives(r)
    /\ \A a \in Run : ~IsActive(a)
    /\ Answers(r, "clear")
    /\ UNCHANGED <<row, job, pending>>

StoresRun(r) ==
    /\ row' = [row EXCEPT ![r] = [@ EXCEPT !.status = "queued"]]
    /\ Answers(r, "stored")

\* Mutant: without the index the answer of the first query is trusted.
InsertTrusting(r) ==
    /\ req[r] = "clear"
    /\ StoresRun(r)
    /\ UNCHANGED <<job, pending>>

\* The index uq_sync_runs_active_channel turns a second active run away.
Insert(r) ==
    /\ req[r] = "clear"
    /\ IF \E a \in Run : IsActive(a)
       THEN Answers(r, "done") /\ UNCHANGED row
       ELSE StoresRun(r)
    /\ UNCHANGED <<job, pending>>

Enqueue(r) ==
    /\ req[r] = "stored"
    /\ Answers(r, "sent")
    /\ Goes(r, "queued")
    /\ UNCHANGED <<row, pending>>

\* rq_job_id is stored, which nothing reads, but the row is updated.
RecordJob(r) ==
    /\ req[r] = "sent"
    /\ Answers(r, "done")
    /\ row' = [row EXCEPT ![r] = [@ EXCEPT !.age = 0]]
    /\ UNCHANGED <<job, pending>>

\* The exception may hide an answer that was lost, and then the job exists.
EnqueueRaises(r) ==
    /\ req[r] = "stored"
    /\ Answers(r, "raised")
    /\ \E phase \in {"none", "queued"} : Goes(r, phase)
    /\ UNCHANGED <<row, pending>>

\* The run is failed whatever its job has made of it by now.
RecordQueueError(r) ==
    /\ req[r] = "raised"
    /\ Answers(r, "queueError")
    /\ Writes(r, "failed", row[r].tally)
    /\ UNCHANGED <<job, pending>>

ApiDies(r) ==
    /\ req[r] \in {"clear", "stored", "sent", "raised"}
    /\ Answers(r, "done")
    /\ UNCHANGED <<row, job, pending>>

-----------------------------------------------------------------------------
(* The job: run_sync. *)

StartJob(r) ==
    /\ job[r].phase = "queued"
    /\ Cardinality({s \in Run : job[s].phase \in Busy}) < Workers
    /\ Goes(r, "started")
    /\ UNCHANGED <<req, row, pending>>

WantsContacts(r) == SyncType[r] \in {"contacts", "all"}
ListedContacts(r) == IF WantsContacts(r) THEN Contact ELSE {}
ListedEvents(r) == IF SyncType[r] \in {"messages", "all"} THEN pending ELSE {}

\* First transaction of _run_sync: the run is running and its items, which two
\* limits and recent_days cut, are listed.  With the contacts of a channel of
\* Evolution Go its groups are imported.
Claim(r) ==
    /\ job[r].phase = "started"
    /\ row[r].status = "queued"
    /\ \E contacts \in SUBSET ListedContacts(r), events \in SUBSET ListedEvents(r),
          phase \in {"items"} \cup (IF WantsContacts(r) THEN {"importing"} ELSE {}) :
          /\ row' = [row EXCEPT ![r] = [@ EXCEPT !.status = "running", !.age = 0,
                                                 !.items = contacts \cup events]]
          /\ job' = [job EXCEPT ![r] = [@ EXCEPT !.phase = phase,
                                                 !.todo = contacts \cup events]]
    /\ UNCHANGED <<req, pending>>

\* The run was failed while its job waited.
SkipRun(r) ==
    /\ job[r].phase = "started"
    /\ row[r].status # "queued"
    /\ Ends(r)
    /\ UNCHANGED <<req, row, pending>>

\* import_channel_groups: the groups are counted in the row, unless the
\* channel has no usable credential or its provider no groups.
ImportGroups(r) ==
    /\ job[r].phase = "importing"
    /\ Goes(r, "items")
    /\ row' \in {row, [row EXCEPT ![r] = [@ EXCEPT !.age = 0]]}
    /\ UNCHANGED <<req, pending>>

\* Contacts come first.
IsNext(r, i) == i \in job[r].todo /\ (i \in Contact \/ job[r].todo \cap Contact = {})
LockedByJob(e) == \E r \in Run : job[r].phase = "calling" /\ job[r].item = e

\* _synchronize_contact and _reconcile_message_event read the run without a
\* lock; the event is locked until its result is committed.
BeginItem(r, i) ==
    /\ job[r].phase = "items"
    /\ IsNext(r, i)
    /\ row[r].status = "running"
    /\ i \in Event => ~LockedByJob(i)
    /\ job' = [job EXCEPT ![r] = [@ EXCEPT !.phase = "calling", !.item = i,
                                           !.loaded = row[r].tally]]
    /\ UNCHANGED <<req, row, pending>>

Leaves(r, item) ==
    job' = [job EXCEPT ![r] = [@ EXCEPT !.phase = "items", !.item = NoItem,
                                        !.todo = job[r].todo \ {item}]]

SkipItem(r, i) ==
    /\ job[r].phase = "items"
    /\ IsNext(r, i)
    /\ row[r].status # "running"
    /\ Leaves(r, i)
    /\ UNCHANGED <<req, row, pending>>

\* _record_item: the counters of the row t, one result later.
Counted(t, success) ==
    IF success THEN [t EXCEPT !.ok = @ + 1] ELSE [t EXCEPT !.bad = @ + 1]

\* The counters are written from the row as it was loaded; the status, which
\* the item does not change, is not written.
CommitsItem(r, success) ==
    /\ row' = [row EXCEPT ![r] = [@ EXCEPT !.age = 0,
                                           !.tally = Counted(job[r].loaded, success)]]
    /\ job' = [job EXCEPT ![r] = [@ EXCEPT !.phase = "recorded", !.loaded = NoTally]]

RecordContact(r) ==
    /\ job[r].phase = "calling"
    /\ job[r].item \in Contact
    /\ \E success \in BOOLEAN : CommitsItem(r, success)
    /\ UNCHANGED <<req, pending>>

\* Mutant: an event handled without an exception counts as a success.
RecordEventHandled(r) ==
    /\ job[r].phase = "calling"
    /\ job[r].item \in Event
    /\ \E closed \in SUBSET {job[r].item} : pending' = pending \ closed
    /\ CommitsItem(r, TRUE)
    /\ UNCHANGED req

\* The event is applied, given up as too old, ignored, or stays pending; it
\* succeeds if it is processed, now or already when it was locked.
RecordEvent(r) ==
    /\ job[r].phase = "calling"
    /\ job[r].item \in Event
    /\ \E closed \in SUBSET {job[r].item} : pending' = pending \ closed
    /\ CommitsItem(r, job[r].item \notin pending')
    /\ UNCHANGED req

LeaveItem(r) ==
    /\ job[r].phase = "recorded"
    /\ Leaves(r, job[r].item)
    /\ UNCHANGED <<req, row, pending>>

\* Mutant: an item that raised is tried again, not counted.
RetryItem(r) ==
    /\ job[r].phase = "recovering"
    /\ Leaves(r, NoItem)
    /\ UNCHANGED <<req, row, pending>>

\* _record_contact_failure, _record_event_failure: after a rollback, under the
\* row's lock.
RecordFailure(r) ==
    /\ job[r].phase = "recovering"
    /\ IF row[r].status = "running"
       THEN Writes(r, "running", Counted(row[r].tally, FALSE))
       ELSE UNCHANGED row
    /\ Leaves(r, job[r].item)
    /\ UNCHANGED <<req, pending>>

\* An exception rolls the transaction back: the item's own handler takes over,
\* outside an item that of run_sync.
Raise(r) ==
    /\ \/ /\ job[r].phase = "calling"
          /\ job' = [job EXCEPT ![r] = [@ EXCEPT !.phase = "recovering", !.loaded = NoTally]]
       \/ /\ job[r].phase \in {"started", "importing", "items", "recovering"}
          /\ Goes(r, "fatal")
    /\ UNCHANGED <<req, row, pending>>

\* JobTimeoutException comes once, wherever the job is: also after a commit
\* but inside the try block whose handler counts a failure.  Elsewhere it
\* does what Raise does.
Alarm(r) ==
    /\ job[r].phase \in {"recorded", "finished"}
    /\ job[r].age >= JobTimeout
    /\ ~job[r].alarmed
    /\ job' = [job EXCEPT ![r] = [@ EXCEPT !.alarmed = TRUE,
                                           !.phase = IF job[r].phase = "recorded" THEN "recovering" ELSE "fatal"]]
    /\ UNCHANGED <<req, row, pending>>

Outcome(t) ==
    IF t.bad = 0 THEN "completed" ELSE IF t.ok = 0 THEN "failed" ELSE "partial"

\* _finish_run, under the row's lock.
Finish(r) ==
    /\ job[r].phase = "items"
    /\ job[r].todo = {}
    /\ IF row[r].status = "running"
       THEN Writes(r, Outcome(row[r].tally), row[r].tally)
       ELSE UNCHANGED row
    /\ Goes(r, "finished")
    /\ UNCHANGED <<req, pending>>

\* Mutant: the run is failed whatever its status.
MarkFatalAlways(r) ==
    /\ job[r].phase = "fatal"
    /\ Writes(r, "failed", row[r].tally)
    /\ Ends(r)
    /\ UNCHANGED <<req, pending>>

\* _mark_fatal_failure: only a run that is still active.
MarkFatal(r) ==
    /\ job[r].phase = "fatal"
    /\ IF IsActive(r)
       THEN Writes(r, "failed", row[r].tally)
       ELSE UNCHANGED row
    /\ Ends(r)
    /\ UNCHANGED <<req, pending>>

EndJob(r) ==
    /\ job[r].phase = "finished"
    /\ Ends(r)
    /\ UNCHANGED <<req, row, pending>>

\* Redis loses the job, the worker dies or is killed, or the failure of the
\* run could not be stored: nothing of the job is left but what it committed.
JobDies(r) ==
    /\ job[r].phase \in Busy \cup {"queued"}
    /\ Ends(r)
    /\ UNCHANGED <<req, row, pending>>

-----------------------------------------------------------------------------
(* The rest of the system and the clock. *)

\* A webhook or the loop of receipts processes an event nobody has locked.
ReconcileElsewhere(e) ==
    /\ e \in pending
    /\ ~LockedByJob(e)
    /\ pending' = pending \ {e}
    /\ UNCHANGED <<req, row, job>>

\* No job lives longer than KillAfter; the age of a row is capped.
Tick ==
    /\ \A r \in Run : job[r].phase \in Busy => job[r].age < KillAfter
    /\ row' = [r \in Run |-> IF IsActive(r) /\ row[r].age < StaleAfter
                             THEN [row[r] EXCEPT !.age = @ + 1] ELSE row[r]]
    /\ job' = [r \in Run |-> IF job[r].phase \in Busy
                             THEN [job[r] EXCEPT !.age = @ + 1] ELSE job[r]]
    /\ UNCHANGED <<req, pending>>

RequestStep(r) ==
    \/ Insert(r) \/ Enqueue(r) \/ RecordJob(r)
    \/ EnqueueRaises(r) \/ RecordQueueError(r) \/ ApiDies(r)

JobStep(r) ==
    \/ Claim(r) \/ SkipRun(r) \/ ImportGroups(r)
    \/ \E i \in Item : BeginItem(r, i) \/ SkipItem(r, i)
    \/ RecordContact(r) \/ RecordEvent(r) \/ LeaveItem(r)
    \/ Raise(r) \/ RecordFailure(r) \/ Alarm(r)
    \/ Finish(r) \/ MarkFatal(r) \/ EndJob(r)

Next ==
    \/ \E r \in Run :
          \/ Refuse(r) \/ Expire(r) \/ Clear(r) \/ RequestStep(r)
          \/ StartJob(r) \/ JobStep(r) \/ JobDies(r)
    \/ \E e \in Event : ReconcileElsewhere(e)
    \/ Tick

Spec == Init /\ [][Next]_vars

-----------------------------------------------------------------------------
(* What the runs must guarantee. *)

\* A run that a request would expire has no job at work any more: expiring it
\* never takes the channel away from a living job.
StaleIsDead == \A r \in Run : IsStale(r) => job[r].phase \notin Working

\* Two jobs work on the channel at once only if the enqueue of one of them
\* raised after Redis had taken it.
OneAtWork ==
    \A r, s \in Run :
        /\ r # s
        /\ job[r].phase \in Working
        /\ job[s].phase \in Working
        => "queueError" \in {req[r], req[s]}

\* A run reported as completed has processed everything it listed: as many
\* successes as items, no failure, and no listed event is pending.
CompletedIsComplete ==
    \A r \in Run : row[r].status = "completed" =>
        /\ row[r].tally.ok = Cardinality(row[r].items)
        /\ row[r].tally.bad = 0
        /\ row[r].items \cap pending = {}

\* A run that has ended keeps its status, whatever its job still does; only
\* the request whose enqueue raised overrides it, with failed.
FinalStays ==
    [][\A r \in Run :
          row[r].status \in Final =>
              \/ row'[r].status = row[r].status
              \/ row'[r].status = "failed" /\ req'[r] = "queueError"]_vars

\* Every run ends or is abandoned: its request and its job are both gone, and
\* the next request after StaleAfter takes the channel over.
Abandoned(r) ==
    /\ req[r] \in {"done", "queueError"}
    /\ job[r].phase \in {"none", "ended"}
RunSettles ==
    \A r \in Run : IsActive(r) ~> (~IsActive(r) \/ Abandoned(r))

\* The API runs a request to its end and the worker its jobs; every call to
\* the provider answers or times out.  Nobody has to ask for a run, and
\* nothing has to die.
Fairness ==
    \A r \in Run :
        /\ WF_vars(RequestStep(r))
        /\ WF_vars(StartJob(r) \/ JobStep(r))

FairSpec == Spec /\ Fairness
=============================================================================
