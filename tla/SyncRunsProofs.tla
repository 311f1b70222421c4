--------------------------- MODULE SyncRunsProofs ---------------------------
(***************************************************************************)
(* Proofs about SyncRuns, for any number of requests, items and workers.   *)
(*                                                                         *)
(* StaleIsDead and OneAtWork are not inductive: what keeps them is that the*)
(* row of a run whose job is alive is never older than the job, that a job *)
(* at work has its run active unless the enqueue raised, and that the index*)
(* leaves one run active.                                                  *)
(***************************************************************************)
EXTENDS SyncRuns, FiniteSetTheorems, TLAPS

AtWork(r) == job[r].phase \in Working

OneActive == \A r, s \in Run : IsActive(r) /\ IsActive(s) => r = s
WorksForActive == \A r \in Run : AtWork(r) => IsActive(r) \/ req[r] = "queueError"
NotSentYet ==
    \A r \in Run : req[r] \in {"none", "clear", "stored"} => job[r].phase = "none"
NotStoredYet ==
    \A r \in Run : req[r] \in {"none", "clear"} => row[r].status = "absent"
Young ==
    \A r \in Run :
        /\ job[r].phase \in Busy => job[r].age <= KillAfter
        /\ job[r].phase \notin Busy => job[r].age = 0
        /\ AtWork(r) => row[r].age <= job[r].age

Rest == OneActive /\ WorksForActive /\ NotSentYet /\ Young
IInv == TypeOK /\ Rest /\ NotStoredYet

-----------------------------------------------------------------------------

Status == Active \cup Final \cup {"absent"}
Phase == Busy \cup {"none", "queued", "ended"}

\* Writing a typed record keeps the type of the function.
LEMMA RowTyped ==
    ASSUME row \in [Run -> Row], NEW r \in Run, NEW w \in Row, row' = [row EXCEPT ![r] = w]
    PROVE  row' \in [Run -> Row]
OBVIOUS

LEMMA JobTyped ==
    ASSUME job \in [Run -> JobState], NEW r \in Run, NEW w \in JobState,
           job' = [job EXCEPT ![r] = w]
    PROVE  job' \in [Run -> JobState]
OBVIOUS

\* The ways a row and a job are written keep their types.
LEMMA WritesTyped ==
    ASSUME row \in [Run -> Row], NEW r \in Run, NEW s \in Status, NEW t \in Tally,
           Writes(r, s, t)
    PROVE  row' \in [Run -> Row]
BY DEF Writes, Row, Status

LEMMA GoesTyped ==
    ASSUME job \in [Run -> JobState], NEW r \in Run, NEW p \in Phase, Goes(r, p)
    PROVE  job' \in [Run -> JobState]
BY DEF Goes, JobState, Phase

LEMMA EndsTyped ==
    ASSUME job \in [Run -> JobState], NEW r \in Run, Ends(r)
    PROVE  job' \in [Run -> JobState]
BY DEF Ends, JobState, JobAt, NoTally, Tally, Item

LEMMA LeavesTyped ==
    ASSUME job \in [Run -> JobState], NEW r \in Run, NEW i, Leaves(r, i)
    PROVE  job' \in [Run -> JobState]
<1> DEFINE w == [job[r] EXCEPT !.phase = "items", !.item = NoItem, !.todo = job[r].todo \ {i}]
<1>1. w \in JobState
  <2>1. job[r] \in JobState /\ job[r].todo \ {i} \in SUBSET Item
    BY DEF JobState
  <2> QED
    BY <2>1 DEF JobState, Busy, Working
<1>2. job' = [job EXCEPT ![r] = w]
  BY DEF Leaves
<1> QED
  BY <1>1, <1>2, JobTyped

LEMMA CountedTyped ==
    ASSUME NEW t \in Tally, NEW success \in BOOLEAN
    PROVE  Counted(t, success) \in Tally
BY DEF Counted, Tally

LEMMA AnswersTyped ==
    ASSUME req \in [Run -> Request], NEW r \in Run, NEW a \in Request, Answers(r, a)
    PROVE  req' \in [Run -> Request]
BY DEF Answers

\* The initial state is typed.
LEMMA InitTyped == Init => TypeOK
BY DEF Init, TypeOK, Request, Row, Tally, NoTally, JobState, JobAt, Item

\* Every step of a request keeps the types.
LEMMA RequestStepTyped ==
    ASSUME TypeOK, NEW r \in Run,
           Refuse(r) \/ Expire(r) \/ Clear(r) \/ RequestStep(r)
    PROVE  TypeOK'
<1> USE AnswersTyped, GoesTyped, WritesTyped DEF TypeOK, Request, Phase, Status, Active, Final
<1>0. \A a \in Run : row[a] \in Row /\ row[a].tally \in Tally
  BY DEF Row
<1>1. CASE Refuse(r)
  BY <1>1 DEF Refuse
<1>2. CASE Expire(r)
  BY <1>0, <1>2 DEF Expire
<1>3. CASE Clear(r)
  BY <1>3 DEF Clear
<1>4. CASE Insert(r)
  <2>1. [row[r] EXCEPT !.status = "queued"] \in Row
    BY <1>0 DEF Row
  <2> QED
    BY <1>4, <2>1 DEF Insert, StoresRun
<1>5. CASE Enqueue(r)
  BY <1>5 DEF Enqueue
<1>6. CASE RecordJob(r)
  <2>1. [row[r] EXCEPT !.age = 0] \in Row
    BY <1>0 DEF Row
  <2> QED
    BY <1>6, <2>1 DEF RecordJob
<1>7. CASE EnqueueRaises(r)
  BY <1>7 DEF EnqueueRaises
<1>8. CASE RecordQueueError(r)
  BY <1>0, <1>8 DEF RecordQueueError
<1>9. CASE ApiDies(r)
  BY <1>9 DEF ApiDies
<1> QED
  BY <1>1, <1>2, <1>3, <1>4, <1>5, <1>6, <1>7, <1>8, <1>9 DEF RequestStep

\* A result that is committed keeps the types.
LEMMA CommitsItemTyped ==
    ASSUME TypeOK, NEW r \in Run, NEW success \in BOOLEAN, CommitsItem(r, success)
    PROVE  row' \in [Run -> Row] /\ job' \in [Run -> JobState]
<1> DEFINE w == [row[r] EXCEPT !.age = 0, !.tally = Counted(job[r].loaded, success)]
           j == [job[r] EXCEPT !.phase = "recorded", !.loaded = NoTally]
<1>1. job[r] \in JobState /\ row[r] \in Row
  BY DEF TypeOK
<1>2. Counted(job[r].loaded, success) \in Tally
  BY <1>1, CountedTyped DEF JobState
<1>3. NoTally \in Tally
  BY DEF Tally, NoTally
<1>4. w \in Row
  BY <1>1, <1>2 DEF Row
<1>5. j \in JobState
  BY <1>1, <1>3 DEF JobState, Busy, Working
<1>6. row' = [row EXCEPT ![r] = w] /\ job' = [job EXCEPT ![r] = j]
  BY DEF CommitsItem
<1> QED
  BY <1>4, <1>5, <1>6, RowTyped, JobTyped DEF TypeOK

\* Every step of a job keeps the types.
LEMMA JobStepTyped ==
    ASSUME TypeOK, NEW r \in Run, StartJob(r) \/ JobStep(r) \/ JobDies(r)
    PROVE  TypeOK'
<1> USE DEF TypeOK, Phase, Status, Active, Final, Busy, Working
<1>0. /\ row[r] \in Row /\ row[r].tally \in Tally
      /\ job[r] \in JobState
      /\ NoTally \in Tally
  BY DEF Row, Tally, NoTally
<1>1. CASE StartJob(r)
  BY <1>1, GoesTyped DEF StartJob
<1>2. CASE Claim(r)
  <2>1. PICK contacts \in SUBSET ListedContacts(r), events \in SUBSET ListedEvents(r),
             phase \in {"items", "importing"} :
          /\ row' = [row EXCEPT ![r] = [@ EXCEPT !.status = "running", !.age = 0,
                                                 !.items = contacts \cup events]]
          /\ job' = [job EXCEPT ![r] = [@ EXCEPT !.phase = phase,
                                                 !.todo = contacts \cup events]]
    BY <1>2 DEF Claim
  <2>2. contacts \cup events \in SUBSET Item
    BY DEF ListedContacts, ListedEvents, Item
  <2>3. [row[r] EXCEPT !.status = "running", !.age = 0, !.items = contacts \cup events] \in Row
    BY <1>0, <2>2 DEF Row
  <2>4. [job[r] EXCEPT !.phase = phase, !.todo = contacts \cup events] \in JobState
    BY <1>0, <2>2 DEF JobState
  <2> QED
    BY <1>2, <2>1, <2>3, <2>4 DEF Claim
<1>3. CASE SkipRun(r)
  BY <1>3, EndsTyped DEF SkipRun
<1>4. CASE ImportGroups(r)
  <2>1. [row[r] EXCEPT !.age = 0] \in Row
    BY <1>0 DEF Row
  <2> QED
    BY <1>4, <2>1, GoesTyped DEF ImportGroups
<1>5. ASSUME NEW i \in Item, BeginItem(r, i) PROVE TypeOK'
  <2>1. [job[r] EXCEPT !.phase = "calling", !.item = i, !.loaded = row[r].tally] \in JobState
    BY <1>0 DEF JobState
  <2> QED
    BY <1>5, <2>1 DEF BeginItem
<1>6. ASSUME NEW i \in Item, SkipItem(r, i) PROVE TypeOK'
  BY <1>6, LeavesTyped DEF SkipItem
<1>7. CASE RecordContact(r)
  BY <1>7, CommitsItemTyped DEF RecordContact
<1>8. CASE RecordEvent(r)
  <2>1. (job[r].item \notin pending') \in BOOLEAN
    OBVIOUS
  <2> QED
    BY <1>8, <2>1, CommitsItemTyped DEF RecordEvent
<1>9. CASE LeaveItem(r)
  BY <1>9, LeavesTyped DEF LeaveItem
<1>10. CASE Raise(r)
  <2>1. [job[r] EXCEPT !.phase = "recovering", !.loaded = NoTally] \in JobState
    BY <1>0 DEF JobState
  <2> QED
    BY <1>10, <2>1, GoesTyped DEF Raise
<1>11. CASE RecordFailure(r)
  BY <1>0, <1>11, LeavesTyped, WritesTyped, CountedTyped DEF RecordFailure
<1>12. CASE Alarm(r)
  <2>1. PICK p \in {"recovering", "fatal"} :
          job' = [job EXCEPT ![r] = [@ EXCEPT !.alarmed = TRUE, !.phase = p]]
    BY <1>12 DEF Alarm
  <2>2. [job[r] EXCEPT !.alarmed = TRUE, !.phase = p] \in JobState
    BY <1>0 DEF JobState
  <2> QED
    BY <1>12, <2>1, <2>2 DEF Alarm
<1>13. CASE Finish(r)
  BY <1>0, <1>13, GoesTyped, WritesTyped DEF Finish, Outcome
<1>14. CASE MarkFatal(r)
  BY <1>0, <1>14, EndsTyped, WritesTyped DEF MarkFatal
<1>15. CASE EndJob(r)
  BY <1>15, EndsTyped DEF EndJob
<1>16. CASE JobDies(r)
  BY <1>16, EndsTyped DEF JobDies
<1> QED
  BY <1>1, <1>2, <1>3, <1>4, <1>5, <1>6, <1>7, <1>8, <1>9, <1>10, <1>11, <1>12,
     <1>13, <1>14, <1>15, <1>16 DEF JobStep

\* Every step keeps the types.
LEMMA StepTyped == TypeOK /\ [Next]_vars => TypeOK'
<1> SUFFICES ASSUME TypeOK, [Next]_vars PROVE TypeOK'
  OBVIOUS
<1>1. ASSUME NEW e \in Event, ReconcileElsewhere(e) PROVE TypeOK'
  BY <1>1 DEF ReconcileElsewhere, TypeOK
<1>2. CASE Tick
  <2>1. \A r \in Run : [row[r] EXCEPT !.age = @ + 1] \in Row
    BY DEF TypeOK, Row
  <2>2. \A r \in Run : [job[r] EXCEPT !.age = @ + 1] \in JobState
    BY DEF TypeOK, JobState
  <2> QED
    BY <1>2, <2>1, <2>2 DEF Tick, TypeOK
<1>3. CASE UNCHANGED vars
  BY <1>3 DEF vars, TypeOK
<1> QED
  BY <1>1, <1>2, <1>3, RequestStepTyped, JobStepTyped DEF Next

\* TypeOK holds of every behaviour: requests, jobs and rows only ever take the
\* values the code gives them.
THEOREM TypeCorrect == Spec => []TypeOK
BY InitTyped, StepTyped, PTL DEF Spec

-----------------------------------------------------------------------------

\* Initially no run is active and no job exists.
LEMMA InitRest == Init => Rest
BY DEF Init, Rest, OneActive, WorksForActive, NotSentYet, Young, AtWork, IsActive, Active,
       Working, Busy, JobAt

\* Every step of a request and of a job keeps the rest of the invariant.
LEMMA StepRest ==
    ASSUME TypeOK, Rest, NEW r \in Run,
           \/ Refuse(r) \/ Expire(r) \/ Clear(r) \/ RequestStep(r)
           \/ StartJob(r) \/ JobStep(r) \/ JobDies(r)
    PROVE  Rest'
<1> USE SyncAssumption
    DEF Rest, OneActive, WorksForActive, NotSentYet, Young, AtWork, IsActive, Active,
        Working, Busy, Answers, Goes, Ends, Writes, JobAt, TypeOK, Row, JobState,
        CommitsItem, Leaves, IsStale, Arrives
<1>1. CASE Refuse(r)
  BY <1>1 DEF Refuse
<1>2. CASE Expire(r)
  <2>1. PICK a \in Run : IsStale(a) /\ Writes(a, "failed", row[a].tally)
    BY <1>2 DEF Expire
  <2>2. ~AtWork(a)
    BY <2>1
  <2>3. /\ \A q \in Run : row'[q].status = row[q].status \/ q = a
        /\ \A q \in Run : row'[q].age = row[q].age \/ q = a
        /\ row'[a].status = "failed"
    BY <2>1
  <2>4. req'[r] = "clear" /\ req[r] = "none" /\ \A q \in Run : q # r => req'[q] = req[q]
    BY <1>2 DEF Expire
  <2>5. job' = job
    BY <1>2 DEF Expire
  <2> QED
    BY <2>2, <2>3, <2>4, <2>5
<1>3. CASE Clear(r)
  BY <1>3 DEF Clear
<1>4. CASE Insert(r)
  <2>1. CASE \E a \in Run : IsActive(a)
    BY <1>4, <2>1 DEF Insert
  <2>2. CASE \A a \in Run : ~IsActive(a)
    <3>1. /\ \A q \in Run : row'[q].status = row[q].status \/ q = r
          /\ \A q \in Run : row'[q].age = row[q].age
          /\ row'[r].status = "queued"
      BY <1>4, <2>2 DEF Insert, StoresRun
    <3> QED
      BY <1>4, <2>2, <3>1 DEF Insert, StoresRun
  <2> QED
    BY <2>1, <2>2
<1>5. CASE Enqueue(r)
  BY <1>5 DEF Enqueue
<1>6. CASE RecordJob(r)
  BY <1>6 DEF RecordJob
<1>7. CASE EnqueueRaises(r)
  BY <1>7 DEF EnqueueRaises
<1>8. CASE RecordQueueError(r)
  BY <1>8 DEF RecordQueueError
<1>9. CASE ApiDies(r)
  BY <1>9 DEF ApiDies
<1>10. CASE StartJob(r)
  BY <1>10 DEF StartJob
<1>11. CASE Claim(r)
  BY <1>11 DEF Claim
<1>12. CASE SkipRun(r)
  BY <1>12 DEF SkipRun
<1>13. CASE ImportGroups(r)
  <2>1. /\ \A q \in Run : row'[q].status = row[q].status
        /\ \A q \in Run : row'[q].age = row[q].age \/ row'[q].age = 0
    <3>1. CASE row' = row
      BY <3>1
    <3>2. CASE row' = [row EXCEPT ![r] = [@ EXCEPT !.age = 0]]
      BY <3>2
    <3> QED
      BY <1>13, <3>1, <3>2 DEF ImportGroups
  <2>2. /\ \A q \in Run : job'[q].age = job[q].age
        /\ \A q \in Run : job'[q].phase = job[q].phase \/ q = r
        /\ job[r].phase = "importing" /\ job'[r].phase = "items"
    BY <1>13 DEF ImportGroups
  <2>3. UNCHANGED req
    BY <1>13 DEF ImportGroups
  <2>4. \A q \in Run : (AtWork(q)' <=> AtWork(q)) /\ (IsActive(q)' <=> IsActive(q))
    BY <2>1, <2>2
  <2>5. OneActive' /\ WorksForActive' /\ NotSentYet'
    BY <2>2, <2>3, <2>4
  <2>6. Young'
    BY <2>1, <2>2, <2>4
  <2> QED
    BY <2>5, <2>6
<1>14. CASE \E i \in Item : BeginItem(r, i)
  BY <1>14 DEF BeginItem
<1>15. CASE \E i \in Item : SkipItem(r, i)
  BY <1>15 DEF SkipItem
<1>16. CASE RecordContact(r)
  BY <1>16 DEF RecordContact
<1>17. CASE RecordEvent(r)
  BY <1>17 DEF RecordEvent
<1>18. CASE LeaveItem(r)
  BY <1>18 DEF LeaveItem
<1>19. CASE Raise(r)
  <2>0. UNCHANGED <<req, row>>
    BY <1>19 DEF Raise
  <2>1. ASSUME job[r].phase = "calling",
               job' = [job EXCEPT ![r] = [@ EXCEPT !.phase = "recovering", !.loaded = NoTally]]
        PROVE  Rest'
    BY <2>0, <2>1
  <2>2. ASSUME job[r].phase \in {"started", "importing", "items", "recovering"}, Goes(r, "fatal")
        PROVE  Rest'
    BY <2>0, <2>2
  <2> QED
    BY <1>19, <2>1, <2>2 DEF Raise
<1>20. CASE RecordFailure(r)
  <2>1. /\ \A q \in Run : row'[q].status = row[q].status
        /\ \A q \in Run : row'[q].age = row[q].age \/ row'[q].age = 0
    <3>1. CASE row[r].status = "running"
      <4>1. Writes(r, "running", Counted(row[r].tally, FALSE))
        BY <1>20, <3>1 DEF RecordFailure
      <4> QED
        BY <3>1, <4>1
    <3>2. CASE row[r].status # "running"
      BY <1>20, <3>2 DEF RecordFailure
    <3> QED
      BY <3>1, <3>2
  <2>2. /\ \A q \in Run : job'[q].age = job[q].age
        /\ \A q \in Run : job'[q].phase = job[q].phase \/ q = r
        /\ job[r].phase = "recovering" /\ job'[r].phase = "items"
    BY <1>20 DEF RecordFailure
  <2> QED
    BY <1>20, <2>1, <2>2 DEF RecordFailure
<1>21. CASE Alarm(r)
  <2>1. CASE job[r].phase = "recorded"
    BY <1>21, <2>1 DEF Alarm
  <2>2. CASE job[r].phase = "finished"
    BY <1>21, <2>2 DEF Alarm
  <2> QED
    BY <1>21, <2>1, <2>2 DEF Alarm
<1>22. CASE Finish(r)
  BY <1>22 DEF Finish, Outcome
<1>23. CASE MarkFatal(r)
  BY <1>23 DEF MarkFatal
<1>24. CASE EndJob(r)
  BY <1>24 DEF EndJob
<1>25. CASE JobDies(r)
  BY <1>25 DEF JobDies
<1> QED
  BY <1>1, <1>2, <1>3, <1>4, <1>5, <1>6, <1>7, <1>8, <1>9, <1>10, <1>11, <1>12, <1>13, <1>14, <1>15, <1>16, <1>17, <1>18, <1>19, <1>20, <1>21, <1>22, <1>23, <1>24, <1>25 DEF RequestStep, JobStep

\* What a step may do to the status of the run q: a status is only given to an
\* active run, to a new one by the request that stores it, or to any run by the
\* request whose enqueue raised.
StatusMove(q) ==
    \/ row'[q].status = row[q].status
    \/ row[q].status \in Active /\ row'[q].status \in Active \cup Final
    \/ req[q] = "clear" /\ req'[q] = "stored"
    \/ req[q] = "raised" /\ req'[q] = "queueError" /\ row'[q].status = "failed"

LEMMA StepMoves ==
    ASSUME TypeOK, [Next]_vars, NEW q \in Run
    PROVE  StatusMove(q)
<1> USE DEF TypeOK, StatusMove, Row, Writes, IsActive
<1>0. /\ "queued" \in Active /\ "running" \in Active
      /\ "failed" \in Final /\ \A t : Outcome(t) \in Final
  BY DEF Final, Active, Outcome
<1>1. ASSUME NEW r \in Run, Refuse(r) \/ Expire(r) \/ Clear(r) \/ RequestStep(r)
      PROVE  StatusMove(q)
  <2>1. CASE Expire(r)
    BY <1>0, <2>1 DEF Expire, IsStale
  <2>2. CASE Insert(r)
    <3>1. CASE q = r /\ StoresRun(r)
      BY <2>2, <3>1 DEF Insert, StoresRun, Answers
    <3>2. CASE q # r \/ UNCHANGED row
      BY <2>2, <3>2 DEF Insert, StoresRun
    <3> QED
      BY <2>2, <3>1, <3>2 DEF Insert
  <2>3. CASE RecordJob(r)
    BY <2>3 DEF RecordJob
  <2>4. CASE RecordQueueError(r)
    BY <2>4 DEF RecordQueueError, Answers
  <2>5. CASE Refuse(r) \/ Clear(r) \/ Enqueue(r) \/ EnqueueRaises(r) \/ ApiDies(r)
    BY <2>5 DEF Refuse, Clear, Enqueue, EnqueueRaises, ApiDies
  <2> QED
    BY <1>1, <2>1, <2>2, <2>3, <2>4, <2>5 DEF RequestStep
<1>2. ASSUME NEW r \in Run, StartJob(r) \/ JobStep(r) \/ JobDies(r) PROVE StatusMove(q)
  <2>1. CASE Claim(r)
    BY <1>0, <2>1 DEF Claim
  <2>2. CASE ImportGroups(r)
    BY <2>2 DEF ImportGroups
  <2>3. CASE RecordContact(r) \/ RecordEvent(r)
    <3>1. PICK success \in BOOLEAN : CommitsItem(r, success)
      BY <2>3 DEF RecordContact, RecordEvent
    <3> QED
      BY <3>1 DEF CommitsItem
  <2>4. CASE RecordFailure(r)
    BY <1>0, <2>4 DEF RecordFailure
  <2>5. CASE Finish(r)
    <3>1. CASE row[r].status = "running"
      <4>1. Writes(r, Outcome(row[r].tally), row[r].tally)
        BY <2>5, <3>1 DEF Finish
      <4> HIDE DEF TypeOK
      <4>2. row \in [Run -> Row]
        BY DEF TypeOK
      <4>3. row'[r].status = Outcome(row[r].tally) /\ (q # r => row'[q] = row[q])
        BY <4>1, <4>2
      <4> QED
        BY <1>0, <3>1, <4>3
    <3>2. CASE row[r].status # "running"
      BY <2>5, <3>2 DEF Finish
    <3> QED
      BY <3>1, <3>2
  <2>6. CASE MarkFatal(r)
    BY <1>0, <2>6 DEF MarkFatal
  <2>7. CASE \/ StartJob(r) \/ SkipRun(r) \/ LeaveItem(r) \/ Raise(r)
             \/ Alarm(r) \/ EndJob(r) \/ JobDies(r)
    BY <2>7 DEF StartJob, SkipRun, LeaveItem, Raise, Alarm, EndJob, JobDies
  <2>8. CASE \E i \in Item : BeginItem(r, i) \/ SkipItem(r, i)
    BY <2>8 DEF BeginItem, SkipItem
  <2> QED
    BY <1>2, <2>1, <2>2, <2>3, <2>4, <2>5, <2>6, <2>7, <2>8 DEF JobStep
<1>3. CASE Tick
  BY <1>3 DEF Tick
<1>4. CASE (\E e \in Event : ReconcileElsewhere(e)) \/ UNCHANGED vars
  BY <1>4 DEF ReconcileElsewhere, vars
<1> QED
  BY <1>1, <1>2, <1>3, <1>4 DEF Next

\* No step takes a request back to where its run was not stored yet.
LEMMA StepAsks ==
    ASSUME TypeOK, [Next]_vars, NEW q \in Run, req'[q] \in {"none", "clear"}
    PROVE  req[q] \in {"none", "clear"}
<1> USE DEF TypeOK, Answers, Arrives
<1>1. ASSUME NEW r \in Run, Refuse(r) \/ Expire(r) \/ Clear(r) \/ RequestStep(r)
      PROVE  req[q] \in {"none", "clear"}
  BY <1>1 DEF Refuse, Expire, Clear, RequestStep, Insert, StoresRun, Enqueue, RecordJob,
              EnqueueRaises, RecordQueueError, ApiDies
<1>2. ASSUME ~(\E r \in Run : Refuse(r) \/ Expire(r) \/ Clear(r) \/ RequestStep(r))
      PROVE  req' = req
  BY <1>2 DEF Next, vars, Tick, ReconcileElsewhere, StartJob, JobStep, JobDies, Claim, SkipRun,
              ImportGroups, BeginItem, SkipItem, RecordContact, RecordEvent, LeaveItem, Raise,
              RecordFailure, Alarm, Finish, MarkFatal, EndJob
<1> QED
  BY <1>1, <1>2

\* The invariant is inductive.
LEMMA StepInv == IInv /\ [Next]_vars => IInv'
<1> SUFFICES ASSUME IInv, [Next]_vars PROVE IInv'
  OBVIOUS
<1>0. NotStoredYet'
  <2> SUFFICES ASSUME NEW q \in Run, req'[q] \in {"none", "clear"}
               PROVE  row'[q].status = "absent"
    BY DEF NotStoredYet
  <2>1. StatusMove(q) /\ req[q] \in {"none", "clear"}
    BY StepMoves, StepAsks DEF IInv
  <2>2. row[q].status = "absent" /\ "absent" \notin Active
    BY <2>1 DEF IInv, NotStoredYet, Active
  <2> QED
    BY <2>1, <2>2 DEF StatusMove
<1>1. TypeOK'
  BY StepTyped DEF IInv
<1>2. ASSUME NEW e \in Event, ReconcileElsewhere(e) PROVE Rest'
  BY <1>2 DEF ReconcileElsewhere, IInv, Rest, OneActive, WorksForActive, NotSentYet, Young,
              AtWork, IsActive
<1>3. ASSUME Tick PROVE Rest'
  <2> USE DEF IInv, TypeOK
  <2>1. ASSUME NEW r \in Run
        PROVE  /\ row'[r].status = row[r].status
               /\ job'[r].phase = job[r].phase
               /\ row'[r].age = row[r].age \/ row'[r].age = row[r].age + 1
               /\ job[r].phase \in Busy => job'[r].age = job[r].age + 1 /\ job'[r].age <= KillAfter
               /\ job[r].phase \notin Busy => job'[r].age = job[r].age
    BY <1>3, SyncAssumption DEF Tick, Row, JobState
  <2>2. req' = req
    BY <1>3 DEF Tick
  <2>3. OneActive' /\ WorksForActive' /\ NotSentYet'
    BY <2>1, <2>2 DEF Rest, OneActive, WorksForActive, NotSentYet, AtWork, IsActive
  <2>4. Young'
    BY <2>1 DEF Rest, Young, AtWork, Row, JobState, Busy
  <2> QED
    BY <2>3, <2>4 DEF Rest
<1>4. ASSUME UNCHANGED vars PROVE Rest'
  BY <1>4 DEF vars, IInv, Rest, OneActive, WorksForActive, NotSentYet, Young, AtWork, IsActive
<1>5. Rest'
  BY <1>2, <1>3, <1>4, StepRest DEF Next, IInv
<1> QED
  BY <1>0, <1>1, <1>5 DEF IInv

\* IInv holds of every behaviour.
LEMMA Invariance == Spec => []IInv
<1>1. Init => IInv
  BY InitTyped, InitRest DEF Init, NotStoredYet, IInv
<1> QED
  BY <1>1, StepInv, PTL DEF Spec

\* A run old enough to be expired has no job at work: expire-and-replace in
\* create_sync_run never takes the channel away from a living job.
THEOREM StaleCorrect == Spec => []StaleIsDead
<1>1. IInv => StaleIsDead
  BY SyncAssumption DEF IInv, TypeOK, Rest, Young, StaleIsDead, IsStale, AtWork, Row, JobState,
                        Busy
<1> QED
  BY <1>1, Invariance, PTL

\* Two jobs at work on the channel at once mean that the enqueue of one of the
\* two runs raised after Redis had taken the job.
THEOREM OneAtWorkCorrect == Spec => []OneAtWork
<1>1. IInv => OneAtWork
  BY DEF IInv, Rest, OneActive, WorksForActive, OneAtWork, AtWork
<1> QED
  BY <1>1, Invariance, PTL

\* The status of a run that has ended stays, whatever the handlers of its job
\* and of other requests still do; only RecordQueueError overrides it.
THEOREM FinalCorrect == Spec => FinalStays
<1> DEFINE Stays == \A r \in Run :
                        row[r].status \in Final =>
                            \/ row'[r].status = row[r].status
                            \/ row'[r].status = "failed" /\ req'[r] = "queueError"
<1>1. ASSUME IInv, [Next]_vars PROVE Stays
  <2> SUFFICES ASSUME NEW r \in Run, row[r].status \in Final
               PROVE  \/ row'[r].status = row[r].status
                      \/ row'[r].status = "failed" /\ req'[r] = "queueError"
    OBVIOUS
  <2>1. row[r].status \notin Active \cup {"absent"}
    BY DEF Final, Active
  <2> QED
    BY <1>1, <2>1, StepMoves DEF StatusMove, IInv, NotStoredYet
<1> QED
  BY <1>1, Invariance, PTL DEF Spec, FinalStays

-----------------------------------------------------------------------------
(* What a completed run has done.  As long as a run has no failure, its      *)
(* successes are the items it has dealt with, and none of them is pending:   *)
(* the counters an item has loaded are still those of the row when it writes *)
(* them, for nobody else counts.  A failure, also one that is counted on top *)
(* of a success, keeps the run from being completed.                         *)

\* Without a failure, done is what the successes stand for.
Exact(r, done) ==
    row[r].tally.bad = 0 => row[r].tally.ok = Cardinality(done) /\ done \cap pending = {}

Counts(r) ==
    /\ row[r].status \in {"absent", "queued"} => row[r].tally = NoTally
    /\ AtWork(r) => row[r].status \in {"running", "failed"} /\ job[r].todo \subseteq row[r].items
    /\ job[r].phase \in {"calling", "recorded", "recovering"} => job[r].item \in job[r].todo
    /\ job[r].phase = "calling" => job[r].loaded = row[r].tally
    /\ job[r].phase \in {"importing", "items", "calling"} /\ row[r].status = "running" =>
          Exact(r, row[r].items \ job[r].todo)
    /\ job[r].phase = "recorded" /\ row[r].status = "running" =>
          Exact(r, row[r].items \ (job[r].todo \ {job[r].item}))
    /\ row[r].status = "completed" => row[r].tally.bad = 0 /\ Exact(r, row[r].items)

Whole == \A r \in Run : Counts(r)

\* An item that is dealt with counts one more.
LEMMA OneMore ==
    ASSUME NEW S \in SUBSET Item, NEW T \in SUBSET S, NEW i \in T
    PROVE  /\ S \ (T \ {i}) = (S \ T) \cup {i}
           /\ Cardinality(S \ (T \ {i})) = Cardinality(S \ T) + 1
<1>1. S \ (T \ {i}) = (S \ T) \cup {i} /\ i \notin S \ T
  OBVIOUS
<1>2. IsFiniteSet(Item)
  BY SyncAssumption, FS_Union DEF Item
<1>3. IsFiniteSet(S \ T)
  BY <1>2, FS_Subset
<1> QED
  BY <1>1, <1>3, FS_AddElement

\* A step that does not touch the counters of a run nor what its job is at,
\* or ends the job, and at most fails the run.
LEMMA CountsFrame ==
    ASSUME NEW q \in Run, Counts(q), pending' \subseteq pending,
           row'[q].items = row[q].items, row'[q].tally = row[q].tally,
           row'[q].status \in {row[q].status, "failed"},
           \/ job'[q].phase \notin Working
           \/ /\ job'[q].phase = job[q].phase /\ job'[q].todo = job[q].todo
              /\ job'[q].item = job[q].item /\ job'[q].loaded = job[q].loaded
    PROVE  Counts(q)'
BY DEF Counts, Exact, AtWork, Working

\* What the requests do.
LEMMA RequestCounts ==
    ASSUME IInv, Whole, NEW r \in Run, Refuse(r) \/ Expire(r) \/ Clear(r) \/ RequestStep(r),
           NEW q \in Run
    PROVE  Counts(q)'
<1>1. Counts(q) /\ TypeOK /\ row \in [Run -> Row] /\ job \in [Run -> JobState]
  BY DEF Whole, IInv, TypeOK
<1>2. pending' = pending
  BY DEF Refuse, Expire, Clear, RequestStep, Insert, Enqueue, RecordJob, EnqueueRaises, RecordQueueError, ApiDies
<1>3. CASE Refuse(r) \/ Clear(r) \/ ApiDies(r)
  BY <1>1, <1>2, <1>3, CountsFrame DEF Refuse, Clear, ApiDies
<1>4. CASE Expire(r)
  BY <1>1, <1>2, <1>4, CountsFrame DEF Expire, Writes, Row
<1>5. CASE Insert(r)
  <2>1. CASE StoresRun(r) /\ q = r
    <3>1. row[r].status = "absent" /\ ~AtWork(r)
      BY <1>5 DEF Insert, IInv, NotStoredYet, Rest, NotSentYet, AtWork, Working
    <3>2. /\ row'[r].status = "queued" /\ row'[r].tally = row[r].tally /\ job' = job
      BY <1>1, <1>5, <2>1 DEF Insert, StoresRun, Row
    <3> QED
      BY <1>1, <2>1, <3>1, <3>2 DEF Counts, Exact, AtWork, Working
  <2>2. CASE ~(StoresRun(r) /\ q = r)
    BY <1>1, <1>2, <1>5, <2>2, CountsFrame DEF Insert, StoresRun
  <2> QED
    BY <2>1, <2>2
<1>6. CASE Enqueue(r) \/ EnqueueRaises(r)
  <2>1. row' = row /\ (job'[q] = job[q] \/ job'[q].phase \notin Working)
    BY <1>1, <1>6 DEF Enqueue, EnqueueRaises, Goes, Working, JobState
  <2> QED
    BY <1>1, <1>2, <2>1, CountsFrame
<1>7. CASE RecordJob(r)
  BY <1>1, <1>2, <1>7, CountsFrame DEF RecordJob, Row
<1>8. CASE RecordQueueError(r)
  BY <1>1, <1>2, <1>8, CountsFrame DEF RecordQueueError, Writes, Row
<1> QED
  BY <1>3, <1>4, <1>5, <1>6, <1>7, <1>8 DEF RequestStep

\* Steps of a job before, between and after its items.
LEMMA PassCounts ==
    ASSUME IInv, Whole, NEW r \in Run, NEW q \in Run,
           \/ StartJob(r) \/ Claim(r) \/ SkipRun(r) \/ ImportGroups(r) \/ Raise(r) \/ Alarm(r)
           \/ Finish(r) \/ MarkFatal(r) \/ EndJob(r) \/ JobDies(r)
    PROVE  Counts(q)'
<1>1. /\ Counts(q) /\ Counts(r) /\ row \in [Run -> Row] /\ job \in [Run -> JobState]
      /\ row[r] \in Row /\ job[r] \in JobState
  BY DEF Whole, IInv, TypeOK
<1>2. pending' = pending
  BY DEF StartJob, Claim, SkipRun, ImportGroups, Raise, Alarm, Finish, MarkFatal, EndJob, JobDies
<1>3. CASE q # r
  <2>1. row'[q] = row[q] /\ job'[q] = job[q]
    BY <1>1, <1>3 DEF StartJob, Claim, SkipRun, ImportGroups, Raise, Alarm, Finish, MarkFatal, EndJob, JobDies,
       Goes, Ends, Writes
  <2> QED
    BY <1>1, <1>2, <2>1, CountsFrame
<1>4. CASE q = r /\ (StartJob(r) \/ SkipRun(r) \/ EndJob(r) \/ JobDies(r))
  <2>1. row' = row /\ job'[r].phase \notin Working
    BY <1>1, <1>4 DEF StartJob, SkipRun, EndJob, JobDies, Goes, Ends, JobAt, Working, JobState
  <2> QED
    BY <1>1, <1>2, <1>4, <2>1, CountsFrame
<1>5. CASE q = r /\ MarkFatal(r)
  <2>1. job'[r].phase \notin Working
    BY <1>1, <1>5 DEF MarkFatal, Ends, JobAt, Working
  <2>2. row'[r].items = row[r].items /\ row'[r].tally = row[r].tally /\ row'[r].status \in {row[r].status, "failed"}
    <3>1. \/ row' = row
          \/ row'[r] = [row[r] EXCEPT !.status = "failed", !.tally = row[r].tally, !.age = 0]
      BY <1>1, <1>5 DEF MarkFatal, Writes
    <3> QED
      BY <1>1, <3>1 DEF Row
  <2> QED
    BY <1>1, <1>2, <1>5, <2>1, <2>2, CountsFrame
<1>6. CASE q = r /\ Claim(r)
  <2>1. PICK listed \in SUBSET Item, phase \in {"items", "importing"} :
          /\ row' = [row EXCEPT ![r] = [row[r] EXCEPT !.status = "running", !.age = 0, !.items = listed]]
          /\ job' = [job EXCEPT ![r] = [job[r] EXCEPT !.phase = phase, !.todo = listed]]
    <3>1. PICK contacts \in SUBSET ListedContacts(r), events \in SUBSET ListedEvents(r),
               phase \in {"items"} \cup (IF WantsContacts(r) THEN {"importing"} ELSE {}) :
            /\ row' = [row EXCEPT ![r] = [row[r] EXCEPT !.status = "running", !.age = 0,
                                                        !.items = contacts \cup events]]
            /\ job' = [job EXCEPT ![r] = [job[r] EXCEPT !.phase = phase, !.todo = contacts \cup events]]
      BY <1>6 DEF Claim
    <3>2. contacts \cup events \in SUBSET Item
      BY DEF ListedContacts, ListedEvents, Item, IInv, TypeOK
    <3> QED
      BY <3>1, <3>2
  <2>2. /\ row'[r].status = "running" /\ row'[r].items = listed /\ row'[r].tally = row[r].tally
        /\ job'[r].phase = phase /\ job'[r].todo = listed
    BY <1>1, <2>1 DEF Row, JobState
  <2>3. row[r].tally = NoTally
    BY <1>1, <1>6 DEF Claim, Counts
  <2>4. listed \ listed = {} /\ Cardinality({}) = 0
    BY FS_EmptySet
  <2> QED
    BY <1>6, <2>2, <2>3, <2>4 DEF Counts, Exact, AtWork, Working, NoTally
<1>7. CASE q = r /\ ImportGroups(r)
  <2>1. /\ job[r].phase = "importing"
        /\ row'[r].status = row[r].status /\ row'[r].items = row[r].items /\ row'[r].tally = row[r].tally
        /\ job'[r].phase = "items" /\ job'[r].todo = job[r].todo
    BY <1>1, <1>7 DEF ImportGroups, Goes, Row, JobState
  <2> QED
    BY <1>1, <1>2, <1>7, <2>1 DEF Counts, Exact, AtWork, Working
<1>8. CASE q = r /\ Raise(r)
  <2>1. CASE job[r].phase = "calling"
    <3>1. row' = row /\ job'[r].phase = "recovering" /\ job'[r].todo = job[r].todo /\ job'[r].item = job[r].item
      <4>1. row' = row /\ job'[r] = [job[r] EXCEPT !.phase = "recovering", !.loaded = NoTally]
        BY <1>1, <1>8, <2>1 DEF Raise
      <4> QED
        BY <1>1, <4>1 DEF JobState
    <3> QED
      BY <1>1, <1>2, <1>8, <2>1, <3>1 DEF Counts, Exact, AtWork, Working
  <2>2. CASE job[r].phase # "calling"
    <3>1. row' = row /\ job'[r].phase \notin Working
      BY <1>1, <1>8, <2>2 DEF Raise, Goes, JobState, Working
    <3> QED
      BY <1>1, <1>2, <1>8, <3>1, CountsFrame
  <2> QED
    BY <2>1, <2>2
<1>9. CASE q = r /\ Alarm(r)
  <2>1. /\ row' = row /\ job'[r].todo = job[r].todo /\ job'[r].item = job[r].item
        /\ \/ job[r].phase = "recorded" /\ job'[r].phase = "recovering"
           \/ job'[r].phase = "fatal"
    BY <1>1, <1>9 DEF Alarm, JobState
  <2> QED
    BY <1>1, <1>2, <1>9, <2>1 DEF Counts, Exact, AtWork, Working
<1>10. CASE q = r /\ Finish(r)
  <2>1. job[r].phase = "items" /\ job[r].todo = {} /\ job'[r].phase = "finished"
    BY <1>1, <1>10 DEF Finish, Goes, JobState
  <2>2. CASE row[r].status = "running"
    <3>1. /\ row'[r].status = Outcome(row[r].tally) /\ row'[r].tally = row[r].tally /\ row'[r].items = row[r].items
      <4> DEFINE outcome == Outcome(row[r].tally)
      <4>1. row'[r] = [row[r] EXCEPT !.status = outcome, !.tally = row[r].tally, !.age = 0]
        BY <1>1, <1>10, <2>2 DEF Finish, Writes
      <4> HIDE DEF outcome
      <4>2. row'[r].status = outcome /\ row'[r].tally = row[r].tally /\ row'[r].items = row[r].items
        BY <1>1, <4>1 DEF Row
      <4> QED
        BY <4>2 DEF outcome
    <3>2. row[r].items \ job[r].todo = row[r].items
      BY <2>1
    <3>3. Exact(r, row[r].items)
      BY <1>1, <2>1, <2>2, <3>2 DEF Counts, Exact
    <3> QED
      BY <1>2, <1>10, <2>1, <3>1, <3>3 DEF Counts, Exact, AtWork, Working, Outcome
  <2>3. CASE row[r].status # "running"
    BY <1>1, <1>2, <1>10, <2>1, <2>3, CountsFrame DEF Finish, Working
  <2> QED
    BY <2>2, <2>3
<1> QED
  BY <1>3, <1>4, <1>5, <1>6, <1>7, <1>8, <1>9, <1>10

\* Steps of a job with one item.
LEMMA ItemCounts ==
    ASSUME IInv, Whole, NEW r \in Run, NEW q \in Run,
           \/ \E i \in Item : BeginItem(r, i) \/ SkipItem(r, i)
           \/ RecordContact(r) \/ RecordEvent(r) \/ LeaveItem(r) \/ RecordFailure(r)
    PROVE  Counts(q)'
<1>1. /\ Counts(q) /\ Counts(r) /\ row \in [Run -> Row] /\ job \in [Run -> JobState]
      /\ row[r] \in Row /\ job[r] \in JobState /\ pending \in SUBSET Event
  BY DEF Whole, IInv, TypeOK
<1>2. pending' \subseteq pending
  BY DEF BeginItem, SkipItem, RecordContact, RecordEvent, LeaveItem, RecordFailure
<1>3. CASE q # r
  <2>1. row'[q] = row[q] /\ job'[q] = job[q]
    BY <1>1, <1>3 DEF BeginItem, SkipItem, RecordContact, RecordEvent, LeaveItem, RecordFailure,
       CommitsItem, Leaves, Writes
  <2> QED
    BY <1>1, <1>2, <2>1, CountsFrame
<1>4. ASSUME q = r, NEW i \in Item, BeginItem(r, i) PROVE Counts(q)'
  <2>1. /\ job[r].phase = "items" /\ i \in job[r].todo /\ row' = row /\ pending' = pending
        /\ job'[r] = [job[r] EXCEPT !.phase = "calling", !.item = i, !.loaded = row[r].tally]
    BY <1>1, <1>4 DEF BeginItem, IsNext
  <2>2. /\ job'[r].phase = "calling" /\ job'[r].todo = job[r].todo /\ job'[r].item = i
        /\ job'[r].loaded = row[r].tally
    BY <1>1, <2>1 DEF JobState
  <2> QED
    BY <1>1, <1>4, <2>1, <2>2 DEF Counts, Exact, AtWork, Working
<1>5. ASSUME q = r, NEW i \in Item, SkipItem(r, i) PROVE Counts(q)'
  <2>1. /\ job[r].phase = "items" /\ row[r].status # "running" /\ row' = row /\ pending' = pending
        /\ job'[r] = [job[r] EXCEPT !.phase = "items", !.item = NoItem, !.todo = job[r].todo \ {i}]
    BY <1>1, <1>5 DEF SkipItem, Leaves
  <2>2. job'[r].phase = "items" /\ job'[r].todo = job[r].todo \ {i}
    BY <1>1, <2>1 DEF JobState
  <2> QED
    BY <1>1, <1>5, <2>1, <2>2 DEF Counts, Exact, AtWork, Working
<1>6. CASE q = r /\ LeaveItem(r)
  <2>1. /\ job[r].phase = "recorded" /\ row' = row /\ pending' = pending
        /\ job'[r] = [job[r] EXCEPT !.phase = "items", !.item = NoItem, !.todo = job[r].todo \ {job[r].item}]
    BY <1>1, <1>6 DEF LeaveItem, Leaves
  <2>2. job'[r].phase = "items" /\ job'[r].todo = job[r].todo \ {job[r].item}
    BY <1>1, <2>1 DEF JobState
  <2> QED
    BY <1>1, <1>6, <2>1, <2>2 DEF Counts, Exact, AtWork, Working
<1>7. CASE q = r /\ RecordFailure(r)
  <2>1. /\ job[r].phase = "recovering" /\ pending' = pending
        /\ job'[r] = [job[r] EXCEPT !.phase = "items", !.item = NoItem, !.todo = job[r].todo \ {job[r].item}]
    BY <1>1, <1>7 DEF RecordFailure, Leaves
  <2>2. job'[r].phase = "items" /\ job'[r].todo = job[r].todo \ {job[r].item}
    BY <1>1, <2>1 DEF JobState
  <2>3. CASE row[r].status = "running"
    <3> DEFINE t == Counted(row[r].tally, FALSE)
    <3>1. t.bad # 0
      BY <1>1 DEF Counted, Row, Tally
    <3>2. row'[r] = [row[r] EXCEPT !.status = "running", !.tally = t, !.age = 0]
      BY <1>1, <1>7, <2>3 DEF RecordFailure, Writes
    <3> HIDE DEF t
    <3>3. row'[r].status = "running" /\ row'[r].tally = t /\ row'[r].items = row[r].items
      BY <1>1, <3>2 DEF Row
    <3> QED
      BY <1>1, <1>7, <2>1, <2>2, <3>1, <3>3 DEF Counts, Exact, AtWork, Working
  <2>4. CASE row[r].status # "running"
    <3>1. row' = row
      BY <1>7, <2>4 DEF RecordFailure
    <3> QED
      BY <1>1, <1>7, <2>1, <2>2, <2>4, <3>1 DEF Counts, Exact, AtWork, Working
  <2> QED
    BY <2>3, <2>4
<1>8. ASSUME q = r, NEW success \in BOOLEAN, CommitsItem(r, success), job[r].phase = "calling",
             success => job[r].item \notin pending'
      PROVE  Counts(q)'
  <2> DEFINE i == job[r].item
             t == Counted(row[r].tally, success)
             done == row[r].items \ job[r].todo
             all == row[r].items \ (job[r].todo \ {i})
  <2>1. /\ i \in job[r].todo /\ job[r].todo \subseteq row[r].items /\ row[r].items \in SUBSET Item
        /\ job[r].loaded = row[r].tally /\ row[r].tally \in Tally
        /\ row[r].status \in {"running", "failed"}
    BY <1>1, <1>8 DEF Counts, AtWork, Working, Row
  <2>2. /\ row'[r] = [row[r] EXCEPT !.age = 0, !.tally = t]
        /\ job'[r] = [job[r] EXCEPT !.phase = "recorded", !.loaded = NoTally]
    BY <1>1, <1>8, <2>1 DEF CommitsItem
  <2>3. all = done \cup {i} /\ Cardinality(all) = Cardinality(done) + 1
    <3> PICK S \in SUBSET Item : S = row[r].items
      BY <2>1
    <3> PICK T \in SUBSET S : T = job[r].todo
      BY <2>1
    <3> PICK e \in T : e = i
      BY <2>1
    <3>1. S \ (T \ {e}) = (S \ T) \cup {e} /\ Cardinality(S \ (T \ {e})) = Cardinality(S \ T) + 1
      BY OneMore
    <3>2. all = S \ (T \ {e}) /\ done = S \ T
      OBVIOUS
    <3> HIDE DEF i, done, all
    <3> QED
      BY <3>1, <3>2
  <2>4. t.bad = 0 => success /\ row[r].tally.bad = 0 /\ t.ok = row[r].tally.ok + 1
    BY <2>1 DEF Counted, Tally
  <2>5. row[r].status = "running" => Exact(r, done)
    BY <1>1, <1>8 DEF Counts
  <2>6. row[r].status = "running" /\ t.bad = 0 => t.ok = Cardinality(all) /\ all \cap pending' = {}
    BY <1>2, <1>8, <2>3, <2>4, <2>5 DEF Exact
  <2> HIDE DEF t
  <2>7. row'[r].status = row[r].status /\ row'[r].items = row[r].items /\ row'[r].tally = t
    BY <1>1, <2>2 DEF Row
  <2>8. job'[r].phase = "recorded" /\ job'[r].todo = job[r].todo /\ job'[r].item = i
    BY <1>1, <2>2 DEF JobState
  <2>9. row'[r].items \ (job'[r].todo \ {job'[r].item}) = all
    BY <2>7, <2>8
  <2> HIDE DEF i, all, done
  <2>10. row'[r].status = "running" => Exact(r, row[r].items \ (job[r].todo \ {job[r].item}))'
    BY <2>6, <2>7, <2>9 DEF Exact
  <2> QED
    BY <1>8, <2>1, <2>7, <2>8, <2>10 DEF Counts, AtWork, Working, i
<1>9. CASE q = r /\ RecordContact(r)
  <2>1. PICK success \in BOOLEAN : CommitsItem(r, success)
    BY <1>9 DEF RecordContact
  <2>2. job[r].phase = "calling" /\ job[r].item \notin pending'
    BY <1>1, <1>2, <1>9, SyncAssumption DEF RecordContact
  <2> QED
    BY <1>8, <1>9, <2>1, <2>2
<1>10. CASE q = r /\ RecordEvent(r)
  <2>1. PICK success \in BOOLEAN : success = (job[r].item \notin pending')
    OBVIOUS
  <2>2. CommitsItem(r, success) /\ job[r].phase = "calling"
    BY <1>10, <2>1 DEF RecordEvent, CommitsItem
  <2> QED
    BY <1>8, <1>10, <2>1, <2>2
<1> QED
  BY <1>3, <1>4, <1>5, <1>6, <1>7, <1>9, <1>10

\* The counters stay exact.
LEMMA WholeStep == IInv /\ Whole /\ [Next]_vars => Whole'
<1> SUFFICES ASSUME IInv, Whole, [Next]_vars, NEW q \in Run PROVE Counts(q)'
  BY DEF Whole
<1>1. Counts(q) /\ row \in [Run -> Row] /\ job \in [Run -> JobState]
  BY DEF Whole, IInv, TypeOK
<1>2. CASE Tick
  <2>1. /\ row'[q].items = row[q].items /\ row'[q].tally = row[q].tally /\ row'[q].status = row[q].status
        /\ job'[q].phase = job[q].phase /\ job'[q].todo = job[q].todo
        /\ job'[q].item = job[q].item /\ job'[q].loaded = job[q].loaded
        /\ pending' = pending
    BY <1>1, <1>2 DEF Tick, Row, JobState
  <2> QED
    BY <1>1, <2>1, CountsFrame
<1>3. CASE (\E e \in Event : ReconcileElsewhere(e)) \/ UNCHANGED vars
  BY <1>1, <1>3, CountsFrame DEF ReconcileElsewhere, vars
<1> QED
  BY <1>2, <1>3, RequestCounts, PassCounts, ItemCounts DEF Next, JobStep

\* A run reported as completed has dealt with every item it listed, without a
\* failure, and left none of their events pending.
THEOREM CompletedCorrect == Spec => []CompletedIsComplete
<1>1. Init => Whole
  BY DEF Init, Whole, Counts, AtWork, Working, JobAt
<1>2. IInv /\ Whole => CompletedIsComplete
  BY DEF Whole, Counts, Exact, CompletedIsComplete
<1> QED
  BY <1>1, <1>2, WholeStep, Invariance, PTL DEF Spec
=============================================================================
