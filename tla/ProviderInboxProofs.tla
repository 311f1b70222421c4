------------------------- MODULE ProviderInboxProofs -------------------------
(* Proofs about ProviderInbox, for every value of its constants. *)
EXTENDS ProviderInbox, TLAPS

USE DEF Kind, Revised

\* A run that is under way and a job in the queue name their event.
Named ==
    /\ \A r \in Runner : run[r].phase # "idle" => run[r].event \in Event
    /\ \A j \in Job : job[j].state = "queued" => job[j].event \in Event

\* The helpers that write rows keep rows well typed.
LEMMA StatusSetType ==
    ASSUME TypeOK, NEW e \in Event, NEW status \in InboxStatus
    PROVE  StatusSet(e, status) \in [Event -> InboxRow]
BY DEF TypeOK, StatusSet, InboxRow

LEMMA EventType ==
    ASSUME TypeOK, NEW e \in Event, NEW row \in EventRow
    PROVE  [event EXCEPT ![e] = row] \in [Event -> EventRow]
BY DEF TypeOK

LEMMA ErrorSetType ==
    ASSUME TypeOK, NEW e \in Event, NEW error \in Error
    PROVE  ErrorSet(e, error) \in [Event -> EventRow]
BY DEF TypeOK, ErrorSet, EventRow

LEMMA ProcessedType ==
    ASSUME TypeOK, NEW e \in Event
    PROVE  Processed(e) \in [Event -> EventRow]
BY DEF TypeOK, Processed, EventRow, Error

LEMMA GivenUpType ==
    ASSUME TypeOK, NEW e \in Event
    PROVE  GivenUp(e) \in [Event -> EventRow]
BY DEF TypeOK, GivenUp, EventRow, Error

LEMMA InboxType ==
    ASSUME TypeOK, NEW e \in Event, NEW row \in InboxRow
    PROVE  [inbox EXCEPT ![e] = row] \in [Event -> InboxRow]
BY DEF TypeOK

LEMMA RunType ==
    ASSUME TypeOK, Named, NEW r \in Runner, NEW s \in RunState,
           s.phase # "idle" => s.event \in Event, run' = [run EXCEPT ![r] = s]
    PROVE  /\ run' \in [Runner -> RunState]
           /\ \A o \in Runner : run'[o].phase # "idle" => run'[o].event \in Event
BY DEF TypeOK, Named

LEMMA JobType ==
    ASSUME TypeOK, Named, NEW j \in Job, NEW c \in JobState,
           c.state = "queued" => c.event \in Event, job' = [job EXCEPT ![j] = c]
    PROVE  /\ job' \in [Job -> JobState]
           /\ \A i \in Job : job'[i].state = "queued" => job'[i].event \in Event
BY DEF TypeOK, Named

LEMMA RunOfType ==
    ASSUME NEW phase \in Phase, NEW e \in Event \cup {NoEvent}, NEW j \in Job \cup {NoJob}
    PROVE  /\ RunOf(phase, e, j) \in RunState
           /\ RunOf(phase, e, j).phase = phase
           /\ RunOf(phase, e, j).event = e
BY DEF RunOf, RunState

LEMMA TakenType ==
    ASSUME TypeOK, NEW j \in Job
    PROVE  Taken(j) \in JobState /\ Taken(j).state = "none"
BY DEF TypeOK, Taken, JobState

LEMMA AnsweredType ==
    ASSUME TypeOK, Named, NEW j \in Job
    PROVE  /\ Answered(j) \in JobState
           /\ Answered(j).state = "queued" => Answered(j).event \in Event
BY DEF TypeOK, Named, Answered, NoCall, JobState

\* The end of a run.
LEMMA RunEndsType ==
    ASSUME TypeOK, Named, NEW r \in Runner, run[r].phase # "idle", RunEnds(r)
    PROVE  /\ run' \in [Runner -> RunState]
           /\ job' \in [Job -> JobState]
           /\ Named'
<1>1. /\ RunOf("after", run[r].event, NoJob) \in RunState
      /\ RunOf("after", run[r].event, NoJob).event \in Event
      /\ Idle \in RunState
      /\ Idle.phase = "idle"
  BY RunOfType DEF Named, Phase, Idle
<1>2. run' \in [Runner -> RunState] /\ \A o \in Runner : run'[o].phase # "idle" => run'[o].event \in Event
  <2> DEFINE end == IF r \in Loop THEN RunOf("after", run[r].event, NoJob) ELSE Idle
  <2>1. end \in RunState /\ (end.phase # "idle" => end.event \in Event)
    BY <1>1
  <2>2. run' = [run EXCEPT ![r] = end]
    BY DEF RunEnds
  <2>3. run \in [Runner -> RunState]
    BY DEF TypeOK
  <2> HIDE DEF end
  <2>4. QED
    BY <2>1, <2>2, <2>3 DEF Named
<1>3. job' \in [Job -> JobState] /\ \A j \in Job : job'[j].state = "queued" => job'[j].event \in Event
  BY TakenType DEF RunEnds, TypeOK, Named
<1>4. QED
  BY <1>2, <1>3 DEF Named

\* Every variable keeps its type, and what is under way names its event.
THEOREM TypeCorrect == Spec => [](TypeOK /\ Named)
<1>1. Init => TypeOK /\ Named
  BY InboxAssumption DEF Init, TypeOK, Named, NoEventRow, NoRow, NoCall, Idle, RunOf, EventRow, Error,
     InboxRow, InboxStatus, JobState, RunState, Phase
<1>2. TypeOK /\ Named /\ [Next]_vars => (TypeOK /\ Named)'
  <2> SUFFICES ASSUME TypeOK, Named, [Next]_vars PROVE (TypeOK /\ Named)'
    OBVIOUS
  <2> USE InboxAssumption DEF InboxStatus, Error, Phase, dataVars, countVars
  <2>1. ASSUME NEW e \in Event, Accept(e) PROVE (TypeOK /\ Named)'
    <3>1. /\ [stored |-> TRUE, processed |-> TRUE, error |-> "none"] \in EventRow
          /\ [stored |-> TRUE, processed |-> FALSE, error |-> "incoming"] \in EventRow
      BY DEF EventRow
    <3>2. event' \in [Event -> EventRow]
      <4>1. CASE KindOf[e] = "ignored"
        <5>1. event' = [event EXCEPT ![e] = [stored |-> TRUE, processed |-> TRUE, error |-> "none"]]
          BY <2>1, <4>1 DEF Accept
        <5>2. QED
          BY <5>1, <3>1, EventType
      <4>2. CASE KindOf[e] # "ignored"
        <5>1. event' = [event EXCEPT ![e] = [stored |-> TRUE, processed |-> FALSE, error |-> "incoming"]]
          BY <2>1, <4>2 DEF Accept
        <5>2. QED
          BY <5>1, <3>1, EventType
      <4>3. QED
        BY <4>1, <4>2
    <3>3. inbox' \in [Event -> InboxRow]
      BY <2>1, StatusSetType DEF Accept, TypeOK
    <3>4. QED
      BY <2>1, <3>2, <3>3 DEF Accept, TypeOK, Named
  <2>2. ASSUME NEW e \in Event, NEW j \in Job, Dispatch(e, j) PROVE (TypeOK /\ Named)'
    <3>1. [state |-> "none", calling |-> TRUE, event |-> e] \in JobState
      BY DEF JobState
    <3>2. inbox' \in [Event -> InboxRow]
      <4>1. inbox[e] \in InboxRow
        BY DEF TypeOK
      <4>2. [inbox[e] EXCEPT !.status = "enqueued", !.job = j] \in InboxRow
        BY <4>1 DEF InboxRow
      <4>3. inbox' = [inbox EXCEPT ![e] = [inbox[e] EXCEPT !.status = "enqueued", !.job = j]]
        BY <2>2 DEF Dispatch
      <4>4. QED
        BY <4>2, <4>3, InboxType
    <3>3. /\ job' \in [Job -> JobState]
          /\ \A i \in Job : job'[i].state = "queued" => job'[i].event \in Event
      BY <2>2, <3>1, JobType DEF Dispatch
    <3>4. QED
      BY <2>2, <3>2, <3>3 DEF Dispatch, TypeOK, Named
  <2>3. ASSUME NEW e \in Event, RecoverProcessing(e) PROVE (TypeOK /\ Named)'
    BY <2>3, StatusSetType, ErrorSetType DEF RecoverProcessing, TypeOK, Named
  <2>4. ASSUME NEW e \in Event, RequeueEnqueued(e) PROVE (TypeOK /\ Named)'
    BY <2>4, StatusSetType, ErrorSetType DEF RequeueEnqueued, TypeOK, Named
  <2>5. ASSUME NEW e \in Event, Reset(e) PROVE (TypeOK /\ Named)'
    BY <2>5, ErrorSetType DEF Reset, TypeOK, Named, InboxRow, NoRow
  <2>6. ASSUME NEW e \in Event, GrowsOld(e) PROVE (TypeOK /\ Named)'
    BY <2>6 DEF GrowsOld, TypeOK, Named
  <2>7. ASSUME NEW j \in Job, Enqueue(j) PROVE (TypeOK /\ Named)'
    BY <2>7 DEF Enqueue, TypeOK, Named, JobState
  <2>8. ASSUME NEW j \in Job, EnqueueReturns(j) PROVE (TypeOK /\ Named)'
    BY <2>8, AnsweredType DEF EnqueueReturns, TypeOK, Named
  <2>9. ASSUME NEW j \in Job, EnqueueRaises(j) PROVE (TypeOK /\ Named)'
    BY <2>9, AnsweredType DEF EnqueueRaises, TypeOK, Named, InboxRow
  <2>10. ASSUME NEW j \in Job, JobLost(j) PROVE (TypeOK /\ Named)'
    BY <2>10, TakenType DEF JobLost, TypeOK, Named
  <2>11. ASSUME NEW r \in Runner, Refuse(r) PROVE (TypeOK /\ Named)'
    BY <2>11, StatusSetType, ErrorSetType, ProcessedType, RunEndsType DEF Refuse, TypeOK, Named
  <2>12. ASSUME NEW r \in Runner, Claim(r) PROVE (TypeOK /\ Named)'
    <3> DEFINE e == run[r].event
    <3>1. e \in Event
      BY <2>12 DEF Claim, Named
    <3>2. inbox[e].attempts \in 0 .. MaxAttempts /\ inbox[e].attempts < MaxAttempts
      BY <2>12, <3>1 DEF Claim, TypeOK, InboxRow
    <3>3. inbox[e].attempts + 1 \in 0 .. MaxAttempts
      BY <3>2
    <3>4. [status |-> "processing", attempts |-> inbox[e].attempts + 1, job |-> NoJob] \in InboxRow
      BY <3>3 DEF InboxRow
    <3>5. inbox' \in [Event -> InboxRow]
      BY <2>12, <3>1, <3>4, InboxType DEF Claim
    <3>6. /\ run' \in [Runner -> RunState]
          /\ \A o \in Runner : run'[o].phase # "idle" => run'[o].event \in Event
      BY <2>12, <3>1 DEF Claim, TypeOK, Named, RunState
    <3>7. QED
      BY <2>12, <3>5, <3>6 DEF Claim, TypeOK, Named
  <2>13. ASSUME NEW r \in Runner, Open(r) PROVE (TypeOK /\ Named)'
    <3> DEFINE e == run[r].event
               s == [phase |-> "open", event |-> e, job |-> run[r].job,
                     processed |-> event[e].processed, exists |-> About[e] \in stored,
                     edits |-> {d \in Event : /\ KindOf[d] = "edit"
                                             /\ About[d] = About[e]
                                             /\ event[d].error = "edit"
                                             /\ ~event[d].processed}]
    <3>1. e \in Event
      BY <2>13 DEF Open, Named
    <3>2. event[e].processed \in BOOLEAN /\ run[r].job \in Job \cup {NoJob}
      BY <3>1 DEF TypeOK, EventRow, RunState
    <3>3. s \in RunState
      BY <3>1, <3>2 DEF RunState
    <3>4. run' = [run EXCEPT ![r] = s]
      BY <2>13 DEF Open
    <3>5. s.event \in Event
      BY <3>1
    <3>6. /\ run' \in [Runner -> RunState]
          /\ \A o \in Runner : run'[o].phase # "idle" => run'[o].event \in Event
      <4> HIDE DEF s
      <4> QED BY <3>3, <3>4, <3>5, RunType
    <3>7. QED
      BY <2>13, <3>6 DEF Open, TypeOK, Named
  <2>14. ASSUME NEW r \in Runner, FindsSettled(r) PROVE (TypeOK /\ Named)'
    BY <2>14, StatusSetType, ErrorSetType, ProcessedType, RunEndsType DEF FindsSettled, TypeOK, Named
  <2>15. ASSUME NEW r \in Runner, CommitEdit(r) PROVE (TypeOK /\ Named)'
    BY <2>15, StatusSetType, ErrorSetType, ProcessedType, RunEndsType DEF CommitEdit, TypeOK, Named
  <2>16. ASSUME NEW r \in Runner, CommitMessage(r) PROVE (TypeOK /\ Named)'
    <3>1. \A d \in Event : Processed(d)[d] \in EventRow /\ event[d] \in EventRow
      BY ProcessedType DEF TypeOK
    <3>2. event' \in [Event -> EventRow]
      BY <2>16, <3>1 DEF CommitMessage
    <3>3. run[r].event \in Event /\ run[r].edits \in SUBSET Event
      BY <2>16 DEF CommitMessage, TypeOK, Named, RunState
    <3>4. inbox' \in [Event -> InboxRow]
      BY <2>16, <3>3, StatusSetType DEF CommitMessage
    <3>5. /\ run' \in [Runner -> RunState]
          /\ job' \in [Job -> JobState]
          /\ Named'
      BY <2>16, RunEndsType DEF CommitMessage
    <3>6. stored' \in SUBSET Message /\ applied' \in SUBSET Event
      BY <2>16, <3>3 DEF CommitMessage, TypeOK
    <3>7. QED
      BY <2>16, <3>2, <3>4, <3>5, <3>6 DEF CommitMessage, TypeOK
  <2>17. ASSUME NEW r \in Runner, RecordFailure(r) PROVE (TypeOK /\ Named)'
    BY <2>17, StatusSetType, ErrorSetType, ProcessedType, RunEndsType DEF RecordFailure, TypeOK, Named
  <2>18. ASSUME NEW r \in Runner, AfterRun(r) PROVE (TypeOK /\ Named)'
    <3>1. run[r].event \in Event
      BY <2>18 DEF AfterRun, Named
    <3>2. event' \in [Event -> EventRow]
      BY <2>18, <3>1, GivenUpType DEF AfterRun, TypeOK
    <3>3. Idle \in RunState /\ Idle.phase = "idle"
      BY RunOfType DEF Idle
    <3>4. /\ run' \in [Runner -> RunState]
          /\ \A o \in Runner : run'[o].phase # "idle" => run'[o].event \in Event
      BY <2>18, <3>3, RunType DEF AfterRun
    <3>5. QED
      BY <2>18, <3>1, <3>2, <3>4 DEF AfterRun, TypeOK, Named
  <2>19. ASSUME NEW r \in Runner, Raise(r) PROVE (TypeOK /\ Named)'
    <3>1. run[r].event \in Event /\ run[r].job \in Job \cup {NoJob}
      BY <2>19 DEF Raise, TypeOK, Named, RunState
    <3>2. /\ RunOf("failing", run[r].event, run[r].job) \in RunState
          /\ RunOf("failing", run[r].event, run[r].job).event \in Event
      BY <3>1, RunOfType
    <3>3. /\ run' \in [Runner -> RunState]
          /\ \A o \in Runner : run'[o].phase # "idle" => run'[o].event \in Event
      BY <2>19, <3>2, RunType DEF Raise
    <3>4. QED
      BY <2>19, <3>3 DEF Raise, TypeOK, Named
  <2>20. ASSUME NEW r \in Runner, Crash(r) PROVE (TypeOK /\ Named)'
    BY <2>20, RunOfType, TakenType DEF Crash, TypeOK, Named, Idle
  <2>21. ASSUME NEW r \in Runner, NEW j \in Job, StartJob(r, j) PROVE (TypeOK /\ Named)'
    <3>1. job[j].event \in Event
      BY <2>21 DEF StartJob, Named
    <3>2. /\ RunOf("start", job[j].event, j) \in RunState
          /\ RunOf("start", job[j].event, j).event \in Event
      BY <3>1, RunOfType
    <3>3. /\ run' \in [Runner -> RunState]
          /\ \A o \in Runner : run'[o].phase # "idle" => run'[o].event \in Event
      BY <2>21, <3>2, RunType DEF StartJob
    <3>4. /\ job' \in [Job -> JobState]
          /\ \A i \in Job : job'[i].state = "queued" => job'[i].event \in Event
      BY <2>21 DEF StartJob, TypeOK, Named, JobState
    <3>5. QED
      BY <2>21, <3>3, <3>4 DEF StartJob, TypeOK, Named
  <2>22. ASSUME NEW r \in Runner, NEW e \in Event, PickIncoming(r, e) PROVE (TypeOK /\ Named)'
    BY <2>22, RunOfType DEF PickIncoming, TypeOK, Named
  <2>23. ASSUME NEW r \in Runner, NEW e \in Event, ReconcileEdit(r, e) PROVE (TypeOK /\ Named)'
    <3>1. event' \in [Event -> EventRow]
      BY <2>23, ProcessedType, GivenUpType DEF ReconcileEdit
    <3>2. QED
      BY <2>23, <3>1 DEF ReconcileEdit, TypeOK, Named
  <2>24. CASE UNCHANGED vars
    BY <2>24 DEF vars, dataVars, countVars, TypeOK, Named
  <2>25. QED
    BY <2>1, <2>2, <2>3, <2>4, <2>5, <2>6, <2>7, <2>8, <2>9, <2>10, <2>11, <2>12, <2>13, <2>14, <2>15, <2>16, <2>17, <2>18, <2>19, <2>20, <2>21, <2>22, <2>23, <2>24 DEF Next, RunStep
<1>3. QED
  BY <1>1, <1>2, PTL DEF Spec

-----------------------------------------------------------------------------
(* What a step leaves alone. *)

\* Only Open opens a transaction.
LEMMA OpenKept ==
    ASSUME TypeOK, Named, [Next]_vars, NEW o \in Runner, run'[o].phase = "open", run'[o] # run[o]
    PROVE  Open(o)
<1>1. ASSUME NEW e \in Event, Accept(e) PROVE Open(o)
  BY <1>1 DEF Accept, RunEnds, RunOf, Idle, TypeOK, dataVars, countVars
<1>2. ASSUME NEW e \in Event, NEW j \in Job, Dispatch(e, j) PROVE Open(o)
  BY <1>2 DEF Dispatch, RunEnds, RunOf, Idle, TypeOK, dataVars, countVars
<1>3. ASSUME NEW e \in Event, RecoverProcessing(e) PROVE Open(o)
  BY <1>3 DEF RecoverProcessing, RunEnds, RunOf, Idle, TypeOK, dataVars, countVars
<1>4. ASSUME NEW e \in Event, RequeueEnqueued(e) PROVE Open(o)
  BY <1>4 DEF RequeueEnqueued, RunEnds, RunOf, Idle, TypeOK, dataVars, countVars
<1>5. ASSUME NEW e \in Event, Reset(e) PROVE Open(o)
  BY <1>5 DEF Reset, RunEnds, RunOf, Idle, TypeOK, dataVars, countVars
<1>6. ASSUME NEW e \in Event, GrowsOld(e) PROVE Open(o)
  BY <1>6 DEF GrowsOld, RunEnds, RunOf, Idle, TypeOK, dataVars, countVars
<1>7. ASSUME NEW j \in Job, Enqueue(j) PROVE Open(o)
  BY <1>7 DEF Enqueue, RunEnds, RunOf, Idle, TypeOK, dataVars, countVars
<1>8. ASSUME NEW j \in Job, EnqueueReturns(j) PROVE Open(o)
  BY <1>8 DEF EnqueueReturns, RunEnds, RunOf, Idle, TypeOK, dataVars, countVars
<1>9. ASSUME NEW j \in Job, EnqueueRaises(j) PROVE Open(o)
  BY <1>9 DEF EnqueueRaises, RunEnds, RunOf, Idle, TypeOK, dataVars, countVars
<1>10. ASSUME NEW j \in Job, JobLost(j) PROVE Open(o)
  BY <1>10 DEF JobLost, RunEnds, RunOf, Idle, TypeOK, dataVars, countVars
<1>11. ASSUME NEW r \in Runner, Refuse(r) PROVE Open(o)
  BY <1>11 DEF Refuse, RunEnds, RunOf, Idle, TypeOK, dataVars, countVars
<1>12. ASSUME NEW r \in Runner, Claim(r) PROVE Open(o)
  BY <1>12 DEF Claim, RunEnds, RunOf, Idle, TypeOK, dataVars, countVars
<1>13. ASSUME NEW r \in Runner, Open(r) PROVE Open(o)
  BY <1>13 DEF Open, RunEnds, RunOf, Idle, TypeOK, dataVars, countVars
<1>14. ASSUME NEW r \in Runner, FindsSettled(r) PROVE Open(o)
  BY <1>14 DEF FindsSettled, RunEnds, RunOf, Idle, TypeOK, dataVars, countVars
<1>15. ASSUME NEW r \in Runner, CommitEdit(r) PROVE Open(o)
  BY <1>15 DEF CommitEdit, RunEnds, RunOf, Idle, TypeOK, dataVars, countVars
<1>16. ASSUME NEW r \in Runner, CommitMessage(r) PROVE Open(o)
  BY <1>16 DEF CommitMessage, RunEnds, RunOf, Idle, TypeOK, dataVars, countVars
<1>17. ASSUME NEW r \in Runner, RecordFailure(r) PROVE Open(o)
  BY <1>17 DEF RecordFailure, RunEnds, RunOf, Idle, TypeOK, dataVars, countVars
<1>18. ASSUME NEW r \in Runner, AfterRun(r) PROVE Open(o)
  BY <1>18 DEF AfterRun, RunEnds, RunOf, Idle, TypeOK, dataVars, countVars
<1>19. ASSUME NEW r \in Runner, Raise(r) PROVE Open(o)
  BY <1>19 DEF Raise, RunEnds, RunOf, Idle, TypeOK, dataVars, countVars
<1>20. ASSUME NEW r \in Runner, Crash(r) PROVE Open(o)
  BY <1>20 DEF Crash, RunEnds, RunOf, Idle, TypeOK, dataVars, countVars
<1>21. ASSUME NEW r \in Runner, NEW j \in Job, StartJob(r, j) PROVE Open(o)
  BY <1>21 DEF StartJob, RunEnds, RunOf, Idle, TypeOK, dataVars, countVars
<1>22. ASSUME NEW r \in Runner, NEW e \in Event, PickIncoming(r, e) PROVE Open(o)
  BY <1>22 DEF PickIncoming, RunEnds, RunOf, Idle, TypeOK, dataVars, countVars
<1>23. ASSUME NEW r \in Runner, NEW e \in Event, ReconcileEdit(r, e) PROVE Open(o)
  BY <1>23 DEF ReconcileEdit, RunEnds, RunOf, Idle, TypeOK, dataVars, countVars
<1>24. CASE UNCHANGED vars
  BY <1>24 DEF vars, dataVars, countVars
<1>25. QED
  BY <1>1, <1>2, <1>3, <1>4, <1>5, <1>6, <1>7, <1>8, <1>9, <1>10, <1>11, <1>12, <1>13, <1>14, <1>15, <1>16, <1>17, <1>18, <1>19, <1>20, <1>21, <1>22, <1>23, <1>24 DEF Next, RunStep

\* A processed event stays processed; messages, revisions and what the loop
\* has given up stay.
Grows ==
    /\ \A e \in Event : event[e].processed => event'[e].processed
    /\ stored \subseteq stored'
    /\ applied \subseteq applied'
    /\ expired \subseteq expired'

LEMMA StepGrows ==
    ASSUME TypeOK, Named, [Next]_vars
    PROVE  Grows
<1> USE DEF Grows, dataVars, countVars
<1>1. ASSUME NEW e \in Event, Accept(e) PROVE Grows
  BY <1>1 DEF Accept, TypeOK, EventRow, NoEventRow, ErrorSet, Processed, GivenUp
<1>2. ASSUME NEW e \in Event, NEW j \in Job, Dispatch(e, j) PROVE Grows
  BY <1>2 DEF Dispatch, TypeOK, EventRow, NoEventRow, ErrorSet, Processed, GivenUp
<1>3. ASSUME NEW e \in Event, RecoverProcessing(e) PROVE Grows
  BY <1>3 DEF RecoverProcessing, TypeOK, EventRow, NoEventRow, ErrorSet, Processed, GivenUp
<1>4. ASSUME NEW e \in Event, RequeueEnqueued(e) PROVE Grows
  BY <1>4 DEF RequeueEnqueued, TypeOK, EventRow, NoEventRow, ErrorSet, Processed, GivenUp
<1>5. ASSUME NEW e \in Event, Reset(e) PROVE Grows
  BY <1>5 DEF Reset, TypeOK, EventRow, NoEventRow, ErrorSet, Processed, GivenUp
<1>6. ASSUME NEW e \in Event, GrowsOld(e) PROVE Grows
  BY <1>6 DEF GrowsOld, TypeOK, EventRow, NoEventRow, ErrorSet, Processed, GivenUp
<1>7. ASSUME NEW j \in Job, Enqueue(j) PROVE Grows
  BY <1>7 DEF Enqueue, TypeOK, EventRow, NoEventRow, ErrorSet, Processed, GivenUp
<1>8. ASSUME NEW j \in Job, EnqueueReturns(j) PROVE Grows
  BY <1>8 DEF EnqueueReturns, TypeOK, EventRow, NoEventRow, ErrorSet, Processed, GivenUp
<1>9. ASSUME NEW j \in Job, EnqueueRaises(j) PROVE Grows
  BY <1>9 DEF EnqueueRaises, TypeOK, EventRow, NoEventRow, ErrorSet, Processed, GivenUp
<1>10. ASSUME NEW j \in Job, JobLost(j) PROVE Grows
  BY <1>10 DEF JobLost, TypeOK, EventRow, NoEventRow, ErrorSet, Processed, GivenUp
<1>11. ASSUME NEW r \in Runner, Refuse(r) PROVE Grows
  BY <1>11 DEF Refuse, TypeOK, EventRow, NoEventRow, ErrorSet, Processed, GivenUp
<1>12. ASSUME NEW r \in Runner, Claim(r) PROVE Grows
  BY <1>12 DEF Claim, TypeOK, EventRow, NoEventRow, ErrorSet, Processed, GivenUp
<1>13. ASSUME NEW r \in Runner, Open(r) PROVE Grows
  BY <1>13 DEF Open, TypeOK, EventRow, NoEventRow, ErrorSet, Processed, GivenUp
<1>14. ASSUME NEW r \in Runner, FindsSettled(r) PROVE Grows
  BY <1>14 DEF FindsSettled, TypeOK, EventRow, NoEventRow, ErrorSet, Processed, GivenUp
<1>15. ASSUME NEW r \in Runner, CommitEdit(r) PROVE Grows
  BY <1>15 DEF CommitEdit, TypeOK, EventRow, NoEventRow, ErrorSet, Processed, GivenUp
<1>16. ASSUME NEW r \in Runner, CommitMessage(r) PROVE Grows
  BY <1>16 DEF CommitMessage, TypeOK, EventRow, NoEventRow, ErrorSet, Processed, GivenUp
<1>17. ASSUME NEW r \in Runner, RecordFailure(r) PROVE Grows
  BY <1>17 DEF RecordFailure, TypeOK, EventRow, NoEventRow, ErrorSet, Processed, GivenUp
<1>18. ASSUME NEW r \in Runner, AfterRun(r) PROVE Grows
  BY <1>18 DEF AfterRun, TypeOK, EventRow, NoEventRow, ErrorSet, Processed, GivenUp
<1>19. ASSUME NEW r \in Runner, Raise(r) PROVE Grows
  BY <1>19 DEF Raise, TypeOK, EventRow, NoEventRow, ErrorSet, Processed, GivenUp
<1>20. ASSUME NEW r \in Runner, Crash(r) PROVE Grows
  BY <1>20 DEF Crash, TypeOK, EventRow, NoEventRow, ErrorSet, Processed, GivenUp
<1>21. ASSUME NEW r \in Runner, NEW j \in Job, StartJob(r, j) PROVE Grows
  BY <1>21 DEF StartJob, TypeOK, EventRow, NoEventRow, ErrorSet, Processed, GivenUp
<1>22. ASSUME NEW r \in Runner, NEW e \in Event, PickIncoming(r, e) PROVE Grows
  BY <1>22 DEF PickIncoming, TypeOK, EventRow, NoEventRow, ErrorSet, Processed, GivenUp
<1>23. ASSUME NEW r \in Runner, NEW e \in Event, ReconcileEdit(r, e) PROVE Grows
  BY <1>23 DEF ReconcileEdit, TypeOK, EventRow, NoEventRow, ErrorSet, Processed, GivenUp
<1>24. CASE UNCHANGED vars
  BY <1>24 DEF vars, dataVars, countVars
<1>25. QED
  BY <1>1, <1>2, <1>3, <1>4, <1>5, <1>6, <1>7, <1>8, <1>9, <1>10, <1>11, <1>12, <1>13, <1>14, <1>15, <1>16, <1>17, <1>18, <1>19, <1>20, <1>21, <1>22, <1>23, <1>24 DEF Next, RunStep

\* Only a message's commit stores a message, its own.
LEMMA OnlyCommitStores ==
    ASSUME TypeOK, Named, [Next]_vars, stored' # stored
    PROVE  \E r \in Runner : /\ CommitMessage(r)
                            /\ ~run[r].processed /\ ~run[r].exists
                            /\ stored' = stored \cup {About[run[r].event]}
<1> DEFINE G == \E r \in Runner : /\ CommitMessage(r)
                                 /\ ~run[r].processed /\ ~run[r].exists
                                 /\ stored' = stored \cup {About[run[r].event]}
<1> SUFFICES G
  OBVIOUS
<1> USE DEF dataVars, countVars
<1> HIDE DEF G
<1>1. ASSUME NEW e \in Event, Accept(e) PROVE G
  BY <1>1 DEF Accept
<1>2. ASSUME NEW e \in Event, NEW j \in Job, Dispatch(e, j) PROVE G
  BY <1>2 DEF Dispatch
<1>3. ASSUME NEW e \in Event, RecoverProcessing(e) PROVE G
  BY <1>3 DEF RecoverProcessing
<1>4. ASSUME NEW e \in Event, RequeueEnqueued(e) PROVE G
  BY <1>4 DEF RequeueEnqueued
<1>5. ASSUME NEW e \in Event, Reset(e) PROVE G
  BY <1>5 DEF Reset
<1>6. ASSUME NEW e \in Event, GrowsOld(e) PROVE G
  BY <1>6 DEF GrowsOld
<1>7. ASSUME NEW j \in Job, Enqueue(j) PROVE G
  BY <1>7 DEF Enqueue
<1>8. ASSUME NEW j \in Job, EnqueueReturns(j) PROVE G
  BY <1>8 DEF EnqueueReturns
<1>9. ASSUME NEW j \in Job, EnqueueRaises(j) PROVE G
  BY <1>9 DEF EnqueueRaises
<1>10. ASSUME NEW j \in Job, JobLost(j) PROVE G
  BY <1>10 DEF JobLost
<1>11. ASSUME NEW r \in Runner, Refuse(r) PROVE G
  BY <1>11 DEF Refuse
<1>12. ASSUME NEW r \in Runner, Claim(r) PROVE G
  BY <1>12 DEF Claim
<1>13. ASSUME NEW r \in Runner, Open(r) PROVE G
  BY <1>13 DEF Open
<1>14. ASSUME NEW r \in Runner, FindsSettled(r) PROVE G
  BY <1>14 DEF FindsSettled
<1>15. ASSUME NEW r \in Runner, CommitEdit(r) PROVE G
  BY <1>15 DEF CommitEdit
<1>16. ASSUME NEW r \in Runner, CommitMessage(r) PROVE G
  <2>1. ~run[r].processed /\ ~run[r].exists /\ stored' = stored \cup {About[run[r].event]}
    BY <1>16 DEF CommitMessage
  <2>2. QED
    BY <1>16, <2>1 DEF G
<1>17. ASSUME NEW r \in Runner, RecordFailure(r) PROVE G
  BY <1>17 DEF RecordFailure
<1>18. ASSUME NEW r \in Runner, AfterRun(r) PROVE G
  BY <1>18 DEF AfterRun
<1>19. ASSUME NEW r \in Runner, Raise(r) PROVE G
  BY <1>19 DEF Raise
<1>20. ASSUME NEW r \in Runner, Crash(r) PROVE G
  BY <1>20 DEF Crash
<1>21. ASSUME NEW r \in Runner, NEW j \in Job, StartJob(r, j) PROVE G
  BY <1>21 DEF StartJob
<1>22. ASSUME NEW r \in Runner, NEW e \in Event, PickIncoming(r, e) PROVE G
  BY <1>22 DEF PickIncoming
<1>23. ASSUME NEW r \in Runner, NEW e \in Event, ReconcileEdit(r, e) PROVE G
  BY <1>23 DEF ReconcileEdit
<1>24. CASE UNCHANGED vars
  BY <1>24 DEF vars, dataVars, countVars
<1>25. QED
  BY <1>1, <1>2, <1>3, <1>4, <1>5, <1>6, <1>7, <1>8, <1>9, <1>10, <1>11, <1>12, <1>13, <1>14, <1>15, <1>16, <1>17, <1>18, <1>19, <1>20, <1>21, <1>22, <1>23, <1>24 DEF Next, RunStep

-----------------------------------------------------------------------------
(* A message is inserted once: the advisory lock keeps two transactions of   *)
(* one conversation apart, so what an open one has read of its message stays *)
(* true until it commits.                                                    *)

OpenMessage(r) == run[r].phase = "open" /\ KindOf[run[r].event] = "message"

ThreadExclusive ==
    \A r, o \in Runner : r # o /\ OpenMessage(r) /\ OpenMessage(o) =>
        ThreadOf[About[run[r].event]] # ThreadOf[About[run[o].event]]

\* No transaction inserts a message that another one has stored since.
THEOREM InsertedOnce == Spec => []InsertsOnce
<1> DEFINE Inv == ThreadExclusive /\ InsertsOnce
<1>1. Init => Inv
  BY DEF Init, Idle, RunOf, ThreadExclusive, InsertsOnce, OpenMessage
<1>2. TypeOK /\ Named /\ TypeOK' /\ Named' /\ Inv /\ [Next]_vars => Inv'
  <2> SUFFICES ASSUME TypeOK, Named, TypeOK', Named', Inv, [Next]_vars PROVE Inv'
    OBVIOUS
  <2>1. ASSUME NEW r \in Runner, NEW o \in Runner, r # o, OpenMessage(r)', OpenMessage(o)', run'[r] # run[r]
        PROVE  ThreadOf[About[run'[r].event]] # ThreadOf[About[run'[o].event]]
    <3>1. Open(r)
      BY <2>1, OpenKept DEF OpenMessage
    <3>2. run'[o] = run[o] /\ run'[r].event = run[r].event
      BY <2>1, <3>1 DEF Open, TypeOK
    <3>3. QED
      BY <2>1, <3>1, <3>2 DEF Open, ThreadLockFree, OpenMessage
  <2>2. ThreadExclusive'
    <3> SUFFICES ASSUME NEW r \in Runner, NEW o \in Runner, r # o, OpenMessage(r)', OpenMessage(o)'
                 PROVE  ThreadOf[About[run'[r].event]] # ThreadOf[About[run'[o].event]]
      BY DEF ThreadExclusive
    <3>1. CASE run'[r] # run[r]
      BY <3>1, <2>1
    <3>2. CASE run'[o] # run[o]
      BY <3>2, <2>1
    <3>3. CASE run'[r] = run[r] /\ run'[o] = run[o]
      BY <3>3 DEF ThreadExclusive, OpenMessage
    <3>4. QED
      BY <3>1, <3>2, <3>3
  <2>3. ASSUME NEW r \in Runner, OpenMessage(r)', ~run'[r].processed, ~run'[r].exists
        PROVE  About[run'[r].event] \notin stored'
    <3>1. CASE run'[r] # run[r]
      <4>1. Open(r)
        BY <2>3, <3>1, OpenKept DEF OpenMessage
      <4>2. QED
        BY <2>3, <4>1 DEF Open, TypeOK, dataVars
    <3>2. CASE run'[r] = run[r]
      <4>1. About[run[r].event] \notin stored /\ OpenMessage(r) /\ run[r].event \in Event
        BY <2>3, <3>2 DEF InsertsOnce, OpenMessage, Named
      <4>2. CASE stored' = stored
        BY <3>2, <4>1, <4>2
      <4>3. CASE stored' # stored
        <5>1. PICK o \in Runner : CommitMessage(o) /\ stored' = stored \cup {About[run[o].event]}
          BY <4>3, OnlyCommitStores
        <5>2. run'[o].phase # "open" /\ OpenMessage(o) /\ run[o].event \in Event
          BY <5>1 DEF CommitMessage, RunEnds, RunOf, Idle, TypeOK, OpenMessage, Named
        <5>3. o # r
          BY <2>3, <5>2 DEF OpenMessage
        <5>4. About[run[o].event] # About[run[r].event]
          BY <4>1, <5>2, <5>3 DEF ThreadExclusive
        <5>5. QED
          BY <3>2, <4>1, <5>1, <5>4
      <4>4. QED
        BY <4>2, <4>3
    <3>3. QED
      BY <3>1, <3>2
  <2>4. QED
    BY <2>2, <2>3 DEF InsertsOnce, OpenMessage
<1>3. Inv => InsertsOnce
  OBVIOUS
<1> HIDE DEF Inv
<1>4. QED
  BY <1>1, <1>2, <1>3, TypeCorrect, PTL DEF Spec

-----------------------------------------------------------------------------
(* Processed means done: what an open transaction has read can become stale  *)
(* only in the direction that does no harm.                                  *)

Snapshots ==
    \A r \in Runner : run[r].phase = "open" =>
        /\ run[r].exists => About[run[r].event] \in stored
        /\ run[r].processed => event[run[r].event].processed
        /\ \A d \in run[r].edits : KindOf[d] = "edit"

HasEffect(d) == IF KindOf[d] = "edit" THEN d \in applied ELSE About[d] \in stored

\* An event that a step marks as processed has its effect after that step,
\* unless it is given up or ignored.
LEMMA NewlyProcessed ==
    ASSUME TypeOK, Named, Snapshots, ProcessedHasEffect, [Next]_vars,
           NEW d \in Event, ~event[d].processed, event'[d].processed,
           d \notin expired', KindOf[d] # "ignored"
    PROVE  HasEffect(d)'
<1> USE DEF dataVars, countVars
<1>1. ASSUME NEW e \in Event, Accept(e) PROVE HasEffect(d)'
  <2>1. d = e /\ KindOf[e] = "ignored"
    BY <1>1 DEF Accept, TypeOK, EventRow
  <2>2. QED
    BY <2>1
<1>2. ASSUME NEW e \in Event, NEW j \in Job, Dispatch(e, j) PROVE HasEffect(d)'
  BY <1>2 DEF Dispatch, TypeOK, EventRow, ErrorSet
<1>3. ASSUME NEW e \in Event, RecoverProcessing(e) PROVE HasEffect(d)'
  BY <1>3 DEF RecoverProcessing, TypeOK, EventRow, ErrorSet
<1>4. ASSUME NEW e \in Event, RequeueEnqueued(e) PROVE HasEffect(d)'
  BY <1>4 DEF RequeueEnqueued, TypeOK, EventRow, ErrorSet
<1>5. ASSUME NEW e \in Event, Reset(e) PROVE HasEffect(d)'
  BY <1>5 DEF Reset, TypeOK, EventRow, ErrorSet
<1>6. ASSUME NEW e \in Event, GrowsOld(e) PROVE HasEffect(d)'
  BY <1>6 DEF GrowsOld, TypeOK, EventRow, ErrorSet
<1>7. ASSUME NEW j \in Job, Enqueue(j) PROVE HasEffect(d)'
  BY <1>7 DEF Enqueue, TypeOK, EventRow, ErrorSet
<1>8. ASSUME NEW j \in Job, EnqueueReturns(j) PROVE HasEffect(d)'
  BY <1>8 DEF EnqueueReturns, TypeOK, EventRow, ErrorSet
<1>9. ASSUME NEW j \in Job, EnqueueRaises(j) PROVE HasEffect(d)'
  BY <1>9 DEF EnqueueRaises, TypeOK, EventRow, ErrorSet
<1>10. ASSUME NEW j \in Job, JobLost(j) PROVE HasEffect(d)'
  BY <1>10 DEF JobLost, TypeOK, EventRow, ErrorSet
<1>11. ASSUME NEW r \in Runner, Refuse(r) PROVE HasEffect(d)'
  BY <1>11 DEF Refuse, TypeOK, EventRow, ErrorSet
<1>12. ASSUME NEW r \in Runner, Claim(r) PROVE HasEffect(d)'
  BY <1>12 DEF Claim, TypeOK, EventRow, ErrorSet
<1>13. ASSUME NEW r \in Runner, Open(r) PROVE HasEffect(d)'
  BY <1>13 DEF Open, TypeOK, EventRow, ErrorSet
<1>14. ASSUME NEW r \in Runner, FindsSettled(r) PROVE HasEffect(d)'
  BY <1>14 DEF FindsSettled, TypeOK, EventRow, ErrorSet
<1>15. ASSUME NEW r \in Runner, CommitEdit(r) PROVE HasEffect(d)'
  <2>1. run[r].event \in Event
    BY <1>15 DEF CommitEdit, Named
  <2>2. d = run[r].event /\ run[r].exists
    BY <1>15, <2>1 DEF CommitEdit, ErrorSet, Processed, TypeOK, EventRow
  <2>3. QED
    BY <1>15, <2>2 DEF CommitEdit, HasEffect
<1>16. ASSUME NEW r \in Runner, CommitMessage(r) PROVE HasEffect(d)'
  <2> DEFINE e == run[r].event
  <2>1. e \in Event /\ KindOf[e] = "message"
    BY <1>16 DEF CommitMessage, Named
  <2>2. (d = e /\ ~run[r].processed) \/ (~run[r].processed /\ ~run[r].exists /\ d \in run[r].edits)
    BY <1>16 DEF CommitMessage
  <2>3. CASE d = e
    BY <1>16, <2>1, <2>2, <2>3 DEF CommitMessage, HasEffect, Snapshots
  <2>4. CASE d # e
    <3>1. KindOf[d] = "edit" /\ d \in applied'
      BY <1>16, <2>2, <2>4 DEF CommitMessage, Snapshots
    <3>2. QED
      BY <3>1 DEF HasEffect
  <2>5. QED
    BY <2>3, <2>4
<1>17. ASSUME NEW r \in Runner, RecordFailure(r) PROVE HasEffect(d)'
  BY <1>17 DEF RecordFailure, TypeOK, EventRow, ErrorSet
<1>18. ASSUME NEW r \in Runner, AfterRun(r) PROVE HasEffect(d)'
  <2>1. run[r].event \in Event
    BY <1>18 DEF AfterRun, Named
  <2>2. d = run[r].event /\ d \in expired'
    BY <1>18, <2>1 DEF AfterRun, GivenUp, TypeOK, EventRow
  <2>3. QED
    BY <2>2
<1>19. ASSUME NEW r \in Runner, Raise(r) PROVE HasEffect(d)'
  BY <1>19 DEF Raise, TypeOK, EventRow, ErrorSet
<1>20. ASSUME NEW r \in Runner, Crash(r) PROVE HasEffect(d)'
  BY <1>20 DEF Crash, TypeOK, EventRow, ErrorSet
<1>21. ASSUME NEW r \in Runner, NEW j \in Job, StartJob(r, j) PROVE HasEffect(d)'
  BY <1>21 DEF StartJob, TypeOK, EventRow, ErrorSet
<1>22. ASSUME NEW r \in Runner, NEW e \in Event, PickIncoming(r, e) PROVE HasEffect(d)'
  BY <1>22 DEF PickIncoming, TypeOK, EventRow, ErrorSet
<1>23. ASSUME NEW r \in Runner, NEW e \in Event, ReconcileEdit(r, e) PROVE HasEffect(d)'
  <2>1. d = e
    BY <1>23 DEF ReconcileEdit, GivenUp, Processed, TypeOK, EventRow
  <2>2. CASE About[e] \in stored
    BY <1>23, <2>1, <2>2 DEF ReconcileEdit, HasEffect
  <2>3. CASE About[e] \notin stored
    BY <1>23, <2>1, <2>3 DEF ReconcileEdit
  <2>4. QED
    BY <2>2, <2>3
<1>24. CASE UNCHANGED vars
  BY <1>24 DEF vars, dataVars, countVars
<1>25. QED
  BY <1>1, <1>2, <1>3, <1>4, <1>5, <1>6, <1>7, <1>8, <1>9, <1>10, <1>11, <1>12, <1>13, <1>14, <1>15, <1>16, <1>17, <1>18, <1>19, <1>20, <1>21, <1>22, <1>23, <1>24 DEF Next, RunStep

\* What an open transaction has read stays true of what is stored.
THEOREM SnapshotsKept == Spec => []Snapshots
<1>1. Init => Snapshots
  BY DEF Init, Idle, RunOf, Snapshots
<1>2. TypeOK /\ Named /\ Snapshots /\ [Next]_vars => Snapshots'
    <2> SUFFICES ASSUME TypeOK, Named, Snapshots, [Next]_vars, NEW r \in Runner, run'[r].phase = "open"
                 PROVE  /\ run'[r].exists => About[run'[r].event] \in stored'
                        /\ run'[r].processed => event'[run'[r].event].processed
                        /\ \A d \in run'[r].edits : KindOf[d] = "edit"
      BY DEF Snapshots
    <2>1. CASE run'[r] # run[r]
      <3>1. Open(r)
        BY <2>1, OpenKept
      <3>2. QED
        BY <3>1 DEF Open, TypeOK, dataVars
    <2>2. CASE run'[r] = run[r]
      <3>1. run[r].event \in Event
        BY <2>2 DEF Named
      <3>2. QED
        BY <2>2, <3>1, StepGrows DEF Snapshots, Grows
    <2>3. QED
      BY <2>1, <2>2
<1>3. QED
  BY <1>1, <1>2, TypeCorrect, PTL DEF Spec

\* A processed event has its effect unless it was given up or ignored.
THEOREM EffectCorrect == Spec => []ProcessedHasEffect
<1>1. Init => ProcessedHasEffect
  BY DEF Init, NoEventRow, ProcessedHasEffect
<1>2. TypeOK /\ Named /\ Snapshots /\ ProcessedHasEffect /\ [Next]_vars => ProcessedHasEffect'
  <2> SUFFICES ASSUME TypeOK, Named, Snapshots, ProcessedHasEffect, [Next]_vars
               PROVE  ProcessedHasEffect'
    OBVIOUS
  <2>1. Grows
    BY StepGrows
  <2>3. ASSUME NEW d \in Event, event'[d].processed, d \notin expired', KindOf[d] # "ignored"
        PROVE  HasEffect(d)'
    <3>1. CASE event[d].processed
      <4>1. HasEffect(d)
        BY <2>1, <2>3, <3>1 DEF ProcessedHasEffect, HasEffect, Grows
      <4>2. QED
        BY <2>1, <4>1 DEF HasEffect, Grows
    <3>2. CASE ~event[d].processed
      BY <2>3, <3>2, NewlyProcessed
    <3>3. QED
      BY <3>1, <3>2
  <2>4. QED
    BY <2>3 DEF ProcessedHasEffect, HasEffect
<1>3. QED
  BY <1>1, <1>2, TypeCorrect, SnapshotsKept, PTL DEF Spec

-----------------------------------------------------------------------------
(* Nothing accepted is forgotten. *)

Recoverable(d) ==
    \/ inbox[d].status \in {"queued", "enqueued", "processing", "retry_wait"}
         /\ event[d].error = "incoming"
    \/ inbox[d].status = "failed" /\ event[d].error = "terminal"
    \/ inbox[d].status = "completed" /\ KindOf[d] = "edit" /\ event[d].error = "edit"

LEMMA StaysRecoverable ==
    ASSUME TypeOK, Named, Snapshots, NothingForgotten, [Next]_vars,
           NEW d \in Event, event'[d].stored, ~event'[d].processed
    PROVE  Recoverable(d)'
<1> USE DEF dataVars, countVars
<1>1. ASSUME NEW e \in Event, Accept(e) PROVE Recoverable(d)'
  <2>1. CASE d = e
    BY <1>1, <2>1 DEF Accept, TypeOK, EventRow, InboxRow, StatusSet, ErrorSet, Processed, GivenUp, NothingForgotten, Recoverable, NoEventRow
  <2>2. CASE d # e
    BY <1>1, <2>2 DEF Accept, TypeOK, EventRow, InboxRow, StatusSet, ErrorSet, Processed, GivenUp, NothingForgotten, Recoverable, NoEventRow
  <2>3. QED
    BY <2>1, <2>2
<1>2. ASSUME NEW e \in Event, NEW j \in Job, Dispatch(e, j) PROVE Recoverable(d)'
  <2>1. CASE d = e
    BY <1>2, <2>1 DEF Dispatch, TypeOK, EventRow, InboxRow, StatusSet, ErrorSet, Processed, GivenUp, NothingForgotten, Recoverable
  <2>2. CASE d # e
    BY <1>2, <2>2 DEF Dispatch, TypeOK, EventRow, InboxRow, StatusSet, ErrorSet, Processed, GivenUp, NothingForgotten, Recoverable
  <2>3. QED
    BY <2>1, <2>2
<1>3. ASSUME NEW e \in Event, RecoverProcessing(e) PROVE Recoverable(d)'
  <2>1. CASE d = e
    BY <1>3, <2>1 DEF RecoverProcessing, TypeOK, EventRow, InboxRow, StatusSet, ErrorSet, Processed, GivenUp, NothingForgotten, Recoverable
  <2>2. CASE d # e
    BY <1>3, <2>2 DEF RecoverProcessing, TypeOK, EventRow, InboxRow, StatusSet, ErrorSet, Processed, GivenUp, NothingForgotten, Recoverable
  <2>3. QED
    BY <2>1, <2>2
<1>4. ASSUME NEW e \in Event, RequeueEnqueued(e) PROVE Recoverable(d)'
  <2>1. CASE d = e
    BY <1>4, <2>1 DEF RequeueEnqueued, TypeOK, EventRow, InboxRow, StatusSet, ErrorSet, Processed, GivenUp, NothingForgotten, Recoverable
  <2>2. CASE d # e
    BY <1>4, <2>2 DEF RequeueEnqueued, TypeOK, EventRow, InboxRow, StatusSet, ErrorSet, Processed, GivenUp, NothingForgotten, Recoverable
  <2>3. QED
    BY <2>1, <2>2
<1>5. ASSUME NEW e \in Event, Reset(e) PROVE Recoverable(d)'
  <2>1. CASE d = e
    BY <1>5, <2>1 DEF Reset, TypeOK, EventRow, InboxRow, StatusSet, ErrorSet, Processed, GivenUp, NothingForgotten, Recoverable, NoRow
  <2>2. CASE d # e
    BY <1>5, <2>2 DEF Reset, TypeOK, EventRow, InboxRow, StatusSet, ErrorSet, Processed, GivenUp, NothingForgotten, Recoverable, NoRow
  <2>3. QED
    BY <2>1, <2>2
<1>6. ASSUME NEW e \in Event, GrowsOld(e) PROVE Recoverable(d)'
  BY <1>6 DEF GrowsOld, NothingForgotten, Recoverable
<1>7. ASSUME NEW j \in Job, Enqueue(j) PROVE Recoverable(d)'
  BY <1>7 DEF Enqueue, NothingForgotten, Recoverable
<1>8. ASSUME NEW j \in Job, EnqueueReturns(j) PROVE Recoverable(d)'
  BY <1>8 DEF EnqueueReturns, NothingForgotten, Recoverable
<1>9. ASSUME NEW j \in Job, EnqueueRaises(j) PROVE Recoverable(d)'
  BY <1>9 DEF EnqueueRaises, TypeOK, EventRow, InboxRow, StatusSet, ErrorSet, Processed, GivenUp, NothingForgotten, Recoverable
<1>10. ASSUME NEW j \in Job, JobLost(j) PROVE Recoverable(d)'
  BY <1>10 DEF JobLost, NothingForgotten, Recoverable
<1>11. ASSUME NEW r \in Runner, Refuse(r) PROVE Recoverable(d)'
  <2>1. CASE d = run[r].event
    BY <1>11, <2>1 DEF Refuse, TypeOK, EventRow, InboxRow, StatusSet, ErrorSet, Processed, GivenUp, NothingForgotten, Recoverable
  <2>2. CASE d # run[r].event
    BY <1>11, <2>2 DEF Refuse, TypeOK, EventRow, InboxRow, StatusSet, ErrorSet, Processed, GivenUp, NothingForgotten, Recoverable
  <2>3. QED
    BY <2>1, <2>2
<1>12. ASSUME NEW r \in Runner, Claim(r) PROVE Recoverable(d)'
  <2>1. CASE d = run[r].event
    BY <1>12, <2>1 DEF Claim, TypeOK, EventRow, InboxRow, StatusSet, ErrorSet, Processed, GivenUp, NothingForgotten, Recoverable
  <2>2. CASE d # run[r].event
    BY <1>12, <2>2 DEF Claim, TypeOK, EventRow, InboxRow, StatusSet, ErrorSet, Processed, GivenUp, NothingForgotten, Recoverable
  <2>3. QED
    BY <2>1, <2>2
<1>13. ASSUME NEW r \in Runner, Open(r) PROVE Recoverable(d)'
  BY <1>13 DEF Open, NothingForgotten, Recoverable
<1>14. ASSUME NEW r \in Runner, FindsSettled(r) PROVE Recoverable(d)'
  BY <1>14 DEF FindsSettled, NothingForgotten, Recoverable
<1>15. ASSUME NEW r \in Runner, CommitEdit(r) PROVE Recoverable(d)'
  <2>1. CASE d = run[r].event
    BY <1>15, <2>1 DEF CommitEdit, TypeOK, EventRow, InboxRow, StatusSet, ErrorSet, Processed, GivenUp, NothingForgotten, Recoverable
  <2>2. CASE d # run[r].event
    BY <1>15, <2>2 DEF CommitEdit, TypeOK, EventRow, InboxRow, StatusSet, ErrorSet, Processed, GivenUp, NothingForgotten, Recoverable
  <2>3. QED
    BY <2>1, <2>2
<1>16. ASSUME NEW r \in Runner, CommitMessage(r) PROVE Recoverable(d)'
  <2>1. run[r].event \in Event
    BY <1>16 DEF CommitMessage, Named
  <2>2. CASE d = run[r].event
    <3>1. CASE run[r].processed
      BY <1>16, <2>2, <3>1 DEF CommitMessage, Snapshots
    <3>2. CASE ~run[r].processed
      BY <1>16, <2>2, <3>2 DEF CommitMessage, Processed, TypeOK, EventRow
    <3>3. QED
      BY <3>1, <3>2
  <2>3. CASE d # run[r].event
    <3>1. event'[d] = Processed(d)[d] \/ event'[d] = event[d]
      BY <1>16 DEF CommitMessage
    <3>2. event'[d] = event[d]
      BY <3>1 DEF Processed, TypeOK, EventRow
    <3>3. inbox'[d] = inbox[d]
      BY <1>16, <2>1, <2>3 DEF CommitMessage, StatusSet, TypeOK
    <3>4. QED
      BY <3>2, <3>3 DEF NothingForgotten, Recoverable
  <2>4. QED
    BY <2>2, <2>3
<1>17. ASSUME NEW r \in Runner, RecordFailure(r) PROVE Recoverable(d)'
  <2>1. CASE d = run[r].event
    BY <1>17, <2>1 DEF RecordFailure, TypeOK, EventRow, InboxRow, StatusSet, ErrorSet, Processed, GivenUp, NothingForgotten, Recoverable
  <2>2. CASE d # run[r].event
    BY <1>17, <2>2 DEF RecordFailure, TypeOK, EventRow, InboxRow, StatusSet, ErrorSet, Processed, GivenUp, NothingForgotten, Recoverable
  <2>3. QED
    BY <2>1, <2>2
<1>18. ASSUME NEW r \in Runner, AfterRun(r) PROVE Recoverable(d)'
  <2>1. CASE d = run[r].event
    BY <1>18, <2>1 DEF AfterRun, TypeOK, EventRow, InboxRow, StatusSet, ErrorSet, Processed, GivenUp, NothingForgotten, Recoverable
  <2>2. CASE d # run[r].event
    BY <1>18, <2>2 DEF AfterRun, TypeOK, EventRow, InboxRow, StatusSet, ErrorSet, Processed, GivenUp, NothingForgotten, Recoverable
  <2>3. QED
    BY <2>1, <2>2
<1>19. ASSUME NEW r \in Runner, Raise(r) PROVE Recoverable(d)'
  BY <1>19 DEF Raise, NothingForgotten, Recoverable
<1>20. ASSUME NEW r \in Runner, Crash(r) PROVE Recoverable(d)'
  BY <1>20 DEF Crash, NothingForgotten, Recoverable
<1>21. ASSUME NEW r \in Runner, NEW j \in Job, StartJob(r, j) PROVE Recoverable(d)'
  BY <1>21 DEF StartJob, NothingForgotten, Recoverable
<1>22. ASSUME NEW r \in Runner, NEW e \in Event, PickIncoming(r, e) PROVE Recoverable(d)'
  BY <1>22 DEF PickIncoming, NothingForgotten, Recoverable
<1>23. ASSUME NEW r \in Runner, NEW e \in Event, ReconcileEdit(r, e) PROVE Recoverable(d)'
  <2>1. CASE d = e
    BY <1>23, <2>1 DEF ReconcileEdit, TypeOK, EventRow, InboxRow, StatusSet, ErrorSet, Processed, GivenUp, NothingForgotten, Recoverable
  <2>2. CASE d # e
    BY <1>23, <2>2 DEF ReconcileEdit, TypeOK, EventRow, InboxRow, StatusSet, ErrorSet, Processed, GivenUp, NothingForgotten, Recoverable
  <2>3. QED
    BY <2>1, <2>2
<1>24. CASE UNCHANGED vars
  BY <1>24 DEF vars, dataVars, countVars, NothingForgotten, Recoverable
<1>25. QED
  BY <1>1, <1>2, <1>3, <1>4, <1>5, <1>6, <1>7, <1>8, <1>9, <1>10, <1>11, <1>12, <1>13, <1>14, <1>15, <1>16, <1>17, <1>18, <1>19, <1>20, <1>21, <1>22, <1>23, <1>24 DEF Next, RunStep

\* An accepted event that is not processed can still be, or is marked for an
\* administrator.
THEOREM NeverForgotten == Spec => []NothingForgotten
<1>1. Init => NothingForgotten
  BY DEF Init, NoEventRow, NothingForgotten
<1>2. TypeOK /\ Named /\ Snapshots /\ NothingForgotten /\ [Next]_vars => NothingForgotten'
  BY StaysRecoverable DEF NothingForgotten, Recoverable
<1>3. QED
  BY <1>1, <1>2, TypeCorrect, SnapshotsKept, PTL DEF Spec
=============================================================================
