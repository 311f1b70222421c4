------------------------ MODULE DeliveryOutboxProofs ------------------------
(* Proofs about DeliveryOutbox, for every value of its constants. *)
EXTENDS DeliveryOutbox, FiniteSetTheorems, TLAPS

\* A counter of natural numbers stays one when an entry grows.
LEMMA Increment ==
    ASSUME NEW S, NEW f \in [S -> Nat], NEW x \in S, NEW n \in Nat
    PROVE  f[x] + n \in Nat /\ [f EXCEPT ![x] = @ + n] \in [S -> Nat]
<1>1. f[x] \in Nat
  OBVIOUS
<1>2. f[x] + n \in Nat
  BY <1>1
<1>3. QED
  BY <1>2

\* The provider's unclear answer leaves a counter a counter.
LEMMA MaybeAcceptedType ==
    ASSUME NEW j \in Job, job[j].msg \in Message, accepted \in [Message -> Nat], MaybeAccepted(j)
    PROVE  accepted' \in [Message -> Nat]
<1>1. PICK taken \in {0, 1} : accepted' = [accepted EXCEPT ![job[j].msg] = @ + taken]
  BY DEF MaybeAccepted
<1>2. taken \in Nat
  BY <1>1
<1>3. QED
  BY <1>1, <1>2, Increment

\* Every variable keeps its type.
THEOREM TypeCorrect == Spec => []TypeOK
<1>1. Init => TypeOK
  BY OutboxAssumption DEF Init, TypeOK, MessageStatus, DeliveryStatus, JobState, Phase, Idle, JobAt
<1>2. TypeOK /\ [Next]_vars => TypeOK'
  <2> SUFFICES ASSUME TypeOK, [Next]_vars PROVE TypeOK'
    OBVIOUS
  <2> USE OutboxAssumption DEF TypeOK, MessageStatus, DeliveryStatus, JobState, Phase,
          Idle, JobAt, RowBecomes, messageVars, deliveryVars
  <2>1. ASSUME NEW m \in Message, Create(m) PROVE TypeOK'
    BY <2>1 DEF Create, BecomesPending
  <2>2. ASSUME NEW m \in Message, Retry(m) PROVE TypeOK'
    BY <2>2 DEF Retry, BecomesPending
  <2>3. ASSUME NEW m \in Message, BecomeDue(m) PROVE TypeOK'
    BY <2>3 DEF BecomeDue
  <2>4. ASSUME NEW m \in Message, NEW j \in Job, Dispatch(m, j) PROVE TypeOK'
    BY <2>4 DEF Dispatch
  <2>5. ASSUME NEW skipped \in SUBSET Message, NEW expired \in SUBSET Message,
               Sweep(skipped, expired)
        PROVE TypeOK'
    BY <2>5 DEF Sweep
  <2>6. ASSUME NEW j \in Job, Enqueue(j) PROVE TypeOK'
    BY <2>6 DEF Enqueue
  <2>7. ASSUME NEW j \in Job, EnqueueRaises(j) PROVE TypeOK'
    BY <2>7 DEF EnqueueRaises
  <2>8. ASSUME NEW j \in Job, JobLost(j) PROVE TypeOK'
    BY <2>8 DEF JobLost
  <2>9. ASSUME NEW j \in Job, StartJob(j) PROVE TypeOK'
    BY <2>9 DEF StartJob
  <2>10. ASSUME NEW j \in Job, Skip(j) PROVE TypeOK'
    BY <2>10 DEF Skip
  <2>11. ASSUME NEW j \in Job, RefuseSettled(j) PROVE TypeOK'
    BY <2>11 DEF RefuseSettled, Claimable
  <2>12. ASSUME NEW j \in Job, Postpone(j) PROVE TypeOK'
    <3>1. job[j].msg \in Message
      BY <2>12 DEF Postpone, Claimable
    <3>2. job' \in [Job -> JobState] /\ \A i \in Job : job'[i].phase # "free" => job'[i].msg \in Message
      BY <2>12, <3>1 DEF Postpone, HasPendingPredecessor
    <3>3. QED
      BY <2>12, <3>1, <3>2 DEF Postpone, HasPendingPredecessor
  <2>13. ASSUME NEW j \in Job, RefuseChannel(j) PROVE TypeOK'
    <3>1. job[j].msg \in Message
      BY <2>13 DEF RefuseChannel, Claimable
    <3>2. job' \in [Job -> JobState] /\ \A i \in Job : job'[i].phase # "free" => job'[i].msg \in Message
      BY <2>13, <3>1 DEF RefuseChannel, HasPendingPredecessor, Fail
    <3>3. QED
      BY <2>13, <3>1, <3>2 DEF RefuseChannel, HasPendingPredecessor, Fail
  <2>14. ASSUME NEW j \in Job, Claim(j) PROVE TypeOK'
    <3>1. job[j].msg \in Message
      BY <2>14 DEF Claim, Claimable
    <3>2. job' \in [Job -> JobState] /\ \A i \in Job : job'[i].phase # "free" => job'[i].msg \in Message
      <4>1. attempts[job[j].msg] + 1 \in Nat
        <5>1. attempts \in [Message -> Nat]
          OBVIOUS
        <5> HIDE OutboxAssumption DEF TypeOK
        <5>2. QED
          BY <3>1, <5>1, Increment
      <4>2. /\ job' = [job EXCEPT ![j] = [phase |-> "calling", msg |-> job[j].msg,
                                         loaded |-> attempts[job[j].msg] + 1, age |-> 0]]
        BY <2>14 DEF Claim
      <4>3. QED
        BY <3>1, <4>1, <4>2
    <3>3. QED
      BY <2>14, <3>1, <3>2 DEF Claim, HasPendingPredecessor
  <2>15. ASSUME NEW j \in Job, AnswerSent(j) PROVE TypeOK'
    <3>1. job[j].msg \in Message
      BY <2>15 DEF AnswerSent
    <3>2. accepted' \in [Message -> Nat]
      <4>1. /\ accepted \in [Message -> Nat]
            /\ accepted' = [accepted EXCEPT ![job[j].msg] = @ + 1]
        BY <2>15 DEF AnswerSent
      <4> HIDE OutboxAssumption DEF TypeOK
      <4>2. QED
        BY <3>1, <4>1, Increment
    <3>3. QED
      BY <2>15, <3>1, <3>2 DEF AnswerSent
  <2>16. ASSUME NEW j \in Job, AnswerFailed(j) PROVE TypeOK'
    <3>1. job[j].msg \in Message
      BY <2>16 DEF AnswerFailed
    <3>2. accepted' \in [Message -> Nat]
      BY <2>16, <3>1, MaybeAcceptedType DEF AnswerFailed
    <3>3. QED
      BY <2>16, <3>1, <3>2 DEF AnswerFailed, Fail
  <2>17. ASSUME NEW j \in Job, AnswerRetryable(j) PROVE TypeOK'
    BY <2>17 DEF AnswerRetryable
  <2>18. ASSUME NEW j \in Job, AnswerExhausted(j) PROVE TypeOK'
    BY <2>18 DEF AnswerExhausted, Fail
  <2>19. ASSUME NEW j \in Job, Raise(j) PROVE TypeOK'
    BY <2>19 DEF Raise, MaybeAccepted
  <2>20. ASSUME NEW j \in Job, MarkInternalFailure(j) PROVE TypeOK'
    BY <2>20 DEF MarkInternalFailure
  <2>21. ASSUME NEW j \in Job, FailureNotRecorded(j) PROVE TypeOK'
    BY <2>21 DEF FailureNotRecorded
  <2>22. ASSUME NEW j \in Job, EndJob(j) PROVE TypeOK'
    BY <2>22 DEF EndJob
  <2>23. ASSUME NEW j \in Job, Crash(j) PROVE TypeOK'
    BY <2>23 DEF Crash, MaybeAccepted, Running
  <2>24. ASSUME NEW j \in Job, NEW k \in Job, NEW n \in Message, Follow(j, n, k) PROVE TypeOK'
    <3>1. job' \in [Job -> JobState]
      BY <2>24 DEF Follow
    <3>2. \A i \in Job : job'[i].phase # "free" => job'[i].msg \in Message
      BY <2>24 DEF Follow
    <3>3. dstat' \in [Message -> DeliveryStatus] /\ rqJob' \in [Message -> Job \cup {NoJob}]
      BY <2>24 DEF Follow
    <3>4. UNCHANGED <<mstat, accepted, retries, late, attempts, due, lockAge, sendable>>
      BY <2>24 DEF Follow
    <3>5. QED
      BY <3>1, <3>2, <3>3, <3>4
  <2>25. CASE Tick
    <3>1. \A a \in Nat : Older(a) \in Nat
      BY DEF Older
    <3>2. lockAge' \in [Message -> Nat]
      BY <2>25, <3>1 DEF Tick
    <3>3. \A i \in Job : job[i].age \in Nat
      OBVIOUS
    <3>4. job' \in [Job -> JobState] /\ \A i \in Job : job'[i].phase # "free" => job'[i].msg \in Message
      <4>1. \A i \in Job : Older(job[i].age) \in Nat
        BY <3>1, <3>3
      <4>2. job' = [i \in Job |-> IF job[i].phase = "calling"
                                  THEN [job[i] EXCEPT !.age = Older(job[i].age)] ELSE job[i]]
        BY <2>25 DEF Tick
      <4>3. QED
        BY <4>1, <4>2
    <3>5. QED
      BY <2>25, <3>2, <3>4 DEF Tick
  <2>26. CASE ChannelFlips
    BY <2>26 DEF ChannelFlips
  <2>27. CASE UNCHANGED vars
    BY <2>27 DEF vars
  <2>28. QED
    BY <2>1, <2>2, <2>3, <2>4, <2>5, <2>6, <2>7, <2>8, <2>9, <2>10, <2>11, <2>12, <2>13,
       <2>14, <2>15, <2>16, <2>17, <2>18, <2>19, <2>20, <2>21, <2>22, <2>23, <2>24,
       <2>25, <2>26, <2>27
       DEF Next, RunJob, Answer
<1>3. QED
  BY <1>1, <1>2, PTL DEF Spec

-----------------------------------------------------------------------------
(* The rows.  A message and its delivery row are written together, so what   *)
(* their two statuses say of each other can be read off every step.          *)

\* A delivery is in processing only while its message is pending.
ProcessingIsPending == \A m \in Message : dstat[m] = "processing" => mstat[m] = "pending"

\* A pending message with a younger one in processing came too late for it.
LateBehind ==
    \A m, y \in Message :
        /\ m < y
        /\ ConvOf[m] = ConvOf[y]
        /\ dstat[y] = "processing"
        /\ mstat[m] = "pending"
        => m \in late

Rows == NoOrphanPending /\ ProcessingIsPending /\ LateBehind

LEMMA RowsInit == Init => Rows
  BY DEF Init, Rows, NoOrphanPending, ProcessingIsPending, LateBehind

\* The two statuses and the late set decide Rows.
LEMMA RowsFrame ==
    ASSUME Rows, UNCHANGED <<mstat, dstat, late>>
    PROVE  Rows'
  BY DEF Rows, NoOrphanPending, ProcessingIsPending, LateBehind

\* Every step writes the status of a message and that of its delivery together,
\* or leaves both alone.
LEMMA RowsStep == TypeOK /\ Rows /\ [Next]_vars => Rows'
<1> SUFFICES ASSUME TypeOK, Rows, [Next]_vars PROVE Rows'
  OBVIOUS
<1>0. /\ mstat \in [Message -> MessageStatus]
      /\ dstat \in [Message -> DeliveryStatus]
      /\ \A j \in Job : job[j].phase # "free" => job[j].msg \in Message
  BY DEF TypeOK
<1> USE <1>0 DEF Rows, NoOrphanPending, ProcessingIsPending, LateBehind, Waiting, Terminal
<1>1. ASSUME NEW m \in Message, Create(m) PROVE Rows'
  BY <1>1 DEF Create, RowBecomes, BecomesPending
<1>2. ASSUME NEW m \in Message, Retry(m) PROVE Rows'
  BY <1>2 DEF Retry, RowBecomes, BecomesPending
<1>3. ASSUME NEW m \in Message, BecomeDue(m) PROVE Rows'
  BY <1>3, RowsFrame DEF BecomeDue, messageVars
<1>4. ASSUME NEW m \in Message, NEW j \in Job, Dispatch(m, j) PROVE Rows'
  BY <1>4 DEF Dispatch, Dispatchable, messageVars
<1>5. ASSUME NEW skipped, NEW expired, Sweep(skipped, expired) PROVE Rows'
  BY <1>5 DEF Sweep, IsStale
<1>6. ASSUME NEW j \in Job, Enqueue(j) PROVE Rows'
  BY <1>6, RowsFrame DEF Enqueue, messageVars, deliveryVars
<1>7. ASSUME NEW j \in Job, EnqueueRaises(j) PROVE Rows'
  BY <1>7 DEF EnqueueRaises, RowBecomes, messageVars
<1>8. ASSUME NEW j \in Job, JobLost(j) PROVE Rows'
  BY <1>8, RowsFrame DEF JobLost, messageVars, deliveryVars
<1>9. ASSUME NEW j \in Job, StartJob(j) PROVE Rows'
  BY <1>9, RowsFrame DEF StartJob, messageVars, deliveryVars
<1>10. ASSUME NEW j \in Job, Skip(j) PROVE Rows'
  BY <1>10, RowsFrame DEF Skip, messageVars, deliveryVars
<1>11. ASSUME NEW j \in Job, RefuseSettled(j) PROVE Rows'
  BY <1>11 DEF RefuseSettled, Claimable, RowBecomes, messageVars
<1>12. ASSUME NEW j \in Job, Postpone(j) PROVE Rows'
  BY <1>12 DEF Postpone, Claimable, RowBecomes, messageVars
<1>13. ASSUME NEW j \in Job, RefuseChannel(j) PROVE Rows'
  BY <1>13 DEF RefuseChannel, Claimable, Fail, RowBecomes, messageVars
<1>14. ASSUME NEW j \in Job, Claim(j) PROVE Rows'
  BY <1>14 DEF Claim, Claimable, HasPendingPredecessor, RowBecomes, messageVars
<1>15. ASSUME NEW j \in Job, AnswerSent(j) PROVE Rows'
  BY <1>15 DEF AnswerSent, RowBecomes, messageVars
<1>16. ASSUME NEW j \in Job, AnswerFailed(j) PROVE Rows'
  BY <1>16 DEF AnswerFailed, Fail, RowBecomes, messageVars
<1>17. ASSUME NEW j \in Job, AnswerRetryable(j) PROVE Rows'
  BY <1>17 DEF AnswerRetryable, RowBecomes, messageVars
<1>18. ASSUME NEW j \in Job, AnswerExhausted(j) PROVE Rows'
  BY <1>18 DEF AnswerExhausted, Fail, RowBecomes, messageVars
<1>19. ASSUME NEW j \in Job, Raise(j) PROVE Rows'
  BY <1>19, RowsFrame DEF Raise, messageVars, deliveryVars
<1>20. ASSUME NEW j \in Job, MarkInternalFailure(j) PROVE Rows'
  BY <1>20 DEF MarkInternalFailure, RowBecomes, messageVars
<1>21. ASSUME NEW j \in Job, FailureNotRecorded(j) PROVE Rows'
  BY <1>21, RowsFrame DEF FailureNotRecorded, messageVars, deliveryVars
<1>22. ASSUME NEW j \in Job, EndJob(j) PROVE Rows'
  BY <1>22, RowsFrame DEF EndJob, messageVars, deliveryVars
<1>23. ASSUME NEW j \in Job, Crash(j) PROVE Rows'
  BY <1>23, RowsFrame DEF Crash, messageVars, deliveryVars
<1>24. ASSUME NEW j \in Job, NEW k \in Job, NEW n \in Message, Follow(j, n, k) PROVE Rows'
  BY <1>24 DEF Follow, Dispatchable, messageVars
<1>25. ASSUME Tick PROVE Rows'
  BY <1>25, RowsFrame DEF Tick, messageVars
<1>26. ASSUME ChannelFlips PROVE Rows'
  BY <1>26, RowsFrame DEF ChannelFlips, messageVars, deliveryVars
<1>27. ASSUME UNCHANGED vars PROVE Rows'
  BY <1>27, RowsFrame DEF vars, messageVars, deliveryVars
<1>28. QED
  BY <1>1, <1>2, <1>3, <1>4, <1>5, <1>6, <1>7, <1>8, <1>9, <1>10, <1>11, <1>12, <1>13, <1>14, <1>15, <1>16, <1>17, <1>18, <1>19, <1>20, <1>21, <1>22, <1>23, <1>24, <1>25, <1>26, <1>27
     DEF Next, RunJob, Answer

\* Rows is an invariant, and with it the two properties it was made for.
THEOREM RowsCorrect == Spec => []Rows
  BY TypeCorrect, RowsInit, RowsStep, PTL DEF Spec

\* No interleaving leaves a message pending over a closed delivery row.
THEOREM NoOrphan == Spec => []NoOrphanPending
<1>1. Rows => NoOrphanPending
  BY DEF Rows
<1>2. QED
  BY <1>1, RowsCorrect, PTL

\* A conversation is sent in order, but for a message that became pending
\* behind a younger one already being sent.
THEOREM OrderKept == Spec => []InOrder
<1>1. Rows => InOrder
  BY DEF Rows, ProcessingIsPending, LateBehind, InOrder
<1>2. QED
  BY <1>1, RowsCorrect, PTL

-----------------------------------------------------------------------------
(* The two timeouts.  The age of a row's lock never exceeds that of a call   *)
(* that is still outstanding for it, and RQ bounds the latter.               *)

\* A call is younger than RQ's timeout, and a row in processing was locked
\* no earlier than any call that is still running for it began.
CallAges ==
    \A j \in Job : job[j].phase = "calling" =>
        /\ job[j].age <= JobTimeout
        /\ dstat[job[j].msg] = "processing" => lockAge[job[j].msg] <= job[j].age

LEMMA CallAgesInit == Init => CallAges
  BY DEF Init, CallAges, Idle, JobAt

\* A step that starts no call and moves no row into processing keeps the ages.
LEMMA CallAgesFrame ==
    ASSUME TypeOK, CallAges,
           \A i \in Job : job'[i].phase = "calling" => job'[i] = job[i],
           \A m \in Message : dstat'[m] = "processing" => dstat[m] = "processing" /\ lockAge'[m] = lockAge[m]
    PROVE  CallAges'
<1> SUFFICES ASSUME NEW i \in Job, job'[i].phase = "calling"
             PROVE  /\ job'[i].age <= JobTimeout
                    /\ dstat'[job'[i].msg] = "processing" => lockAge'[job'[i].msg] <= job'[i].age
  BY DEF CallAges
<1>1. job'[i] = job[i] /\ job[i].msg \in Message
  BY DEF TypeOK
<1>2. QED
  BY <1>1 DEF CallAges

LEMMA CallAgesStep == TypeOK /\ CallAges /\ [Next]_vars => CallAges'
<1> SUFFICES ASSUME TypeOK, CallAges, [Next]_vars PROVE CallAges'
  OBVIOUS
<1>0. /\ dstat \in [Message -> DeliveryStatus]
      /\ lockAge \in [Message -> Nat]
      /\ job \in [Job -> JobState]
      /\ \A j \in Job : job[j].phase # "free" => job[j].msg \in Message
  BY DEF TypeOK
<1> USE <1>0 DEF JobAt, Idle
<1>1. ASSUME NEW m \in Message, Create(m) PROVE CallAges'
  BY <1>1, CallAgesFrame DEF Create, RowBecomes
<1>2. ASSUME NEW m \in Message, Retry(m) PROVE CallAges'
  BY <1>2, CallAgesFrame DEF Retry, RowBecomes
<1>3. ASSUME NEW m \in Message, BecomeDue(m) PROVE CallAges'
  BY <1>3, CallAgesFrame DEF BecomeDue, RowBecomes
<1>4. ASSUME NEW m \in Message, NEW j \in Job, Dispatch(m, j) PROVE CallAges'
  BY <1>4, CallAgesFrame DEF Dispatch
<1>5. ASSUME NEW skipped, NEW expired, Sweep(skipped, expired) PROVE CallAges'
  BY <1>5, CallAgesFrame DEF Sweep, IsStale
<1>6. ASSUME NEW j \in Job, Enqueue(j) PROVE CallAges'
  BY <1>6, CallAgesFrame DEF Enqueue, RowBecomes, deliveryVars
<1>7. ASSUME NEW j \in Job, EnqueueRaises(j) PROVE CallAges'
  BY <1>7, CallAgesFrame DEF EnqueueRaises, RowBecomes, deliveryVars
<1>8. ASSUME NEW j \in Job, JobLost(j) PROVE CallAges'
  BY <1>8, CallAgesFrame DEF JobLost, RowBecomes, deliveryVars
<1>9. ASSUME NEW j \in Job, StartJob(j) PROVE CallAges'
  BY <1>9, CallAgesFrame DEF StartJob, RowBecomes, deliveryVars
<1>10. ASSUME NEW j \in Job, Skip(j) PROVE CallAges'
  BY <1>10, CallAgesFrame DEF Skip, RowBecomes, deliveryVars
<1>11. ASSUME NEW j \in Job, RefuseSettled(j) PROVE CallAges'
  BY <1>11, CallAgesFrame DEF RefuseSettled, Claimable, RowBecomes, deliveryVars
<1>12. ASSUME NEW j \in Job, Postpone(j) PROVE CallAges'
  BY <1>12, CallAgesFrame DEF Postpone, Claimable, RowBecomes, deliveryVars
<1>13. ASSUME NEW j \in Job, RefuseChannel(j) PROVE CallAges'
  BY <1>13, CallAgesFrame DEF RefuseChannel, Claimable, Fail, RowBecomes, deliveryVars
<1>14. ASSUME NEW j \in Job, AnswerSent(j) PROVE CallAges'
  BY <1>14, CallAgesFrame DEF AnswerSent, RowBecomes, deliveryVars
<1>15. ASSUME NEW j \in Job, AnswerFailed(j) PROVE CallAges'
  BY <1>15, CallAgesFrame DEF AnswerFailed, Fail, RowBecomes, deliveryVars
<1>16. ASSUME NEW j \in Job, AnswerRetryable(j) PROVE CallAges'
  BY <1>16, CallAgesFrame DEF AnswerRetryable, RowBecomes, deliveryVars
<1>17. ASSUME NEW j \in Job, AnswerExhausted(j) PROVE CallAges'
  BY <1>17, CallAgesFrame DEF AnswerExhausted, Fail, RowBecomes, deliveryVars
<1>18. ASSUME NEW j \in Job, Raise(j) PROVE CallAges'
  BY <1>18, CallAgesFrame DEF Raise, RowBecomes, deliveryVars
<1>19. ASSUME NEW j \in Job, MarkInternalFailure(j) PROVE CallAges'
  BY <1>19, CallAgesFrame DEF MarkInternalFailure, RowBecomes, deliveryVars
<1>20. ASSUME NEW j \in Job, FailureNotRecorded(j) PROVE CallAges'
  BY <1>20, CallAgesFrame DEF FailureNotRecorded, RowBecomes, deliveryVars
<1>21. ASSUME NEW j \in Job, EndJob(j) PROVE CallAges'
  BY <1>21, CallAgesFrame DEF EndJob, RowBecomes, deliveryVars
<1>22. ASSUME NEW j \in Job, Crash(j) PROVE CallAges'
  BY <1>22, CallAgesFrame DEF Crash, RowBecomes, deliveryVars
<1>23. ASSUME NEW j \in Job, NEW k \in Job, NEW n \in Message, Follow(j, n, k) PROVE CallAges'
  BY <1>23, CallAgesFrame DEF Follow
<1>24. ASSUME NEW j \in Job, Claim(j) PROVE CallAges'
  <2>1. job[j].phase = "started" /\ job[j].msg \in Message
    BY <1>24 DEF Claim, Claimable
  <2>2. /\ job'[j].age = 0
        /\ \A i \in Job \ {j} : job'[i] = job[i]
        /\ job'[j].msg = job[j].msg
        /\ lockAge'[job[j].msg] = 0
        /\ \A m \in Message \ {job[j].msg} : dstat'[m] = dstat[m] /\ lockAge'[m] = lockAge[m]
    BY <1>24, <2>1 DEF Claim, RowBecomes
  <2>3. \A i \in Job : job[i].age \in Nat
    BY DEF JobState
  <2>4. QED
    BY <2>1, <2>2, <2>3, OutboxAssumption DEF CallAges
<1>25. ASSUME Tick PROVE CallAges'
  <2> SUFFICES ASSUME NEW i \in Job, job'[i].phase = "calling"
               PROVE  /\ job'[i].age <= JobTimeout
                      /\ dstat'[job'[i].msg] = "processing" => lockAge'[job'[i].msg] <= job'[i].age
    BY DEF CallAges
  <2>1. job[i].phase = "calling" /\ job[i].msg \in Message /\ job[i].age \in Nat
    BY <1>25 DEF Tick, JobState
  <2>2. job'[i].age = job[i].age + 1 /\ job'[i].msg = job[i].msg /\ job[i].age < JobTimeout
    BY <1>25, <2>1, OutboxAssumption DEF Tick, Older, JobState
  <2>3. dstat' = dstat /\ (dstat[job[i].msg] = "processing" =>
            lockAge'[job[i].msg] = Older(lockAge[job[i].msg]))
    BY <1>25, <2>1 DEF Tick
  <2>4. \A a \in Nat : Older(a) <= a + 1
    BY DEF Older
  <2>5. lockAge[job[i].msg] \in Nat
    BY <2>1
  <2>6. QED
    BY <2>1, <2>2, <2>3, <2>4, <2>5, OutboxAssumption DEF CallAges, Older
<1>26. ASSUME ChannelFlips PROVE CallAges'
  BY <1>26, CallAgesFrame DEF ChannelFlips, deliveryVars
<1>27. ASSUME UNCHANGED vars PROVE CallAges'
  BY <1>27, CallAgesFrame DEF vars, deliveryVars
<1>28. QED
  BY <1>1, <1>2, <1>3, <1>4, <1>5, <1>6, <1>7, <1>8, <1>9, <1>10, <1>11, <1>12, <1>13, <1>14, <1>15, <1>16, <1>17, <1>18, <1>19, <1>20, <1>21, <1>22, <1>23, <1>24, <1>25, <1>26, <1>27
     DEF Next, RunJob, Answer

\* When the recovery may close a processing row, no job is waiting for the
\* provider's answer to that message any more.
THEOREM StaleCorrect == Spec => []StaleIsAbandoned
<1>1. TypeOK /\ CallAges => StaleIsAbandoned
  <2> SUFFICES ASSUME TypeOK, CallAges,
                      NEW m \in Message, IsStale(m),
                      NEW j \in Job, job[j].phase = "calling", job[j].msg = m
               PROVE  FALSE
    BY DEF StaleIsAbandoned
  <2>1. lockAge[m] \in Nat /\ job[j].age \in Nat
    BY DEF TypeOK, JobState
  <2>2. lockAge[m] <= job[j].age /\ job[j].age <= JobTimeout /\ lockAge[m] >= StaleAfter
    BY DEF CallAges, IsStale
  <2>3. QED
    BY <2>1, <2>2, OutboxAssumption
<1>2. QED
  BY <1>1, TypeCorrect, CallAgesInit, CallAgesStep, PTL DEF Spec
-----------------------------------------------------------------------------
(***************************************************************************)
(* The ledger: why the outbox never sends a message twice unasked.  Every  *)
(* permission to send - the first one and each manual retry - is either    *)
(* used up by the provider, held by a job that is calling it, or held by   *)
(* the open delivery row; it moves between these places and is never       *)
(* copied.                                                                 *)
(***************************************************************************)

\* The jobs that are calling the provider for a message.
Calls(m) == {j \in Job : job[j].phase = "calling" /\ job[j].msg = m}

\* A job may still claim the delivery of a message.
Open(m) == mstat[m] = "pending" /\ dstat[m] \in Waiting \cup {"enqueued"}
Owing(m) == IF Open(m) THEN 1 ELSE 0

\* The permissions a person gave.
Granted(m) == IF mstat[m] = "absent" THEN 0 ELSE 1 + retries[m]

Ledger == \A m \in Message : accepted[m] + Cardinality(Calls(m)) + Owing(m) <= Granted(m)

-----------------------------------------------------------------------------
(* The number of outstanding calls. *)

LEMMA CallsCounted ==
    \A m : /\ IsFiniteSet(Calls(m)) /\ Cardinality(Calls(m)) \in Nat
          /\ IsFiniteSet(Calls(m)') /\ Cardinality(Calls(m)') \in Nat
<1> TAKE m
<1>1. Calls(m) \in SUBSET Job /\ Calls(m)' \in SUBSET Job
  BY DEF Calls
<1>2. IsFiniteSet(Calls(m)) /\ IsFiniteSet(Calls(m)')
  BY <1>1, FS_Subset, OutboxAssumption
<1>3. QED
  BY <1>2, FS_CardinalityType

\* A step after which the same calls are outstanding.
LEMMA SameCalls ==
    ASSUME \A i \in Job : job'[i].phase = "calling" <=> job[i].phase = "calling",
           \A i \in Job : job[i].phase = "calling" => job'[i].msg = job[i].msg
    PROVE  \A m : Calls(m)' = Calls(m)
  BY DEF Calls

\* The call of one job ends.
LEMMA CallEnds ==
    ASSUME NEW j \in Job, job[j].phase = "calling", job'[j].phase # "calling",
           \A i \in Job \ {j} : job'[i] = job[i]
    PROVE  \A m : Cardinality(Calls(m)') =
                      Cardinality(Calls(m)) - (IF m = job[j].msg THEN 1 ELSE 0)
<1> TAKE m
<1>1. CASE m = job[j].msg
  <2>1. Calls(m)' = Calls(m) \ {j} /\ j \in Calls(m)
    BY <1>1 DEF Calls
  <2>2. Cardinality(Calls(m)') = Cardinality(Calls(m)) - 1
    BY <2>1, CallsCounted, FS_RemoveElement
  <2>3. QED
    BY <1>1, <2>2
<1>2. CASE m # job[j].msg
  <2>1. Calls(m)' = Calls(m)
    BY <1>2 DEF Calls
  <2>2. QED
    BY <1>2, <2>1, CallsCounted
<1>3. QED
  BY <1>1, <1>2

\* One job begins a call for its message.
LEMMA CallBegins ==
    ASSUME NEW j \in Job, job[j].phase # "calling", job'[j].phase = "calling",
           job'[j].msg = job[j].msg,
           \A i \in Job \ {j} : job'[i] = job[i]
    PROVE  \A m : Cardinality(Calls(m)') =
                      Cardinality(Calls(m)) + (IF m = job[j].msg THEN 1 ELSE 0)
<1> TAKE m
<1>1. CASE m = job[j].msg
  <2>1. Calls(m)' = Calls(m) \cup {j} /\ j \notin Calls(m)
    BY <1>1 DEF Calls
  <2>2. Cardinality(Calls(m)') = Cardinality(Calls(m)) + 1
    BY <2>1, CallsCounted, FS_AddElement
  <2>3. QED
    BY <1>1, <2>2
<1>2. CASE m # job[j].msg
  <2>1. Calls(m)' = Calls(m)
    BY <1>2 DEF Calls
  <2>2. QED
    BY <1>2, <2>1, CallsCounted
<1>3. QED
  BY <1>1, <1>2

-----------------------------------------------------------------------------
(* The ledger is kept. *)

\* The terms of the ledger are numbers, before and after a step.
LEMMA LedgerNumbers ==
    ASSUME TypeOK, TypeOK'
    PROVE  \A m \in Message :
              /\ accepted[m] \in Nat /\ accepted'[m] \in Nat
              /\ Owing(m) \in {0, 1} /\ Owing(m)' \in {0, 1}
              /\ Granted(m) \in Nat /\ Granted(m)' \in Nat
<1> TAKE m \in Message
<1>1. accepted[m] \in Nat /\ accepted'[m] \in Nat /\ retries[m] \in Nat /\ retries'[m] \in Nat
  BY DEF TypeOK
<1>2. QED
  BY <1>1 DEF Owing, Granted

LEMMA LedgerInit == Init => Ledger
<1> SUFFICES ASSUME Init, NEW m \in Message
             PROVE  accepted[m] + Cardinality(Calls(m)) + Owing(m) <= Granted(m)
  BY DEF Ledger
<1>1. Calls(m) = {}
  BY DEF Init, Calls, Idle, JobAt
<1>2. Cardinality(Calls(m)) = 0
  BY <1>1, FS_EmptySet
<1>3. QED
  BY <1>2 DEF Init, Owing, Open, Granted

\* No call begins or ends: what a row owes grows only with what is granted.
LEMMA LedgerFrame ==
    ASSUME TypeOK, TypeOK', Ledger, \A m : Calls(m)' = Calls(m),
           \A m \in Message : accepted'[m] + Owing(m)' + Granted(m) <= accepted[m] + Owing(m) + Granted(m)'
    PROVE  Ledger'
<1> SUFFICES ASSUME NEW m \in Message
             PROVE  accepted'[m] + Cardinality(Calls(m)') + Owing(m)' <= Granted(m)'
  BY DEF Ledger
<1> DEFINE calls == Cardinality(Calls(m))
<1>1. calls \in Nat /\ Cardinality(Calls(m)') = calls
  BY CallsCounted
<1>2. accepted[m] + calls + Owing(m) <= Granted(m)
  BY DEF Ledger
<1> HIDE DEF calls
<1>3. QED
  BY <1>1, <1>2, LedgerNumbers

\* A call ends: its permission is used up, dropped, or back in the row.
LEMMA LedgerCallEnds ==
    ASSUME TypeOK, TypeOK', Ledger, NEW j \in Job,
           job[j].phase = "calling", job'[j].phase # "calling",
           \A i \in Job \ {j} : job'[i] = job[i],
           \A m \in Message :
              /\ Granted(m)' >= Granted(m)
              /\ accepted'[m] + Owing(m)' <=
                    accepted[m] + Owing(m) + (IF m = job[j].msg THEN 1 ELSE 0)
    PROVE  Ledger'
<1> SUFFICES ASSUME NEW m \in Message
             PROVE  accepted'[m] + Cardinality(Calls(m)') + Owing(m)' <= Granted(m)'
  BY DEF Ledger
<1> DEFINE calls == Cardinality(Calls(m))
           after == Cardinality(Calls(m)')
<1>1. calls \in Nat /\ after = calls - (IF m = job[j].msg THEN 1 ELSE 0)
  BY CallsCounted, CallEnds
<1>2. accepted[m] + calls + Owing(m) <= Granted(m)
  BY DEF Ledger
<1> HIDE DEF calls, after
<1>3. accepted'[m] + after + Owing(m)' <= Granted(m)'
  BY <1>1, <1>2, LedgerNumbers
<1>4. QED
  BY <1>3 DEF after

\* An unclear answer counts at most once.
LEMMA MaybeOneMore ==
    ASSUME NEW j \in Job, job[j].msg \in Message, accepted \in [Message -> Nat], MaybeAccepted(j)
    PROVE  \A m \in Message : accepted'[m] <= accepted[m] + (IF m = job[j].msg THEN 1 ELSE 0)
<1>1. PICK taken \in {0, 1} : accepted' = [accepted EXCEPT ![job[j].msg] = @ + taken]
  BY DEF MaybeAccepted
<1>2. \A m \in Message : accepted[m] \in Nat
  OBVIOUS
<1>3. QED
  BY <1>1, <1>2

\* Each step keeps the ledger.
LEMMA LedgerStep == TypeOK /\ TypeOK' /\ Ledger /\ [Next]_vars => Ledger'
<1> SUFFICES ASSUME TypeOK, TypeOK', Ledger, [Next]_vars PROVE Ledger'
  OBVIOUS
<1>0. /\ mstat \in [Message -> MessageStatus]
      /\ dstat \in [Message -> DeliveryStatus]
      /\ accepted \in [Message -> Nat]
      /\ retries \in [Message -> Nat]
      /\ job \in [Job -> JobState]
      /\ \A j \in Job : job[j].phase # "free" => job[j].msg \in Message
  BY DEF TypeOK
<1>a. \A m \in Message : accepted[m] \in Nat /\ retries[m] \in Nat /\ Owing(m) \in {0, 1} /\ Granted(m) \in Nat
  BY <1>0, LedgerNumbers
<1>1. ASSUME NEW m \in Message, Create(m) PROVE Ledger'
  <2>1. \A i : Calls(i)' = Calls(i)
    BY <1>1, SameCalls DEF Create
  <2>2. accepted' = accepted /\ Owing(m) = 0 /\ Granted(m) = 0 /\ Granted(m)' >= 1
    BY <1>1, <1>0, <1>a DEF Create, RowBecomes, Owing, Open, Granted
  <2>3. \A i \in Message \ {m} : Owing(i)' = Owing(i) /\ Granted(i)' = Granted(i)
    BY <1>1, <1>0 DEF Create, RowBecomes, Owing, Open, Granted
  <2>4. QED
    BY <1>a, <2>1, <2>2, <2>3, LedgerFrame, LedgerNumbers
<1>2. ASSUME NEW m \in Message, Retry(m) PROVE Ledger'
  <2>1. \A i : Calls(i)' = Calls(i)
    BY <1>2, SameCalls DEF Retry
  <2>2. accepted' = accepted /\ Owing(m) = 0 /\ Granted(m)' = Granted(m) + 1
    BY <1>2, <1>0, <1>a DEF Retry, RowBecomes, Owing, Open, Granted
  <2>3. \A i \in Message \ {m} : Owing(i)' = Owing(i) /\ Granted(i)' = Granted(i)
    BY <1>2, <1>0 DEF Retry, RowBecomes, Owing, Open, Granted
  <2>4. QED
    BY <1>a, <2>1, <2>2, <2>3, LedgerFrame, LedgerNumbers
<1>3. ASSUME NEW m \in Message, BecomeDue(m) PROVE Ledger'
  <2>1. \A o : Calls(o)' = Calls(o)
    BY <1>3, <1>0, SameCalls DEF BecomeDue, JobAt, Idle, deliveryVars
  <2>2. \A o \in Message : accepted'[o] = accepted[o] /\ retries'[o] = retries[o]
    BY <1>3, <1>0 DEF BecomeDue, messageVars
  <2>3. \A o \in Message : Owing(o)' <= Owing(o) /\ Granted(o)' = Granted(o)
    BY <1>3, <1>0, <2>2 DEF BecomeDue, RowBecomes, Waiting, messageVars, deliveryVars, Owing, Open, Granted
  <2>4. QED
    BY <1>a, <2>1, <2>2, <2>3, LedgerFrame, LedgerNumbers
<1>4. ASSUME NEW m \in Message, NEW j \in Job, Dispatch(m, j) PROVE Ledger'
  <2>1. \A o : Calls(o)' = Calls(o)
    BY <1>4, <1>0, SameCalls DEF Dispatch, Fresh, JobAt, Idle, deliveryVars
  <2>2. \A o \in Message : accepted'[o] = accepted[o] /\ retries'[o] = retries[o]
    BY <1>4, <1>0 DEF Dispatch, messageVars
  <2>3. \A o \in Message : Owing(o)' <= Owing(o) /\ Granted(o)' = Granted(o)
    BY <1>4, <1>0, <2>2 DEF Dispatch, Dispatchable, Fresh, RowBecomes, Waiting, messageVars, deliveryVars, Owing, Open, Granted
  <2>4. QED
    BY <1>a, <2>1, <2>2, <2>3, LedgerFrame, LedgerNumbers
<1>5. ASSUME NEW skipped, NEW expired, Sweep(skipped, expired) PROVE Ledger'
  <2>1. \A m : Calls(m)' = Calls(m)
    BY <1>5, <1>0, SameCalls DEF Sweep, JobAt, Idle, deliveryVars
  <2>2. \A m \in Message : accepted'[m] = accepted[m] /\ retries'[m] = retries[m]
    BY <1>5, <1>0 DEF Sweep, messageVars
  <2>3. \A m \in Message : Owing(m)' <= Owing(m) /\ Granted(m)' = Granted(m)
    BY <1>5, <1>0, <2>2 DEF Sweep, IsStale, RowBecomes, Waiting, messageVars, deliveryVars, Owing, Open, Granted
  <2>4. QED
    BY <1>a, <2>1, <2>2, <2>3, LedgerFrame, LedgerNumbers
<1>6. ASSUME NEW j \in Job, Enqueue(j) PROVE Ledger'
  <2>1. \A m : Calls(m)' = Calls(m)
    BY <1>6, <1>0, SameCalls DEF Enqueue, JobAt, Idle, deliveryVars
  <2>2. \A m \in Message : accepted'[m] = accepted[m] /\ retries'[m] = retries[m]
    BY <1>6, <1>0 DEF Enqueue, messageVars
  <2>3. \A m \in Message : Owing(m)' <= Owing(m) /\ Granted(m)' = Granted(m)
    BY <1>6, <1>0, <2>2 DEF Enqueue, RowBecomes, Waiting, messageVars, deliveryVars, Owing, Open, Granted
  <2>4. QED
    BY <1>a, <2>1, <2>2, <2>3, LedgerFrame, LedgerNumbers
<1>7. ASSUME NEW j \in Job, EnqueueRaises(j) PROVE Ledger'
  <2>1. \A m : Calls(m)' = Calls(m)
    BY <1>7, <1>0, SameCalls DEF EnqueueRaises, JobAt, Idle, deliveryVars
  <2>2. \A m \in Message : accepted'[m] = accepted[m] /\ retries'[m] = retries[m]
    BY <1>7, <1>0 DEF EnqueueRaises, messageVars
  <2>3. \A m \in Message : Owing(m)' <= Owing(m) /\ Granted(m)' = Granted(m)
    BY <1>7, <1>0, <2>2 DEF EnqueueRaises, RowBecomes, Waiting, messageVars, deliveryVars, Owing, Open, Granted
  <2>4. QED
    BY <1>a, <2>1, <2>2, <2>3, LedgerFrame, LedgerNumbers
<1>8. ASSUME NEW j \in Job, JobLost(j) PROVE Ledger'
  <2>1. \A m : Calls(m)' = Calls(m)
    BY <1>8, <1>0, SameCalls DEF JobLost, JobAt, Idle, deliveryVars
  <2>2. \A m \in Message : accepted'[m] = accepted[m] /\ retries'[m] = retries[m]
    BY <1>8, <1>0 DEF JobLost, messageVars
  <2>3. \A m \in Message : Owing(m)' <= Owing(m) /\ Granted(m)' = Granted(m)
    BY <1>8, <1>0, <2>2 DEF JobLost, RowBecomes, Waiting, messageVars, deliveryVars, Owing, Open, Granted
  <2>4. QED
    BY <1>a, <2>1, <2>2, <2>3, LedgerFrame, LedgerNumbers
<1>9. ASSUME NEW j \in Job, StartJob(j) PROVE Ledger'
  <2>1. \A m : Calls(m)' = Calls(m)
    BY <1>9, <1>0, SameCalls DEF StartJob, JobAt, Idle, deliveryVars
  <2>2. \A m \in Message : accepted'[m] = accepted[m] /\ retries'[m] = retries[m]
    BY <1>9, <1>0 DEF StartJob, messageVars
  <2>3. \A m \in Message : Owing(m)' <= Owing(m) /\ Granted(m)' = Granted(m)
    BY <1>9, <1>0, <2>2 DEF StartJob, RowBecomes, Waiting, messageVars, deliveryVars, Owing, Open, Granted
  <2>4. QED
    BY <1>a, <2>1, <2>2, <2>3, LedgerFrame, LedgerNumbers
<1>10. ASSUME NEW j \in Job, Skip(j) PROVE Ledger'
  <2>1. \A m : Calls(m)' = Calls(m)
    BY <1>10, <1>0, SameCalls DEF Skip, JobAt, Idle, deliveryVars
  <2>2. \A m \in Message : accepted'[m] = accepted[m] /\ retries'[m] = retries[m]
    BY <1>10, <1>0 DEF Skip, messageVars
  <2>3. \A m \in Message : Owing(m)' <= Owing(m) /\ Granted(m)' = Granted(m)
    BY <1>10, <1>0, <2>2 DEF Skip, RowBecomes, Waiting, messageVars, deliveryVars, Owing, Open, Granted
  <2>4. QED
    BY <1>a, <2>1, <2>2, <2>3, LedgerFrame, LedgerNumbers
<1>11. ASSUME NEW j \in Job, RefuseSettled(j) PROVE Ledger'
  <2>1. \A m : Calls(m)' = Calls(m)
    BY <1>11, <1>0, SameCalls DEF RefuseSettled, Claimable, JobAt, Idle, deliveryVars
  <2>2. \A m \in Message : accepted'[m] = accepted[m] /\ retries'[m] = retries[m]
    BY <1>11, <1>0 DEF RefuseSettled, messageVars
  <2>3. \A m \in Message : Owing(m)' <= Owing(m) /\ Granted(m)' = Granted(m)
    BY <1>11, <1>0, <2>2 DEF RefuseSettled, Claimable, RowBecomes, Waiting, messageVars, deliveryVars, Owing, Open, Granted
  <2>4. QED
    BY <1>a, <2>1, <2>2, <2>3, LedgerFrame, LedgerNumbers
<1>12. ASSUME NEW j \in Job, Postpone(j) PROVE Ledger'
  <2>1. \A m : Calls(m)' = Calls(m)
    BY <1>12, <1>0, SameCalls DEF Postpone, Claimable, JobAt, Idle, deliveryVars
  <2>2. \A m \in Message : accepted'[m] = accepted[m] /\ retries'[m] = retries[m]
    BY <1>12, <1>0 DEF Postpone, messageVars
  <2>3. \A m \in Message : Owing(m)' <= Owing(m) /\ Granted(m)' = Granted(m)
    BY <1>12, <1>0, <2>2 DEF Postpone, Claimable, RowBecomes, Waiting, messageVars, deliveryVars, Owing, Open, Granted
  <2>4. QED
    BY <1>a, <2>1, <2>2, <2>3, LedgerFrame, LedgerNumbers
<1>13. ASSUME NEW j \in Job, RefuseChannel(j) PROVE Ledger'
  <2>1. \A m : Calls(m)' = Calls(m)
    BY <1>13, <1>0, SameCalls DEF RefuseChannel, Fail, Claimable, JobAt, Idle, deliveryVars
  <2>2. \A m \in Message : accepted'[m] = accepted[m] /\ retries'[m] = retries[m]
    BY <1>13, <1>0 DEF RefuseChannel, messageVars
  <2>3. \A m \in Message : Owing(m)' <= Owing(m) /\ Granted(m)' = Granted(m)
    BY <1>13, <1>0, <2>2 DEF RefuseChannel, Claimable, Fail, RowBecomes, Waiting, messageVars, deliveryVars, Owing, Open, Granted
  <2>4. QED
    BY <1>a, <2>1, <2>2, <2>3, LedgerFrame, LedgerNumbers
<1>14. ASSUME NEW j \in Job, MarkInternalFailure(j) PROVE Ledger'
  <2>1. \A m : Calls(m)' = Calls(m)
    BY <1>14, <1>0, SameCalls DEF MarkInternalFailure, JobAt, Idle, deliveryVars
  <2>2. \A m \in Message : accepted'[m] = accepted[m] /\ retries'[m] = retries[m]
    BY <1>14, <1>0 DEF MarkInternalFailure, messageVars
  <2>3. \A m \in Message : Owing(m)' <= Owing(m) /\ Granted(m)' = Granted(m)
    BY <1>14, <1>0, <2>2 DEF MarkInternalFailure, RowBecomes, Waiting, messageVars, deliveryVars, Owing, Open, Granted
  <2>4. QED
    BY <1>a, <2>1, <2>2, <2>3, LedgerFrame, LedgerNumbers
<1>15. ASSUME NEW j \in Job, FailureNotRecorded(j) PROVE Ledger'
  <2>1. \A m : Calls(m)' = Calls(m)
    BY <1>15, <1>0, SameCalls DEF FailureNotRecorded, JobAt, Idle, deliveryVars
  <2>2. \A m \in Message : accepted'[m] = accepted[m] /\ retries'[m] = retries[m]
    BY <1>15, <1>0 DEF FailureNotRecorded, messageVars
  <2>3. \A m \in Message : Owing(m)' <= Owing(m) /\ Granted(m)' = Granted(m)
    BY <1>15, <1>0, <2>2 DEF FailureNotRecorded, RowBecomes, Waiting, messageVars, deliveryVars, Owing, Open, Granted
  <2>4. QED
    BY <1>a, <2>1, <2>2, <2>3, LedgerFrame, LedgerNumbers
<1>16. ASSUME NEW j \in Job, EndJob(j) PROVE Ledger'
  <2>1. \A m : Calls(m)' = Calls(m)
    BY <1>16, <1>0, SameCalls DEF EndJob, JobAt, Idle, deliveryVars
  <2>2. \A m \in Message : accepted'[m] = accepted[m] /\ retries'[m] = retries[m]
    BY <1>16, <1>0 DEF EndJob, messageVars
  <2>3. \A m \in Message : Owing(m)' <= Owing(m) /\ Granted(m)' = Granted(m)
    BY <1>16, <1>0, <2>2 DEF EndJob, RowBecomes, Waiting, messageVars, deliveryVars, Owing, Open, Granted
  <2>4. QED
    BY <1>a, <2>1, <2>2, <2>3, LedgerFrame, LedgerNumbers
<1>17. ASSUME NEW j \in Job, NEW k \in Job, NEW n \in Message, Follow(j, n, k) PROVE Ledger'
  <2>1. \A m : Calls(m)' = Calls(m)
    BY <1>17, <1>0, SameCalls DEF Follow, Fresh, JobAt, Idle, deliveryVars
  <2>2. \A m \in Message : accepted'[m] = accepted[m] /\ retries'[m] = retries[m]
    BY <1>17, <1>0 DEF Follow, messageVars
  <2>3. \A m \in Message : Owing(m)' <= Owing(m) /\ Granted(m)' = Granted(m)
    BY <1>17, <1>0, <2>2 DEF Follow, Dispatchable, Fresh, RowBecomes, Waiting, messageVars, deliveryVars, Owing, Open, Granted
  <2>4. QED
    BY <1>a, <2>1, <2>2, <2>3, LedgerFrame, LedgerNumbers
<1>18. ASSUME NEW j \in Job, Claim(j) PROVE Ledger'
  <2>0. job[j].phase = "started" /\ job[j].msg \in Message
    BY <1>18, <1>0 DEF Claim, Claimable
  <2>m. PICK m \in Message : m = job[j].msg
    BY <2>0
  <2>1. /\ job[j].phase = "started" /\ m = job[j].msg
        /\ accepted' = accepted
        /\ job'[j].phase = "calling" /\ job'[j].msg = m
        /\ \A i \in Job \ {j} : job'[i] = job[i]
    BY <1>18, <1>0, <2>0, <2>m DEF Claim, messageVars
  <2>2. Owing(m) = 1 /\ Owing(m)' = 0
    BY <1>18, <1>0, <2>1 DEF Claim, Claimable, RowBecomes, Waiting, Owing, Open
  <2>3. \A i \in Message : Granted(i)' = Granted(i)
    BY <1>18 DEF Claim, messageVars, Granted
  <2>4. \A i \in Message \ {m} : Owing(i)' = Owing(i)
    BY <1>18, <1>0, <2>1 DEF Claim, RowBecomes, messageVars, Owing, Open
  <2>5. SUFFICES ASSUME NEW i \in Message
                 PROVE  accepted'[i] + Cardinality(Calls(i)') + Owing(i)' <= Granted(i)'
    BY DEF Ledger
  <2> DEFINE calls == Cardinality(Calls(i))
             after == Cardinality(Calls(i)')
  <2>6. calls \in Nat /\ after = calls + (IF i = m THEN 1 ELSE 0)
    BY <2>1, CallsCounted, CallBegins
  <2>7. accepted[i] + calls + Owing(i) <= Granted(i)
    BY DEF Ledger
  <2> HIDE DEF calls, after
  <2>8. accepted'[i] + after + Owing(i)' <= Granted(i)'
    <3>1. CASE i = m
      BY <3>1, <1>a, <2>1, <2>2, <2>3, <2>6, <2>7
    <3>2. CASE i # m
      BY <3>2, <1>a, <2>1, <2>3, <2>4, <2>6, <2>7
    <3>3. QED
      BY <3>1, <3>2
  <2>9. QED
    BY <2>8 DEF after
<1>19. ASSUME NEW j \in Job, AnswerSent(j) PROVE Ledger'
  <2>1. /\ job[j].phase = "calling" /\ job[j].msg \in Message
        /\ job'[j].phase # "calling" /\ \A i \in Job \ {j} : job'[i] = job[i]
    BY <1>19, <1>0 DEF AnswerSent, JobAt, Idle
  <2>2. \A m \in Message : Granted(m)' >= Granted(m)
    BY <1>19, <1>0, <1>a, <2>1 DEF AnswerSent, messageVars, Granted
  <2>3. \A m \in Message : accepted'[m] <= accepted[m] + (IF m = job[j].msg THEN 1 ELSE 0)
    BY <1>19, <1>0, <1>a, <2>1 DEF AnswerSent
  <2>4. \A m \in Message : Owing(m)' <= Owing(m)
    BY <1>19, <1>0, <2>1 DEF AnswerSent, RowBecomes, Owing, Open
  <2>9. QED
    BY <1>a, <2>1, <2>2, <2>3, <2>4, LedgerCallEnds, LedgerNumbers
<1>20. ASSUME NEW j \in Job, AnswerFailed(j) PROVE Ledger'
  <2>1. /\ job[j].phase = "calling" /\ job[j].msg \in Message
        /\ job'[j].phase # "calling" /\ \A i \in Job \ {j} : job'[i] = job[i]
    BY <1>20, <1>0 DEF AnswerFailed, Fail, JobAt, Idle
  <2>2. \A m \in Message : Granted(m)' >= Granted(m)
    BY <1>20, <1>0, <1>a, <2>1 DEF AnswerFailed, Fail, messageVars, Granted
  <2>3. \A m \in Message : accepted'[m] <= accepted[m] + (IF m = job[j].msg THEN 1 ELSE 0)
    BY <1>20, <1>0, <1>a, <2>1, MaybeOneMore DEF AnswerFailed
  <2>4. \A m \in Message : Owing(m)' <= Owing(m)
    BY <1>20, <1>0, <2>1 DEF AnswerFailed, Fail, RowBecomes, Owing, Open
  <2>9. QED
    BY <1>a, <2>1, <2>2, <2>3, <2>4, LedgerCallEnds, LedgerNumbers
<1>21. ASSUME NEW j \in Job, AnswerExhausted(j) PROVE Ledger'
  <2>1. /\ job[j].phase = "calling" /\ job[j].msg \in Message
        /\ job'[j].phase # "calling" /\ \A i \in Job \ {j} : job'[i] = job[i]
    BY <1>21, <1>0 DEF AnswerExhausted, Fail, JobAt, Idle
  <2>2. \A m \in Message : Granted(m)' >= Granted(m)
    BY <1>21, <1>0, <1>a, <2>1 DEF AnswerExhausted, Fail, messageVars, Granted
  <2>3. \A m \in Message : accepted'[m] = accepted[m]
    BY <1>21 DEF AnswerExhausted
  <2>4. \A m \in Message : Owing(m)' <= Owing(m)
    BY <1>21, <1>0, <2>1 DEF AnswerExhausted, Fail, RowBecomes, Owing, Open
  <2>9. QED
    BY <1>a, <2>1, <2>2, <2>3, <2>4, LedgerCallEnds, LedgerNumbers
<1>22. ASSUME NEW j \in Job, AnswerRetryable(j) PROVE Ledger'
  <2>1. /\ job[j].phase = "calling" /\ job[j].msg \in Message
        /\ job'[j].phase # "calling" /\ \A i \in Job \ {j} : job'[i] = job[i]
    BY <1>22, <1>0 DEF AnswerRetryable, JobAt
  <2>2. \A m \in Message : Granted(m)' = Granted(m) /\ accepted'[m] = accepted[m]
    BY <1>22 DEF AnswerRetryable, messageVars, Granted
  <2>3. \A m \in Message \ {job[j].msg} : Owing(m)' = Owing(m)
    BY <1>22, <1>0, <2>1 DEF AnswerRetryable, RowBecomes, messageVars, Owing, Open
  <2>4. QED
    BY <1>a, <2>1, <2>2, <2>3, LedgerCallEnds, LedgerNumbers
<1>23. ASSUME NEW j \in Job, Raise(j) PROVE Ledger'
  <2>1. \A m \in Message : Granted(m)' = Granted(m) /\ Owing(m)' = Owing(m)
    BY <1>23 DEF Raise, deliveryVars, Granted, Owing, Open
  <2>2. job'[j].phase # "calling" /\ \A i \in Job \ {j} : job'[i] = job[i]
    BY <1>23, <1>0 DEF Raise, JobAt, Idle
  <2>3. CASE job[j].phase = "calling"
    <3>1. \A m \in Message : accepted'[m] <= accepted[m] + (IF m = job[j].msg THEN 1 ELSE 0)
      BY <1>23, <1>0, <1>a, <2>3, MaybeOneMore DEF Raise
    <3>2. QED
      BY <1>a, <2>1, <2>2, <2>3, <3>1, LedgerCallEnds, LedgerNumbers
  <2>4. CASE job[j].phase # "calling"
    <3>1. \A m : Calls(m)' = Calls(m)
      BY <2>2, <2>4, SameCalls
    <3>2. accepted' = accepted
      BY <1>23, <2>4 DEF Raise
    <3>3. QED
      BY <1>a, <2>1, <3>1, <3>2, LedgerFrame, LedgerNumbers
  <2>5. QED
    BY <2>3, <2>4
<1>24. ASSUME NEW j \in Job, Crash(j) PROVE Ledger'
  <2>1. \A m \in Message : Granted(m)' = Granted(m) /\ Owing(m)' = Owing(m)
    BY <1>24 DEF Crash, deliveryVars, Granted, Owing, Open
  <2>2. job'[j].phase # "calling" /\ \A i \in Job \ {j} : job'[i] = job[i]
    BY <1>24, <1>0 DEF Crash, JobAt, Idle
  <2>3. CASE job[j].phase = "calling"
    <3>1. \A m \in Message : accepted'[m] <= accepted[m] + (IF m = job[j].msg THEN 1 ELSE 0)
      BY <1>24, <1>0, <1>a, <2>3, MaybeOneMore DEF Crash
    <3>2. QED
      BY <1>a, <2>1, <2>2, <2>3, <3>1, LedgerCallEnds, LedgerNumbers
  <2>4. CASE job[j].phase # "calling"
    <3>1. \A m : Calls(m)' = Calls(m)
      BY <2>2, <2>4, SameCalls
    <3>2. accepted' = accepted
      BY <1>24, <2>4 DEF Crash
    <3>3. QED
      BY <1>a, <2>1, <3>1, <3>2, LedgerFrame, LedgerNumbers
  <2>5. QED
    BY <2>3, <2>4
<1>25. ASSUME Tick PROVE Ledger'
  <2>1. \A m : Calls(m)' = Calls(m)
    BY <1>25, <1>0, SameCalls DEF Tick, JobState
  <2>2. \A m \in Message : accepted'[m] = accepted[m] /\ Owing(m)' = Owing(m) /\ Granted(m)' = Granted(m)
    BY <1>25 DEF Tick, messageVars, Owing, Open, Granted
  <2>3. QED
    BY <1>a, <2>1, <2>2, LedgerFrame, LedgerNumbers
<1>26. ASSUME ChannelFlips PROVE Ledger'
  <2>1. \A m : Calls(m)' = Calls(m)
    BY <1>26 DEF ChannelFlips, Calls
  <2>2. \A m \in Message : accepted'[m] = accepted[m] /\ Owing(m)' = Owing(m) /\ Granted(m)' = Granted(m)
    BY <1>26 DEF ChannelFlips, messageVars, deliveryVars, Owing, Open, Granted
  <2>3. QED
    BY <1>a, <2>1, <2>2, LedgerFrame, LedgerNumbers
<1>27. ASSUME UNCHANGED vars PROVE Ledger'
  <2>1. \A m : Calls(m)' = Calls(m)
    BY <1>27 DEF vars, Calls
  <2>2. \A m \in Message : accepted'[m] = accepted[m] /\ Owing(m)' = Owing(m) /\ Granted(m)' = Granted(m)
    BY <1>27 DEF vars, messageVars, deliveryVars, Owing, Open, Granted
  <2>3. QED
    BY <1>a, <2>1, <2>2, LedgerFrame, LedgerNumbers
<1>28. QED
  BY <1>1, <1>2, <1>3, <1>4, <1>5, <1>6, <1>7, <1>8, <1>9, <1>10, <1>11, <1>12, <1>13, <1>14, <1>15, <1>16, <1>17, <1>18, <1>19, <1>20, <1>21, <1>22, <1>23, <1>24, <1>25, <1>26, <1>27
     DEF Next, RunJob, Answer

\* The ledger is kept from the start on.
THEOREM LedgerKept == Spec => []Ledger
  BY TypeCorrect, LedgerInit, LedgerStep, PTL DEF Spec

\* The provider takes a message at most once for the send and once for each
\* manual retry, however jobs are duplicated, lost, crashed or late.
THEOREM NoDuplicate == Spec => []NoDuplicateSend
<1>1. TypeOK /\ Ledger => NoDuplicateSend
  <2> SUFFICES ASSUME TypeOK, Ledger, NEW m \in Message PROVE accepted[m] <= 1 + retries[m]
    BY DEF NoDuplicateSend
  <2> DEFINE calls == Cardinality(Calls(m))
  <2>1. calls \in Nat /\ accepted[m] \in Nat /\ retries[m] \in Nat
    BY CallsCounted DEF TypeOK
  <2>2. accepted[m] + calls + Owing(m) <= Granted(m)
    BY DEF Ledger
  <2> HIDE DEF calls
  <2>3. QED
    BY <2>1, <2>2 DEF Owing, Granted
<1>2. QED
  BY <1>1, TypeCorrect, LedgerKept, PTL

-----------------------------------------------------------------------------
(***************************************************************************)
(* The budget: what the ledger gives while nobody retries a message by     *)
(* hand: one call at a time, at most MaxAttempts of them, and one outcome; *)
(* and, with retries, the refinement of SendPermits.                       *)
(***************************************************************************)

CallingFor(j, m) == job[j].phase = "calling" /\ job[j].msg = m

\* A message that is not stored yet was neither retried nor attempted.
Untouched == \A m \in Message : mstat[m] = "absent" => retries[m] = 0 /\ attempts[m] = 0

\* What holds of a message nobody retried.
Within(m) ==
    /\ attempts[m] <= MaxAttempts
    /\ Open(m) => attempts[m] < MaxAttempts
    /\ \A j \in Job : CallingFor(j, m) => job[j].loaded = attempts[m]
    /\ mstat[m] = "sent" <=> dstat[m] = "completed"
    /\ mstat[m] = "sent" => accepted[m] >= 1

Budget == \A m \in Message : retries[m] = 0 => Within(m)

-----------------------------------------------------------------------------
(* What the ledger says of outstanding calls. *)

\* An outstanding call holds a permission nobody has used yet.
LEMMA CallIsGranted ==
    ASSUME TypeOK, Ledger, NEW j \in Job, NEW m \in Message, CallingFor(j, m)
    PROVE  accepted[m] < Granted(m) /\ mstat[m] # "absent"
<1> DEFINE calls == Cardinality(Calls(m))
<1>1. j \in Calls(m)
  BY DEF Calls, CallingFor
<1>2. calls \in Nat /\ calls # 0
  BY <1>1, CallsCounted, FS_EmptySet
<1>3. accepted[m] + calls + Owing(m) <= Granted(m)
  BY DEF Ledger
<1>4. accepted[m] \in Nat /\ retries[m] \in Nat
  BY DEF TypeOK
<1> HIDE DEF calls
<1>5. accepted[m] < Granted(m)
  BY <1>2, <1>3, <1>4 DEF Owing, Granted
<1>6. QED
  BY <1>4, <1>5 DEF Granted

\* The one permission of a message nobody retried is in one place.
LEMMA SolePermission ==
    ASSUME TypeOK, Ledger, NEW m \in Message, retries[m] = 0
    PROVE  /\ \A j, k \in Job : CallingFor(j, m) /\ CallingFor(k, m) => j = k
           /\ \A j \in Job : CallingFor(j, m) => accepted[m] = 0 /\ ~Open(m)
           /\ accepted[m] >= 1 => ~Open(m)
<1> DEFINE calls == Cardinality(Calls(m))
<1>1. /\ calls \in Nat /\ accepted[m] \in Nat /\ retries[m] \in Nat
      /\ accepted[m] + calls + Owing(m) <= Granted(m)
  BY CallsCounted DEF Ledger, TypeOK
<1>2. Granted(m) <= 1 /\ Granted(m) \in Nat
  BY DEF Granted
<1>3. \A j \in Job : CallingFor(j, m) => calls # 0
  <2>1. \A j \in Job : CallingFor(j, m) => j \in Calls(m)
    BY DEF Calls, CallingFor
  <2>2. IsFiniteSet(Calls(m))
    BY CallsCounted
  <2>3. QED
    BY <2>1, <2>2, FS_EmptySet
<1>4. \A j, k \in Job : CallingFor(j, m) /\ CallingFor(k, m) => j = k
  <2> SUFFICES ASSUME NEW j \in Job, NEW k \in Job, CallingFor(j, m), CallingFor(k, m), j # k
               PROVE  FALSE
    OBVIOUS
  <2>1. /\ IsFiniteSet(Calls(m)) /\ j \in Calls(m) /\ k \in Calls(m) \ {j}
    BY CallsCounted DEF Calls, CallingFor
  <2>2. IsFiniteSet(Calls(m) \ {j}) /\ Cardinality(Calls(m) \ {j}) = calls - 1
    BY <2>1, FS_RemoveElement
  <2>3. calls - 1 # 0
    BY <2>1, <2>2, FS_EmptySet
  <2>4. calls \in Nat /\ calls <= 1 /\ calls # 0
    <3>1. calls # 0
      BY <1>3
    <3> HIDE DEF calls
    <3>2. QED
      BY <1>1, <1>2, <3>1 DEF Owing
  <2> HIDE DEF calls
  <2>5. QED
    BY <2>3, <2>4
<1> HIDE DEF calls
<1>5. \A j \in Job : CallingFor(j, m) => accepted[m] = 0 /\ ~Open(m)
  BY <1>1, <1>2, <1>3 DEF Owing
<1>6. accepted[m] >= 1 => ~Open(m)
  BY <1>1, <1>2 DEF Owing
<1>7. QED
  BY <1>4, <1>5, <1>6

-----------------------------------------------------------------------------
(* The budget is kept. *)

LEMMA BudgetInit == Init => Untouched /\ Budget
  BY OutboxAssumption DEF Init, Untouched, Budget, Within, Open, CallingFor, Idle, JobAt

LEMMA UntouchedStep == TypeOK /\ Ledger /\ Untouched /\ [Next]_vars => Untouched'
<1> SUFFICES ASSUME TypeOK, Ledger, Untouched, [Next]_vars, NEW m \in Message, mstat'[m] = "absent"
             PROVE  retries'[m] = 0 /\ attempts'[m] = 0
  BY DEF Untouched
<1>0. /\ mstat \in [Message -> MessageStatus]
      /\ retries \in [Message -> Nat]
      /\ attempts \in [Message -> Nat]
      /\ \A j \in Job : job[j].phase # "free" => job[j].msg \in Message
  BY DEF TypeOK
<1>. USE <1>0 DEF Untouched, messageVars, deliveryVars
<1>1. ASSUME NEW i \in Message, Create(i) PROVE retries'[m] = 0 /\ attempts'[m] = 0
  BY <1>1 DEF Create
<1>2. ASSUME NEW i \in Message, Retry(i) PROVE retries'[m] = 0 /\ attempts'[m] = 0
  BY <1>2 DEF Retry
<1>3. ASSUME NEW i \in Message, BecomeDue(i) PROVE retries'[m] = 0 /\ attempts'[m] = 0
  BY <1>3 DEF BecomeDue
<1>4. ASSUME NEW i \in Message, NEW j \in Job, Dispatch(i, j) PROVE retries'[m] = 0 /\ attempts'[m] = 0
  BY <1>4 DEF Dispatch
<1>5. ASSUME NEW skipped, NEW expired, Sweep(skipped, expired) PROVE retries'[m] = 0 /\ attempts'[m] = 0
  BY <1>5 DEF Sweep
<1>6. ASSUME NEW j \in Job, Enqueue(j) PROVE retries'[m] = 0 /\ attempts'[m] = 0
  BY <1>6 DEF Enqueue
<1>7. ASSUME NEW j \in Job, EnqueueRaises(j) PROVE retries'[m] = 0 /\ attempts'[m] = 0
  BY <1>7 DEF EnqueueRaises
<1>8. ASSUME NEW j \in Job, JobLost(j) PROVE retries'[m] = 0 /\ attempts'[m] = 0
  BY <1>8 DEF JobLost
<1>9. ASSUME NEW j \in Job, StartJob(j) PROVE retries'[m] = 0 /\ attempts'[m] = 0
  BY <1>9 DEF StartJob
<1>10. ASSUME NEW j \in Job, Skip(j) PROVE retries'[m] = 0 /\ attempts'[m] = 0
  BY <1>10 DEF Skip
<1>11. ASSUME NEW j \in Job, RefuseSettled(j) PROVE retries'[m] = 0 /\ attempts'[m] = 0
  BY <1>11 DEF RefuseSettled, Claimable
<1>12. ASSUME NEW j \in Job, Postpone(j) PROVE retries'[m] = 0 /\ attempts'[m] = 0
  BY <1>12 DEF Postpone, Claimable
<1>13. ASSUME NEW j \in Job, RefuseChannel(j) PROVE retries'[m] = 0 /\ attempts'[m] = 0
  BY <1>13 DEF RefuseChannel, Claimable, Fail
<1>14. ASSUME NEW j \in Job, Claim(j) PROVE retries'[m] = 0 /\ attempts'[m] = 0
  BY <1>14 DEF Claim, Claimable
<1>15. ASSUME NEW j \in Job, AnswerSent(j) PROVE retries'[m] = 0 /\ attempts'[m] = 0
  BY <1>15 DEF AnswerSent
<1>16. ASSUME NEW j \in Job, AnswerFailed(j) PROVE retries'[m] = 0 /\ attempts'[m] = 0
  BY <1>16 DEF AnswerFailed, Fail
<1>17. ASSUME NEW j \in Job, AnswerRetryable(j) PROVE retries'[m] = 0 /\ attempts'[m] = 0
  BY <1>17 DEF AnswerRetryable
<1>18. ASSUME NEW j \in Job, AnswerExhausted(j) PROVE retries'[m] = 0 /\ attempts'[m] = 0
  BY <1>18 DEF AnswerExhausted, Fail
<1>19. ASSUME NEW j \in Job, Raise(j) PROVE retries'[m] = 0 /\ attempts'[m] = 0
  BY <1>19 DEF Raise
<1>20. ASSUME NEW j \in Job, MarkInternalFailure(j) PROVE retries'[m] = 0 /\ attempts'[m] = 0
  BY <1>20 DEF MarkInternalFailure
<1>21. ASSUME NEW j \in Job, FailureNotRecorded(j) PROVE retries'[m] = 0 /\ attempts'[m] = 0
  BY <1>21 DEF FailureNotRecorded
<1>22. ASSUME NEW j \in Job, EndJob(j) PROVE retries'[m] = 0 /\ attempts'[m] = 0
  BY <1>22 DEF EndJob
<1>23. ASSUME NEW j \in Job, Crash(j) PROVE retries'[m] = 0 /\ attempts'[m] = 0
  BY <1>23 DEF Crash
<1>24. ASSUME NEW j \in Job, NEW k \in Job, NEW i \in Message, Follow(j, i, k) PROVE retries'[m] = 0 /\ attempts'[m] = 0
  BY <1>24 DEF Follow
<1>25. ASSUME Tick PROVE retries'[m] = 0 /\ attempts'[m] = 0
  BY <1>25 DEF Tick
<1>26. ASSUME ChannelFlips PROVE retries'[m] = 0 /\ attempts'[m] = 0
  BY <1>26 DEF ChannelFlips
<1>27. ASSUME UNCHANGED vars PROVE retries'[m] = 0 /\ attempts'[m] = 0
  BY <1>27 DEF vars
<1>28. QED
  BY <1>1, <1>2, <1>3, <1>4, <1>5, <1>6, <1>7, <1>8, <1>9, <1>10, <1>11, <1>12, <1>13, <1>14, <1>15, <1>16, <1>17, <1>18, <1>19, <1>20, <1>21, <1>22, <1>23, <1>24, <1>25, <1>26, <1>27
     DEF Next, RunJob, Answer

\* A step that calls nothing new for m and moves its two statuses within the
\* same sides of success keeps Within(m).
LEMMA WithinFrame ==
    ASSUME NEW m \in Message, Within(m),
           attempts'[m] = attempts[m],
           accepted[m] \in Nat, accepted'[m] \in Nat, accepted'[m] >= accepted[m],
           Open(m)' => Open(m),
           \A i \in Job : CallingFor(i, m)' => CallingFor(i, m) /\ job'[i].loaded = job[i].loaded,
           mstat'[m] = "sent" <=> mstat[m] = "sent",
           dstat'[m] = "completed" <=> dstat[m] = "completed"
    PROVE  Within(m)'
  BY DEF Within

\* An unclear answer changes the count of its own message only, and upwards.
LEMMA MaybeElsewhere ==
    ASSUME NEW j \in Job, accepted \in [Message -> Nat], MaybeAccepted(j),
           NEW m \in Message, m # job[j].msg
    PROVE  accepted'[m] = accepted[m]
  BY DEF MaybeAccepted

LEMMA MaybeNoLess ==
    ASSUME NEW m \in Message, accepted \in [Message -> Nat],
           NEW j \in Job, MaybeAccepted(j) \/ UNCHANGED accepted
    PROVE  accepted'[m] >= accepted[m]
<1>1. accepted[m] \in Nat
  OBVIOUS
<1>2. CASE MaybeAccepted(j)
  BY <1>1, <1>2 DEF MaybeAccepted
<1>3. CASE UNCHANGED accepted
  BY <1>1, <1>3
<1>4. QED
  BY <1>2, <1>3

LEMMA BudgetStep == TypeOK /\ TypeOK' /\ Ledger /\ Untouched /\ Budget /\ [Next]_vars => Budget'
<1> SUFFICES ASSUME TypeOK, TypeOK', Ledger, Untouched, Budget, [Next]_vars,
                    NEW m \in Message, retries'[m] = 0
             PROVE  Within(m)'
  BY DEF Budget
<1>0. /\ mstat \in [Message -> MessageStatus]
      /\ dstat \in [Message -> DeliveryStatus]
      /\ retries \in [Message -> Nat]
      /\ attempts \in [Message -> Nat]
      /\ accepted \in [Message -> Nat] /\ accepted'[m] \in Nat
      /\ job \in [Job -> JobState]
      /\ \A j \in Job : job[j].phase # "free" => job[j].msg \in Message
  BY DEF TypeOK
<1>a. accepted[m] \in Nat /\ attempts[m] \in Nat /\ retries[m] \in Nat
  BY <1>0
<1>r. retries[m] = 0
  <2>1. \A i \in Message : Retry(i) => retries'[m] = retries[m] \/ retries'[m] = retries[m] + 1
    BY <1>0, <1>a DEF Retry
  <2>2. (\E i \in Message : Retry(i)) \/ retries' = retries
    BY DEF Next, RunJob, Answer, Create, BecomeDue, Dispatch, Sweep, Enqueue, EnqueueRaises,
           JobLost, StartJob, Skip, RefuseSettled, Postpone, RefuseChannel, Claim, AnswerSent,
           AnswerFailed, AnswerRetryable, AnswerExhausted, Raise, MarkInternalFailure,
           FailureNotRecorded, EndJob, Crash, Follow, Tick, ChannelFlips, messageVars, vars
  <2>3. QED
    BY <1>a, <2>1, <2>2
<1>w. Within(m)
  BY <1>r DEF Budget
<1>s. /\ \A j, k \in Job : CallingFor(j, m) /\ CallingFor(k, m) => j = k
      /\ \A j \in Job : CallingFor(j, m) => accepted[m] = 0 /\ ~Open(m)
      /\ accepted[m] >= 1 => ~Open(m)
  BY <1>r, SolePermission
<1>1. ASSUME NEW i \in Message, Create(i) PROVE Within(m)'
  <2>1. attempts' = attempts /\ accepted' = accepted /\ job' = job
    BY <1>1 DEF Create
  <2>2. CASE m = i
    <3>1. attempts[m] = 0 /\ mstat'[m] = "pending" /\ dstat'[m] = "queued"
      BY <1>1, <1>0, <2>2 DEF Create, RowBecomes, Untouched
    <3>2. QED
      BY <1>w, <2>1, <3>1, OutboxAssumption DEF Within, CallingFor
  <2>3. CASE m # i
    <3>1. mstat'[m] = mstat[m] /\ dstat'[m] = dstat[m]
      BY <1>1, <1>0, <2>3 DEF Create, RowBecomes
    <3>2. QED
      BY <1>w, <2>1, <3>1 DEF Within, CallingFor, Open
  <2>4. QED
    BY <2>2, <2>3
<1>2. ASSUME NEW i \in Message, Retry(i) PROVE Within(m)'
  <2>1. m # i
    BY <1>2, <1>0, <1>a, <1>r DEF Retry
  <2>2. /\ attempts'[m] = attempts[m] /\ accepted' = accepted /\ job' = job
        /\ mstat'[m] = mstat[m] /\ dstat'[m] = dstat[m]
    BY <1>2, <1>0, <2>1 DEF Retry, RowBecomes
  <2>3. QED
    BY <1>w, <2>2 DEF Within, CallingFor, Open
<1>3. ASSUME NEW i \in Message, BecomeDue(i) PROVE Within(m)'
  <2>1. attempts'[m] = attempts[m] /\ accepted'[m] = accepted[m]
    BY <1>3, <1>0 DEF BecomeDue, messageVars, deliveryVars
  <2>2. \A h \in Job : CallingFor(h, m)' => CallingFor(h, m) /\ job'[h].loaded = job[h].loaded
    BY <1>3, <1>0 DEF BecomeDue, CallingFor, JobAt, Idle, JobState
  <2>3. /\ Open(m)' => Open(m)
        /\ mstat'[m] = "sent" <=> mstat[m] = "sent"
        /\ dstat'[m] = "completed" <=> dstat[m] = "completed"
    BY <1>3, <1>0, <1>w DEF BecomeDue, RowBecomes, Within, Waiting, Terminal, IsStale, Dispatchable, Open, messageVars, deliveryVars
  <2>4. QED
    BY <1>a, <1>w, <2>1, <2>2, <2>3, WithinFrame
<1>4. ASSUME NEW i \in Message, NEW j \in Job, Dispatch(i, j) PROVE Within(m)'
  <2>1. attempts'[m] = attempts[m] /\ accepted'[m] = accepted[m]
    BY <1>4, <1>0 DEF Dispatch, messageVars, deliveryVars
  <2>2. \A h \in Job : CallingFor(h, m)' => CallingFor(h, m) /\ job'[h].loaded = job[h].loaded
    BY <1>4, <1>0 DEF Dispatch, Fresh, CallingFor, JobAt, Idle, JobState
  <2>3. /\ Open(m)' => Open(m)
        /\ mstat'[m] = "sent" <=> mstat[m] = "sent"
        /\ dstat'[m] = "completed" <=> dstat[m] = "completed"
    BY <1>4, <1>0, <1>w DEF Dispatch, Fresh, RowBecomes, Within, Waiting, Terminal, IsStale, Dispatchable, Open, messageVars, deliveryVars
  <2>4. QED
    BY <1>a, <1>w, <2>1, <2>2, <2>3, WithinFrame
<1>5. ASSUME NEW skipped, NEW expired, Sweep(skipped, expired) PROVE Within(m)'
  <2>1. attempts'[m] = attempts[m] /\ accepted'[m] = accepted[m]
    BY <1>5, <1>0 DEF Sweep, messageVars, deliveryVars
  <2>2. \A i \in Job : CallingFor(i, m)' => CallingFor(i, m) /\ job'[i].loaded = job[i].loaded
    BY <1>5, <1>0 DEF Sweep, CallingFor, JobAt, Idle, JobState
  <2>3. /\ Open(m)' => Open(m)
        /\ mstat'[m] = "sent" <=> mstat[m] = "sent"
        /\ dstat'[m] = "completed" <=> dstat[m] = "completed"
    BY <1>5, <1>0, <1>w DEF Sweep, RowBecomes, Within, Waiting, Terminal, IsStale, Dispatchable, Open, messageVars, deliveryVars
  <2>4. QED
    BY <1>a, <1>w, <2>1, <2>2, <2>3, WithinFrame
<1>6. ASSUME NEW j \in Job, Enqueue(j) PROVE Within(m)'
  <2>1. attempts'[m] = attempts[m] /\ accepted'[m] = accepted[m]
    BY <1>6, <1>0 DEF Enqueue, messageVars, deliveryVars
  <2>2. \A i \in Job : CallingFor(i, m)' => CallingFor(i, m) /\ job'[i].loaded = job[i].loaded
    BY <1>6, <1>0 DEF Enqueue, CallingFor, JobAt, Idle, JobState
  <2>3. /\ Open(m)' => Open(m)
        /\ mstat'[m] = "sent" <=> mstat[m] = "sent"
        /\ dstat'[m] = "completed" <=> dstat[m] = "completed"
    BY <1>6, <1>0, <1>w DEF Enqueue, RowBecomes, Within, Waiting, Terminal, IsStale, Dispatchable, Open, messageVars, deliveryVars
  <2>4. QED
    BY <1>a, <1>w, <2>1, <2>2, <2>3, WithinFrame
<1>7. ASSUME NEW j \in Job, EnqueueRaises(j) PROVE Within(m)'
  <2>1. attempts'[m] = attempts[m] /\ accepted'[m] = accepted[m]
    BY <1>7, <1>0 DEF EnqueueRaises, messageVars, deliveryVars
  <2>2. \A i \in Job : CallingFor(i, m)' => CallingFor(i, m) /\ job'[i].loaded = job[i].loaded
    BY <1>7, <1>0 DEF EnqueueRaises, CallingFor, JobAt, Idle, JobState
  <2>3. /\ Open(m)' => Open(m)
        /\ mstat'[m] = "sent" <=> mstat[m] = "sent"
        /\ dstat'[m] = "completed" <=> dstat[m] = "completed"
    BY <1>7, <1>0, <1>w DEF EnqueueRaises, RowBecomes, Within, Waiting, Terminal, IsStale, Dispatchable, Open, messageVars, deliveryVars
  <2>4. QED
    BY <1>a, <1>w, <2>1, <2>2, <2>3, WithinFrame
<1>8. ASSUME NEW j \in Job, JobLost(j) PROVE Within(m)'
  <2>1. attempts'[m] = attempts[m] /\ accepted'[m] = accepted[m]
    BY <1>8, <1>0 DEF JobLost, messageVars, deliveryVars
  <2>2. \A i \in Job : CallingFor(i, m)' => CallingFor(i, m) /\ job'[i].loaded = job[i].loaded
    BY <1>8, <1>0 DEF JobLost, CallingFor, JobAt, Idle, JobState
  <2>3. /\ Open(m)' => Open(m)
        /\ mstat'[m] = "sent" <=> mstat[m] = "sent"
        /\ dstat'[m] = "completed" <=> dstat[m] = "completed"
    BY <1>8, <1>0, <1>w DEF JobLost, RowBecomes, Within, Waiting, Terminal, IsStale, Dispatchable, Open, messageVars, deliveryVars
  <2>4. QED
    BY <1>a, <1>w, <2>1, <2>2, <2>3, WithinFrame
<1>9. ASSUME NEW j \in Job, StartJob(j) PROVE Within(m)'
  <2>1. attempts'[m] = attempts[m] /\ accepted'[m] = accepted[m]
    BY <1>9, <1>0 DEF StartJob, messageVars, deliveryVars
  <2>2. \A i \in Job : CallingFor(i, m)' => CallingFor(i, m) /\ job'[i].loaded = job[i].loaded
    BY <1>9, <1>0 DEF StartJob, CallingFor, JobAt, Idle, JobState
  <2>3. /\ Open(m)' => Open(m)
        /\ mstat'[m] = "sent" <=> mstat[m] = "sent"
        /\ dstat'[m] = "completed" <=> dstat[m] = "completed"
    BY <1>9, <1>0, <1>w DEF StartJob, RowBecomes, Within, Waiting, Terminal, IsStale, Dispatchable, Open, messageVars, deliveryVars
  <2>4. QED
    BY <1>a, <1>w, <2>1, <2>2, <2>3, WithinFrame
<1>10. ASSUME NEW j \in Job, Skip(j) PROVE Within(m)'
  <2>1. attempts'[m] = attempts[m] /\ accepted'[m] = accepted[m]
    BY <1>10, <1>0 DEF Skip, messageVars, deliveryVars
  <2>2. \A i \in Job : CallingFor(i, m)' => CallingFor(i, m) /\ job'[i].loaded = job[i].loaded
    BY <1>10, <1>0 DEF Skip, CallingFor, JobAt, Idle, JobState
  <2>3. /\ Open(m)' => Open(m)
        /\ mstat'[m] = "sent" <=> mstat[m] = "sent"
        /\ dstat'[m] = "completed" <=> dstat[m] = "completed"
    BY <1>10, <1>0, <1>w DEF Skip, RowBecomes, Within, Waiting, Terminal, IsStale, Dispatchable, Open, messageVars, deliveryVars
  <2>4. QED
    BY <1>a, <1>w, <2>1, <2>2, <2>3, WithinFrame
<1>11. ASSUME NEW j \in Job, FailureNotRecorded(j) PROVE Within(m)'
  <2>1. attempts'[m] = attempts[m] /\ accepted'[m] = accepted[m]
    BY <1>11, <1>0 DEF FailureNotRecorded, messageVars, deliveryVars
  <2>2. \A i \in Job : CallingFor(i, m)' => CallingFor(i, m) /\ job'[i].loaded = job[i].loaded
    BY <1>11, <1>0 DEF FailureNotRecorded, CallingFor, JobAt, Idle, JobState
  <2>3. /\ Open(m)' => Open(m)
        /\ mstat'[m] = "sent" <=> mstat[m] = "sent"
        /\ dstat'[m] = "completed" <=> dstat[m] = "completed"
    BY <1>11, <1>0, <1>w DEF FailureNotRecorded, RowBecomes, Within, Waiting, Terminal, IsStale, Dispatchable, Open, messageVars, deliveryVars
  <2>4. QED
    BY <1>a, <1>w, <2>1, <2>2, <2>3, WithinFrame
<1>12. ASSUME NEW j \in Job, EndJob(j) PROVE Within(m)'
  <2>1. attempts'[m] = attempts[m] /\ accepted'[m] = accepted[m]
    BY <1>12, <1>0 DEF EndJob, messageVars, deliveryVars
  <2>2. \A i \in Job : CallingFor(i, m)' => CallingFor(i, m) /\ job'[i].loaded = job[i].loaded
    BY <1>12, <1>0 DEF EndJob, CallingFor, JobAt, Idle, JobState
  <2>3. /\ Open(m)' => Open(m)
        /\ mstat'[m] = "sent" <=> mstat[m] = "sent"
        /\ dstat'[m] = "completed" <=> dstat[m] = "completed"
    BY <1>12, <1>0, <1>w DEF EndJob, RowBecomes, Within, Waiting, Terminal, IsStale, Dispatchable, Open, messageVars, deliveryVars
  <2>4. QED
    BY <1>a, <1>w, <2>1, <2>2, <2>3, WithinFrame
<1>13. ASSUME NEW j \in Job, RefuseSettled(j) PROVE Within(m)'
  <2>1. attempts'[m] = attempts[m] /\ accepted'[m] = accepted[m]
    BY <1>13, <1>0 DEF RefuseSettled, messageVars, deliveryVars
  <2>2. \A i \in Job : CallingFor(i, m)' => CallingFor(i, m) /\ job'[i].loaded = job[i].loaded
    BY <1>13, <1>0 DEF RefuseSettled, Claimable, CallingFor, JobAt, Idle, JobState
  <2>3. /\ Open(m)' => Open(m)
        /\ mstat'[m] = "sent" <=> mstat[m] = "sent"
        /\ dstat'[m] = "completed" <=> dstat[m] = "completed"
    BY <1>13, <1>0, <1>w DEF RefuseSettled, Claimable, RowBecomes, Within, Waiting, Terminal, IsStale, Dispatchable, Open, messageVars, deliveryVars
  <2>4. QED
    BY <1>a, <1>w, <2>1, <2>2, <2>3, WithinFrame
<1>14. ASSUME NEW j \in Job, Postpone(j) PROVE Within(m)'
  <2>1. attempts'[m] = attempts[m] /\ accepted'[m] = accepted[m]
    BY <1>14, <1>0 DEF Postpone, messageVars, deliveryVars
  <2>2. \A i \in Job : CallingFor(i, m)' => CallingFor(i, m) /\ job'[i].loaded = job[i].loaded
    BY <1>14, <1>0 DEF Postpone, Claimable, CallingFor, JobAt, Idle, JobState
  <2>3. /\ Open(m)' => Open(m)
        /\ mstat'[m] = "sent" <=> mstat[m] = "sent"
        /\ dstat'[m] = "completed" <=> dstat[m] = "completed"
    BY <1>14, <1>0, <1>w DEF Postpone, Claimable, RowBecomes, Within, Waiting, Terminal, IsStale, Dispatchable, Open, messageVars, deliveryVars
  <2>4. QED
    BY <1>a, <1>w, <2>1, <2>2, <2>3, WithinFrame
<1>15. ASSUME NEW j \in Job, RefuseChannel(j) PROVE Within(m)'
  <2>1. attempts'[m] = attempts[m] /\ accepted'[m] = accepted[m]
    BY <1>15, <1>0 DEF RefuseChannel, messageVars, deliveryVars
  <2>2. \A i \in Job : CallingFor(i, m)' => CallingFor(i, m) /\ job'[i].loaded = job[i].loaded
    BY <1>15, <1>0 DEF RefuseChannel, Claimable, Fail, CallingFor, JobAt, Idle, JobState
  <2>3. /\ Open(m)' => Open(m)
        /\ mstat'[m] = "sent" <=> mstat[m] = "sent"
        /\ dstat'[m] = "completed" <=> dstat[m] = "completed"
    BY <1>15, <1>0, <1>w DEF RefuseChannel, Claimable, Fail, RowBecomes, Within, Waiting, Terminal, IsStale, Dispatchable, Open, messageVars, deliveryVars
  <2>4. QED
    BY <1>a, <1>w, <2>1, <2>2, <2>3, WithinFrame
<1>16. ASSUME NEW j \in Job, MarkInternalFailure(j) PROVE Within(m)'
  <2>1. attempts'[m] = attempts[m] /\ accepted'[m] = accepted[m]
    BY <1>16, <1>0 DEF MarkInternalFailure, messageVars, deliveryVars
  <2>2. \A i \in Job : CallingFor(i, m)' => CallingFor(i, m) /\ job'[i].loaded = job[i].loaded
    BY <1>16, <1>0 DEF MarkInternalFailure, CallingFor, JobAt, Idle, JobState
  <2>3. /\ Open(m)' => Open(m)
        /\ mstat'[m] = "sent" <=> mstat[m] = "sent"
        /\ dstat'[m] = "completed" <=> dstat[m] = "completed"
    BY <1>16, <1>0, <1>w DEF MarkInternalFailure, RowBecomes, Within, Waiting, Terminal, IsStale, Dispatchable, Open, messageVars, deliveryVars
  <2>4. QED
    BY <1>a, <1>w, <2>1, <2>2, <2>3, WithinFrame
<1>17. ASSUME NEW j \in Job, NEW k \in Job, NEW i \in Message, Follow(j, i, k) PROVE Within(m)'
  <2>1. attempts'[m] = attempts[m] /\ accepted'[m] = accepted[m]
    BY <1>17, <1>0 DEF Follow, messageVars, deliveryVars
  <2>2. \A h \in Job : CallingFor(h, m)' => CallingFor(h, m) /\ job'[h].loaded = job[h].loaded
    BY <1>17, <1>0 DEF Follow, Fresh, CallingFor, JobAt, Idle, JobState
  <2>3. /\ Open(m)' => Open(m)
        /\ mstat'[m] = "sent" <=> mstat[m] = "sent"
        /\ dstat'[m] = "completed" <=> dstat[m] = "completed"
    BY <1>17, <1>0, <1>w DEF Follow, Fresh, RowBecomes, Within, Waiting, Terminal, IsStale, Dispatchable, Open, messageVars, deliveryVars
  <2>4. QED
    BY <1>a, <1>w, <2>1, <2>2, <2>3, WithinFrame
<1>18. ASSUME NEW j \in Job, Claim(j) PROVE Within(m)'
  <2>1. /\ job[j].msg \in Message /\ accepted' = accepted /\ mstat' = mstat
        /\ job[j].phase = "started" /\ mstat[job[j].msg] = "pending"
        /\ dstat[job[j].msg] \in Waiting \cup {"enqueued"}
        /\ dstat' = [dstat EXCEPT ![job[j].msg] = "processing"]
        /\ \A i \in Job \ {j} : job'[i] = job[i]
    BY <1>18, <1>0 DEF Claim, Claimable, RowBecomes, messageVars
  <2>2. CASE m = job[j].msg
    <3>1. Open(m) /\ \A i \in Job : ~CallingFor(i, m)
      BY <1>s, <2>1, <2>2 DEF Open
    <3>2. /\ attempts'[m] = attempts[m] + 1 /\ job'[j].loaded = attempts[m] + 1
          /\ dstat'[m] = "processing"
      BY <1>18, <1>0, <2>1, <2>2 DEF Claim
    <3>3. \A i \in Job : CallingFor(i, m)' => i = j
      BY <2>1, <3>1 DEF CallingFor
    <3>4. QED
      BY <1>a, <1>w, <2>1, <2>2, <3>1, <3>2, <3>3, OutboxAssumption DEF Within, Open, Waiting
  <2>3. CASE m # job[j].msg
    <3>1. attempts'[m] = attempts[m] /\ dstat'[m] = dstat[m]
      BY <1>18, <1>0, <2>1, <2>3 DEF Claim
    <3>2. \A i \in Job : CallingFor(i, m)' => CallingFor(i, m) /\ job'[i].loaded = job[i].loaded
      BY <1>18, <1>0, <2>1, <2>3 DEF Claim, CallingFor
    <3>3. QED
      BY <1>a, <1>w, <2>1, <3>1, <3>2, WithinFrame DEF Open
  <2>4. QED
    BY <2>2, <2>3
<1>19. ASSUME NEW j \in Job, AnswerSent(j) PROVE Within(m)'
  <2>1. /\ job[j].phase = "calling" /\ job[j].msg \in Message /\ attempts' = attempts
        /\ job'[j].phase # "calling" /\ \A i \in Job \ {j} : job'[i] = job[i]
    BY <1>19, <1>0 DEF AnswerSent, JobAt
  <2>2. CASE m = job[j].msg
    <3>1. CallingFor(j, m) /\ \A i \in Job : ~CallingFor(i, m)'
      BY <1>s, <2>1, <2>2 DEF CallingFor
    <3>2. accepted[m] = 0 /\ mstat[m] # "sent" /\ dstat[m] # "completed"
      BY <1>s, <1>w, <3>1 DEF Within
    <3>3. mstat'[m] = "sent" /\ dstat'[m] = "completed" /\ accepted'[m] = 1
      BY <1>19, <1>0, <2>1, <2>2, <3>2 DEF AnswerSent, RowBecomes
    <3>4. QED
      BY <1>a, <1>w, <2>1, <3>1, <3>3 DEF Within, Open
  <2>3. CASE m # job[j].msg
    <3>1. accepted'[m] = accepted[m] /\ mstat'[m] = mstat[m] /\ dstat'[m] = dstat[m]
      BY <1>19, <1>0, <2>1, <2>3 DEF AnswerSent, RowBecomes, messageVars
    <3>2. \A i \in Job : CallingFor(i, m)' => CallingFor(i, m) /\ job'[i].loaded = job[i].loaded
      BY <2>1, <2>3 DEF CallingFor
    <3>3. QED
      BY <1>a, <1>w, <2>1, <3>1, <3>2, WithinFrame DEF Open
  <2>4. QED
    BY <2>2, <2>3
<1>20. ASSUME NEW j \in Job, AnswerFailed(j) PROVE Within(m)'
  <2>1. /\ job[j].phase = "calling" /\ job[j].msg \in Message /\ attempts' = attempts
        /\ job'[j].phase # "calling" /\ \A i \in Job \ {j} : job'[i] = job[i]
    BY <1>20, <1>0 DEF AnswerFailed, Fail, JobAt
  <2>2. CASE m = job[j].msg
    <3>1. CallingFor(j, m) /\ \A i \in Job : ~CallingFor(i, m)'
      BY <1>s, <2>1, <2>2 DEF CallingFor
    <3>2. accepted[m] = 0 /\ mstat[m] # "sent" /\ dstat[m] # "completed"
      BY <1>s, <1>w, <3>1 DEF Within
    <3>3. mstat'[m] = "failed" /\ dstat'[m] = "failed"
      BY <1>20, <1>0, <2>1, <2>2 DEF AnswerFailed, Fail, RowBecomes
    <3>4. QED
      BY <1>a, <1>w, <2>1, <3>1, <3>3 DEF Within, Open
  <2>3. CASE m # job[j].msg
    <3>1. accepted'[m] = accepted[m] /\ mstat'[m] = mstat[m] /\ dstat'[m] = dstat[m]
      BY <1>20, <1>0, <2>1, <2>3, MaybeElsewhere DEF AnswerFailed, Fail, RowBecomes, messageVars
    <3>2. \A i \in Job : CallingFor(i, m)' => CallingFor(i, m) /\ job'[i].loaded = job[i].loaded
      BY <2>1, <2>3 DEF CallingFor
    <3>3. QED
      BY <1>a, <1>w, <2>1, <3>1, <3>2, WithinFrame DEF Open
  <2>4. QED
    BY <2>2, <2>3
<1>21. ASSUME NEW j \in Job, AnswerExhausted(j) PROVE Within(m)'
  <2>1. /\ job[j].phase = "calling" /\ job[j].msg \in Message /\ attempts' = attempts
        /\ job'[j].phase # "calling" /\ \A i \in Job \ {j} : job'[i] = job[i]
    BY <1>21, <1>0 DEF AnswerExhausted, Fail, JobAt
  <2>2. CASE m = job[j].msg
    <3>1. CallingFor(j, m) /\ \A i \in Job : ~CallingFor(i, m)'
      BY <1>s, <2>1, <2>2 DEF CallingFor
    <3>2. accepted[m] = 0 /\ mstat[m] # "sent" /\ dstat[m] # "completed"
      BY <1>s, <1>w, <3>1 DEF Within
    <3>3. mstat'[m] = "failed" /\ dstat'[m] = "failed"
      BY <1>21, <1>0, <2>1, <2>2 DEF AnswerExhausted, Fail, RowBecomes
    <3>4. QED
      BY <1>a, <1>w, <2>1, <3>1, <3>3 DEF Within, Open
  <2>3. CASE m # job[j].msg
    <3>1. accepted'[m] = accepted[m] /\ mstat'[m] = mstat[m] /\ dstat'[m] = dstat[m]
      BY <1>21, <1>0, <2>1, <2>3 DEF AnswerExhausted, Fail, RowBecomes, messageVars
    <3>2. \A i \in Job : CallingFor(i, m)' => CallingFor(i, m) /\ job'[i].loaded = job[i].loaded
      BY <2>1, <2>3 DEF CallingFor
    <3>3. QED
      BY <1>a, <1>w, <2>1, <3>1, <3>2, WithinFrame DEF Open
  <2>4. QED
    BY <2>2, <2>3
<1>22. ASSUME NEW j \in Job, AnswerRetryable(j) PROVE Within(m)'
  <2>1. /\ job[j].phase = "calling" /\ job[j].msg \in Message /\ attempts' = attempts
        /\ job'[j].phase # "calling" /\ \A i \in Job \ {j} : job'[i] = job[i]
    BY <1>22, <1>0 DEF AnswerRetryable, JobAt
  <2>2. CASE m = job[j].msg
    <3>1. CallingFor(j, m) /\ \A i \in Job : ~CallingFor(i, m)'
      BY <1>s, <2>1, <2>2 DEF CallingFor
    <3>2. accepted[m] = 0 /\ mstat[m] # "sent" /\ dstat[m] # "completed"
      BY <1>s, <1>w, <3>1 DEF Within
    <3>3. mstat'[m] = mstat[m] /\ dstat'[m] = "retry_wait" /\ job[j].loaded < MaxAttempts
      BY <1>22, <1>0, <2>1, <2>2 DEF AnswerRetryable, RowBecomes, messageVars
    <3>4. job[j].loaded = attempts[m]
      BY <1>w, <3>1 DEF Within
    <3>5. QED
      BY <1>a, <1>w, <2>1, <3>1, <3>2, <3>3, <3>4 DEF Within, Open
  <2>3. CASE m # job[j].msg
    <3>1. accepted'[m] = accepted[m] /\ mstat'[m] = mstat[m] /\ dstat'[m] = dstat[m]
      BY <1>22, <1>0, <2>1, <2>3 DEF AnswerRetryable, RowBecomes, messageVars
    <3>2. \A i \in Job : CallingFor(i, m)' => CallingFor(i, m) /\ job'[i].loaded = job[i].loaded
      BY <2>1, <2>3 DEF CallingFor
    <3>3. QED
      BY <1>a, <1>w, <2>1, <3>1, <3>2, WithinFrame DEF Open
  <2>4. QED
    BY <2>2, <2>3
<1>23. ASSUME NEW j \in Job, Raise(j) PROVE Within(m)'
  <2>1. /\ attempts' = attempts /\ mstat' = mstat /\ dstat' = dstat
    BY <1>23 DEF Raise, deliveryVars
  <2>2. \A i \in Job : CallingFor(i, m)' => CallingFor(i, m) /\ job'[i].loaded = job[i].loaded
    BY <1>23, <1>0 DEF Raise, CallingFor, JobAt, Idle
  <2>3. accepted'[m] >= accepted[m]
    BY <1>23, <1>0, <1>a, MaybeNoLess DEF Raise
  <2>4. QED
    BY <1>0, <1>a, <1>w, <2>1, <2>2, <2>3, WithinFrame DEF Open
<1>24. ASSUME NEW j \in Job, Crash(j) PROVE Within(m)'
  <2>1. /\ attempts' = attempts /\ mstat' = mstat /\ dstat' = dstat
    BY <1>24 DEF Crash, deliveryVars
  <2>2. \A i \in Job : CallingFor(i, m)' => CallingFor(i, m) /\ job'[i].loaded = job[i].loaded
    BY <1>24, <1>0 DEF Crash, CallingFor, JobAt, Idle
  <2>3. accepted'[m] >= accepted[m]
    BY <1>24, <1>0, <1>a, MaybeNoLess DEF Crash
  <2>4. QED
    BY <1>0, <1>a, <1>w, <2>1, <2>2, <2>3, WithinFrame DEF Open
<1>25. ASSUME Tick PROVE Within(m)'
  <2>1. attempts'[m] = attempts[m] /\ accepted'[m] = accepted[m]
    BY <1>25, <1>0 DEF Tick, messageVars, deliveryVars
  <2>2. \A i \in Job : CallingFor(i, m)' => CallingFor(i, m) /\ job'[i].loaded = job[i].loaded
    BY <1>25, <1>0 DEF Tick, CallingFor, JobAt, Idle, JobState
  <2>3. /\ Open(m)' => Open(m)
        /\ mstat'[m] = "sent" <=> mstat[m] = "sent"
        /\ dstat'[m] = "completed" <=> dstat[m] = "completed"
    BY <1>25, <1>0, <1>w DEF Tick, RowBecomes, Within, Waiting, Terminal, IsStale, Dispatchable, Open, messageVars, deliveryVars
  <2>4. QED
    BY <1>a, <1>w, <2>1, <2>2, <2>3, WithinFrame
<1>26. ASSUME ChannelFlips PROVE Within(m)'
  <2>1. attempts'[m] = attempts[m] /\ accepted'[m] = accepted[m]
    BY <1>26, <1>0 DEF ChannelFlips, messageVars, deliveryVars
  <2>2. \A i \in Job : CallingFor(i, m)' => CallingFor(i, m) /\ job'[i].loaded = job[i].loaded
    BY <1>26, <1>0 DEF ChannelFlips, CallingFor, JobAt, Idle, JobState
  <2>3. /\ Open(m)' => Open(m)
        /\ mstat'[m] = "sent" <=> mstat[m] = "sent"
        /\ dstat'[m] = "completed" <=> dstat[m] = "completed"
    BY <1>26, <1>0, <1>w DEF ChannelFlips, RowBecomes, Within, Waiting, Terminal, IsStale, Dispatchable, Open, messageVars, deliveryVars
  <2>4. QED
    BY <1>a, <1>w, <2>1, <2>2, <2>3, WithinFrame
<1>27. ASSUME UNCHANGED vars PROVE Within(m)'
  BY <1>27, <1>w DEF vars, messageVars, deliveryVars, Within, Open, CallingFor
<1>28. QED
  BY <1>1, <1>2, <1>3, <1>4, <1>5, <1>6, <1>7, <1>8, <1>9, <1>10, <1>11, <1>12, <1>13, <1>14, <1>15, <1>16, <1>17, <1>18, <1>19, <1>20, <1>21, <1>22, <1>23, <1>24, <1>25, <1>26, <1>27
     DEF Next, RunJob, Answer

\* Budget and the facts it rests on hold in every reachable state.
THEOREM BudgetKept == Spec => [](TypeOK /\ Ledger /\ Untouched /\ Budget)
  BY TypeCorrect, LedgerKept, BudgetInit, UntouchedStep, BudgetStep, PTL DEF Spec

\* Until an operator retries a message, one job at a time calls the provider
\* for it, at most MaxAttempts times.
THEOREM SoleAttemptCorrect == Spec => []SoleAttempt
<1>1. TypeOK /\ Ledger /\ Untouched /\ Budget => SoleAttempt
  BY SolePermission DEF SoleAttempt, Budget, Within, CallingFor
<1>2. QED
  BY <1>1, BudgetKept, PTL

\* Until an operator retries a message, message and delivery agree on success.
THEOREM SuccessCorrect == Spec => []SuccessAgreed
<1>1. TypeOK /\ Ledger /\ Untouched /\ Budget => SuccessAgreed
  BY DEF SuccessAgreed, Budget, Within
<1>2. QED
  BY <1>1, BudgetKept, PTL

-----------------------------------------------------------------------------
(* The outbox implements SendPermits. *)

\* The number of permits in the refinement mapping.
LEMMA PermitsGranted ==
    [m \in Message |-> IF mstat[m] = "absent" THEN 0 ELSE 1 + retries[m]] = [m \in Message |-> Granted(m)]
  BY DEF Granted

LEMMA PermitsInit == Init => Permits!Init
  BY DEF Init, Permits!Init

\* A step that grants one permit for m.
LEMMA StepGrants ==
    ASSUME NEW m \in Message, accepted' = accepted,
           Granted(m)' = Granted(m) + 1,
           \A i \in Message \ {m} : Granted(i)' = Granted(i)
    PROVE  Permits!Next
<1>1. [i \in Message |-> Granted(i)]' = [[i \in Message |-> Granted(i)] EXCEPT ![m] = @ + 1]
  OBVIOUS
<1>2. Permits!Grant(m)
  BY <1>1, PermitsGranted DEF Permits!Grant, Granted
<1>3. QED
  BY <1>2 DEF Permits!Next

\* A step of a calling job in which the provider may take its message.
LEMMA StepUses ==
    ASSUME TypeOK, Ledger, NEW j \in Job, NEW m \in Message, CallingFor(j, m),
           NEW taken \in {0, 1}, accepted' = [accepted EXCEPT ![m] = accepted[m] + taken],
           \A i \in Message : Granted(i)' = Granted(i)
    PROVE  [Permits!Next]_(Permits!vars)
<1>1. [i \in Message |-> Granted(i)]' = [i \in Message |-> Granted(i)]
  OBVIOUS
<1>2. CASE taken = 0
  <2>1. accepted' = accepted
    BY <1>2 DEF TypeOK
  <2>2. QED
    BY <1>1, <2>1 DEF Permits!vars, Granted
<1>3. CASE taken = 1
  <2>1. accepted[m] < Granted(m)
    BY CallIsGranted
  <2>2. Permits!Use(m)
    BY <1>1, <1>3, <2>1 DEF Permits!Use, Granted
  <2>3. QED
    BY <2>2 DEF Permits!Next
<1>4. QED
  BY <1>2, <1>3

\* A step that neither grants nor uses a permit.
LEMMA StepStutters ==
    ASSUME accepted' = accepted, \A i \in Message : Granted(i)' = Granted(i)
    PROVE  [Permits!Next]_(Permits!vars)
  BY DEF Permits!vars, Granted

LEMMA PermitsStep == TypeOK /\ Ledger /\ Untouched /\ [Next]_vars => [Permits!Next]_(Permits!vars)
<1> SUFFICES ASSUME TypeOK, Ledger, Untouched, [Next]_vars PROVE [Permits!Next]_(Permits!vars)
  OBVIOUS
<1>0. /\ mstat \in [Message -> MessageStatus]
      /\ retries \in [Message -> Nat]
      /\ accepted \in [Message -> Nat]
      /\ \A j \in Job : job[j].phase # "free" => job[j].msg \in Message
      /\ \A m \in Message : retries[m] \in Nat
  BY DEF TypeOK
<1>1. ASSUME NEW m \in Message, Create(m) PROVE [Permits!Next]_(Permits!vars)
  <2>1. Granted(m)' = Granted(m) + 1 /\ accepted' = accepted
    BY <1>1, <1>0 DEF Create, Granted, Untouched
  <2>2. \A i \in Message \ {m} : Granted(i)' = Granted(i)
    BY <1>1, <1>0 DEF Create, Granted
  <2>3. QED
    BY <2>1, <2>2, StepGrants
<1>2. ASSUME NEW m \in Message, Retry(m) PROVE [Permits!Next]_(Permits!vars)
  <2>1. Granted(m)' = Granted(m) + 1 /\ accepted' = accepted
    BY <1>2, <1>0 DEF Retry, Granted
  <2>2. \A i \in Message \ {m} : Granted(i)' = Granted(i)
    BY <1>2, <1>0 DEF Retry, Granted
  <2>3. QED
    BY <2>1, <2>2, StepGrants
<1>3. ASSUME NEW m \in Message, BecomeDue(m) PROVE [Permits!Next]_(Permits!vars)
  BY <1>3, StepStutters DEF BecomeDue, messageVars, Granted
<1>4. ASSUME NEW m \in Message, NEW j \in Job, Dispatch(m, j) PROVE [Permits!Next]_(Permits!vars)
  BY <1>4, StepStutters DEF Dispatch, messageVars, Granted
<1>5. ASSUME NEW skipped, NEW expired, Sweep(skipped, expired) PROVE [Permits!Next]_(Permits!vars)
  BY <1>5, StepStutters DEF Sweep, messageVars, Granted
<1>6. ASSUME NEW j \in Job, Enqueue(j) PROVE [Permits!Next]_(Permits!vars)
  BY <1>6, StepStutters DEF Enqueue, messageVars, Granted
<1>7. ASSUME NEW j \in Job, EnqueueRaises(j) PROVE [Permits!Next]_(Permits!vars)
  BY <1>7, StepStutters DEF EnqueueRaises, messageVars, Granted
<1>8. ASSUME NEW j \in Job, JobLost(j) PROVE [Permits!Next]_(Permits!vars)
  BY <1>8, StepStutters DEF JobLost, messageVars, Granted
<1>9. ASSUME NEW j \in Job, StartJob(j) PROVE [Permits!Next]_(Permits!vars)
  BY <1>9, StepStutters DEF StartJob, messageVars, Granted
<1>10. ASSUME NEW j \in Job, Skip(j) PROVE [Permits!Next]_(Permits!vars)
  BY <1>10, StepStutters DEF Skip, messageVars, Granted
<1>11. ASSUME NEW j \in Job, RefuseSettled(j) PROVE [Permits!Next]_(Permits!vars)
  BY <1>11, StepStutters DEF RefuseSettled, messageVars, Granted
<1>12. ASSUME NEW j \in Job, Postpone(j) PROVE [Permits!Next]_(Permits!vars)
  BY <1>12, StepStutters DEF Postpone, messageVars, Granted
<1>13. ASSUME NEW j \in Job, Claim(j) PROVE [Permits!Next]_(Permits!vars)
  BY <1>13, StepStutters DEF Claim, messageVars, Granted
<1>14. ASSUME NEW j \in Job, AnswerRetryable(j) PROVE [Permits!Next]_(Permits!vars)
  BY <1>14, StepStutters DEF AnswerRetryable, messageVars, Granted
<1>15. ASSUME NEW j \in Job, FailureNotRecorded(j) PROVE [Permits!Next]_(Permits!vars)
  BY <1>15, StepStutters DEF FailureNotRecorded, messageVars, Granted
<1>16. ASSUME NEW j \in Job, EndJob(j) PROVE [Permits!Next]_(Permits!vars)
  BY <1>16, StepStutters DEF EndJob, messageVars, Granted
<1>17. ASSUME NEW j \in Job, RefuseChannel(j) PROVE [Permits!Next]_(Permits!vars)
  BY <1>17, <1>0, StepStutters DEF RefuseChannel, Claimable, Fail, Granted
<1>18. ASSUME NEW j \in Job, MarkInternalFailure(j) PROVE [Permits!Next]_(Permits!vars)
  BY <1>18, <1>0, StepStutters DEF MarkInternalFailure, Granted
<1>19. ASSUME NEW j \in Job, NEW k \in Job, NEW n \in Message, Follow(j, n, k) PROVE [Permits!Next]_(Permits!vars)
  BY <1>19, StepStutters DEF Follow, messageVars, Granted
<1>20. ASSUME NEW j \in Job, AnswerSent(j) PROVE [Permits!Next]_(Permits!vars)
  <2>1. CASE job[j].phase = "calling"
    <3>1. PICK m \in Message : m = job[j].msg
      BY <1>0, <2>1
    <3>2. CallingFor(j, m) /\ mstat[m] # "absent"
      BY <2>1, <3>1, CallIsGranted DEF CallingFor
    <3>3. \A i \in Message : Granted(i)' = Granted(i)
      BY <1>20, <1>0, <3>1, <3>2 DEF AnswerSent, Granted
    <3>4. \E taken \in {0, 1} : accepted' = [accepted EXCEPT ![m] = accepted[m] + taken]
      BY <1>20, <1>0, <2>1, <3>1 DEF AnswerSent
    <3>5. QED
      BY <3>2, <3>3, <3>4, StepUses
  <2>2. CASE job[j].phase # "calling"
    BY <1>20, <2>2, StepStutters DEF AnswerSent, Granted
  <2>3. QED
    BY <2>1, <2>2
<1>21. ASSUME NEW j \in Job, AnswerFailed(j) PROVE [Permits!Next]_(Permits!vars)
  <2>1. CASE job[j].phase = "calling"
    <3>1. PICK m \in Message : m = job[j].msg
      BY <1>0, <2>1
    <3>2. CallingFor(j, m) /\ mstat[m] # "absent"
      BY <2>1, <3>1, CallIsGranted DEF CallingFor
    <3>3. \A i \in Message : Granted(i)' = Granted(i)
      BY <1>21, <1>0, <3>1, <3>2 DEF AnswerFailed, Fail, Granted
    <3>4. \E taken \in {0, 1} : accepted' = [accepted EXCEPT ![m] = accepted[m] + taken]
      BY <1>21, <1>0, <2>1, <3>1 DEF AnswerFailed, MaybeAccepted
    <3>5. QED
      BY <3>2, <3>3, <3>4, StepUses
  <2>2. CASE job[j].phase # "calling"
    BY <1>21, <2>2, StepStutters DEF AnswerFailed, Granted
  <2>3. QED
    BY <2>1, <2>2
<1>22. ASSUME NEW j \in Job, AnswerExhausted(j) PROVE [Permits!Next]_(Permits!vars)
  <2>1. CASE job[j].phase = "calling"
    <3>1. PICK m \in Message : m = job[j].msg
      BY <1>0, <2>1
    <3>2. CallingFor(j, m) /\ mstat[m] # "absent"
      BY <2>1, <3>1, CallIsGranted DEF CallingFor
    <3>3. \A i \in Message : Granted(i)' = Granted(i)
      BY <1>22, <1>0, <3>1, <3>2 DEF AnswerExhausted, Fail, Granted
    <3>4. \E taken \in {0, 1} : accepted' = [accepted EXCEPT ![m] = accepted[m] + taken]
      BY <1>22, <1>0, <2>1, <3>1 DEF AnswerExhausted
    <3>5. QED
      BY <3>2, <3>3, <3>4, StepUses
  <2>2. CASE job[j].phase # "calling"
    BY <1>22, <2>2, StepStutters DEF AnswerExhausted, Granted
  <2>3. QED
    BY <2>1, <2>2
<1>23. ASSUME NEW j \in Job, Raise(j) PROVE [Permits!Next]_(Permits!vars)
  <2>1. CASE job[j].phase = "calling"
    <3>1. PICK m \in Message : m = job[j].msg
      BY <1>0, <2>1
    <3>2. CallingFor(j, m) /\ mstat[m] # "absent"
      BY <2>1, <3>1, CallIsGranted DEF CallingFor
    <3>3. \A i \in Message : Granted(i)' = Granted(i)
      BY <1>23, <1>0, <3>1, <3>2 DEF Raise, Granted
    <3>4. \E taken \in {0, 1} : accepted' = [accepted EXCEPT ![m] = accepted[m] + taken]
      BY <1>23, <1>0, <2>1, <3>1 DEF Raise, MaybeAccepted
    <3>5. QED
      BY <3>2, <3>3, <3>4, StepUses
  <2>2. CASE job[j].phase # "calling"
    BY <1>23, <2>2, StepStutters DEF Raise, Granted
  <2>3. QED
    BY <2>1, <2>2
<1>24. ASSUME NEW j \in Job, Crash(j) PROVE [Permits!Next]_(Permits!vars)
  <2>1. CASE job[j].phase = "calling"
    <3>1. PICK m \in Message : m = job[j].msg
      BY <1>0, <2>1
    <3>2. CallingFor(j, m) /\ mstat[m] # "absent"
      BY <2>1, <3>1, CallIsGranted DEF CallingFor
    <3>3. \A i \in Message : Granted(i)' = Granted(i)
      BY <1>24, <1>0, <3>1, <3>2 DEF Crash, Granted
    <3>4. \E taken \in {0, 1} : accepted' = [accepted EXCEPT ![m] = accepted[m] + taken]
      BY <1>24, <1>0, <2>1, <3>1 DEF Crash, MaybeAccepted
    <3>5. QED
      BY <3>2, <3>3, <3>4, StepUses
  <2>2. CASE job[j].phase # "calling"
    BY <1>24, <2>2, StepStutters DEF Crash, Granted
  <2>3. QED
    BY <2>1, <2>2
<1>25. ASSUME Tick PROVE [Permits!Next]_(Permits!vars)
  BY <1>25, StepStutters DEF Tick, messageVars, Granted
<1>26. ASSUME ChannelFlips PROVE [Permits!Next]_(Permits!vars)
  BY <1>26, StepStutters DEF ChannelFlips, messageVars, Granted
<1>27. ASSUME UNCHANGED vars PROVE [Permits!Next]_(Permits!vars)
  BY <1>27, StepStutters DEF vars, messageVars, Granted
<1>28. QED
  BY <1>1, <1>2, <1>3, <1>4, <1>5, <1>6, <1>7, <1>8, <1>9, <1>10, <1>11, <1>12, <1>13, <1>14, <1>15, <1>16, <1>17, <1>18, <1>19, <1>20, <1>21, <1>22, <1>23, <1>24, <1>25, <1>26, <1>27
     DEF Next, RunJob, Answer

\* The outbox implements the permits: storing a message and each manual retry
\* grant one send, and the provider never takes more than was granted.
THEOREM PermitsImplemented == Spec => ImplementsPermits
<1>1. TypeOK /\ Ledger /\ Untouched /\ Budget /\ [Next]_vars => [Permits!Next]_(Permits!vars)
  BY PermitsStep
<1>2. QED
  BY <1>1, PermitsInit, BudgetKept, PTL DEF Spec, ImplementsPermits, Permits!Spec
=============================================================================
