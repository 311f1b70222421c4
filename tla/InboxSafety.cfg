\* A message, its edit and the message again under another event id; one RQ
\* worker and one loop; a crash or a lost job, and an administrative reset.
SPECIFICATION Spec
CONSTANTS
    Event = {1, 2, 3}
    Message = {1}
    KindOf <- KindOfEvent
    About <- AboutFirst
    ThreadOf <- OneThread
    Worker = {w1}
    Loop = {l1}
    Job = {j1}
    NoEvent = NoEvent
    NoJob = NoJob
    MaxAttempts = 1
    MaxCrashes = 1
    MaxResets = 1
INVARIANTS NothingForgotten ProcessedHasEffect InsertsOnce
CHECK_DEADLOCK FALSE
