\* A message and its edit: everything accepted settles.
SPECIFICATION FairSpec
CONSTANTS
    Event = {1, 2}
    Message = {1}
    KindOf <- KindOfEvent
    About <- AboutFirst
    ThreadOf <- OneThread
    Worker = {w1}
    Loop = {l1}
    Job = {j1}
    NoEvent = NoEvent
    NoJob = NoJob
    MaxAttempts = 2
    MaxCrashes = 1
    MaxResets = 0
PROPERTY EventSettles
CHECK_DEADLOCK FALSE
