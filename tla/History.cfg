\* Three messages of a thread, two loops whose lock may expire, a handler, two
\* faults: a lost webhook, a batch torn, lost or repeated, a dead process.
SPECIFICATION FairSpec
CONSTANTS
    Message = {1, 2, 3}
    ThreadOf <- OneThread
    Worker = {w1}
    Loop = {l1, l2}
    Manual = {}
    Nobody = Nobody
    Nothing = 0
    RowLimit = 2
    ThreadLimit = 1
    RequestCount = 2
    MaxFaults = 2
INVARIANTS TypeOK ImportedOrTorn AskedOnce
PROPERTY HistoryHeals
CHECK_DEADLOCK FALSE
