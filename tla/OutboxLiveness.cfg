\* Two messages of one conversation, two RQ jobs and one worker, no manual
\* retry: the order of the conversation under late commits and faults, and
\* that every accepted message settles.
SPECIFICATION FairSpec
CONSTANTS
    Message = {1, 2}
    ConvOf <- OneConversation
    Job = {j1, j2}
    NoJob = NoJob
    NoMessage = NoMessage
    Workers = 1
    MaxAttempts = 2
    MaxRetries = 0
    JobTimeout = 0
    StaleAfter = 1
INVARIANT InOrder
PROPERTY PendingSettles
