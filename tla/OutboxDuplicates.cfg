\* One message, three RQ jobs for it and as many workers: duplicate jobs, lost
\* answers, crashes and two manual retries in every order.
SPECIFICATION Spec
CONSTANTS
    Message = {1}
    ConvOf <- OneConversation
    Job = {j1, j2, j3}
    NoJob = NoJob
    NoMessage = NoMessage
    Workers = 3
    MaxAttempts = 2
    MaxRetries = 2
    JobTimeout = 1
    StaleAfter = 2
INVARIANTS StaleIsAbandoned SoleAttempt SuccessAgreed
PROPERTY ImplementsPermits
SYMMETRY JobSymmetry
