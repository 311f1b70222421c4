\* A channel and two requests at a time, in every order, with one failure: of
\* the gateway, of the delivery of an event, or of a process.
SPECIFICATION FairSpec
CONSTANTS
    Channel = {c1}
    Handler = {h1, h2}
    NoChannel = NoChannel
    MaxFaults = 1
INVARIANTS ActiveHasInstance OrphansAreExplained ConnectedIsReal
PROPERTIES ActiveStays RetryProvisions
CHECK_DEADLOCK FALSE
