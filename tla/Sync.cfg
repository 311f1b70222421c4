\* Two requests for one channel, one for a contact and an event, one for the
\* event alone; two workers, as when two slots are deployed side by side.
SPECIFICATION FairSpec
CONSTANTS
    Run = {1, 2}
    SyncType <- AllThenMessages
    Contact = {c1}
    Event = {e1}
    NoItem = NoItem
    Workers = 2
    JobTimeout = 1
    KillAfter = 1
    StaleAfter = 2
INVARIANTS StaleIsDead OneAtWork CompletedIsComplete
PROPERTIES FinalStays RunSettles
