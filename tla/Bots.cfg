\* Two messages, two flows, two moves of people and channel, a crash.
SPECIFICATION FairSpec
CONSTANTS
    Messages = 2
    KindOf <- TextThenPerson
    Flow = {f1, f2}
    NoMessage = NoMessage
    MaxMoves = 2
    MaxCrashes = 1
INVARIANTS TypeOK PostedOnce OneActiveSession TakeoverSilences RepliesInOrder DrainsItsTurns
PROPERTIES ImplementsQueue RunEnds
CHECK_DEADLOCK FALSE
