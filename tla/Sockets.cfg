\* One socket and two API processes, a request at a time that changes rights, the
\* loss of a connection or of a process.
SPECIFICATION FairSpec
CONSTANTS
    User = {a, b}
    Channel = {c1}
    Conversation = {}
    Request = {r1}
    ChannelOf <- NoConversations
    FirstAdmin = a
    NoUser = NoUser
    NoConversation = NoConversation
    Everything = Everything
    NoProcess = NoProcess
    MaxEdits = 2
    MaxBreaks = 1
    Socket = {s}
    Process = {p, q}
INVARIANT ScopeFollowsRights
PROPERTY OutdatedCloses
CHECK_DEADLOCK FALSE
