\* An administrator and a second user with any role and grants, two channels
\* and a conversation on one of them: two requests in every order, three
\* changes of rights among them.
SPECIFICATION Spec
CONSTANTS
    User = {a, b}
    Channel = {c1, c2}
    Conversation = {v}
    Request = {r1, r2}
    ChannelOf <- OneChannel
    FirstAdmin = a
    NoUser = NoUser
    NoConversation = NoConversation
    MaxEdits = 3
INVARIANT OpenIsServed
PROPERTY AdministratorRemains
SYMMETRY RequestSymmetry
CHECK_DEADLOCK FALSE
