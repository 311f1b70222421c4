--------------------------- MODULE ChannelAccess ---------------------------
(***************************************************************************)
(* Who may work on which conversation: the memberships and channel grants  *)
(* of one tenant (users/router.py, users/channel_access.py), the requests  *)
(* that were authenticated under them (auth/dependencies.py), and the      *)
(* assignment of conversations (conversations/router.py).                  *)
(*                                                                         *)
(* Production runs several API processes.  A request reads its own         *)
(* membership when it is authenticated and never again; a handler's        *)
(* statements each see what is committed at that moment; a row taken with  *)
(* FOR UPDATE stays with its transaction.  update_user locks the member    *)
(* and looks for conversations to release at one step and commits at       *)
(* another; assign_conversation locks the conversation and validates the   *)
(* assignee at one step and commits at another.                            *)
(*                                                                         *)
(* Not here: names, passwords, e-mail addresses and audit rows; support    *)
(* access of the platform's staff; bot sessions (BotTurns); messages.      *)
(***************************************************************************)
EXTENDS Naturals

CONSTANTS User, Channel, Conversation, Request,
          ChannelOf,          \* the channel of a conversation
          FirstAdmin,         \* who was registered with the tenant
          NoUser, NoConversation,
          MaxEdits            \* bound on changes of memberships and tenant

ASSUME ChannelOfAssumption == ChannelOf \in [Conversation -> Channel]
ASSUME FirstAdminAssumption == FirstAdmin \in User
ASSUME NoUserAssumption == NoUser \notin User
ASSUME NoConversationAssumption == NoConversation \notin Conversation
ASSUME MaxEditsAssumption == MaxEdits \in Nat

VARIABLES tenant,    \* tenants.is_active
          member,    \* tenant_users: role and is_active
          grants,    \* tenant_user_channels
          conv,      \* conversations: status and assigned_user_id
          req,       \* the requests being handled
          edits,     \* how many changes were made
          raced,     \* conversations assigned while the assignee's rights were being changed
          kept,      \* conversations an administrator held while losing that role
          strayed    \* users who changed their own name while losing the role of administrator

rowVars == <<tenant, member, grants, conv>>
historyVars == <<raced, kept, strayed>>
vars == <<tenant, member, grants, conv, req, edits, raced, kept, strayed>>

Role == {"none", "agent", "admin"}
Member == [role : Role, active : BOOLEAN]

\* Waiting in the queue, somebody's, or closed by somebody.
ConversationState ==
    {v \in [status : {"new", "open", "closed"}, assignee : User \cup {NoUser}] :
        v.status = "new" <=> v.assignee = NoUser}

RequestState ==
    [phase     : {"idle", "ready", "assigning", "updating", "announcing"},
     actor     : User \cup {NoUser},
     role      : Role,                                  \* the actor's, as authenticated
     subject   : User \cup {NoUser},                    \* the assignee, or the member being changed
     conv      : Conversation \cup {NoConversation},
     after     : Member,                                \* what an update will leave
     target    : SUBSET Channel,
     found     : SUBSET Conversation,                   \* what its release query found
     tells     : SUBSET User,                           \* whose sockets it will disconnect
     overtaken : BOOLEAN]                               \* the rights it relies on were changed

NoMember == [role |-> "none", active |-> FALSE]

Idle == [phase |-> "idle", actor |-> NoUser, role |-> "none", subject |-> NoUser,
         conv |-> NoConversation, after |-> NoMember, target |-> {}, found |-> {},
         tells |-> {}, overtaken |-> FALSE]

TypeOK ==
    /\ tenant \in BOOLEAN
    /\ member \in [User -> Member]
    /\ grants \in [User -> SUBSET Channel]
    /\ conv \in [Conversation -> ConversationState]
    /\ req \in [Request -> RequestState]
    /\ edits \in Nat
    /\ raced \subseteq Conversation
    /\ kept \subseteq Conversation
    /\ strayed \subseteq User

\* Some users were created before, with any role and grants.
Init ==
    /\ tenant = TRUE
    /\ member \in [User -> {NoMember, [role |-> "agent", active |-> TRUE], [role |-> "admin", active |-> TRUE]}]
    /\ member[FirstAdmin].role = "admin"
    /\ grants \in [User -> SUBSET Channel]
    /\ \A u \in User : member[u].role # "agent" => grants[u] = {}
    /\ conv = [c \in Conversation |-> [status |-> "new", assignee |-> NoUser]]
    /\ req = [r \in Request |-> Idle]
    /\ edits = 0
    /\ raced = {}
    /\ kept = {}
    /\ strayed = {}

-----------------------------------------------------------------------------
(* Rights and locks. *)

\* get_auth_context finds the row.
Active(u) == tenant /\ member[u].role # "none" /\ member[u].active

ActiveAdmin(u) == member[u].role = "admin" /\ member[u].active

\* u may be responsible for a conversation of channel ch.
Entitled(u, ch) == member[u].active /\ (member[u].role = "admin" \/ ch \in grants[u])

\* accessible_channel_ids: the role is the authenticated one, the grants are read.
MayUse(r, ch) == req[r].role = "admin" \/ ch \in grants[req[r].actor]

LockedConversation(c) == \E r \in Request : req[r].phase = "assigning" /\ req[r].conv = c
LockedMember(u) == \E r \in Request : req[r].phase = "updating" /\ req[r].subject = u

\* What an ORM session that has authenticated r makes of the row of u: its own
\* membership keeps the values it was loaded with.
View(r, u) == IF u = req[r].actor THEN [role |-> req[r].role, active |-> TRUE] ELSE member[u]

\* Whose rights a request has read: the assignee's once that is validated.
ReliesOn(r) == IF req[r].phase = "assigning" THEN req[r].subject ELSE req[r].actor

Ends(r) == req' = [req EXCEPT ![r] = Idle]

-----------------------------------------------------------------------------
(* Requests. *)

\* get_auth_context.
Authenticate(r, u) ==
    /\ req[r].phase = "idle"
    /\ Active(u)
    /\ req' = [req EXCEPT ![r] = [Idle EXCEPT !.phase = "ready", !.actor = u, !.role = member[u].role]]
    /\ UNCHANGED <<rowVars, edits, historyVars>>

\* The request is refused, only reads, or its process dies before it commits.
Abandon(r) ==
    /\ req[r].phase \in {"ready", "assigning", "updating"}
    /\ Ends(r)
    /\ UNCHANGED <<rowVars, edits, historyVars>>

-----------------------------------------------------------------------------
(* Administration. *)

\* replace_user_channels: what is missing is granted, what is too much removed.
Granted(u, channels) == [grants EXCEPT ![u] = channels]

\* create_user: membership and grants in one transaction.
CreateUser(r, u) ==
    /\ req[r].phase = "ready"
    /\ req[r].role = "admin"
    /\ member[u].role = "none"
    /\ edits < MaxEdits
    /\ edits' = edits + 1
    /\ \E role \in {"agent", "admin"}, channels \in SUBSET Channel :
        /\ member' = [member EXCEPT ![u] = [role |-> role, active |-> TRUE]]
        /\ grants' = Granted(u, IF role = "agent" THEN channels ELSE {})
    /\ Ends(r)
    /\ UNCHANGED <<tenant, conv, historyVars>>

\* The fields of a PATCH: NONE stands for a field that is not sent.
NONE == "none"
Patch == {p \in [role : {NONE, "agent", "admin"}, active : {NONE, "yes", "no"},
                  sent : BOOLEAN, channels : SUBSET Channel] : p.sent \/ p.channels = {}}

\* What update_user makes of the role and the state it has loaded.
PatchedRole(seen, p) == IF p.role = NONE THEN seen.role ELSE p.role
PatchedActive(seen, p) == IF p.active = NONE THEN seen.active ELSE p.active = "yes"

\* A column is written when its value is not the one that was loaded.
Stored(u, seen, p) ==
    [role   |-> IF PatchedRole(seen, p) # seen.role THEN PatchedRole(seen, p) ELSE member[u].role,
     active |-> IF PatchedActive(seen, p) # seen.active THEN PatchedActive(seen, p) ELSE member[u].active]

\* The grants u is to have.
Target(u, seen, p) ==
    IF PatchedRole(seen, p) = "admin" THEN {}
    ELSE IF p.sent THEN p.channels
    ELSE IF seen.role = "admin" THEN Channel
    ELSE grants[u]

\* Mutant: only a changed set of channels releases.
ReleasableByChannel(u, seen, p) ==
    {c \in Conversation :
        /\ conv[c].status = "open"
        /\ conv[c].assignee = u
        /\ ChannelOf[c] \in grants[u] \ Target(u, seen, p)}

\* The release query: everything u has open when the membership is inactive,
\* what u has open on the grants that are removed otherwise.
Releasable(u, seen, p) ==
    {c \in Conversation :
        /\ conv[c].status = "open"
        /\ conv[c].assignee = u
        /\ PatchedActive(seen, p) => ChannelOf[c] \in grants[u] \ Target(u, seen, p)}

\* Mutant: only a new role or state is told.
TellsOfRole(u, p) == IF p.role # NONE \/ p.active # NONE THEN {u} ELSE {}

\* Whose sockets are disconnected after the commit: a field that is sent counts,
\* whether or not its value is new.
Tells(u, p) == IF p.sent \/ p.role # NONE \/ p.active # NONE THEN {u} ELSE {}

\* Mutant: an administrator may take any role away, also the own one.
MayPatchAnyone(r, u, p) == req[r].role = "admin"

\* require_admin, and nobody takes the own administrative access away.
MayPatch(r, u, p) ==
    /\ req[r].role = "admin"
    /\ u = req[r].actor => p.active # "no" /\ p.role # "agent"

\* update_user up to its release query: the member's row is locked.
UpdateUser(r, u, p) ==
    LET seen == View(r, u)
    IN  /\ req[r].phase = "ready"
        /\ MayPatch(r, u, p)
        /\ member[u].role # "none"
        /\ ~LockedMember(u)
        /\ edits < MaxEdits
        /\ edits' = edits + 1
        /\ req' = [req EXCEPT ![r] =
                     [req[r] EXCEPT !.phase = "updating", !.subject = u,
                                    !.after = Stored(u, seen, p),
                                    !.target = Target(u, seen, p),
                                    !.found = Releasable(u, seen, p),
                                    !.tells = Tells(u, p)]]
        /\ UNCHANGED <<rowVars, historyVars>>

\* What the query returns when it has all its locks: rows that still match.
Released(r) == {c \in req[r].found : conv[c].status = "open" /\ conv[c].assignee = req[r].subject}

Queued(released) ==
    [c \in Conversation |-> IF c \in released THEN [status |-> "new", assignee |-> NoUser] ELSE conv[c]]

\* The commit of update_user, with the locks of its release query.
CommitUpdate(r) ==
    LET u == req[r].subject
    IN  /\ req[r].phase = "updating"
        /\ \A c \in req[r].found : ~LockedConversation(c)
        /\ member' = [member EXCEPT ![u] = req[r].after]
        /\ grants' = Granted(u, req[r].target)
        /\ conv' = Queued(Released(r))
        /\ req' = [o \in Request |->
                     IF o = r THEN [Idle EXCEPT !.phase = IF req[r].tells = {} THEN "idle" ELSE "announcing",
                                                !.tells = req[r].tells]
                     ELSE IF u = ReliesOn(o) THEN [req[o] EXCEPT !.overtaken = TRUE]
                     ELSE req[o]]
        /\ raced' = raced \ Released(r)
        /\ kept' = IF member[u].role = "admin" /\ req[r].after.role = "agent"
                   THEN (kept \ Released(r)) \cup {c \in Conversation : conv'[c].assignee = u}
                   ELSE kept \ Released(r)
        /\ strayed' = IF req[r].tells = {} /\ u = req[r].actor /\ req[r].overtaken
                      THEN strayed \cup {u} ELSE strayed
        /\ UNCHANGED <<tenant, edits>>

\* update_platform_tenant, from another tenant's session.
UpdateTenant(r, active) ==
    /\ req[r].phase = "idle"
    /\ edits < MaxEdits
    /\ edits' = edits + 1
    /\ tenant' = active
    /\ req' = IF active THEN req
              ELSE [req EXCEPT ![r] = [Idle EXCEPT !.phase = "announcing", !.tells = User]]
    /\ UNCHANGED <<member, grants, conv, historyVars>>

\* After the commit the sockets of the users it concerns are disconnected.
Announce(r) ==
    /\ req[r].phase = "announcing"
    /\ Ends(r)
    /\ UNCHANGED <<rowVars, edits, historyVars>>

-----------------------------------------------------------------------------
(* Conversations. *)

\* Nobody but an administrator assigns to another user; the assignee is
\* active and an administrator, or has the channel.
MayServe(r, v, ch) ==
    /\ v = req[r].actor \/ req[r].role = "admin"
    /\ member[v].role # "none" /\ member[v].active
    /\ View(r, v).role = "admin" \/ ch \in grants[v]

\* assign_conversation up to its commit: the conversation's row is locked.
ValidateAssignee(r, c, v) ==
    /\ req[r].phase = "ready"
    /\ ~LockedConversation(c)
    /\ MayUse(r, ChannelOf[c])
    /\ MayServe(r, v, ChannelOf[c])
    /\ conv[c].status = "open" /\ conv[c].assignee \notin {NoUser, v} => req[r].role = "admin"
    /\ req' = [req EXCEPT ![r] = [req[r] EXCEPT !.phase = "assigning", !.subject = v, !.conv = c,
                                                !.overtaken = req[r].overtaken /\ v = req[r].actor]]
    /\ UNCHANGED <<rowVars, edits, historyVars>>

CommitAssignment(r) ==
    LET c == req[r].conv
        v == req[r].subject
    IN  /\ req[r].phase = "assigning"
        /\ conv' = [conv EXCEPT ![c] = [status |-> "open", assignee |-> v]]
        /\ raced' = IF req[r].overtaken \/ LockedMember(v) THEN raced \cup {c} ELSE raced \ {c}
        /\ kept' = kept \ {c}
        /\ Ends(r)
        /\ UNCHANGED <<tenant, member, grants, edits, strayed>>

\* release_conversation.
ReleaseConversation(r, c) ==
    /\ req[r].phase = "ready"
    /\ ~LockedConversation(c)
    /\ req[r].role = "admin"
    /\ conv[c].status = "open"
    /\ conv' = Queued({c})
    /\ raced' = raced \ {c}
    /\ kept' = kept \ {c}
    /\ Ends(r)
    /\ UNCHANGED <<tenant, member, grants, edits, strayed>>

\* close_conversation: the person responsible closes it and stays named.
CloseConversation(r, c) ==
    /\ req[r].phase = "ready"
    /\ ~LockedConversation(c)
    /\ MayUse(r, ChannelOf[c])
    /\ conv[c].status = "open"
    /\ conv[c].assignee = req[r].actor
    /\ conv' = [conv EXCEPT ![c].status = "closed"]
    /\ raced' = raced \ {c}
    /\ kept' = kept \ {c}
    /\ Ends(r)
    /\ UNCHANGED <<tenant, member, grants, edits, strayed>>

\* start_contact_conversation finds the conversation closed; an incoming
\* message has the same effect.
Reopen(r, c) ==
    /\ req[r].phase = "ready"
    /\ ~LockedConversation(c)
    /\ MayUse(r, ChannelOf[c])
    /\ conv[c].status = "closed"
    /\ conv' = Queued({c})
    /\ Ends(r)
    /\ UNCHANGED <<tenant, member, grants, edits, historyVars>>

-----------------------------------------------------------------------------
Administer(r) ==
    \/ \E u \in User : CreateUser(r, u) \/ \E p \in Patch : UpdateUser(r, u, p)
    \/ CommitUpdate(r)
    \/ \E active \in BOOLEAN : UpdateTenant(r, active)

Serve(r) ==
    \/ CommitAssignment(r)
    \/ \E c \in Conversation :
        \/ \E v \in User : ValidateAssignee(r, c, v)
        \/ ReleaseConversation(r, c)
        \/ CloseConversation(r, c)
        \/ Reopen(r, c)

RowStep(r) == (\E u \in User : Authenticate(r, u)) \/ Abandon(r) \/ Administer(r) \/ Serve(r)

Next == \E r \in Request : RowStep(r) \/ Announce(r)

Spec == Init /\ [][Next]_vars

-----------------------------------------------------------------------------
(* What the grants are for. *)

\* An open conversation is in the hands of somebody who is active and has its
\* channel, whatever administrators change meanwhile; except one assigned
\* while the assignee's rights were being changed (the release query cannot
\* see it), and one an administrator held when losing that role (no grant is
\* removed, so nothing is released).
OpenIsServed ==
    \A c \in Conversation :
        conv[c].status = "open" /\ c \notin raced \cup kept =>
            conv[c].assignee \in User /\ Entitled(conv[c].assignee, ChannelOf[c])

\* Only an administrator who has meanwhile lost the role can take it from the
\* last other one: a change by somebody who is still an administrator leaves
\* the tenant with one.
AdministratorRemains ==
    [][\A r \in Request :
         /\ req[r].phase = "updating" /\ req'[r].phase \notin {"updating", "ready"}
         /\ \E u \in User : ActiveAdmin(u)
         /\ ~\E u \in User : ActiveAdmin(u)'
         => ~ActiveAdmin(req[r].actor)]_vars
=============================================================================
