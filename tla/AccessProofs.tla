---------------------------- MODULE AccessProofs ----------------------------
(***************************************************************************)
(* Proofs about ChannelAccess, for any number of users, channels,          *)
(* conversations and requests, and about Realtime, for any number of       *)
(* sockets and processes, which is a behaviour of ChannelAccess.           *)
(*                                                                         *)
(* OpenIsServed is not inductive: what keeps it is that an update under way*)
(* has found, or will leave the rights for, every conversation its member  *)
(* holds (Covers), and that an assignment under way rests on rights that   *)
(* are still there unless it was overtaken (ChecksHold).                   *)
(*                                                                         *)
(* ScopeFollowsRights is inductive together with that invariant: what an   *)
(* update that announces nothing leaves of the rights (Preserves) is all   *)
(* that is needed of the rows.                                             *)
(***************************************************************************)
EXTENDS Realtime, TLAPS

USE DEF Granted

Nobody == \A u \in User : member[u].role = "none" => ~member[u].active

\* A request at work has an actor who was a member.
HasActor(r) ==
    req[r].phase \in {"ready", "assigning", "updating"} => req[r].actor \in User /\ req[r].role # "none"

\* What a request saw at its authentication is still so unless it was overtaken.
SeenHolds(r) ==
    req[r].phase \in {"ready", "updating"} /\ ~req[r].overtaken =>
        member[req[r].actor] = [role |-> req[r].role, active |-> TRUE]

ChecksHold(r) ==
    req[r].phase = "assigning" =>
        /\ req[r].subject \in User
        /\ req[r].conv \in Conversation
        /\ req[r].overtaken \/ Entitled(req[r].subject, ChannelOf[req[r].conv])

\* An update leaves a member; the own rights and those no field of it is about stay.
Preserves(r) ==
    req[r].phase = "updating" =>
        /\ req[r].subject \in User
        /\ member[req[r].subject].role # "none"
        /\ req[r].after.role # "none"
        /\ req[r].actor = req[r].subject => req[r].after = member[req[r].subject]
        /\ req[r].tells = {} /\ (req[r].actor # req[r].subject \/ ~req[r].overtaken) =>
              /\ req[r].after = member[req[r].subject]
              /\ req[r].after.role = "admin" \/ req[r].target = grants[req[r].subject]
        /\ req[r].tells \subseteq {req[r].subject}

\* The rights an update leaves.
EntitledAfter(r, ch) == req[r].after.active /\ (req[r].after.role = "admin" \/ ch \in req[r].target)

Covers(r) ==
    req[r].phase = "updating" =>
        \A c \in Conversation :
            conv[c].status = "open" /\ conv[c].assignee = req[r].subject /\ c \notin raced \cup kept =>
                \/ c \in req[r].found
                \/ EntitledAfter(r, ChannelOf[c])
                \/ member[req[r].subject].role = "admin" /\ req[r].after.role = "agent"

\* One update at a time of a member.
OneUpdate ==
    \A r, o \in Request :
        req[r].phase = "updating" /\ req[o].phase = "updating" /\ req[r].subject = req[o].subject => r = o

Held(r) == HasActor(r) /\ SeenHolds(r) /\ ChecksHold(r) /\ Preserves(r) /\ Covers(r)

Rest == Nobody /\ OneUpdate /\ OpenIsServed /\ \A r \in Request : Held(r)
IInv == TypeOK /\ Rest

-----------------------------------------------------------------------------
(* Types. *)

LEMMA ReqTyped ==
    ASSUME req \in [Request -> RequestState], NEW r \in Request, NEW w \in RequestState,
           req' = [req EXCEPT ![r] = w]
    PROVE  req' \in [Request -> RequestState]
OBVIOUS

LEMMA IdleTyped == Idle \in RequestState
BY DEF Idle, RequestState, NoMember, Member, Role

LEMMA EndsTyped ==
    ASSUME req \in [Request -> RequestState], NEW r \in Request, Ends(r)
    PROVE  req' \in [Request -> RequestState]
BY IdleTyped DEF Ends

\* The conversations that return to the queue, and one that gets a new state, are typed.
LEMMA ConvTyped ==
    ASSUME conv \in [Conversation -> ConversationState]
    PROVE  /\ \A released \in SUBSET Conversation :
                 Queued(released) \in [Conversation -> ConversationState]
           /\ \A c \in Conversation, w \in ConversationState :
                 [conv EXCEPT ![c] = w] \in [Conversation -> ConversationState]
<1>1. [status |-> "new", assignee |-> NoUser] \in ConversationState
  BY DEF ConversationState
<1> QED  BY <1>1 DEF Queued

LEMMA UpdateTyped ==
    ASSUME TypeOK, NEW r \in Request, NEW u \in User, NEW p \in Patch, UpdateUser(r, u, p)
    PROVE  req' \in [Request -> RequestState]
<1> DEFINE seen == View(r, u)
<1>1. seen \in Member
  BY DEF View, TypeOK, RequestState, Member, Role
<1>2. p.role \in Role /\ p.channels \in SUBSET Channel /\ p.sent \in BOOLEAN /\ p.active \in {NONE, "yes", "no"}
  BY DEF Patch, Role, NONE
<1>3. PatchedRole(seen, p) \in Role /\ PatchedActive(seen, p) \in BOOLEAN
  BY <1>1, <1>2 DEF PatchedRole, PatchedActive, Member
<1>4. Stored(u, seen, p) \in Member
  BY <1>1, <1>3 DEF Stored, Member, TypeOK
<1>5. Target(u, seen, p) \in SUBSET Channel
  BY <1>1, <1>2 DEF Target, TypeOK
<1>6. Releasable(u, seen, p) \in SUBSET Conversation /\ Tells(u, p) \in SUBSET User
  BY DEF Releasable, Tells
<1>7. [req[r] EXCEPT !.phase = "updating", !.subject = u, !.after = Stored(u, seen, p),
                     !.target = Target(u, seen, p), !.found = Releasable(u, seen, p),
                     !.tells = Tells(u, p)] \in RequestState
  BY <1>4, <1>5, <1>6 DEF RequestState, TypeOK
<1> QED  BY <1>7 DEF UpdateUser, TypeOK

LEMMA CommitTyped ==
    ASSUME TypeOK, NEW r \in Request, CommitUpdate(r), req[r].subject \in User
    PROVE  TypeOK'
<1>1. Released(r) \in SUBSET Conversation
  BY DEF Released, TypeOK, RequestState
<1>2. conv' \in [Conversation -> ConversationState]
  BY <1>1, ConvTyped DEF CommitUpdate, TypeOK
<1>3. \A o \in Request : req'[o] \in RequestState
  BY ZenonT(60), IdleTyped DEF CommitUpdate, TypeOK, RequestState
<1>4. req' \in [Request -> RequestState]
  BY <1>3 DEF CommitUpdate
<1>5. member' \in [User -> Member] /\ grants' \in [User -> SUBSET Channel]
  BY DEF CommitUpdate, TypeOK, RequestState
<1>6. raced' \subseteq Conversation /\ kept' \subseteq Conversation /\ strayed' \subseteq User
  BY DEF CommitUpdate, TypeOK, RequestState
<1> QED  BY <1>2, <1>4, <1>5, <1>6 DEF CommitUpdate, TypeOK

\* Every step keeps the types.
LEMMA TypesStep ==
    ASSUME TypeOK, \A r \in Request : Held(r), [Next]_vars
    PROVE  TypeOK'
<1>1. CASE UNCHANGED vars
  BY <1>1 DEF vars, TypeOK
<1>2. ASSUME NEW r \in Request, NEW u \in User, Authenticate(r, u)
      PROVE  TypeOK'
  <2>1. [Idle EXCEPT !.phase = "ready", !.actor = u, !.role = member[u].role] \in RequestState
    BY DEF Idle, RequestState, NoMember, Member, Role, TypeOK
  <2> QED  BY <1>2, <2>1 DEF Authenticate, TypeOK, rowVars, historyVars
<1>3. ASSUME NEW r \in Request, Abandon(r)
      PROVE  TypeOK'
  BY <1>3, EndsTyped DEF Abandon, TypeOK, rowVars, historyVars
<1>4. ASSUME NEW r \in Request, NEW u \in User, CreateUser(r, u)
      PROVE  TypeOK'
  <2>1. member' \in [User -> Member] /\ grants' \in [User -> SUBSET Channel]
    BY <1>4 DEF CreateUser, TypeOK, Member, Role
  <2> QED  BY <1>4, <2>1, EndsTyped DEF CreateUser, TypeOK, historyVars
<1>5. ASSUME NEW r \in Request, NEW u \in User, NEW p \in Patch, UpdateUser(r, u, p)
      PROVE  TypeOK'
  <2>1. edits' = edits + 1 /\ UNCHANGED <<rowVars, historyVars>>
    BY <1>5 DEF UpdateUser
  <2> QED  BY <1>5, <2>1, UpdateTyped DEF TypeOK, rowVars, historyVars
<1>6. ASSUME NEW r \in Request, CommitUpdate(r)
      PROVE  TypeOK'
  BY <1>6, CommitTyped DEF CommitUpdate, Held, Preserves
<1>7. ASSUME NEW r \in Request, NEW active \in BOOLEAN, UpdateTenant(r, active)
      PROVE  TypeOK'
  <2>1. [Idle EXCEPT !.phase = "announcing", !.tells = User] \in RequestState
    BY DEF Idle, RequestState, NoMember, Member, Role
  <2> QED  BY <1>7, <2>1 DEF UpdateTenant, TypeOK, historyVars
<1>8. ASSUME NEW r \in Request, Announce(r)
      PROVE  TypeOK'
  BY <1>8, EndsTyped DEF Announce, TypeOK, rowVars, historyVars
<1>9. ASSUME NEW r \in Request, NEW c \in Conversation, NEW v \in User, ValidateAssignee(r, c, v)
      PROVE  TypeOK'
  <2>1. [req[r] EXCEPT !.phase = "assigning", !.subject = v, !.conv = c,
                       !.overtaken = req[r].overtaken /\ v = req[r].actor] \in RequestState
    BY DEF RequestState, TypeOK
  <2> QED  BY <1>9, <2>1 DEF ValidateAssignee, TypeOK, rowVars, historyVars
<1>10. ASSUME NEW r \in Request, CommitAssignment(r)
       PROVE  TypeOK'
  <2>1. req[r].subject \in User /\ req[r].conv \in Conversation
    BY <1>10 DEF CommitAssignment, Held, ChecksHold
  <2>2. [status |-> "open", assignee |-> req[r].subject] \in ConversationState
    BY <2>1, NoUserAssumption DEF ConversationState
  <2> QED  BY <1>10, <2>1, <2>2, EndsTyped, ConvTyped DEF CommitAssignment, TypeOK
<1>11. ASSUME NEW r \in Request, NEW c \in Conversation, ReleaseConversation(r, c) \/ Reopen(r, c)
       PROVE  TypeOK'
  BY <1>11, EndsTyped, ConvTyped DEF ReleaseConversation, Reopen, TypeOK, historyVars
<1>12. ASSUME NEW r \in Request, NEW c \in Conversation, CloseConversation(r, c)
       PROVE  TypeOK'
  <2>1. [conv[c] EXCEPT !.status = "closed"] \in ConversationState
    BY <1>12 DEF CloseConversation, ConversationState, TypeOK
  <2>2. conv' = [conv EXCEPT ![c] = [conv[c] EXCEPT !.status = "closed"]]
    BY <1>12 DEF CloseConversation
  <2> QED  BY <1>12, <2>1, <2>2, EndsTyped, ConvTyped DEF CloseConversation, TypeOK
<1> QED
  BY <1>1, <1>2, <1>3, <1>4, <1>5, <1>6, <1>7, <1>8, <1>9, <1>10, <1>11, <1>12
     DEF Next, RowStep, Administer, Serve

-----------------------------------------------------------------------------
(* The rest, action by action. *)

\* A step of r that changes no row and no flag leaves what another request relies on.
LEMMA OthersHold ==
    ASSUME NEW o \in Request, Held(o), req'[o] = req[o],
           UNCHANGED <<member, grants>>,
           \A c \in Conversation : conv'[c].status = "open" /\ c \notin raced' \cup kept' =>
               conv'[c] = conv[c] /\ c \notin raced \cup kept
    PROVE  Held(o)'
BY DEF Held, HasActor, SeenHolds, ChecksHold, Preserves, Covers, EntitledAfter, Entitled

\* A request that has ended relies on nothing.
LEMMA EndedHolds ==
    ASSUME NEW r \in Request, req'[r].phase \in {"idle", "announcing"}
    PROVE  Held(r)'
BY DEF Held, HasActor, SeenHolds, ChecksHold, Preserves, Covers

\* No conversation comes to be served that was not, by somebody whose rights stay.
LEMMA StillServed ==
    ASSUME OpenIsServed, UNCHANGED <<member, grants>>,
           \A c \in Conversation : conv'[c].status = "open" /\ c \notin raced' \cup kept' =>
               conv'[c] = conv[c] /\ c \notin raced \cup kept
    PROVE  OpenIsServed'
BY DEF OpenIsServed, Entitled

LEMMA IdleFields == Idle.phase = "idle" /\ Idle.actor = NoUser /\ Idle.overtaken = FALSE
BY DEF Idle

\* r ends, and no conversation is assigned.
LEMMA EndingKeepsRest ==
    ASSUME TypeOK, Rest, NEW r \in Request, UNCHANGED <<member, grants>>,
           req'[r].phase \in {"idle", "announcing"}, \A o \in Request \ {r} : req'[o] = req[o],
           \A c \in Conversation : conv'[c].status = "open" /\ c \notin raced' \cup kept' =>
               conv'[c] = conv[c] /\ c \notin raced \cup kept
    PROVE  Rest'
<1>1. \A o \in Request : Held(o)'
  BY EndedHolds, OthersHold DEF Rest
<1>2. OpenIsServed'
  BY StillServed DEF Rest
<1>3. OneUpdate'
  BY DEF OneUpdate, Rest
<1> QED  BY <1>1, <1>2, <1>3 DEF Rest, Nobody

LEMMA EndsFields ==
    ASSUME TypeOK, NEW r \in Request, Ends(r)
    PROVE  req'[r].phase = "idle" /\ \A o \in Request \ {r} : req'[o] = req[o]
BY IdleFields DEF Ends, TypeOK

LEMMA AuthenticateKeepsRest ==
    ASSUME TypeOK, Rest, NEW r \in Request, NEW u \in User, Authenticate(r, u)
    PROVE  Rest'
<1>1. /\ req'[r].phase = "ready" /\ req'[r].actor = u /\ req'[r].role = member[u].role
      /\ \A o \in Request \ {r} : req'[o] = req[o]
  BY DEF Authenticate, TypeOK, Idle
<1>2. member[u].role # "none" /\ member[u] = [role |-> member[u].role, active |-> TRUE]
  BY DEF Authenticate, Active, TypeOK, Member
<1>3. Held(r)'
  BY <1>1, <1>2 DEF Authenticate, rowVars, Held, HasActor, SeenHolds, ChecksHold, Preserves, Covers
<1>4. \A o \in Request \ {r} : Held(o)'
  BY <1>1, OthersHold DEF Rest, Authenticate, rowVars, historyVars
<1>5. OneUpdate'
  BY <1>1 DEF OneUpdate, Rest
<1>6. OpenIsServed'
  BY StillServed DEF Rest, Authenticate, rowVars, historyVars
<1> QED  BY <1>3, <1>4, <1>5, <1>6 DEF Rest, Nobody, Authenticate, rowVars

LEMMA CreateKeepsRest ==
    ASSUME TypeOK, Rest, NEW r \in Request, NEW u \in User, CreateUser(r, u)
    PROVE  Rest'
<1>1. req'[r].phase = "idle" /\ \A o \in Request \ {r} : req'[o] = req[o]
  BY EndsFields DEF CreateUser
<1>2. /\ member[u].role = "none" /\ ~member[u].active
      /\ member'[u].role # "none"
      /\ \A w \in User \ {u} : member'[w] = member[w] /\ grants'[w] = grants[w]
      /\ UNCHANGED <<conv, raced, kept>>
  BY DEF CreateUser, Rest, Nobody, TypeOK, historyVars
<1>3. Nobody'
  BY <1>2 DEF Nobody, Rest
<1>4. OpenIsServed'
  BY <1>2 DEF OpenIsServed, Entitled, Rest
<1>5. ASSUME NEW o \in Request, o # r
      PROVE  Held(o)'
  <2>1. Held(o) /\ req'[o] = req[o]
    BY <1>1, <1>5 DEF Rest
  <2>2. HasActor(o)' /\ SeenHolds(o)'
    BY <1>2, <2>1 DEF Held, HasActor, SeenHolds
  <2>3. ChecksHold(o)'
    BY <1>2, <2>1 DEF Held, ChecksHold, Entitled
  <2>4. req[o].phase = "updating" => req[o].subject \in User \ {u}
    BY <1>2, <2>1 DEF Held, Preserves
  <2>5. Preserves(o)' /\ Covers(o)'
    BY <1>2, <2>1, <2>4 DEF Held, Preserves, Covers, EntitledAfter
  <2> QED  BY <2>2, <2>3, <2>5 DEF Held
<1>6. OneUpdate'
  BY <1>1 DEF OneUpdate, Rest
<1> QED  BY <1>1, <1>3, <1>4, <1>5, <1>6, EndedHolds DEF Rest

\* What an update is to leave, computed from what its session sees.
LEMMA UpdateComputes ==
    ASSUME TypeOK, Rest, NEW r \in Request, NEW u \in User, NEW p \in Patch, UpdateUser(r, u, p)
    PROVE  LET seen == View(r, u)
               after == Stored(u, seen, p)
           IN  /\ after.role # "none"
               /\ req[r].actor = u => after = member[u]
               /\ Tells(u, p) = {} /\ (req[r].actor # u \/ ~req[r].overtaken) =>
                     after = member[u] /\ (after.role = "admin" \/ Target(u, seen, p) = grants[u])
               /\ Tells(u, p) \subseteq {u}
               /\ \A c \in Conversation :
                    conv[c].status = "open" /\ conv[c].assignee = u /\ c \notin raced \cup kept =>
                        \/ c \in Releasable(u, seen, p)
                        \/ after.active /\ (after.role = "admin" \/ ChannelOf[c] \in Target(u, seen, p))
                        \/ member[u].role = "admin" /\ after.role = "agent"
<1> DEFINE seen == View(r, u)
           after == Stored(u, seen, p)
<1>1. p.role \in Role /\ p.sent \in BOOLEAN /\ p.active \in {NONE, "yes", "no"}
  BY DEF Patch, Role, NONE
<1>2. /\ member[u].role \in {"agent", "admin"} /\ member[u].active \in BOOLEAN
      /\ member[u] = [role |-> member[u].role, active |-> member[u].active]
  BY DEF UpdateUser, TypeOK, Member, Role
<1>3. req[r].role = "admin" /\ (req[r].actor = u => p.active # "no" /\ p.role # "agent")
  BY DEF UpdateUser, MayPatch
<1>4. after = [role |-> after.role, active |-> after.active]
  BY DEF Stored
<1>5. Tells(u, p) \subseteq {u} /\ (Tells(u, p) = {} => p.role = NONE /\ p.active = NONE /\ ~p.sent)
  BY DEF Tells
<1>6. CASE req[r].actor = u
  <2>1. seen.role = "admin" /\ seen.active = TRUE
    BY <1>3, <1>6 DEF View
  <2>2. PatchedRole(seen, p) = "admin" /\ PatchedActive(seen, p) = TRUE
    BY <1>1, <1>3, <1>6, <2>1 DEF PatchedRole, PatchedActive, Role, NONE
  <2>3. after = member[u]
    BY <1>2, <2>1, <2>2 DEF Stored
  <2>4. Target(u, seen, p) = {}
    BY <2>2 DEF Target
  <2>5. ~req[r].overtaken => member[u].role = "admin"
    <3>1. req[r].phase = "ready" /\ SeenHolds(r)
      BY DEF UpdateUser, Rest, Held
    <3> QED  BY <1>3, <1>6, <3>1 DEF SeenHolds
  <2>6. ASSUME NEW c \in Conversation, conv[c].status = "open", conv[c].assignee = u,
               c \notin raced \cup kept, c \notin Releasable(u, seen, p)
        PROVE  after.active /\ after.role = "admin"
    <3>1. member[u].active /\ (member[u].role = "admin" \/ ChannelOf[c] \in grants[u])
      BY <2>6 DEF Rest, OpenIsServed, Entitled
    <3>2. ChannelOf[c] \notin grants[u] \ Target(u, seen, p)
      BY <2>2, <2>6 DEF Releasable
    <3> HIDE DEF seen, after
    <3> QED  BY <3>1, <3>2, <2>3, <2>4
  <2> QED  BY <1>2, <1>5, <1>6, <2>3, <2>5, <2>6
<1>7. CASE req[r].actor # u
  <2>1. seen = member[u]
    BY <1>7 DEF View
  <2>2. after.role = PatchedRole(seen, p) /\ after.active = PatchedActive(seen, p)
    BY <2>1 DEF Stored
  <2>3. after.role \in {"agent", "admin"}
    BY <1>1, <1>2, <2>1, <2>2 DEF PatchedRole, Role, NONE
  <2>4. ASSUME Tells(u, p) = {}
        PROVE  after = member[u] /\ (after.role = "admin" \/ Target(u, seen, p) = grants[u])
    <3>1. p.role = NONE /\ p.active = NONE /\ ~p.sent
      BY <2>4, <1>5
    <3>2. after = member[u]
      BY <3>1, <1>2, <1>4, <2>1, <2>2 DEF PatchedRole, PatchedActive
    <3> QED  BY <3>1, <3>2, <1>2, <2>1, <2>2 DEF Target
  <2>5. ASSUME NEW c \in Conversation, conv[c].status = "open", conv[c].assignee = u,
               c \notin raced \cup kept, c \notin Releasable(u, seen, p)
        PROVE  \/ after.active /\ (after.role = "admin" \/ ChannelOf[c] \in Target(u, seen, p))
               \/ member[u].role = "admin" /\ after.role = "agent"
    <3>1. member[u].role = "admin" \/ ChannelOf[c] \in grants[u]
      BY <2>5 DEF Rest, OpenIsServed, Entitled
    <3>2. after.active /\ ChannelOf[c] \notin grants[u] \ Target(u, seen, p)
      BY <2>2, <2>5 DEF Releasable
    <3> QED  BY <3>1, <3>2, <2>3
  <2> QED  BY <1>5, <1>7, <2>3, <2>4, <2>5
<1> QED  BY <1>6, <1>7

LEMMA UpdateKeepsRest ==
    ASSUME TypeOK, Rest, NEW r \in Request, NEW u \in User, NEW p \in Patch, UpdateUser(r, u, p)
    PROVE  Rest'
<1>1. /\ req'[r].phase = "updating" /\ req'[r].subject = u
      /\ req'[r].actor = req[r].actor /\ req'[r].role = req[r].role
      /\ req'[r].overtaken = req[r].overtaken
      /\ req'[r].after = Stored(u, View(r, u), p) /\ req'[r].target = Target(u, View(r, u), p)
      /\ req'[r].found = Releasable(u, View(r, u), p) /\ req'[r].tells = Tells(u, p)
      /\ \A o \in Request \ {r} : req'[o] = req[o]
  BY DEF UpdateUser, TypeOK, RequestState
<1>2. UNCHANGED <<member, grants, conv, raced, kept>>
  BY DEF UpdateUser, rowVars, historyVars
<1>3. HasActor(r)' /\ SeenHolds(r)' /\ ChecksHold(r)'
  BY <1>1, <1>2 DEF UpdateUser, Rest, Held, HasActor, SeenHolds, ChecksHold
<1>4. member[u].role # "none"
  BY DEF UpdateUser
<1>5. Preserves(r)' /\ Covers(r)'
  BY <1>1, <1>2, <1>4, UpdateComputes DEF Preserves, Covers, EntitledAfter
<1>6. \A o \in Request \ {r} : Held(o)'
  BY <1>1, <1>2, OthersHold DEF Rest
<1>7. OneUpdate'
  BY <1>1 DEF OneUpdate, Rest, UpdateUser, LockedMember
<1>8. OpenIsServed'
  BY <1>2, StillServed DEF Rest
<1> QED  BY <1>2, <1>3, <1>5, <1>6, <1>7, <1>8 DEF Rest, Nobody, Held

\* All that the step leaves of a request but its flag overtaken.
SameRequest(o) ==
    /\ req'[o].phase = req[o].phase /\ req'[o].actor = req[o].actor
    /\ req'[o].role = req[o].role /\ req'[o].subject = req[o].subject
    /\ req'[o].conv = req[o].conv /\ req'[o].after = req[o].after
    /\ req'[o].target = req[o].target /\ req'[o].found = req[o].found
    /\ req'[o].tells = req[o].tells

\* What the commit of an update does to rows and requests.
LEMMA CommitEffect ==
    ASSUME TypeOK, Rest, NEW r \in Request, CommitUpdate(r)
    PROVE  LET u == req[r].subject
           IN  /\ u \in User
               /\ req[r].phase = "updating" /\ req'[r].phase \in {"idle", "announcing"}
               /\ member'[u] = req[r].after /\ grants'[u] = req[r].target
               /\ \A w \in User \ {u} : member'[w] = member[w] /\ grants'[w] = grants[w]
               /\ \A o \in Request \ {r} :
                    /\ SameRequest(o)
                    /\ IF u = ReliesOn(o) THEN req'[o].overtaken
                       ELSE req'[o].overtaken = req[o].overtaken
               /\ \A c \in Conversation :
                    /\ c \in Released(r) => conv'[c].status = "new"
                    /\ c \notin Released(r) =>
                          conv'[c] = conv[c] /\ (c \in raced \cup kept => c \in raced' \cup kept')
                    /\ /\ member[u].role = "admin" /\ req[r].after.role = "agent"
                       /\ conv'[c].assignee = u
                       => c \in kept'
<1>1. req[r].phase = "updating" /\ req[r].subject \in User
  BY DEF CommitUpdate, Rest, Held, Preserves
<1>2. /\ req'[r].phase \in {"idle", "announcing"}
      /\ \A o \in Request \ {r} :
            req'[o] = IF req[r].subject = ReliesOn(o) THEN [req[o] EXCEPT !.overtaken = TRUE] ELSE req[o]
  BY DEF CommitUpdate, Idle
<1>3. \A o \in Request \ {r} :
         /\ SameRequest(o)
         /\ IF req[r].subject = ReliesOn(o) THEN req'[o].overtaken
            ELSE req'[o].overtaken = req[o].overtaken
  BY ZenonT(60), <1>2 DEF TypeOK, RequestState, SameRequest
<1>4. /\ member' = [member EXCEPT ![req[r].subject] = req[r].after]
      /\ grants' = [grants EXCEPT ![req[r].subject] = req[r].target]
      /\ conv' = Queued(Released(r))
  BY DEF CommitUpdate
<1>5. \A c \in Conversation :
         /\ c \in Released(r) => conv'[c].status = "new"
         /\ c \notin Released(r) => conv'[c] = conv[c]
  BY <1>4 DEF Queued
<1>6. \A c \in Conversation \ Released(r) : c \in raced \cup kept => c \in raced' \cup kept'
  BY DEF CommitUpdate
<1>7. /\ member[req[r].subject].role = "admin" /\ req[r].after.role = "agent"
      => \A c \in Conversation : conv'[c].assignee = req[r].subject => c \in kept'
  BY DEF CommitUpdate
<1>8. /\ member'[req[r].subject] = req[r].after /\ grants'[req[r].subject] = req[r].target
      /\ \A w \in User \ {req[r].subject} : member'[w] = member[w] /\ grants'[w] = grants[w]
  BY <1>1, <1>4 DEF TypeOK
<1> QED  BY <1>1, <1>2, <1>3, <1>5, <1>6, <1>7, <1>8

LEMMA CommitKeepsRest ==
    ASSUME TypeOK, Rest, NEW r \in Request, CommitUpdate(r)
    PROVE  Rest'
<1> DEFINE u == req[r].subject
<1>1. /\ u \in User
      /\ req[r].phase = "updating" /\ req'[r].phase \in {"idle", "announcing"}
      /\ member'[u] = req[r].after /\ grants'[u] = req[r].target
      /\ \A w \in User \ {u} : member'[w] = member[w] /\ grants'[w] = grants[w]
  BY CommitEffect
<1>2. \A o \in Request \ {r} :
         /\ SameRequest(o)
         /\ IF u = ReliesOn(o) THEN req'[o].overtaken ELSE req'[o].overtaken = req[o].overtaken
  BY CommitEffect
<1>3. \A c \in Conversation :
         conv'[c].status = "open" /\ c \notin raced' \cup kept' =>
             /\ conv'[c] = conv[c] /\ c \notin raced \cup kept /\ c \notin Released(r)
             /\ ~(member[u].role = "admin" /\ req[r].after.role = "agent" /\ conv[c].assignee = u)
  BY CommitEffect
<1>4. Covers(r) /\ Preserves(r)
  BY DEF Rest, Held
<1> HIDE DEF u
<1>5. Nobody'
  BY <1>1, <1>4 DEF Nobody, Rest, Preserves, u
<1>6. ASSUME NEW c \in Conversation, conv'[c].status = "open", c \notin raced' \cup kept'
      PROVE  (conv[c].assignee \in User /\ Entitled(conv[c].assignee, ChannelOf[c]))'
  <2>1. /\ conv'[c] = conv[c] /\ conv[c].status = "open" /\ c \notin raced \cup kept /\ c \notin Released(r)
        /\ ~(member[u].role = "admin" /\ req[r].after.role = "agent" /\ conv[c].assignee = u)
    BY <1>3, <1>6
  <2>2. conv[c].assignee \in User /\ Entitled(conv[c].assignee, ChannelOf[c])
    BY <2>1 DEF Rest, OpenIsServed
  <2>3. CASE conv[c].assignee = u
    <3>1. c \notin req[r].found
      BY <2>1, <2>3 DEF Released, u
    <3>2. EntitledAfter(r, ChannelOf[c])
      BY <1>1, <1>4, <2>1, <2>3, <3>1 DEF Covers, u
    <3> QED  BY <1>1, <2>1, <2>2, <2>3, <3>2 DEF EntitledAfter, Entitled
  <2> QED  BY <1>1, <2>1, <2>2, <2>3 DEF Entitled
<1>7. OpenIsServed'
  BY <1>6 DEF OpenIsServed
<1>8. OneUpdate'
  BY <1>1, <1>2 DEF SameRequest, OneUpdate, Rest
<1>9. ASSUME NEW o \in Request, o # r
      PROVE  Held(o)'
  <2>1. Held(o)
    BY DEF Rest
  <2>2. HasActor(o)'
    BY <1>2, <1>9, <2>1 DEF SameRequest, Held, HasActor
  <2>3. SeenHolds(o)'
    <3> SUFFICES ASSUME req[o].phase \in {"ready", "updating"}, ~req'[o].overtaken
                 PROVE  member'[req[o].actor] = [role |-> req[o].role, active |-> TRUE]
      BY <1>2, <1>9 DEF SameRequest, SeenHolds
    <3>1. u # req[o].actor /\ ~req[o].overtaken /\ req[o].actor \in User
      BY <1>2, <1>9, <2>1 DEF ReliesOn, Held, HasActor
    <3> QED  BY <1>1, <2>1, <3>1 DEF Held, SeenHolds
  <2>4. ChecksHold(o)'
    <3> SUFFICES ASSUME req[o].phase = "assigning"
                 PROVE  /\ req[o].subject \in User /\ req[o].conv \in Conversation
                        /\ req'[o].overtaken \/ Entitled(req[o].subject, ChannelOf[req[o].conv])'
      BY <1>2, <1>9 DEF SameRequest, ChecksHold, Entitled
    <3>1. CASE u = req[o].subject
      BY <1>2, <1>9, <2>1, <3>1 DEF SameRequest, ReliesOn, Held, ChecksHold
    <3>2. CASE u # req[o].subject
      BY <1>1, <1>2, <1>9, <2>1, <3>2 DEF SameRequest, ReliesOn, Held, ChecksHold, Entitled
    <3> QED  BY <3>1, <3>2
  <2>5. req[o].phase = "updating" => req[o].subject \in User \ {u}
    BY <1>1, <1>9, <2>1 DEF Rest, OneUpdate, Held, Preserves, u
  <2>6. Preserves(o)'
    <3> SUFFICES ASSUME req[o].phase = "updating"
                 PROVE  Preserves(o)'
      BY <1>2, <1>9 DEF SameRequest, Preserves
    <3>1. member'[req[o].subject] = member[req[o].subject] /\ grants'[req[o].subject] = grants[req[o].subject]
      BY <1>1, <2>5
    <3>2. req[o].actor = req[o].subject => req'[o].overtaken = req[o].overtaken
      BY <1>2, <1>9, <2>5 DEF ReliesOn
    <3> QED  BY <1>2, <1>9, <2>1, <3>1, <3>2 DEF SameRequest, Held, Preserves
  <2>7. Covers(o)'
    BY <1>1, <1>2, <1>3, <1>9, <2>1, <2>5 DEF SameRequest, Held, Covers, EntitledAfter
  <2> QED  BY <2>2, <2>3, <2>4, <2>6, <2>7 DEF Held
<1> QED  BY <1>1, <1>5, <1>7, <1>8, <1>9, EndedHolds DEF Rest

LEMMA ValidateKeepsRest ==
    ASSUME TypeOK, Rest, NEW r \in Request, NEW c \in Conversation, NEW v \in User,
           ValidateAssignee(r, c, v)
    PROVE  Rest'
<1>1. /\ req[r].phase = "ready"
      /\ req'[r].phase = "assigning" /\ req'[r].subject = v /\ req'[r].conv = c
      /\ req'[r].actor = req[r].actor /\ req'[r].role = req[r].role
      /\ req'[r].overtaken = (req[r].overtaken /\ v = req[r].actor)
      /\ \A o \in Request \ {r} : req'[o] = req[o]
  BY DEF ValidateAssignee, TypeOK, RequestState
<1>2. UNCHANGED <<member, grants, conv, raced, kept>>
  BY DEF ValidateAssignee, rowVars, historyVars
<1>3. HasActor(r)' /\ SeenHolds(r)' /\ Preserves(r)' /\ Covers(r)'
  BY <1>1 DEF Rest, Held, HasActor, SeenHolds, Preserves, Covers
<1>4. ASSUME ~(req[r].overtaken /\ v = req[r].actor)
      PROVE  Entitled(v, ChannelOf[c])
  <2>1. member[v].active /\ (View(r, v).role = "admin" \/ ChannelOf[c] \in grants[v])
    BY DEF ValidateAssignee, MayServe
  <2>2. SeenHolds(r)
    BY DEF Rest, Held
  <2>3. CASE v = req[r].actor
    BY <1>1, <1>4, <2>1, <2>2, <2>3 DEF SeenHolds, View, Entitled
  <2> QED  BY <2>1, <2>3 DEF View, Entitled
<1>5. ChecksHold(r)'
  BY <1>1, <1>2, <1>4 DEF ChecksHold, Entitled
<1>6. \A o \in Request \ {r} : Held(o)'
  BY <1>1, <1>2, OthersHold DEF Rest
<1>7. OneUpdate'
  BY <1>1 DEF OneUpdate, Rest
<1>8. OpenIsServed'
  BY <1>2, StillServed DEF Rest
<1> QED  BY <1>2, <1>3, <1>5, <1>6, <1>7, <1>8 DEF Rest, Nobody, Held

LEMMA AssignmentKeepsRest ==
    ASSUME TypeOK, Rest, NEW r \in Request, CommitAssignment(r)
    PROVE  Rest'
<1> DEFINE c == req[r].conv
           v == req[r].subject
<1>1. req'[r].phase = "idle" /\ \A o \in Request \ {r} : req'[o] = req[o]
  BY EndsFields DEF CommitAssignment
<1>2. UNCHANGED <<member, grants>> /\ kept' = kept \ {c}
  BY DEF CommitAssignment
<1>3. /\ c \in Conversation /\ v \in User
      /\ req[r].overtaken \/ Entitled(v, ChannelOf[c])
  BY DEF CommitAssignment, Rest, Held, ChecksHold
<1>4. /\ conv'[c].status = "open" /\ conv'[c].assignee = v
      /\ \A d \in Conversation \ {c} : conv'[d] = conv[d]
  BY <1>3 DEF CommitAssignment, TypeOK
<1>5. \A d \in Conversation \ {c} : d \notin raced' \cup kept' => d \notin raced \cup kept
  BY DEF CommitAssignment
<1>6. c \notin raced' => ~req[r].overtaken /\ ~LockedMember(v)
  BY DEF CommitAssignment
<1> HIDE DEF c, v
<1>7. OpenIsServed'
  BY <1>2, <1>3, <1>4, <1>5, <1>6 DEF OpenIsServed, Entitled, Rest
<1>8. ASSUME NEW o \in Request, o # r
      PROVE  Held(o)'
  <2>1. HasActor(o)' /\ SeenHolds(o)' /\ ChecksHold(o)' /\ Preserves(o)'
    BY <1>1, <1>2, <1>8 DEF Rest, Held, HasActor, SeenHolds, ChecksHold, Preserves, Entitled
  <2>2. Covers(o)
    BY DEF Rest, Held
  <2>3. req[o].phase = "updating" /\ c \notin raced' => req[o].subject # v
    BY <1>6 DEF LockedMember
  <2>4. Covers(o)'
    BY <1>1, <1>2, <1>4, <1>5, <1>8, <2>2, <2>3 DEF Covers, EntitledAfter
  <2> QED  BY <2>1, <2>4 DEF Held
<1>9. OneUpdate'
  BY <1>1 DEF OneUpdate, Rest
<1> QED  BY <1>1, <1>2, <1>7, <1>8, <1>9, EndedHolds DEF Rest, Nobody

\* Releasing, closing or reopening a conversation assigns none.
LEMMA QueueingKeepsRest ==
    ASSUME TypeOK, Rest, NEW r \in Request, NEW c \in Conversation,
           ReleaseConversation(r, c) \/ CloseConversation(r, c) \/ Reopen(r, c)
    PROVE  Rest'
<1>1. UNCHANGED <<member, grants>> /\ Ends(r)
  BY DEF ReleaseConversation, CloseConversation, Reopen
<1>2. conv'[c].status # "open" /\ \A d \in Conversation \ {c} : conv'[d] = conv[d]
  BY DEF ReleaseConversation, CloseConversation, Reopen, Queued, TypeOK, ConversationState
<1>3. \A d \in Conversation \ {c} : d \notin raced' \cup kept' => d \notin raced \cup kept
  BY DEF ReleaseConversation, CloseConversation, Reopen, historyVars
<1> QED  BY <1>1, <1>2, <1>3, EndsFields, EndingKeepsRest

LEMMA TenantKeepsRest ==
    ASSUME TypeOK, Rest, NEW r \in Request, NEW active \in BOOLEAN, UpdateTenant(r, active)
    PROVE  Rest'
<1>1. UNCHANGED <<member, grants, conv, raced, kept>>
  BY DEF UpdateTenant, historyVars
<1>2. req'[r].phase \in {"idle", "announcing"} /\ \A o \in Request \ {r} : req'[o] = req[o]
  BY DEF UpdateTenant, TypeOK, Idle
<1> QED  BY <1>1, <1>2, EndingKeepsRest

LEMMA EndingStepsKeepRest ==
    ASSUME TypeOK, Rest, NEW r \in Request, Abandon(r) \/ Announce(r)
    PROVE  Rest'
BY EndsFields, EndingKeepsRest DEF Abandon, Announce, rowVars, historyVars

-----------------------------------------------------------------------------
(* The theorems. *)

LEMMA InitHolds == Init => IInv
<1> SUFFICES ASSUME Init
             PROVE  IInv
  OBVIOUS
<1>1. \A r \in Request : req[r] = Idle
  BY DEF Init
<1>2. TypeOK
  <2>1. conv \in [Conversation -> ConversationState]
    BY DEF Init, ConversationState
  <2>2. req \in [Request -> RequestState]
    BY IdleTyped DEF Init
  <2>3. member \in [User -> Member]
    <3>1. {NoMember, [role |-> "agent", active |-> TRUE], [role |-> "admin", active |-> TRUE]} \subseteq Member
      BY DEF Member, Role, NoMember
    <3> QED  BY <3>1 DEF Init
  <2> QED  BY <2>1, <2>2, <2>3 DEF Init, TypeOK
<1>3. Nobody
  BY DEF Init, Nobody, NoMember
<1>4. OneUpdate /\ OpenIsServed
  BY <1>1, IdleFields DEF Init, OneUpdate, OpenIsServed
<1>5. \A r \in Request : Held(r)
  BY <1>1, IdleFields DEF Held, HasActor, SeenHolds, ChecksHold, Preserves, Covers
<1> QED  BY <1>2, <1>3, <1>4, <1>5 DEF IInv, Rest

LEMMA StepHolds == IInv /\ [Next]_vars => IInv'
<1> SUFFICES ASSUME IInv, [Next]_vars
             PROVE  IInv'
  OBVIOUS
<1>1. TypeOK'
  BY TypesStep DEF IInv, Rest
<1>2. CASE UNCHANGED vars
  BY <1>2 DEF vars, IInv, TypeOK, Rest, Nobody, OneUpdate, LockedMember, OpenIsServed, Entitled,
              Held, HasActor, SeenHolds, ChecksHold, Preserves, Covers, EntitledAfter
<1>3. CASE Next
  BY <1>1, <1>3, AuthenticateKeepsRest, EndingStepsKeepRest, CreateKeepsRest, UpdateKeepsRest,
     CommitKeepsRest, TenantKeepsRest, ValidateKeepsRest, AssignmentKeepsRest, QueueingKeepsRest
     DEF Next, RowStep, Administer, Serve, IInv
<1> QED  BY <1>2, <1>3

THEOREM Invariance == Spec => []IInv
BY InitHolds, StepHolds, PTL DEF Spec

\* The rows, requests and flags have their types in every reachable state.
THEOREM TypeCorrect == Spec => []TypeOK
<1>1. IInv => TypeOK
  BY DEF IInv
<1> QED  BY <1>1, Invariance, PTL

\* update_user and assign_conversation, on any number of processes, leave an
\* open conversation with somebody who is active and has its channel, save the
\* two cases OpenIsServed names.
THEOREM Served == Spec => []OpenIsServed
<1>1. IInv => OpenIsServed
  BY DEF IInv, Rest
<1> QED  BY <1>1, Invariance, PTL

\* One who is still an active administrator when update_user commits leaves the
\* tenant with one.
THEOREM AdministratorStays == Spec => AdministratorRemains
<1> DEFINE Keeps == \A r \in Request :
                      /\ req[r].phase = "updating" /\ req'[r].phase \notin {"updating", "ready"}
                      /\ \E u \in User : ActiveAdmin(u)
                      /\ ~\E u \in User : ActiveAdmin(u)'
                      => ~ActiveAdmin(req[r].actor)
<1>1. ASSUME IInv, [Next]_vars
      PROVE  [Keeps]_vars
  <2> SUFFICES ASSUME NEW r \in Request,
                      req[r].phase = "updating", req'[r].phase \notin {"updating", "ready"},
                      \E u \in User : ActiveAdmin(u), ActiveAdmin(req[r].actor)
               PROVE  \E u \in User : ActiveAdmin(u)'
    OBVIOUS
  <2>1. PICK a \in User : a = req[r].actor
    BY <1>1 DEF IInv, Rest, Held, HasActor
  <2>2. CASE member' = member
    BY <2>2 DEF ActiveAdmin
  <2>3. ASSUME NEW o \in Request, NEW u \in User, CreateUser(o, u)
        PROVE  ActiveAdmin(a)'
    <3>1. u # a
      BY <2>1, <2>3 DEF CreateUser, ActiveAdmin
    <3>2. \E w : member' = [member EXCEPT ![u] = w]
      BY <2>3 DEF CreateUser
    <3>3. member \in [User -> Member]
      BY <1>1 DEF IInv, TypeOK
    <3> QED  BY <2>1, <3>1, <3>2, <3>3 DEF ActiveAdmin
  <2>4. ASSUME NEW o \in Request, CommitUpdate(o)
        PROVE  ActiveAdmin(a)'
    <3>1. TypeOK /\ Rest
      BY <1>1 DEF IInv
    <3>2. o = r
      BY <2>4, <3>1, CommitEffect DEF SameRequest
    <3>3. req[r].actor = req[r].subject => req[r].after = member[req[r].subject]
      BY <3>1 DEF Rest, Held, Preserves
    <3> QED  BY <2>1, <2>4, <3>1, <3>2, <3>3, CommitEffect DEF ActiveAdmin
  <2>5. \/ member' = member
        \/ \E o \in Request : CommitUpdate(o) \/ \E u \in User : CreateUser(o, u)
    <3>1. CASE UNCHANGED vars
      BY <3>1 DEF vars
    <3>2. ASSUME NEW o \in Request,
                 \/ Abandon(o) \/ Announce(o) \/ CommitAssignment(o)
                 \/ \E u \in User : Authenticate(o, u) \/ \E p \in Patch : UpdateUser(o, u, p)
                 \/ \E active \in BOOLEAN : UpdateTenant(o, active)
                 \/ \E c \in Conversation :
                      \/ ReleaseConversation(o, c) \/ CloseConversation(o, c) \/ Reopen(o, c)
                      \/ \E v \in User : ValidateAssignee(o, c, v)
          PROVE  member' = member
      BY <3>2 DEF Authenticate, Abandon, UpdateUser, UpdateTenant, Announce, ValidateAssignee,
                  CommitAssignment, ReleaseConversation, CloseConversation, Reopen, rowVars
    <3> QED  BY <1>1, <3>1, <3>2 DEF Next, RowStep, Administer, Serve
  <2> QED  BY <2>1, <2>2, <2>3, <2>4, <2>5
<1> QED  BY <1>1, Invariance, PTL DEF Spec, AdministratorRemains

-----------------------------------------------------------------------------
(* Realtime. *)

RInv == IInv /\ SocketsOK /\ ScopeFollowsRights

-----------------------------------------------------------------------------
(* The composition. *)

LEMMA RowsStep == [NextRealtime]_allVars => [Next]_vars
<1> SUFFICES ASSUME NextRealtime
             PROVE  [Next]_vars
  BY DEF allVars
<1>1. \A r \in Request : Tell(r) => Announce(r)
  BY DEF Tell, Publish, PublishFails, AnnouncerDies
<1>2. SocketStep => UNCHANGED vars
  BY DEF SocketStep, Register, Disconnect, ReadScope, ListenerBreaks, ListenerReturns, HandleDisconnection
<1> QED  BY <1>1, <1>2 DEF NextRealtime, Next

\* The sockets change nothing of what the rows and requests do: whatever holds
\* of ChannelAccess holds beside them.
THEOREM Composition == SpecRealtime => Spec
<1>1. InitRealtime => Init
  BY DEF InitRealtime
<1> QED  BY <1>1, RowsStep, PTL DEF SpecRealtime, Spec

-----------------------------------------------------------------------------
(* Sockets. *)

Rights(u) == <<Active(u), ScopeOf(u)>>

\* A socket whose user's rights stay and whose disconnection stays on its way.
SocketFits(s) ==
    sock[s].phase # "closed" /\ s \notin missed /\ sock[s].user \notin strayed =>
        Fits(s) \/ DisconnectionComing(s)

LEMMA SockTyped ==
    ASSUME SocketsOK
    PROVE  /\ \A s \in Socket, w \in SocketState : [sock EXCEPT ![s] = w] \in [Socket -> SocketState]
           /\ \A users \in SUBSET User, p \in Process :
                 DisconnectLocal(users, p) \in [Socket -> SocketState]
           /\ \A users \in SUBSET User : Received(users) \in [Process -> [User -> Nat]]
           /\ \A users \in SUBSET User, p \in SUBSET Process : Outdated(users, p) \subseteq Socket
           /\ \A users \in SUBSET User, p \in Process : PassedBy(users, p) \subseteq Socket
BY DEF SocketsOK, SocketState, DisconnectLocal, Received, Outdated, PassedBy

LEMMA OpenTyped ==
    ASSUME SocketsOK, NEW s \in Socket, sock[s].phase # "closed"
    PROVE  sock[s].user \in User /\ sock[s].at \in Process /\ sock[s].phase \in {"opening", "open"}
BY DEF SocketsOK, SocketState, Closed

LEMMA Telling ==
    ASSUME TypeOK, NEW r \in Request, Announce(r)
    PROVE  /\ UNCHANGED <<member, grants, tenant, strayed>>
           /\ req[r].phase = "announcing" /\ req[r].tells \in SUBSET User
           /\ \A o \in Request \ {r} : req'[o] = req[o]
BY EndsFields DEF Announce, TypeOK, RequestState, rowVars, historyVars

LEMMA SocketTypesStep ==
    ASSUME TypeOK, SocketsOK, [NextRealtime]_allVars
    PROVE  SocketsOK'
<1>1. CASE UNCHANGED socketVars
  BY <1>1 DEF socketVars, SocketsOK
<1>2. ASSUME NEW r \in Request, Publish(r) \/ AnnouncerDies(r)
      PROVE  SocketsOK'
  <2>1. req[r].tells \in SUBSET User
    BY <1>2, Telling DEF Publish, AnnouncerDies
  <2> QED  BY <1>2, <2>1, SockTyped DEF Publish, AnnouncerDies, SocketsOK
<1>3. ASSUME NEW r \in Request, NEW p \in Process, PublishFails(r, p)
      PROVE  SocketsOK'
  <2>1. req[r].tells \in SUBSET User
    BY <1>3, Telling DEF PublishFails
  <2>2. sock' \in [Socket -> SocketState] /\ bus' \in [Process -> [User -> Nat]]
    <3>1. bus' = bus \/ bus' = Received(req[r].tells)
      BY <1>3 DEF PublishFails
    <3>2. sock' = DisconnectLocal(req[r].tells, p)
      BY <1>3 DEF PublishFails
    <3> QED  BY <2>1, <3>1, <3>2, SockTyped DEF SocketsOK
  <2>3. missed' \subseteq Socket
    BY <1>3, <2>1, SockTyped DEF PublishFails, SocketsOK, Listening
  <2> QED  BY <1>3, <2>2, <2>3 DEF PublishFails, SocketsOK
<1>4. ASSUME NEW s \in Socket, Register(s)
      PROVE  SocketsOK'
  <2>1. [sock[s] EXCEPT !.phase = "open"] \in SocketState
    BY SMTT(30), <1>4, OpenTyped DEF Register, SocketsOK, SocketState, Closed
  <2>2. sock' = [sock EXCEPT ![s] = [sock[s] EXCEPT !.phase = "open"]]
    BY <1>4 DEF Register
  <2> QED  BY <1>4, <2>1, <2>2, SockTyped DEF Register, SocketsOK
<1>5. ASSUME NEW s \in Socket, Disconnect(s)
      PROVE  SocketsOK'
  BY <1>5, SockTyped DEF Disconnect, SocketsOK, SocketState
<1>6. ASSUME NEW s \in Socket, NEW p \in Process, ReadScope(s, p)
      PROVE  SocketsOK'
  <2>1. \A u \in User : ScopeOf(u) \in SUBSET (Channel \cup {Everything})
    BY DEF ScopeOf, TypeOK
  <2>2. \A u \in User : [phase |-> "opening", user |-> u, at |-> p, scope |-> ScopeOf(u)] \in SocketState
    BY <2>1 DEF SocketState
  <2> QED  BY <1>6, <2>2, SockTyped DEF ReadScope, SocketsOK
<1>7. ASSUME NEW p \in Process, ListenerBreaks(p)
      PROVE  SocketsOK'
  <2>1. missed' \subseteq Socket
    BY <1>7 DEF ListenerBreaks, SocketsOK, Outdated
  <2>2. bus' \in [Process -> [User -> Nat]]
    <3>1. [u \in User |-> 0] \in [User -> Nat]
      OBVIOUS
    <3> QED  BY <1>7, <3>1 DEF ListenerBreaks, SocketsOK
  <2>3. listening' \in [Process -> BOOLEAN] /\ breaks' \in Nat /\ sock' = sock
    BY <1>7 DEF ListenerBreaks, SocketsOK
  <2> QED  BY <2>1, <2>2, <2>3 DEF SocketsOK
<1>8. ASSUME NEW p \in Process, ListenerReturns(p)
      PROVE  SocketsOK'
  BY <1>8 DEF ListenerReturns, SocketsOK
<1>9. ASSUME NEW p \in Process, NEW u \in User, HandleDisconnection(p, u)
      PROVE  SocketsOK'
  <2>1. bus' \in [Process -> [User -> Nat]]
    BY <1>9 DEF HandleDisconnection, SocketsOK
  <2>2. sock' \in [Socket -> SocketState] /\ missed' \subseteq Socket
    BY ZenonT(60), <1>9, SockTyped DEF HandleDisconnection, SocketsOK
  <2> QED  BY <1>9, <2>1, <2>2 DEF HandleDisconnection, SocketsOK
<1>10. UNCHANGED allVars => UNCHANGED socketVars
  BY DEF allVars, socketVars
<1> QED
  BY <1>1, <1>2, <1>3, <1>4, <1>5, <1>6, <1>7, <1>8, <1>9, <1>10 DEF NextRealtime, Tell, SocketStep

-----------------------------------------------------------------------------
(* Rights that change are announced. *)

LEMMA CommitAnnounces ==
    ASSUME IInv, NEW r \in Request, CommitUpdate(r), NEW u \in User, u \notin strayed'
    PROVE  \/ UNCHANGED Rights(u)
           \/ req'[r].phase = "announcing" /\ u \in req'[r].tells
<1> DEFINE v == req[r].subject
<1>1. TypeOK /\ Rest
  BY DEF IInv
<1>2. /\ v \in User /\ req[r].phase = "updating"
      /\ member'[v] = req[r].after /\ grants'[v] = req[r].target
      /\ \A w \in User \ {v} : member'[w] = member[w] /\ grants'[w] = grants[w]
  BY <1>1, CommitEffect
<1>3. tenant' = tenant
  BY DEF CommitUpdate
<1>4. CASE u # v
  BY <1>2, <1>3, <1>4 DEF Rights, Active, ScopeOf
<1>5. CASE u = v /\ req[r].tells # {}
  <2>1. req'[r].phase = "announcing" /\ req'[r].tells = req[r].tells
    BY <1>1, <1>5 DEF CommitUpdate, TypeOK, Idle
  <2> QED  BY <1>1, <1>2, <1>5, <2>1 DEF Rest, Held, Preserves
<1>6. CASE u = v /\ req[r].tells = {}
  <2>1. req[r].actor # v \/ ~req[r].overtaken
    BY <1>6 DEF CommitUpdate
  <2>2. req[r].after = member[v] /\ (req[r].after.role = "admin" \/ req[r].target = grants[v])
    BY <1>1, <1>2, <1>6, <2>1 DEF Rest, Held, Preserves
  <2> QED  BY <1>2, <1>3, <1>6, <2>2 DEF Rights, Active, ScopeOf
<1> QED  BY <1>4, <1>5, <1>6

\* A step of a request on the rows keeps announcements and disconnections, and
\* announces what it changes.
LEMMA RowStepAnnounces ==
    ASSUME IInv, NEW r \in Request, RowStep(r), NEW u \in User, u \notin strayed'
    PROVE  /\ u \notin strayed
           /\ \/ Rights(u)' = Rights(u)
              \/ ~Active(u) /\ req[r].phase # "announcing"
              \/ req'[r].phase = "announcing" /\ u \in req'[r].tells
           /\ \A o \in Request : req[o].phase = "announcing" => req'[o].phase = "announcing" /\ req'[o].tells = req[o].tells
<1>1. TypeOK /\ Rest
  BY DEF IInv
<1>2. CASE CommitUpdate(r)
  <2>1. u \notin strayed
    BY <1>2 DEF CommitUpdate
  <2>2. \A o \in Request \ {r} : req'[o].phase = req[o].phase /\ req'[o].tells = req[o].tells
    BY <1>1, <1>2, CommitEffect DEF SameRequest
  <2>3. req[r].phase = "updating"
    BY <1>2 DEF CommitUpdate
  <2> QED  BY <1>2, <2>1, <2>2, <2>3, CommitAnnounces
<1>3. ASSUME NEW active \in BOOLEAN, UpdateTenant(r, active)
      PROVE  /\ u \notin strayed /\ req[r].phase = "idle"
             /\ \A o \in Request \ {r} : req'[o] = req[o]
             /\ \/ Rights(u)' = Rights(u)
                \/ ~Active(u)
                \/ req'[r].phase = "announcing" /\ u \in req'[r].tells
  <2>1. /\ strayed' = strayed /\ req[r].phase = "idle"
        /\ UNCHANGED <<member, grants>> /\ tenant' = active
        /\ ~active => req'[r].phase = "announcing" /\ req'[r].tells = User
        /\ \A o \in Request \ {r} : req'[o] = req[o]
    BY <1>1, <1>3 DEF UpdateTenant, historyVars, TypeOK, Idle
  <2>2. CASE active /\ tenant
    BY <1>1, <2>1, <2>2 DEF Rights, Active, ScopeOf, TypeOK
  <2> QED  BY <2>1, <2>2 DEF Active
<1>4. ASSUME NEW v \in User, CreateUser(r, v)
      PROVE  /\ u \notin strayed /\ req[r].phase = "ready"
             /\ \A o \in Request \ {r} : req'[o] = req[o]
             /\ Rights(u)' = Rights(u) \/ ~Active(u)
  <2>1. /\ strayed' = strayed /\ req[r].phase = "ready" /\ member[v].role = "none" /\ tenant' = tenant
        /\ \A o \in Request \ {r} : req'[o] = req[o]
        /\ \A w \in User \ {v} : member'[w] = member[w] /\ grants'[w] = grants[w]
    BY <1>1, <1>4, EndsFields DEF CreateUser, historyVars, TypeOK
  <2>2. CASE u = v
    BY <2>1, <2>2 DEF Active
  <2>3. CASE u # v
    BY <2>1, <2>3 DEF Rights, Active, ScopeOf
  <2> QED  BY <2>1, <2>2, <2>3
<1>5. ASSUME \/ Abandon(r) \/ CommitAssignment(r)
             \/ \E v \in User : Authenticate(r, v) \/ \E p \in Patch : UpdateUser(r, v, p)
             \/ \E c \in Conversation :
                  \/ ReleaseConversation(r, c) \/ CloseConversation(r, c) \/ Reopen(r, c)
                  \/ \E v \in User : ValidateAssignee(r, c, v)
      PROVE  /\ UNCHANGED <<member, grants, tenant, strayed>> /\ req[r].phase # "announcing"
             /\ \A o \in Request \ {r} : req'[o] = req[o]
  <2>1. UNCHANGED <<member, grants, tenant, strayed>> /\ req[r].phase # "announcing"
    BY <1>5 DEF Authenticate, Abandon, UpdateUser, ValidateAssignee, CommitAssignment,
                ReleaseConversation, CloseConversation, Reopen, rowVars, historyVars
  <2>2. \E w : req' = [req EXCEPT ![r] = w]
    BY <1>5 DEF Authenticate, Abandon, UpdateUser, ValidateAssignee, CommitAssignment,
                ReleaseConversation, CloseConversation, Reopen, Ends
  <2> QED  BY <1>1, <2>1, <2>2 DEF TypeOK
<1>6. UNCHANGED <<member, grants, tenant>> => Rights(u)' = Rights(u)
  BY DEF Rights, Active, ScopeOf
<1> QED  BY <1>2, <1>3, <1>4, <1>5, <1>6 DEF RowStep, Administer, Serve

LEMMA RowStepFits ==
    ASSUME IInv, SocketsOK, ScopeFollowsRights, NEW r \in Request, RowStep(r), UNCHANGED socketVars
    PROVE  ScopeFollowsRights'
<1> SUFFICES ASSUME NEW s \in Socket, sock[s].phase # "closed", s \notin missed,
                    sock[s].user \notin strayed'
             PROVE  (Fits(s) \/ DisconnectionComing(s))'
  BY DEF ScopeFollowsRights, socketVars
<1>1. PICK u \in User : u = sock[s].user
  BY OpenTyped
<1>2. sock' = sock /\ bus' = bus
  BY DEF socketVars
<1>3. /\ u \notin strayed
      /\ \/ Rights(u)' = Rights(u)
         \/ ~Active(u) /\ req[r].phase # "announcing"
         \/ req'[r].phase = "announcing" /\ u \in req'[r].tells
      /\ \A o \in Request : req[o].phase = "announcing" => req'[o].phase = "announcing" /\ req'[o].tells = req[o].tells
  BY <1>1, RowStepAnnounces
<1>4. DisconnectionComing(s) => DisconnectionComing(s)'
  BY <1>2, <1>3 DEF DisconnectionComing
<1>5. Fits(s) \/ DisconnectionComing(s)
  BY <1>1, <1>3 DEF ScopeFollowsRights
<1>6. CASE Rights(u)' = Rights(u) /\ Fits(s)
  BY <1>1, <1>2, <1>6 DEF Rights, Fits
<1>7. CASE req'[r].phase = "announcing" /\ u \in req'[r].tells
  BY <1>1, <1>2, <1>7 DEF DisconnectionComing
<1> QED  BY <1>1, <1>3, <1>4, <1>5, <1>6, <1>7 DEF Fits

-----------------------------------------------------------------------------
(* Announcements reach the sockets, or leave them in missed. *)

\* A socket that a step leaves as it is, whose rights stay.
LEMMA Undisturbed ==
    ASSUME SocketsOK, ScopeFollowsRights, NEW s \in Socket,
           sock[s].phase # "closed", s \notin missed, sock[s].user \notin strayed,
           sock'[s].user = sock[s].user, sock'[s].scope = sock[s].scope, sock'[s].at = sock[s].at,
           UNCHANGED <<member, grants, tenant>>,
           DisconnectionComing(s) => DisconnectionComing(s)' \/ Fits(s)
    PROVE  (Fits(s) \/ DisconnectionComing(s))'
BY DEF ScopeFollowsRights, Fits, Active, ScopeOf

\* What a message, or its failure, does to sockets and queues.
LEMMA TellEffect ==
    ASSUME SocketsOK, NEW r \in Request, req[r].tells \in SUBSET User, Tell(r)
    PROVE  /\ missed \subseteq missed'
           /\ \A s \in Socket : sock'[s].phase # "closed" => sock'[s] = sock[s]
           /\ \A p \in Process, u \in User : bus'[p][u] \in Nat /\ bus'[p][u] >= bus[p][u]
<1>1. missed \subseteq missed'
  BY DEF Tell, Publish, PublishFails, AnnouncerDies
<1>2. bus' = bus \/ bus' = Received(req[r].tells)
  BY DEF Tell, Publish, PublishFails, AnnouncerDies
<1>3. sock' = sock \/ \E p \in Process : sock' = DisconnectLocal(req[r].tells, p)
  BY DEF Tell, Publish, PublishFails, AnnouncerDies
<1>4. \A s \in Socket : sock'[s].phase # "closed" => sock'[s] = sock[s]
  BY <1>3 DEF DisconnectLocal, Closed
<1>5. \A p \in Process, u \in User : bus'[p][u] \in Nat /\ bus'[p][u] >= bus[p][u]
  BY <1>2 DEF Received, SocketsOK
<1> QED  BY <1>1, <1>4, <1>5

LEMMA TellFits ==
    ASSUME IInv, SocketsOK, ScopeFollowsRights, NEW r \in Request, Tell(r)
    PROVE  ScopeFollowsRights'
<1>1. /\ UNCHANGED <<member, grants, tenant, strayed>>
      /\ req[r].phase = "announcing" /\ req[r].tells \in SUBSET User
      /\ \A o \in Request \ {r} : req'[o] = req[o]
  BY Telling DEF IInv, Tell, Publish, PublishFails, AnnouncerDies
<1> SUFFICES ASSUME NEW s \in Socket, sock'[s].phase # "closed", s \notin missed',
                    sock[s].user \notin strayed
             PROVE  (Fits(s) \/ DisconnectionComing(s))'
  BY <1>1, TellEffect DEF ScopeFollowsRights
<1>2. sock'[s] = sock[s] /\ s \notin missed
  BY <1>1, TellEffect
<1>3. sock[s].user \in User /\ sock[s].at \in Process
  BY <1>2, OpenTyped
<1>4. /\ bus'[sock[s].at][sock[s].user] \in Nat
      /\ bus'[sock[s].at][sock[s].user] >= bus[sock[s].at][sock[s].user]
  BY <1>1, <1>3, TellEffect
<1>5. CASE sock[s].user \in req[r].tells
  <2>1. CASE Publish(r)
    <3>1. sock[s].at \notin Listening => Fits(s)
      BY <1>2, <1>3, <1>5, <2>1 DEF Publish, Outdated, Of
    <3>2. sock[s].at \in Listening => bus'[sock[s].at][sock[s].user] > 0
      BY <1>3, <1>5, <2>1 DEF Publish, Received, Listening, SocketsOK
    <3> QED  BY <1>1, <1>2, <1>3, <3>1, <3>2, Undisturbed DEF DisconnectionComing
  <2>2. CASE AnnouncerDies(r)
    <3>1. Fits(s)
      BY <1>2, <1>3, <1>5, <2>2 DEF AnnouncerDies, Outdated, Of
    <3> QED  BY <1>1, <1>2, <3>1, Undisturbed
  <2>3. ASSUME NEW p \in Process, PublishFails(r, p)
        PROVE  (Fits(s) \/ DisconnectionComing(s))'
    <3>1. PICK reached \in {{}, Listening} :
             /\ bus' = IF reached = {} THEN bus ELSE Received(req[r].tells)
             /\ sock' = DisconnectLocal(req[r].tells, p)
             /\ missed' = missed \cup PassedBy(req[r].tells, p)
                                 \cup Outdated(req[r].tells, Process \ (reached \cup {p}))
      BY <2>3 DEF PublishFails
    <3>2. CASE sock[s].at = p
      <4>1. sock[s].phase = "opening"
        BY <1>2, <1>5, <3>1, <3>2, OpenTyped DEF DisconnectLocal, Of, Closed
      <4>2. Fits(s)
        BY <1>2, <1>5, <3>1, <3>2, <4>1 DEF PassedBy, Outdated, Of
      <4> QED  BY <1>1, <1>2, <4>2, Undisturbed
    <3>3. CASE sock[s].at # p /\ sock[s].at \notin reached
      <4>1. Fits(s)
        BY <1>2, <1>3, <1>5, <3>1, <3>3 DEF Outdated, Of
      <4> QED  BY <1>1, <1>2, <4>1, Undisturbed
    <3>4. CASE sock[s].at \in reached
      <4>1. bus'[sock[s].at][sock[s].user] > 0
        BY <1>3, <1>5, <3>1, <3>4 DEF Received, Listening, SocketsOK
      <4> QED  BY <1>1, <1>2, <1>3, <4>1, Undisturbed DEF DisconnectionComing
    <3> QED  BY <3>2, <3>3, <3>4
  <2> QED  BY <2>1, <2>2, <2>3 DEF Tell
<1>6. CASE sock[s].user \notin req[r].tells
  <2>1. DisconnectionComing(s) => DisconnectionComing(s)'
    <3>1. bus[sock[s].at][sock[s].user] > 0 => bus'[sock[s].at][sock[s].user] > 0
      BY <1>3, <1>4 DEF SocketsOK
    <3> QED  BY <1>1, <1>2, <1>6, <3>1 DEF DisconnectionComing
  <2> QED  BY <1>1, <1>2, <2>1, Undisturbed
<1> QED  BY <1>5, <1>6

LEMMA SocketStepFits ==
    ASSUME SocketsOK, ScopeFollowsRights, SocketStep
    PROVE  ScopeFollowsRights'
<1>1. UNCHANGED <<member, grants, tenant, strayed, req>>
  BY DEF SocketStep, Register, Disconnect, ReadScope, ListenerBreaks, ListenerReturns,
         HandleDisconnection, vars
<1>2. ASSUME NEW s \in Socket, Register(s) \/ Disconnect(s) \/ \E p \in Process : ReadScope(s, p)
      PROVE  ScopeFollowsRights'
  <2>1. bus' = bus /\ missed' \subseteq missed /\ missed \ {s} \subseteq missed'
    BY <1>2 DEF Register, Disconnect, ReadScope
  <2>2. \A o \in Socket \ {s} : sock'[o] = sock[o]
    BY <1>2 DEF Register, Disconnect, ReadScope, SocketsOK
  <2>3. ASSUME NEW o \in Socket \ {s}, SocketFits(o)
        PROVE  SocketFits(o)'
    BY <1>1, <2>1, <2>2, <2>3 DEF SocketFits, Fits, Active, ScopeOf, DisconnectionComing
  <2>4. SocketFits(s)'
    <3>1. CASE Disconnect(s)
      BY <3>1 DEF Disconnect, SocketsOK, Closed, SocketFits
    <3>2. CASE Register(s)
      <4>1. /\ sock[s].phase # "closed" /\ missed' = missed
            /\ sock'[s].user = sock[s].user /\ sock'[s].at = sock[s].at /\ sock'[s].scope = sock[s].scope
        BY <3>2, OpenTyped DEF Register, SocketsOK, SocketState, Closed
      <4> QED
        BY <1>1, <2>1, <4>1 DEF ScopeFollowsRights, SocketFits, Fits, Active, ScopeOf, DisconnectionComing
    <3>3. ASSUME NEW p \in Process, ReadScope(s, p)
          PROVE  SocketFits(s)'
      <4>1. PICK u \in User :
               /\ Active(u)
               /\ sock' = [sock EXCEPT ![s] = [phase |-> "opening", user |-> u, at |-> p, scope |-> ScopeOf(u)]]
        BY <3>3 DEF ReadScope
      <4>2. sock'[s].user = u /\ sock'[s].scope = ScopeOf(u)
        BY <4>1 DEF SocketsOK
      <4> QED  BY <1>1, <4>1, <4>2 DEF SocketFits, Fits, Active, ScopeOf
    <3> QED  BY <1>2, <3>1, <3>2, <3>3
  <2> QED  BY <2>3, <2>4 DEF ScopeFollowsRights, SocketFits
<1>3. ASSUME NEW p \in Process, ListenerBreaks(p)
      PROVE  ScopeFollowsRights'
  <2> SUFFICES ASSUME NEW s \in Socket, sock[s].phase # "closed", s \notin missed', sock[s].user \notin strayed
               PROVE  (Fits(s) \/ DisconnectionComing(s))'
    BY <1>1, <1>3 DEF ScopeFollowsRights, ListenerBreaks
  <2>1. s \notin missed /\ sock' = sock /\ sock[s].user \in User /\ sock[s].at \in Process
    BY <1>3, OpenTyped DEF ListenerBreaks
  <2>2. \A q \in Process \ {p} : bus'[q] = bus[q]
    BY <1>3 DEF ListenerBreaks, SocketsOK
  <2>3. sock[s].at = p /\ bus[p][sock[s].user] > 0 => Fits(s)
    BY <1>3, <2>1 DEF ListenerBreaks, Outdated, Of
  <2>4. DisconnectionComing(s) => DisconnectionComing(s)' \/ Fits(s)
    BY <1>1, <2>1, <2>2, <2>3 DEF DisconnectionComing
  <2> QED  BY <1>1, <2>1, <2>4, Undisturbed
<1>4. ASSUME NEW p \in Process, ListenerReturns(p)
      PROVE  ScopeFollowsRights'
  BY <1>1, <1>4 DEF ListenerReturns, ScopeFollowsRights, Fits, Active, ScopeOf, DisconnectionComing
<1>5. ASSUME NEW p \in Process, NEW u \in User, HandleDisconnection(p, u)
      PROVE  ScopeFollowsRights'
  <2>1. \A s \in Socket : sock'[s].phase # "closed" => sock'[s] = sock[s]
    BY <1>5 DEF HandleDisconnection, DisconnectLocal, Closed
  <2> SUFFICES ASSUME NEW s \in Socket, sock'[s].phase # "closed", s \notin missed', sock[s].user \notin strayed
               PROVE  (Fits(s) \/ DisconnectionComing(s))'
    BY <1>1, <2>1 DEF ScopeFollowsRights
  <2>2. sock'[s] = sock[s] /\ s \notin missed \cup PassedBy({u}, p)
    BY <1>5, <2>1 DEF HandleDisconnection
  <2>3. sock[s].user \in User /\ sock[s].at \in Process /\ sock[s].phase \in {"opening", "open"}
    BY <2>2, OpenTyped
  <2>4. CASE sock[s].user = u /\ sock[s].at = p
    <3>1. sock[s].phase = "opening"
      BY <1>5, <2>2, <2>3, <2>4 DEF HandleDisconnection, DisconnectLocal, Of, Closed
    <3>2. Fits(s)
      BY <2>2, <2>4, <3>1 DEF PassedBy, Outdated, Of
    <3> QED  BY <1>1, <2>2, <3>1, <3>2, Undisturbed
  <2>5. CASE ~(sock[s].user = u /\ sock[s].at = p)
    <3>1. bus'[sock[s].at][sock[s].user] = bus[sock[s].at][sock[s].user]
      BY <1>5, <2>3, <2>5 DEF HandleDisconnection, SocketsOK
    <3>2. DisconnectionComing(s) => DisconnectionComing(s)'
      BY <1>1, <2>2, <2>3, <3>1 DEF DisconnectionComing
    <3> QED  BY <1>1, <2>2, <2>3, <3>2, Undisturbed
  <2> QED  BY <2>4, <2>5
<1> QED  BY <1>2, <1>3, <1>4, <1>5 DEF SocketStep

-----------------------------------------------------------------------------
(* The theorems. *)

LEMMA RInit == InitRealtime => RInv
<1> SUFFICES ASSUME InitRealtime
             PROVE  RInv
  OBVIOUS
<1>1. IInv
  BY InitHolds DEF InitRealtime
<1>2. SocketsOK
  BY DEF InitRealtime, SocketsOK, SocketState
<1>3. ScopeFollowsRights
  BY DEF InitRealtime, ScopeFollowsRights, Closed
<1> QED  BY <1>1, <1>2, <1>3 DEF RInv

LEMMA RStep == RInv /\ [NextRealtime]_allVars => RInv'
<1> SUFFICES ASSUME RInv, [NextRealtime]_allVars
             PROVE  RInv'
  OBVIOUS
<1>1. IInv'
  BY StepHolds, RowsStep DEF RInv
<1>2. SocketsOK'
  BY SocketTypesStep DEF RInv, IInv
<1>3. ASSUME UNCHANGED allVars
      PROVE  ScopeFollowsRights'
  <2>1. UNCHANGED <<member, grants, tenant, strayed, req, sock, bus, missed>>
    BY <1>3 DEF allVars, vars
  <2>2. ASSUME NEW s \in Socket
        PROVE  Fits(s) \/ DisconnectionComing(s) => (Fits(s) \/ DisconnectionComing(s))'
    BY <2>1 DEF Fits, Active, ScopeOf, DisconnectionComing
  <2> SUFFICES ASSUME NEW s \in Socket, sock[s].phase # "closed", s \notin missed,
                      sock[s].user \notin strayed
               PROVE  (Fits(s) \/ DisconnectionComing(s))'
    BY <2>1 DEF ScopeFollowsRights
  <2> QED  BY <2>2 DEF RInv, ScopeFollowsRights
<1>4. ASSUME NEW r \in Request, (RowStep(r) /\ UNCHANGED socketVars) \/ Tell(r)
      PROVE  ScopeFollowsRights'
  BY <1>4, RowStepFits, TellFits DEF RInv
<1>5. ScopeFollowsRights'
  BY <1>3, <1>4, SocketStepFits DEF NextRealtime, RInv
<1> QED  BY <1>1, <1>2, <1>5 DEF RInv

THEOREM RInvariance == SpecRealtime => []RInv
BY RInit, RStep, PTL DEF SpecRealtime

\* Rows, requests, sockets and listeners have their types in every reachable state.
THEOREM TypesCorrect == SpecRealtime => []TypesOK
<1>1. RInv => TypesOK
  BY DEF RInv, IInv, TypesOK
<1> QED  BY <1>1, RInvariance, PTL

\* No socket keeps superseded rights that no disconnection is coming for, save
\* those that one has passed by.
THEOREM ScopesFollow == SpecRealtime => []ScopeFollowsRights
<1>1. RInv => ScopeFollowsRights
  BY DEF RInv
<1> QED  BY <1>1, RInvariance, PTL
=============================================================================
