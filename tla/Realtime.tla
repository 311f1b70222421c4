------------------------------ MODULE Realtime ------------------------------
(***************************************************************************)
(* The WebSockets of one tenant (realtime/router.py, realtime/manager.py)  *)
(* and the Redis channel that tells every API process to disconnect a user *)
(* (realtime/broker.py), over the rights of ChannelAccess.                 *)
(*                                                                         *)
(* A socket carries the scope its user had when it was opened and is never *)
(* checked again: what keeps it right is that a change of rights closes    *)
(* it.  The scope is read in a database session, the handshake is awaited, *)
(* and only then is the socket in the process's table.  The message goes   *)
(* through Redis Pub/Sub: who does not listen at that moment never gets it.*)
(*                                                                         *)
(* A queue of disconnections is kept as a count per user: the order of     *)
(* those of different users cannot be told apart.                          *)
(***************************************************************************)
EXTENDS ChannelAccess

CONSTANTS Socket, Process,
          Everything,         \* stands for channel_ids = None, an administrator's scope
          NoProcess,
          MaxBreaks           \* bound on lost connections of listeners

ASSUME EverythingAssumption == Everything \notin Channel
ASSUME MaxBreaksAssumption == MaxBreaks \in Nat

VARIABLES sock,       \* the sockets
          listening,  \* the process's listener is subscribed
          bus,        \* disconnections a listener has received and not handled
          breaks,
          missed      \* sockets with superseded rights that a disconnection has passed by

socketVars == <<sock, listening, bus, breaks, missed>>
allVars == <<vars, sock, listening, bus, breaks, missed>>

Closed == [phase |-> "closed", user |-> NoUser, at |-> NoProcess, scope |-> {}]

\* Nothing is kept of a socket that is closed.
SocketState ==
    {Closed} \cup [phase : {"opening", "open"}, user : User, at : Process,
                   scope : SUBSET (Channel \cup {Everything})]

SocketsOK ==
    /\ sock \in [Socket -> SocketState]
    /\ listening \in [Process -> BOOLEAN]
    /\ bus \in [Process -> [User -> Nat]]
    /\ breaks \in Nat
    /\ missed \subseteq Socket

TypesOK == TypeOK /\ SocketsOK

InitRealtime ==
    /\ Init
    /\ sock = [s \in Socket |-> Closed]
    /\ listening = [p \in Process |-> TRUE]
    /\ bus = [p \in Process |-> [u \in User |-> 0]]
    /\ breaks = 0
    /\ missed = {}

-----------------------------------------------------------------------------
(* Scopes. *)

ScopeOf(u) == IF member[u].role = "admin" THEN {Everything} ELSE grants[u]

\* The socket has what its user may see now.
Fits(s) == Active(sock[s].user) /\ sock[s].scope = ScopeOf(sock[s].user)

Of(users, s) == sock[s].phase # "closed" /\ sock[s].user \in users

\* The sockets of these users in these processes that hold superseded rights.
Outdated(users, processes) == {s \in Socket : Of(users, s) /\ sock[s].at \in processes /\ ~Fits(s)}

-----------------------------------------------------------------------------
(* A socket. *)

\* websocket_endpoint: the membership and the scope are read.
ReadScope(s, p) ==
    /\ sock[s].phase = "closed"
    /\ \E u \in User :
        /\ Active(u)
        /\ sock' = [sock EXCEPT ![s] = [phase |-> "opening", user |-> u, at |-> p, scope |-> ScopeOf(u)]]
    /\ UNCHANGED <<vars, listening, bus, breaks, missed>>

\* RealtimeManager.connect, after the handshake.
Register(s) ==
    /\ sock[s].phase = "opening"
    /\ sock' = [sock EXCEPT ![s].phase = "open"]
    /\ UNCHANGED <<vars, listening, bus, breaks, missed>>

\* The client goes away, or its heartbeat gets no answer.
Disconnect(s) ==
    /\ sock[s].phase # "closed"
    /\ sock' = [sock EXCEPT ![s] = Closed]
    /\ missed' = missed \ {s}
    /\ UNCHANGED <<vars, listening, bus, breaks>>

-----------------------------------------------------------------------------
(* Disconnecting users. *)

\* Mutant: the ids of the message never equal those in the table.
DisconnectNobody(users, p) == sock

\* disconnect_user_local, disconnect_tenant_local: the sockets in the table.
DisconnectLocal(users, p) ==
    [s \in Socket |-> IF Of(users, s) /\ sock[s].at = p /\ sock[s].phase = "open" THEN Closed ELSE sock[s]]

\* Those it passes by: they hold superseded rights and are not in the table.
PassedBy(users, p) == {s \in Outdated(users, {p}) : sock[s].phase = "opening"}

Listening == {p \in Process : listening[p]}

Received(users) ==
    [p \in Process |-> [u \in User |-> IF listening[p] /\ u \in users THEN bus[p][u] + 1 ELSE bus[p][u]]]

\* emit_disconnect_user, emit_disconnect_tenant: somebody is subscribed.
Publish(r) ==
    /\ Announce(r)
    /\ Listening # {}
    /\ bus' = Received(req[r].tells)
    /\ missed' = missed \cup Outdated(req[r].tells, Process \ Listening)
    /\ UNCHANGED <<sock, listening, breaks>>

\* Nobody is subscribed, or Redis cannot be reached (its answer may be lost,
\* too): the process p that handles the request disconnects its own sockets.
PublishFails(r, p) ==
    /\ Announce(r)
    /\ \E reached \in {{}, Listening} :
        /\ bus' = IF reached = {} THEN bus ELSE Received(req[r].tells)
        /\ sock' = DisconnectLocal(req[r].tells, p)
        /\ missed' = missed \cup PassedBy(req[r].tells, p)
                            \cup Outdated(req[r].tells, Process \ (reached \cup {p}))
    /\ UNCHANGED <<listening, breaks>>

\* The process dies after the commit.
AnnouncerDies(r) ==
    /\ Announce(r)
    /\ breaks < MaxBreaks
    /\ breaks' = breaks + 1
    /\ missed' = missed \cup Outdated(req[r].tells, Process)
    /\ UNCHANGED <<sock, listening, bus>>

\* dispatch_realtime_payload.
HandleDisconnection(p, u) ==
    /\ bus[p][u] > 0
    /\ bus' = [bus EXCEPT ![p][u] = @ - 1]
    /\ sock' = DisconnectLocal({u}, p)
    /\ missed' = (missed \cup PassedBy({u}, p)) \ {s \in Socket : sock'[s].phase = "closed"}
    /\ UNCHANGED <<vars, listening, breaks>>

\* The listener's connection breaks: what it has not handled is gone.
ListenerBreaks(p) ==
    /\ listening[p]
    /\ breaks < MaxBreaks
    /\ breaks' = breaks + 1
    /\ listening' = [listening EXCEPT ![p] = FALSE]
    /\ bus' = [bus EXCEPT ![p] = [u \in User |-> 0]]
    /\ missed' = missed \cup Outdated({u \in User : bus[p][u] > 0}, {p})
    /\ UNCHANGED <<vars, sock>>

\* A second later it subscribes again.
ListenerReturns(p) ==
    /\ ~listening[p]
    /\ listening' = [listening EXCEPT ![p] = TRUE]
    /\ UNCHANGED <<vars, sock, bus, breaks, missed>>

-----------------------------------------------------------------------------
Tell(r) == Publish(r) \/ AnnouncerDies(r) \/ \E p \in Process : PublishFails(r, p)

SocketStep ==
    \/ \E s \in Socket : Register(s) \/ Disconnect(s) \/ \E p \in Process : ReadScope(s, p)
    \/ \E p \in Process :
        \/ ListenerBreaks(p)
        \/ ListenerReturns(p)
        \/ \E u \in User : HandleDisconnection(p, u)

NextRealtime ==
    \/ \E r \in Request : (RowStep(r) /\ UNCHANGED socketVars) \/ Tell(r)
    \/ SocketStep

SpecRealtime == InitRealtime /\ [][NextRealtime]_allVars

-----------------------------------------------------------------------------
(* What the disconnections are for. *)

\* Somebody has still to disconnect the user of s.
DisconnectionComing(s) ==
    \/ \E r \in Request : req[r].phase = "announcing" /\ sock[s].user \in req[r].tells
    \/ \E p \in Process : p = sock[s].at /\ bus[p][sock[s].user] > 0

\* Nobody keeps receiving events under rights that were taken away: a socket
\* has its user's present rights, or its disconnection is on its way, or one
\* passed it by, because the socket was not in the table yet or because the
\* message was lost.  (Somebody who changes the own name from a session that
\* still sees an administrator removes the own grants and tells nobody.)
ScopeFollowsRights ==
    \A s \in Socket : sock[s].phase # "closed" /\ s \notin missed /\ sock[s].user \notin strayed =>
        Fits(s) \/ DisconnectionComing(s)

(* Fairness: a handler goes on after its commit, a listener handles what it  *)
(* has received, a handshake ends.                                           *)
Fairness ==
    /\ \A r \in Request : WF_allVars(Tell(r))
    /\ \A p \in Process, u \in User : WF_allVars(HandleDisconnection(p, u))
    /\ \A s \in Socket : WF_allVars(Register(s))

FairSpec == SpecRealtime /\ Fairness

\* A socket whose rights were taken away is closed, unless a disconnection
\* passes it by or the rights come back.
OutdatedCloses ==
    \A s \in Socket : (sock[s].phase # "closed" /\ ~Fits(s)) ~>
        (sock[s].phase = "closed" \/ Fits(s) \/ s \in missed \/ sock[s].user \in strayed)
=============================================================================
