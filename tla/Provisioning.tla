---------------------------- MODULE Provisioning ----------------------------
(***************************************************************************)
(* The managed channels of one tenant: channels/router.py with             *)
(* providers/evolution_provisioning.py, evolution_admin.py and             *)
(* evolution_credentials.py, and the connection events of                  *)
(* providers/webhook_router.py.                                            *)
(*                                                                         *)
(* A request is a coroutine that commits, awaits the gateway and commits   *)
(* again; other requests, of this process and of others, run in between.   *)
(* The only lock is FOR UPDATE on the credential, held inside one action.  *)
(* A session keeps the row it loaded: a status is written when it differs  *)
(* from the one this session saw last, not from the one that is stored.    *)
(* The gateway (external) may refuse, may do the work and lose the answer, *)
(* and may do it after the caller gave up.                                 *)
(*                                                                         *)
(* A channel is named by its provisioning_key, unique in the tenant: until  *)
(* it is deleted every create with the key finds its row.  Channels share  *)
(* nothing else.                                                           *)
(*                                                                         *)
(* Not here: channels configured by hand, secrets and their encryption,    *)
(* audit rows, broadcasts, media and profile calls.                        *)
(***************************************************************************)
EXTENDS Naturals

CONSTANTS Channel, Handler, NoChannel,
          MaxFaults           \* bound on failures of the gateway and of processes

ASSUME NoChannelAssumption == NoChannel \notin Channel
ASSUME MaxFaultsAssumption == MaxFaults \in Nat

VARIABLES row,       \* whatsapp_channels with provider_credentials
          inst,      \* the gateway's instances: their WhatsApp session
          late,      \* creations given up by the caller that the gateway may still do
          news,      \* connection events on their way
          handler,   \* the requests being handled
          faults,    \* how many failures there were
          deserted,  \* channels whose request died in an attempt that was not repeated
          rivals,    \* channels with two attempts at once
          cut,       \* channels whose instance the gateway deleted, and did not create again
          spared,    \* channels whose deletion did not reach the gateway
          crossed,   \* channels whose instance was created after its deletion
          misled     \* channels told to be connected when they were not, or not told of a change

historyVars == <<deserted, rivals, cut, spared, crossed, misled>>
vars == <<row, inst, late, news, handler, faults, deserted, rivals, cut, spared, crossed, misled>>

Status == {"connecting", "disconnected", "requires_qr", "connected", "failed"}
Credential == {"pending", "active", "uncertain", "failed"}

\* life: the id is not used yet, the row is there, or it was deleted.
RowState == [life : {"unborn", "live", "gone"}, cred : Credential, status : Status]

\* "out" until somebody scans the QR code.
Session == {"none", "out", "in"}
Event == {"connected", "loggedout"}
Outcome == {"ok", "ambiguous", "refused"}

HandlerState ==
    [phase   : {"idle", "found", "creating", "confirming", "settling",
                "reading", "writing", "deleting", "removing"},
     chan    : Channel \cup {NoChannel},
     seen    : Status,       \* the channel's status, as this session has it
     connect : BOOLEAN,      \* POST /connect goes on to the QR code
     outcome : Outcome,      \* of the creation
     result  : Status]       \* to be written

Idle == [phase |-> "idle", chan |-> NoChannel, seen |-> "failed", connect |-> FALSE,
         outcome |-> "ok", result |-> "failed"]

Live(c) == row[c].life = "live"
Attempts(h, c) == handler[h].chan = c /\ handler[h].phase \in {"creating", "confirming", "settling"}

TypeOK ==
    /\ row \in [Channel -> RowState]
    /\ inst \in [Channel -> Session]
    /\ late \subseteq Channel
    /\ news \in [Channel -> SUBSET Event]
    /\ handler \in [Handler -> HandlerState]
    /\ faults \in Nat
    /\ deserted \subseteq Channel /\ rivals \subseteq Channel /\ cut \subseteq Channel
    /\ spared \subseteq Channel /\ crossed \subseteq Channel /\ misled \subseteq Channel

Unborn == [life |-> "unborn", cred |-> "pending", status |-> "connecting"]

Init ==
    /\ row = [c \in Channel |-> Unborn]
    /\ inst = [c \in Channel |-> "none"]
    /\ late = {}
    /\ news = [c \in Channel |-> {}]
    /\ handler = [h \in Handler |-> Idle]
    /\ faults = 0
    /\ deserted = {} /\ rivals = {} /\ cut = {} /\ spared = {} /\ crossed = {} /\ misled = {}

Ends(h) == handler' = [handler EXCEPT ![h] = Idle]
Goes(h, phase) == handler' = [handler EXCEPT ![h].phase = phase]
Fault == faults < MaxFaults /\ faults' = faults + 1

\* channel.status = new, at a commit: nothing is written when new is what the
\* session saw last.
Assigned(c, seen, new) == IF new = seen THEN row[c].status ELSE new

-----------------------------------------------------------------------------
(* Requests that begin. *)

\* create_channel finds no channel with the key, and its row is not refused by
\* the unique constraint: row and credential are committed.
CreateChannel(h, c) ==
    /\ handler[h].phase = "idle"
    /\ row[c].life = "unborn"
    /\ row' = [row EXCEPT ![c].life = "live"]
    /\ handler' = [handler EXCEPT ![h] = [Idle EXCEPT !.phase = "found", !.chan = c, !.seen = "connecting"]]
    /\ UNCHANGED <<inst, late, news, faults, historyVars>>

\* A request loads the channel: create_channel again with the same key (before
\* or after the unique constraint refused it), POST /connect, GET /status, or
\* DELETE.
Load(h, c, phase, connect) ==
    /\ handler[h].phase = "idle"
    /\ Live(c)
    /\ handler' = [handler EXCEPT ![h] =
                     [Idle EXCEPT !.phase = phase, !.chan = c, !.connect = connect,
                                  !.seen = IF phase = "deleting" THEN Idle.seen ELSE row[c].status]]
    /\ UNCHANGED <<row, inst, late, news, faults, historyVars>>

CreateAgain(h, c) == Load(h, c, "found", FALSE)
Connect(h, c) == Load(h, c, "found", TRUE)
ReadStatus(h, c) == Load(h, c, "reading", FALSE)
DeleteChannel(h, c) == Load(h, c, "deleting", FALSE)

\* The process dies, or an exception nobody handles ends the request.
Die(h) ==
    LET c == handler[h].chan
    IN  /\ handler[h].phase # "idle"
        /\ Fault
        /\ Ends(h)
        /\ deserted' = IF handler[h].phase \in {"found", "creating", "confirming", "settling"}
                       THEN deserted \cup {c} ELSE deserted
        /\ misled' = IF handler[h].phase = "writing" THEN misled \cup {c} ELSE misled
        /\ UNCHANGED <<row, inst, late, news, rivals, cut, spared, crossed>>

-----------------------------------------------------------------------------
(* provision_evolution_channel. *)

\* Mutant: an active credential is no reason to stop.
AlwaysNeeded(c) == Live(c)

\* The credential is there and not yet active.
Needed(c) == Live(c) /\ row[c].cred # "active"

\* The first transaction ends without work: the credential is active, or gone
\* with its channel, and then nothing is left to ask about either.
SkipProvision(h) ==
    LET c == handler[h].chan
    IN  /\ handler[h].phase = "found"
        /\ ~Needed(c)
        /\ handler' = [handler EXCEPT ![h] =
                         IF Live(c) /\ handler[h].connect
                         THEN [handler[h] EXCEPT !.phase = "reading", !.connect = FALSE] ELSE Idle]
        /\ UNCHANGED <<row, inst, late, news, faults, historyVars>>

\* The first transaction: pending, and connecting.
BeginProvision(h) ==
    LET c == handler[h].chan
    IN  /\ handler[h].phase = "found"
        /\ Needed(c)
        /\ row' = [row EXCEPT ![c].cred = "pending",
                              ![c].status = Assigned(c, handler[h].seen, "connecting")]
        /\ handler' = [handler EXCEPT ![h].phase = "creating", ![h].seen = "connecting"]
        /\ rivals' = IF \E o \in Handler : Attempts(o, c) THEN rivals \cup {c} ELSE rivals
        /\ UNCHANGED <<inst, late, news, faults, deserted, cut, spared, crossed, misled>>

\* The gateway creates the instance of c.
Creates(c) ==
    /\ inst' = [inst EXCEPT ![c] = "out"]
    /\ crossed' = IF c \in cut \/ ~Live(c) THEN crossed \cup {c} ELSE crossed
    /\ cut' = cut \ {c}

\* create_instance returns, because the instance was created.
InstanceCreated(h) ==
    LET c == handler[h].chan
    IN  /\ handler[h].phase = "creating"
        /\ inst[c] = "none"
        /\ Creates(c)
        /\ handler' = [handler EXCEPT ![h].phase = "settling", ![h].outcome = "ok"]
        /\ UNCHANGED <<row, late, news, faults, deserted, rivals, spared, misled>>

\* Mutant: a conflict is a refusal.
ConflictRefused(h) ==
    /\ handler[h].phase = "creating"
    /\ inst[handler[h].chan] # "none"
    /\ handler' = [handler EXCEPT ![h].phase = "settling", ![h].outcome = "refused"]
    /\ UNCHANGED <<row, inst, late, news, faults, historyVars>>

\* HTTP 409: it exists already.
InstanceExists(h) ==
    /\ handler[h].phase = "creating"
    /\ inst[handler[h].chan] # "none"
    /\ handler' = [handler EXCEPT ![h].phase = "confirming", ![h].outcome = "ambiguous"]
    /\ UNCHANGED <<row, inst, late, news, faults, historyVars>>

\* No answer in time: the request may have been lost, or may yet be served.
CreationUnanswered(h) ==
    LET c == handler[h].chan
    IN  /\ handler[h].phase = "creating"
        /\ Fault
        /\ late' = late \cup {c}
        /\ handler' = [handler EXCEPT ![h].phase = "confirming", ![h].outcome = "ambiguous"]
        /\ UNCHANGED <<row, inst, news, historyVars>>

\* Any other HTTP status: the gateway refuses.
CreationRefused(h) ==
    /\ handler[h].phase = "creating"
    /\ Fault
    /\ handler' = [handler EXCEPT ![h].phase = "settling", ![h].outcome = "refused"]
    /\ UNCHANGED <<row, inst, late, news, historyVars>>

\* Mutant: any answer of the gateway is a confirmation.
ConfirmedByAnswer(h) ==
    /\ handler[h].phase = "confirming"
    /\ handler' = [handler EXCEPT ![h].phase = "settling", ![h].outcome = "ok"]
    /\ UNCHANGED <<row, inst, late, news, faults, historyVars>>

\* get_status with the instance's own token answers without an error.
Confirmed(h) ==
    /\ handler[h].phase = "confirming"
    /\ inst[handler[h].chan] # "none"
    /\ handler' = [handler EXCEPT ![h].phase = "settling", ![h].outcome = "ok"]
    /\ UNCHANGED <<row, inst, late, news, faults, historyVars>>

\* There is no such instance, or no answer.
NotConfirmed(h) ==
    /\ handler[h].phase = "confirming"
    /\ IF inst[handler[h].chan] = "none" THEN UNCHANGED faults ELSE Fault
    /\ Goes(h, "settling")
    /\ UNCHANGED <<row, inst, late, news, historyVars>>

\* What the second transaction leaves; the status differs from "connecting".
Recorded(c, outcome) ==
    [row[c] EXCEPT !.cred = CASE outcome = "ok" -> "active"
                              [] outcome = "ambiguous" -> "uncertain"
                              [] outcome = "refused" -> "failed",
                   !.status = IF outcome = "ok" THEN "disconnected" ELSE "failed"]

\* The second transaction; the credential may be gone with its channel.
Settle(h) ==
    LET c == handler[h].chan
        goesOn == Live(c) /\ handler[h].outcome = "ok" /\ handler[h].connect
    IN  /\ handler[h].phase = "settling"
        /\ row' = IF Live(c) THEN [row EXCEPT ![c] = Recorded(c, handler[h].outcome)] ELSE row
        /\ handler' = [handler EXCEPT ![h] =
                         IF goesOn THEN [Idle EXCEPT !.phase = "reading", !.chan = c, !.seen = "disconnected"] ELSE Idle]
        /\ deserted' = IF Live(c) THEN deserted \ {c} ELSE deserted
        /\ UNCHANGED <<inst, late, news, faults, rivals, cut, spared, crossed, misled>>

Provision(h) ==
    \/ SkipProvision(h) \/ BeginProvision(h)
    \/ InstanceCreated(h) \/ InstanceExists(h) \/ CreationUnanswered(h) \/ CreationRefused(h)
    \/ Confirmed(h) \/ NotConfirmed(h)
    \/ Settle(h)

-----------------------------------------------------------------------------
(* The status of a channel. *)

\* get_status and get_qr_code: a session that nobody logged in waits for its QR
\* code (asked for the code of another, the gateway says with an error that it is
\* logged in); either may have no connection, which stands also for a code that is
\* not there yet ("connecting"); any other error reads as failed.
Answers(session) ==
    {"failed"} \cup CASE session = "in" -> {"connected", "disconnected"}
                      [] session = "out" -> {"requires_qr", "disconnected"}
                      [] session = "none" -> {}

\* The gateway answers GET /status or POST /connect.
Answered(h, answer) ==
    /\ handler[h].phase = "reading"
    /\ answer \in Answers(inst[handler[h].chan])
    /\ handler' = [handler EXCEPT ![h].phase = "writing", ![h].result = answer]
    /\ UNCHANGED <<row, inst, late, news, faults, historyVars>>

\* Mutant: any event of the connection says that it is there.
EventStatusConnected(event) == "connected"

\* _process_channel_status; a QR event says what the answer to POST /connect
\* said, and is left out.
EventStatus(event) ==
    CASE event = "connected" -> "connected"
      [] event = "loggedout" -> "disconnected"

\* whatsapp_webhook loads the channel; it writes after the event was stored.
\* The event of a channel that is gone is refused.
ReceiveEvent(h, c, event) ==
    /\ handler[h].phase = "idle"
    /\ event \in news[c]
    /\ news' = [news EXCEPT ![c] = news[c] \ {event}]
    /\ handler' = IF Live(c)
                  THEN [handler EXCEPT ![h] = [Idle EXCEPT !.phase = "writing", !.chan = c, !.seen = row[c].status,
                                                           !.result = EventStatus(event)]]
                  ELSE handler
    /\ UNCHANGED <<row, inst, late, faults, historyVars>>

\* channel_status, connect_tenant_channel and whatsapp_webhook end alike; on a
\* channel that is gone the UPDATE finds no row.
WriteStatus(h) ==
    LET c == handler[h].chan
        written == Assigned(c, handler[h].seen, handler[h].result)
    IN  /\ handler[h].phase = "writing"
        /\ row' = IF Live(c) THEN [row EXCEPT ![c].status = written] ELSE row
        /\ misled' = IF ~Live(c) \/ handler[h].result = handler[h].seen THEN misled
                     ELSE IF written = "connected" /\ inst[c] # "in" THEN misled \cup {c}
                     ELSE misled \ {c}
        /\ Ends(h)
        /\ UNCHANGED <<inst, late, news, faults, deserted, rivals, cut, spared, crossed>>

-----------------------------------------------------------------------------
(* delete_channel. *)

\* Mutant: the instance is left to the gateway.
DeletionSkipped(h) ==
    /\ handler[h].phase = "deleting"
    /\ Goes(h, "removing")
    /\ UNCHANGED <<row, inst, late, news, faults, historyVars>>

\* The gateway deletes the instance, or has none.
InstanceDeleted(h) ==
    LET c == handler[h].chan
    IN  /\ handler[h].phase = "deleting"
        /\ inst' = [inst EXCEPT ![c] = "none"]
        /\ cut' = cut \cup {c}
        /\ misled' = IF inst[c] = "in" THEN misled \cup {c} ELSE misled
        /\ Goes(h, "removing")
        /\ UNCHANGED <<row, late, news, faults, deserted, rivals, spared, crossed>>

\* It refuses or does not answer: delete_channel goes on.
DeletionFails(h) ==
    /\ handler[h].phase = "deleting"
    /\ Fault
    /\ spared' = spared \cup {handler[h].chan}
    /\ Goes(h, "removing")
    /\ UNCHANGED <<row, inst, late, news, deserted, rivals, cut, crossed, misled>>

\* The row goes, and its credential with it.
RemoveRow(h) ==
    LET c == handler[h].chan
    IN  /\ handler[h].phase = "removing"
        /\ row' = [row EXCEPT ![c] = [Unborn EXCEPT !.life = "gone"]]
        /\ Ends(h)
        /\ UNCHANGED <<inst, late, news, faults, historyVars>>

Delete(h) == InstanceDeleted(h) \/ DeletionFails(h) \/ RemoveRow(h)

-----------------------------------------------------------------------------
(* The gateway, on its own. *)

\* A creation whose caller gave up is served after all, or never.
LateCreation(c) ==
    /\ c \in late
    /\ late' = late \ {c}
    /\ IF inst[c] = "none" THEN Creates(c) ELSE UNCHANGED <<inst, cut, crossed>>
    /\ UNCHANGED <<row, news, handler, faults, deserted, rivals, spared, misled>>

CreationLost(c) ==
    /\ c \in late
    /\ late' = late \ {c}
    /\ UNCHANGED <<row, inst, news, handler, faults, historyVars>>

\* Somebody scans the QR code, or the telephone logs out.
SessionChanges(c) ==
    /\ inst[c] # "none"
    /\ inst' = [inst EXCEPT ![c] = IF inst[c] = "in" THEN "out" ELSE "in"]
    /\ news' = [news EXCEPT ![c] = news[c] \cup {IF inst[c] = "in" THEN "loggedout" ELSE "connected"}]
    /\ UNCHANGED <<row, late, handler, faults, historyVars>>

\* An event is lost.
LoseEvent(c, event) ==
    /\ event \in news[c]
    /\ Fault
    /\ news' = [news EXCEPT ![c] = news[c] \ {event}]
    /\ misled' = misled \cup {c}
    /\ UNCHANGED <<row, inst, late, handler, deserted, rivals, cut, spared, crossed>>

Gateway(c) ==
    \/ LateCreation(c) \/ CreationLost(c)
    \/ SessionChanges(c)
    \/ \E event \in Event : LoseEvent(c, event)

-----------------------------------------------------------------------------
Begin(h, c) ==
    \/ CreateChannel(h, c) \/ CreateAgain(h, c) \/ Connect(h, c) \/ ReadStatus(h, c) \/ DeleteChannel(h, c)
    \/ \E event \in Event : ReceiveEvent(h, c, event)

Work(h) == Provision(h) \/ (\E answer \in Status : Answered(h, answer)) \/ WriteStatus(h) \/ Delete(h)

Next ==
    \/ \E h \in Handler : Work(h) \/ Die(h) \/ \E c \in Channel : Begin(h, c)
    \/ \E c \in Channel : Gateway(c)

Spec == Init /\ [][Next]_vars

\* A request goes on to its end.  The administrator presses "connect" again
\* while the channel is not provisioned.
Fairness ==
    /\ \A h \in Handler : WF_vars(Work(h))
    /\ \A c \in Channel : SF_vars(\E h \in Handler : Needed(c) /\ Connect(h, c))

FairSpec == Spec /\ Fairness

-----------------------------------------------------------------------------
(* What provisioning is for. *)

\* A credential is active only when the channel's instance was there, however
\* the answers came, unless a deletion reached the gateway since and has not
\* removed the row (its request is under way, or died).
ActiveHasInstance ==
    \A c \in Channel : Live(c) /\ row[c].cred = "active" => inst[c] # "none" \/ c \in cut

\* A channel is pending while somebody is at work on it; what a request leaves
\* behind is pending only when it died.
PendingIsAttended ==
    \A c \in Channel :
        Live(c) /\ row[c].cred = "pending" =>
            c \in deserted \/ \E h \in Handler : Attempts(h, c) \/ (handler[h].phase = "found" /\ handler[h].chan = c)

\* An instance outlives its channel only when the deletion failed at the
\* gateway, or a creation that was under way came after it.
OrphansAreExplained ==
    \A c \in Channel : row[c].life = "gone" /\ inst[c] # "none" => c \in spared \cup crossed

\* A channel shown as connected is, or the news that it is not is on its way;
\* except where an answer or an event was written after the session changed,
\* an event was lost, or a deletion was left half done.
ConnectedIsReal ==
    \A c \in Channel :
        Live(c) /\ row[c].status = "connected" /\ inst[c] # "in" =>
            \/ c \in misled
            \/ "loggedout" \in news[c]
            \/ \E h \in Handler : handler[h].phase = "writing" /\ handler[h].chan = c
                                  /\ handler[h].result \notin {"connected", handler[h].seen}

\* A provisioned channel is provisioned for good, unless two attempts crossed:
\* the one that ends last then says how it is.
ActiveStays ==
    [][\A c \in Channel : Live(c) /\ row[c].cred = "active" /\ Live(c)' /\ row'[c].cred # "active" => c \in rivals]_vars

\* Trying again heals a channel, whatever happened to the attempts before.
RetryProvisions == \A c \in Channel : Needed(c) ~> ~Needed(c)
=============================================================================
