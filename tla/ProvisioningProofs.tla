------------------------- MODULE ProvisioningProofs -------------------------
(***************************************************************************)
(* Proofs about Provisioning, for any number of channels and requests.     *)
(*                                                                         *)
(* None of the properties is inductive: between its two transactions a     *)
(* request carries what it knows.  IInv adds that a request which is going *)
(* to record a success has seen the instance (OkIsTrue), that one which is *)
(* going to remove a row has dealt with the gateway (RemovalIsExplained),  *)
(* and that attempts which meet, or outlive the success of another, are    *)
(* counted as rivals (RivalsAreKnown).                                     *)
(***************************************************************************)
EXTENDS Provisioning, TLAPS

\* The channel of a request, and the rows nobody wrote yet.
Known == \A h \in Handler : handler[h].phase # "idle" => handler[h].chan \in Channel
UnbornIsBlank == \A c \in Channel : row[c].life = "unborn" => row[c] = Unborn

\* What the gateway deleted is not there; what a request has confirmed was.
CutIsNone == \A c \in cut : inst[c] = "none"
OkIsTrue ==
    \A h \in Handler :
        handler[h].phase = "settling" /\ handler[h].outcome = "ok" =>
            inst[handler[h].chan] # "none" \/ handler[h].chan \in cut
Unconfirmed == \A h \in Handler : handler[h].phase = "confirming" => handler[h].outcome = "ambiguous"

\* A request about to remove the row has dealt with the gateway.
RemovalIsExplained ==
    \A h \in Handler : handler[h].phase = "removing" => handler[h].chan \in cut \cup spared \cup crossed

\* Attempts that meet, or that outlive the success of another, are known.
RivalsAreKnown ==
    \A h \in Handler, c \in Channel :
        Attempts(h, c) =>
            /\ Live(c) /\ row[c].cred = "active" => c \in rivals
            /\ \A o \in Handler \ {h} : Attempts(o, c) => c \in rivals

Basis == TypeOK /\ Known /\ UnbornIsBlank
IInv ==
    /\ Basis
    /\ CutIsNone /\ OkIsTrue /\ Unconfirmed /\ ActiveHasInstance
    /\ PendingIsAttended
    /\ RemovalIsExplained /\ OrphansAreExplained
    /\ ConnectedIsReal
    /\ RivalsAreKnown

-----------------------------------------------------------------------------
\* Writing a typed row that is not a blank keeps the type of all.
LEMMA RowWritten ==
    ASSUME row \in [Channel -> RowState], UnbornIsBlank, NEW c \in Channel, NEW w \in RowState,
           w.life # "unborn" \/ w = row[c], row' = [row EXCEPT ![c] = w]
    PROVE  row' \in [Channel -> RowState] /\ UnbornIsBlank'
BY DEF UnbornIsBlank

\* So does writing the state of a request that names a channel.
LEMMA HandlerWritten ==
    ASSUME handler \in [Handler -> HandlerState], Known, NEW h \in Handler, NEW w \in HandlerState,
           w.phase # "idle" => w.chan \in Channel, handler' = [handler EXCEPT ![h] = w]
    PROVE  handler' \in [Handler -> HandlerState] /\ Known'
BY DEF Known

\* A request that ends.
LEMMA HandlerEnds ==
    ASSUME handler \in [Handler -> HandlerState], Known, NEW h \in Handler, Ends(h)
    PROVE  handler' \in [Handler -> HandlerState] /\ Known'
BY HandlerWritten DEF Ends, Idle, HandlerState, Status, Outcome

\* The rows: five actions write one.
LEMMA RowStep ==
    ASSUME Basis, [Next]_vars
    PROVE  row' \in [Channel -> RowState] /\ UnbornIsBlank'
<1> DEFINE Good == row' \in [Channel -> RowState] /\ UnbornIsBlank'
<1> USE DEF Basis, TypeOK
<1>1. ASSUME NEW h \in Handler, NEW c \in Channel, CreateChannel(h, c) PROVE Good
  <2>1. [row[c] EXCEPT !.life = "live"] \in RowState
    BY DEF RowState
  <2>2. row' = [row EXCEPT ![c] = [row[c] EXCEPT !.life = "live"]]
    BY <1>1 DEF CreateChannel
  <2> QED
    BY <2>1, <2>2, RowWritten DEF RowState
<1>2. ASSUME NEW h \in Handler, BeginProvision(h) PROVE Good
  <2> DEFINE c == handler[h].chan
             w == [row[c] EXCEPT !.cred = "pending", !.status = Assigned(c, handler[h].seen, "connecting")]
  <2>1. c \in Channel /\ row[c] \in RowState /\ Live(c)
    BY <1>2 DEF BeginProvision, Known, Needed
  <2>2. w \in RowState /\ w.life = "live"
    BY <2>1 DEF RowState, Assigned, Status, Credential, Live
  <2>3. row' = [row EXCEPT ![c] = w]
    BY <1>2 DEF BeginProvision
  <2> QED
    BY <2>1, <2>2, <2>3, RowWritten
<1>3. ASSUME NEW h \in Handler, Settle(h) PROVE Good
  <2> DEFINE c == handler[h].chan
             w == Recorded(c, handler[h].outcome)
  <2>1. CASE ~Live(c)
    BY <1>3, <2>1 DEF Settle, UnbornIsBlank
  <2>2. CASE Live(c)
    <3>1. c \in Channel /\ row[c] \in RowState /\ handler[h].outcome \in Outcome
      BY <1>3 DEF Settle, Known, HandlerState
    <3>2. w \in RowState /\ w.life = "live"
      BY <2>2, <3>1 DEF RowState, Recorded, Status, Credential, Live, Outcome
    <3>3. row' = [row EXCEPT ![c] = w]
      BY <1>3, <2>2 DEF Settle
    <3> QED
      BY <3>1, <3>2, <3>3, RowWritten
  <2> QED
    BY <2>1, <2>2
<1>4. ASSUME NEW h \in Handler, WriteStatus(h) PROVE Good
  <2> DEFINE c == handler[h].chan
             w == [row[c] EXCEPT !.status = Assigned(c, handler[h].seen, handler[h].result)]
  <2>1. CASE ~Live(c)
    BY <1>4, <2>1 DEF WriteStatus, UnbornIsBlank
  <2>2. CASE Live(c)
    <3>1. c \in Channel /\ row[c] \in RowState /\ handler[h].result \in Status
      BY <1>4 DEF WriteStatus, Known, HandlerState
    <3>2. w \in RowState /\ w.life = "live"
      BY <2>2, <3>1 DEF RowState, Assigned, Live
    <3>3. row' = [row EXCEPT ![c] = w]
      BY <1>4, <2>2 DEF WriteStatus
    <3> QED
      BY <3>1, <3>2, <3>3, RowWritten
  <2> QED
    BY <2>1, <2>2
<1>5. ASSUME NEW h \in Handler, RemoveRow(h) PROVE Good
  <2>1. handler[h].chan \in Channel
    BY <1>5 DEF RemoveRow, Known
  <2>2. [Unborn EXCEPT !.life = "gone"] \in RowState /\ [Unborn EXCEPT !.life = "gone"].life = "gone"
    BY DEF Unborn, RowState, Status, Credential
  <2> QED
    BY <1>5, <2>1, <2>2, RowWritten DEF RemoveRow
<1>6. ASSUME row' = row PROVE Good
  BY <1>6 DEF UnbornIsBlank
<1> QED
  BY ZenonT(60), <1>1, <1>2, <1>3, <1>4, <1>5, <1>6
  DEF Next, Work, Provision, Delete, Begin, Gateway, CreateAgain, Connect, ReadStatus, DeleteChannel, vars,
      Load, ReceiveEvent, SkipProvision, InstanceCreated, InstanceExists, CreationUnanswered, CreationRefused,
      Confirmed, NotConfirmed, Answered, InstanceDeleted, DeletionFails, Die, LateCreation, CreationLost,
      SessionChanges, LoseEvent

\* The requests.
LEMMA HandlerStep ==
    ASSUME Basis, [Next]_vars
    PROVE  handler' \in [Handler -> HandlerState] /\ Known'
<1> DEFINE Good == handler' \in [Handler -> HandlerState] /\ Known'
<1> USE DEF Basis, TypeOK
<1>1. ASSUME NEW h \in Handler, NEW c \in Channel, CreateChannel(h, c) PROVE Good
  BY <1>1, HandlerWritten DEF CreateChannel, Idle, HandlerState, Status, Outcome
<1>2. ASSUME NEW h \in Handler, NEW c \in Channel, NEW phase \in {"found", "reading", "deleting"},
             NEW connect \in BOOLEAN, Load(h, c, phase, connect)
      PROVE Good
  <2> DEFINE w == [Idle EXCEPT !.phase = phase, !.chan = c, !.connect = connect,
                               !.seen = IF phase = "deleting" THEN Idle.seen ELSE row[c].status]
  <2>1. row[c].status \in Status
    BY DEF RowState
  <2>2. w \in HandlerState /\ w.chan = c
    BY <2>1 DEF Idle, HandlerState, Status, Outcome
  <2> QED
    BY <1>2, <2>2, HandlerWritten DEF Load
<1>3. ASSUME NEW h \in Handler, NEW c \in Channel, NEW event \in Event, ReceiveEvent(h, c, event) PROVE Good
  <2> DEFINE w == [Idle EXCEPT !.phase = "writing", !.chan = c, !.seen = row[c].status,
                               !.result = EventStatus(event)]
  <2>1. row[c].status \in Status /\ EventStatus(event) \in Status
    BY DEF RowState, EventStatus, Event, Status
  <2>2. w \in HandlerState /\ w.chan = c
    BY <2>1 DEF Idle, HandlerState, Status, Outcome
  <2>3. handler' = handler \/ handler' = [handler EXCEPT ![h] = w]
    BY <1>3 DEF ReceiveEvent
  <2>4. CASE handler' = handler
    BY <2>4 DEF Known
  <2> QED
    BY <2>2, <2>3, <2>4, HandlerWritten
<1>4. ASSUME NEW h \in Handler, SkipProvision(h) PROVE Good
  <2> DEFINE w == [handler[h] EXCEPT !.phase = "reading", !.connect = FALSE]
  <2>1. handler[h] \in HandlerState /\ handler[h].chan \in Channel
    BY <1>4 DEF SkipProvision, Known
  <2>2. w \in HandlerState /\ w.chan = handler[h].chan
    BY <2>1 DEF HandlerState
  <2>3. Ends(h) \/ handler' = [handler EXCEPT ![h] = w]
    BY <1>4 DEF SkipProvision, Ends
  <2> QED
    BY <2>1, <2>2, <2>3, HandlerWritten, HandlerEnds
<1>5. ASSUME NEW h \in Handler, Settle(h) PROVE Good
  <2> DEFINE w == [Idle EXCEPT !.phase = "reading", !.chan = handler[h].chan, !.seen = "disconnected"]
  <2>1. w \in HandlerState /\ w.chan = handler[h].chan /\ handler[h].chan \in Channel
    BY <1>5 DEF Settle, Known, Idle, HandlerState, Status, Outcome
  <2>2. Ends(h) \/ handler' = [handler EXCEPT ![h] = w]
    BY <1>5 DEF Settle, Ends
  <2> QED
    BY <2>1, <2>2, HandlerWritten, HandlerEnds
<1>6. ASSUME NEW h \in Handler, handler[h].phase # "idle",
             NEW w \in HandlerState, w.chan = handler[h].chan, handler' = [handler EXCEPT ![h] = w]
      PROVE  Good
  BY <1>6, HandlerWritten DEF Known
<1>7. ASSUME NEW h \in Handler, NEW p \in {"creating", "settling", "removing"}, handler[h].phase # "idle",
             Goes(h, p)
      PROVE Good
  <2>1. [handler[h] EXCEPT !.phase = p] \in HandlerState
    BY DEF HandlerState
  <2> QED
    BY <1>7, <2>1, <1>6 DEF Goes, HandlerState
<1>8. ASSUME NEW h \in Handler, BeginProvision(h) PROVE Good
  <2> DEFINE w == [handler[h] EXCEPT !.phase = "creating", !.seen = "connecting"]
  <2>1. w \in HandlerState /\ w.chan = handler[h].chan
    BY DEF HandlerState, Status
  <2>2. handler[h].phase # "idle" /\ handler' = [handler EXCEPT ![h] = w]
    BY <1>8 DEF BeginProvision
  <2> QED
    BY <2>1, <2>2, <1>6
<1>9. ASSUME NEW h \in Handler, NEW p \in {"settling", "confirming"}, NEW o \in Outcome, handler[h].phase # "idle",
             handler' = [handler EXCEPT ![h].phase = p, ![h].outcome = o]
      PROVE Good
  <2> DEFINE w == [handler[h] EXCEPT !.phase = p, !.outcome = o]
  <2>1. w \in HandlerState /\ w.chan = handler[h].chan
    BY DEF HandlerState, Status
  <2>2. handler[h].phase # "idle" /\ handler' = [handler EXCEPT ![h] = w]
    BY <1>9
  <2> QED
    BY <2>1, <2>2, <1>6
<1>10. ASSUME NEW h \in Handler, NEW answer \in Status, Answered(h, answer) PROVE Good
  <2> DEFINE w == [handler[h] EXCEPT !.phase = "writing", !.result = answer]
  <2>1. w \in HandlerState /\ w.chan = handler[h].chan
    BY DEF HandlerState, Status
  <2>2. handler[h].phase # "idle" /\ handler' = [handler EXCEPT ![h] = w]
    BY <1>10 DEF Answered
  <2> QED
    BY <2>1, <2>2, <1>6
<1>11. ASSUME NEW h \in Handler, Ends(h) PROVE Good
  BY <1>11, HandlerEnds
<1>12. ASSUME handler' = handler PROVE Good
  BY <1>12 DEF Known
<1>13. ASSUME NEW h \in Handler, Provision(h) PROVE Good
  BY <1>13, <1>4, <1>5, <1>7, <1>8, <1>9
  DEF Provision, InstanceCreated, InstanceExists, CreationUnanswered, CreationRefused, Confirmed, NotConfirmed, Outcome
<1>14. ASSUME NEW h \in Handler, WriteStatus(h) \/ Delete(h) \/ Die(h) PROVE Good
  BY <1>14, <1>7, <1>11 DEF WriteStatus, Delete, InstanceDeleted, DeletionFails, RemoveRow, Die
<1>15. ASSUME NEW c \in Channel, Gateway(c) PROVE handler' = handler
  BY <1>15 DEF Gateway, LateCreation, CreationLost, SessionChanges, LoseEvent
<1>16. ASSUME NEW h \in Handler, NEW c \in Channel, Begin(h, c) PROVE Good
  BY <1>16, <1>1, <1>2, <1>3 DEF Begin, CreateAgain, Connect, ReadStatus, DeleteChannel
<1> QED
  BY <1>10, <1>12, <1>13, <1>14, <1>15, <1>16 DEF Next, Work, vars

\* The gateway and what is remembered.
LEMMA OthersStep ==
    ASSUME Basis, [Next]_vars
    PROVE  /\ inst' \in [Channel -> Session]
           /\ late' \subseteq Channel
           /\ news' \in [Channel -> SUBSET Event]
           /\ faults' \in Nat
           /\ deserted' \subseteq Channel /\ rivals' \subseteq Channel /\ cut' \subseteq Channel
           /\ spared' \subseteq Channel /\ crossed' \subseteq Channel /\ misled' \subseteq Channel
<1> DEFINE Good ==
        /\ inst' \in [Channel -> Session]
        /\ late' \subseteq Channel
        /\ news' \in [Channel -> SUBSET Event]
        /\ faults' \in Nat
        /\ deserted' \subseteq Channel /\ rivals' \subseteq Channel /\ cut' \subseteq Channel
        /\ spared' \subseteq Channel /\ crossed' \subseteq Channel /\ misled' \subseteq Channel
<1> USE DEF Basis, TypeOK
<1>1. ASSUME UNCHANGED <<inst, late, news, faults, historyVars>> PROVE Good
  BY <1>1 DEF historyVars
<1>2. ASSUME NEW h \in Handler, handler[h].phase # "idle" PROVE handler[h].chan \in Channel
  BY <1>2 DEF Known
<1>3. ASSUME NEW c \in Channel, Creates(c), UNCHANGED <<news, faults, deserted, rivals, spared, misled>>,
             late' \subseteq late
      PROVE  Good
  BY <1>3 DEF Creates, Session
<1>4. ASSUME NEW h \in Handler, NEW c \in Channel, Begin(h, c) PROVE Good
  <2>1. CASE \E event \in Event : ReceiveEvent(h, c, event)
    BY <2>1 DEF ReceiveEvent, historyVars
  <2> QED
    BY <1>4, <1>1, <2>1 DEF Begin, CreateChannel, CreateAgain, Connect, ReadStatus, DeleteChannel, Load
<1>5. ASSUME NEW h \in Handler, BeginProvision(h) \/ CreationUnanswered(h) \/ Settle(h) PROVE Good
  BY <1>5, <1>2 DEF BeginProvision, CreationUnanswered, Settle, Fault, historyVars
<1>6. ASSUME NEW h \in Handler, InstanceCreated(h) PROVE Good
  BY <1>6, <1>2, <1>3 DEF InstanceCreated
<1>7. ASSUME NEW h \in Handler, CreationRefused(h) \/ NotConfirmed(h) PROVE Good
  BY <1>7 DEF CreationRefused, NotConfirmed, Fault, historyVars
<1>8. ASSUME NEW h \in Handler, Provision(h) PROVE Good
  BY <1>8, <1>1, <1>5, <1>6, <1>7 DEF Provision, SkipProvision, InstanceExists, Confirmed
<1>9. ASSUME NEW h \in Handler, WriteStatus(h) \/ Die(h) PROVE Good
  BY <1>9, <1>2 DEF WriteStatus, Die, Fault
<1>10. ASSUME NEW h \in Handler, Delete(h) PROVE Good
  <2>1. CASE InstanceDeleted(h)
    BY <2>1, <1>2 DEF InstanceDeleted, Session
  <2>2. CASE DeletionFails(h)
    BY <2>2, <1>2 DEF DeletionFails, Fault
  <2> QED
    BY <1>10, <1>1, <2>1, <2>2 DEF Delete, RemoveRow
<1>11. ASSUME NEW c \in Channel, Gateway(c) PROVE Good
  <2>1. CASE LateCreation(c)
    BY <2>1, <1>3 DEF LateCreation
  <2>2. CASE CreationLost(c)
    BY <2>2 DEF CreationLost, historyVars
  <2>3. CASE SessionChanges(c)
    BY <2>3 DEF SessionChanges, historyVars, Session, Event
  <2>4. CASE \E event \in Event : LoseEvent(c, event)
    BY <2>4 DEF LoseEvent, Fault
  <2> QED
    BY <1>11, <2>1, <2>2, <2>3, <2>4 DEF Gateway
<1> QED
  BY <1>1, <1>4, <1>8, <1>9, <1>10, <1>11 DEF Next, Work, Answered, vars, historyVars

\* Together: every step keeps the basis.
LEMMA BasisStep ==
    ASSUME Basis, [Next]_vars
    PROVE  Basis'
BY RowStep, HandlerStep, OthersStep DEF Basis, TypeOK

-----------------------------------------------------------------------------

\* An active credential's instance.
LEMMA InstanceStep ==
    ASSUME IInv, [Next]_vars
    PROVE  CutIsNone' /\ OkIsTrue' /\ Unconfirmed' /\ ActiveHasInstance'
<1> DEFINE Good == CutIsNone' /\ OkIsTrue' /\ Unconfirmed' /\ ActiveHasInstance'
<1> USE DEF IInv, Basis, TypeOK, Known, Live, Idle, historyVars,
           CutIsNone, OkIsTrue, Unconfirmed, ActiveHasInstance
<1>1. ASSUME NEW h \in Handler, NEW c \in Channel, CreateChannel(h, c) PROVE Good
  BY <1>1 DEF CreateChannel, UnbornIsBlank, Unborn, RowState, HandlerState
<1>2. ASSUME NEW h \in Handler, NEW c \in Channel, NEW phase \in {"found", "reading", "deleting"},
             NEW connect \in BOOLEAN, Load(h, c, phase, connect) PROVE Good
  BY <1>2 DEF Load, RowState, HandlerState
<1>3. ASSUME NEW h \in Handler, NEW c \in Channel, NEW event \in Event, ReceiveEvent(h, c, event) PROVE Good
  BY <1>3 DEF ReceiveEvent, EventStatus, Event, RowState, HandlerState
<1>4. ASSUME NEW h \in Handler, SkipProvision(h) PROVE Good
  BY <1>4 DEF SkipProvision, Needed, RowState, HandlerState
<1>5. ASSUME NEW h \in Handler, BeginProvision(h) PROVE Good
  BY <1>5 DEF BeginProvision, Assigned, Needed, RowState, HandlerState
<1>6. ASSUME NEW h \in Handler, InstanceCreated(h) PROVE Good
  BY <1>6 DEF InstanceCreated, Creates, RowState, HandlerState
<1>7. ASSUME NEW h \in Handler, InstanceExists(h) PROVE Good
  BY <1>7 DEF InstanceExists, RowState, HandlerState
<1>8. ASSUME NEW h \in Handler, CreationUnanswered(h) PROVE Good
  BY <1>8 DEF CreationUnanswered, Fault, RowState, HandlerState
<1>9. ASSUME NEW h \in Handler, CreationRefused(h) PROVE Good
  BY <1>9 DEF CreationRefused, Fault, RowState, HandlerState
<1>10. ASSUME NEW h \in Handler, Confirmed(h) PROVE Good
  BY <1>10 DEF Confirmed, RowState, HandlerState
<1>11. ASSUME NEW h \in Handler, NotConfirmed(h) PROVE Good
  BY <1>11 DEF NotConfirmed, Goes, Fault, RowState, HandlerState
<1>12. ASSUME NEW h \in Handler, Settle(h) PROVE Good
  <2> DEFINE d == handler[h].chan
  <2>1. d \in Channel /\ inst' = inst /\ cut' = cut
    BY <1>12 DEF Settle
  <2>2. handler'[h].phase \in {"idle", "reading"} /\ \A o \in Handler \ {h} : handler'[o] = handler[o]
    BY <1>12 DEF Settle
  <2>3. ActiveHasInstance'
    <3>1. row' = row \/ (handler[h].outcome = "ok" => inst[d] # "none" \/ d \in cut)
      BY <1>12 DEF Settle
    <3>2. \A c \in Channel \ {d} : row'[c] = row[c]
      BY <1>12 DEF Settle
    <3>3. row' = row \/ row'[d].cred = "active" => row'[d] = row[d] \/ handler[h].outcome = "ok"
      BY <1>12, <2>1 DEF Settle, Recorded, RowState, HandlerState, Outcome
    <3> QED
      BY <1>12, <2>1, <3>1, <3>2, <3>3 DEF Settle, Recorded, RowState, HandlerState, Outcome
  <2> QED
    BY <2>1, <2>2, <2>3
<1>13. ASSUME NEW h \in Handler, WriteStatus(h) PROVE Good
  BY <1>13 DEF WriteStatus, Assigned, Ends, RowState, HandlerState
<1>14. ASSUME NEW h \in Handler, InstanceDeleted(h) PROVE Good
  BY <1>14 DEF InstanceDeleted, Goes, RowState, HandlerState
<1>15. ASSUME NEW h \in Handler, DeletionFails(h) PROVE Good
  BY <1>15 DEF DeletionFails, Goes, Fault, RowState, HandlerState
<1>16. ASSUME NEW h \in Handler, RemoveRow(h) PROVE Good
  BY <1>16 DEF RemoveRow, Unborn, Ends, RowState, HandlerState
<1>17. ASSUME NEW h \in Handler, Die(h) PROVE Good
  BY <1>17 DEF Die, Fault, Ends, RowState, HandlerState
<1>18. ASSUME NEW h \in Handler, NEW answer \in Status, Answered(h, answer) PROVE Good
  BY <1>18 DEF Answered, Answers, RowState, HandlerState
<1>19. ASSUME NEW c \in Channel, LateCreation(c) PROVE Good
  BY <1>19 DEF LateCreation, Creates, RowState, HandlerState
<1>20. ASSUME NEW c \in Channel, CreationLost(c) PROVE Good
  BY <1>20 DEF CreationLost, RowState, HandlerState
<1>21. ASSUME NEW c \in Channel, SessionChanges(c) PROVE Good
  BY <1>21 DEF SessionChanges, RowState, HandlerState
<1>22. ASSUME NEW c \in Channel, NEW event \in Event, LoseEvent(c, event) PROVE Good
  BY <1>22 DEF LoseEvent, Fault, RowState, HandlerState
<1>23. ASSUME UNCHANGED vars PROVE Good
  BY <1>23 DEF vars
<1> QED
  BY <1>1, <1>2, <1>3, <1>4, <1>5, <1>6, <1>7, <1>8, <1>9, <1>10, <1>11, <1>12, <1>13,
     <1>14, <1>15, <1>16, <1>17, <1>18, <1>19, <1>20, <1>21, <1>22, <1>23
  DEF Next, Work, Provision, Delete, Begin, Gateway, CreateAgain, Connect, ReadStatus, DeleteChannel

\* A pending credential is somebody's.
LEMMA PendingStep ==
    ASSUME IInv, [Next]_vars
    PROVE  PendingIsAttended'
<1> USE DEF IInv, Basis, TypeOK, Known, Live, Idle, historyVars,
           PendingIsAttended, Attempts
<1>1. ASSUME NEW h \in Handler, NEW c \in Channel, CreateChannel(h, c) PROVE PendingIsAttended'
  BY <1>1 DEF CreateChannel, UnbornIsBlank, Unborn, RowState, HandlerState
<1>2. ASSUME NEW h \in Handler, NEW c \in Channel, NEW phase \in {"found", "reading", "deleting"},
             NEW connect \in BOOLEAN, Load(h, c, phase, connect) PROVE PendingIsAttended'
  BY <1>2 DEF Load, RowState, HandlerState
<1>3. ASSUME NEW h \in Handler, NEW c \in Channel, NEW event \in Event, ReceiveEvent(h, c, event) PROVE PendingIsAttended'
  BY <1>3 DEF ReceiveEvent, EventStatus, Event, RowState, HandlerState
<1>4. ASSUME NEW h \in Handler, SkipProvision(h) PROVE PendingIsAttended'
  BY <1>4 DEF SkipProvision, Needed, RowState, HandlerState
<1>5. ASSUME NEW h \in Handler, BeginProvision(h) PROVE PendingIsAttended'
  <2> SUFFICES ASSUME NEW d \in Channel, Live(d)', row'[d].cred = "pending", d \notin deserted'
               PROVE  \E o \in Handler : (Attempts(o, d) \/ (handler[o].phase = "found" /\ handler[o].chan = d))'
    OBVIOUS
  <2>1. CASE d = handler[h].chan
    <3>1. Attempts(h, d)'
      BY <1>5, <2>1 DEF BeginProvision, HandlerState
    <3> QED
      BY <3>1
  <2>2. CASE d # handler[h].chan
    <3>1. Live(d) /\ row[d].cred = "pending" /\ d \notin deserted
      BY <1>5, <2>2 DEF BeginProvision
    <3>2. PICK o \in Handler : Attempts(o, d) \/ (handler[o].phase = "found" /\ handler[o].chan = d)
      BY <3>1
    <3>3. (Attempts(o, d) \/ (handler[o].phase = "found" /\ handler[o].chan = d))'
      BY <1>5, <2>2, <3>2 DEF BeginProvision, HandlerState
    <3> QED
      BY <3>3
  <2> QED
    BY <2>1, <2>2
<1>6. ASSUME NEW h \in Handler, InstanceCreated(h) PROVE PendingIsAttended'
  <2> SUFFICES ASSUME NEW d \in Channel, Live(d)', row'[d].cred = "pending", d \notin deserted'
               PROVE  \E o \in Handler : (Attempts(o, d) \/ (handler[o].phase = "found" /\ handler[o].chan = d))'
    OBVIOUS
  <2>1. Live(d) /\ row[d].cred = "pending" /\ d \notin deserted
    BY <1>6 DEF InstanceCreated
  <2>2. PICK o \in Handler : Attempts(o, d) \/ (handler[o].phase = "found" /\ handler[o].chan = d)
    BY <2>1
  <2>3. (Attempts(o, d) \/ (handler[o].phase = "found" /\ handler[o].chan = d))'
    BY <1>6, <2>2 DEF InstanceCreated, HandlerState
  <2> QED
    BY <2>3
<1>7. ASSUME NEW h \in Handler, InstanceExists(h) PROVE PendingIsAttended'
  BY <1>7 DEF InstanceExists, RowState, HandlerState
<1>8. ASSUME NEW h \in Handler, CreationUnanswered(h) PROVE PendingIsAttended'
  <2> SUFFICES ASSUME NEW d \in Channel, Live(d)', row'[d].cred = "pending", d \notin deserted'
               PROVE  \E o \in Handler : (Attempts(o, d) \/ (handler[o].phase = "found" /\ handler[o].chan = d))'
    OBVIOUS
  <2>1. Live(d) /\ row[d].cred = "pending" /\ d \notin deserted
    BY <1>8 DEF CreationUnanswered
  <2>2. PICK o \in Handler : Attempts(o, d) \/ (handler[o].phase = "found" /\ handler[o].chan = d)
    BY <2>1
  <2>3. (Attempts(o, d) \/ (handler[o].phase = "found" /\ handler[o].chan = d))'
    BY <1>8, <2>2 DEF CreationUnanswered, HandlerState
  <2> QED
    BY <2>3
<1>9. ASSUME NEW h \in Handler, CreationRefused(h) PROVE PendingIsAttended'
  BY <1>9 DEF CreationRefused, Fault, RowState, HandlerState
<1>10. ASSUME NEW h \in Handler, Confirmed(h) PROVE PendingIsAttended'
  BY <1>10 DEF Confirmed, RowState, HandlerState
<1>11. ASSUME NEW h \in Handler, NotConfirmed(h) PROVE PendingIsAttended'
  BY <1>11 DEF NotConfirmed, Goes, Fault, RowState, HandlerState
<1>12. ASSUME NEW h \in Handler, Settle(h) PROVE PendingIsAttended'
  <2> SUFFICES ASSUME NEW d \in Channel, Live(d)', row'[d].cred = "pending", d \notin deserted'
               PROVE  \E o \in Handler : (Attempts(o, d) \/ (handler[o].phase = "found" /\ handler[o].chan = d))'
    OBVIOUS
  <2>1. d # handler[h].chan
    BY <1>12 DEF Settle, Recorded, RowState, HandlerState, Outcome
  <2>2. Live(d) /\ row[d].cred = "pending" /\ d \notin deserted
    BY <1>12, <2>1 DEF Settle
  <2>3. PICK o \in Handler : Attempts(o, d) \/ (handler[o].phase = "found" /\ handler[o].chan = d)
    BY <2>2
  <2>4. handler'[o] = handler[o]
    BY <1>12, <2>1, <2>3 DEF Settle
  <2> QED
    BY <2>3, <2>4
<1>13. ASSUME NEW h \in Handler, WriteStatus(h) PROVE PendingIsAttended'
  BY <1>13 DEF WriteStatus, Assigned, Ends, RowState, HandlerState
<1>14. ASSUME NEW h \in Handler, InstanceDeleted(h) PROVE PendingIsAttended'
  BY <1>14 DEF InstanceDeleted, Goes, RowState, HandlerState
<1>15. ASSUME NEW h \in Handler, DeletionFails(h) PROVE PendingIsAttended'
  BY <1>15 DEF DeletionFails, Goes, Fault, RowState, HandlerState
<1>16. ASSUME NEW h \in Handler, RemoveRow(h) PROVE PendingIsAttended'
  BY <1>16 DEF RemoveRow, Unborn, Ends, RowState, HandlerState
<1>17. ASSUME NEW h \in Handler, Die(h) PROVE PendingIsAttended'
  BY <1>17 DEF Die, Fault, Ends, RowState, HandlerState
<1>18. ASSUME NEW h \in Handler, NEW answer \in Status, Answered(h, answer) PROVE PendingIsAttended'
  BY <1>18 DEF Answered, Answers, RowState, HandlerState
<1>19. ASSUME NEW c \in Channel, LateCreation(c) PROVE PendingIsAttended'
  BY <1>19 DEF LateCreation, Creates, RowState, HandlerState
<1>20. ASSUME NEW c \in Channel, CreationLost(c) PROVE PendingIsAttended'
  BY <1>20 DEF CreationLost, RowState, HandlerState
<1>21. ASSUME NEW c \in Channel, SessionChanges(c) PROVE PendingIsAttended'
  BY <1>21 DEF SessionChanges, RowState, HandlerState
<1>22. ASSUME NEW c \in Channel, NEW event \in Event, LoseEvent(c, event) PROVE PendingIsAttended'
  BY <1>22 DEF LoseEvent, Fault, RowState, HandlerState
<1>23. ASSUME UNCHANGED vars PROVE PendingIsAttended'
  BY <1>23 DEF vars
<1> QED
  BY <1>1, <1>2, <1>3, <1>4, <1>5, <1>6, <1>7, <1>8, <1>9, <1>10, <1>11, <1>12, <1>13,
     <1>14, <1>15, <1>16, <1>17, <1>18, <1>19, <1>20, <1>21, <1>22, <1>23
  DEF Next, Work, Provision, Delete, Begin, Gateway, CreateAgain, Connect, ReadStatus, DeleteChannel

\* What is left at the gateway.
LEMMA OrphanStep ==
    ASSUME IInv, [Next]_vars
    PROVE  RemovalIsExplained' /\ OrphansAreExplained'
<1> DEFINE Good == RemovalIsExplained' /\ OrphansAreExplained'
<1> USE DEF IInv, Basis, TypeOK, Known, Live, Idle, historyVars,
           CutIsNone, RemovalIsExplained, OrphansAreExplained
<1>1. ASSUME NEW h \in Handler, NEW c \in Channel, CreateChannel(h, c) PROVE Good
  BY <1>1 DEF CreateChannel, UnbornIsBlank, Unborn, RowState, HandlerState
<1>2. ASSUME NEW h \in Handler, NEW c \in Channel, NEW phase \in {"found", "reading", "deleting"},
             NEW connect \in BOOLEAN, Load(h, c, phase, connect) PROVE Good
  BY <1>2 DEF Load, RowState, HandlerState
<1>3. ASSUME NEW h \in Handler, NEW c \in Channel, NEW event \in Event, ReceiveEvent(h, c, event) PROVE Good
  BY <1>3 DEF ReceiveEvent, EventStatus, Event, RowState, HandlerState
<1>4. ASSUME NEW h \in Handler, SkipProvision(h) PROVE Good
  BY <1>4 DEF SkipProvision, Needed, RowState, HandlerState
<1>5. ASSUME NEW h \in Handler, BeginProvision(h) PROVE Good
  BY <1>5 DEF BeginProvision, Assigned, Needed, RowState, HandlerState
<1>6. ASSUME NEW h \in Handler, InstanceCreated(h) PROVE Good
  BY <1>6 DEF InstanceCreated, Creates, RowState, HandlerState
<1>7. ASSUME NEW h \in Handler, InstanceExists(h) PROVE Good
  BY <1>7 DEF InstanceExists, RowState, HandlerState
<1>8. ASSUME NEW h \in Handler, CreationUnanswered(h) PROVE Good
  BY <1>8 DEF CreationUnanswered, Fault, RowState, HandlerState
<1>9. ASSUME NEW h \in Handler, CreationRefused(h) PROVE Good
  BY <1>9 DEF CreationRefused, Fault, RowState, HandlerState
<1>10. ASSUME NEW h \in Handler, Confirmed(h) PROVE Good
  BY <1>10 DEF Confirmed, RowState, HandlerState
<1>11. ASSUME NEW h \in Handler, NotConfirmed(h) PROVE Good
  BY <1>11 DEF NotConfirmed, Goes, Fault, RowState, HandlerState
<1>12. ASSUME NEW h \in Handler, Settle(h) PROVE Good
  BY <1>12 DEF Settle, Recorded, RowState, HandlerState
<1>13. ASSUME NEW h \in Handler, WriteStatus(h) PROVE Good
  BY <1>13 DEF WriteStatus, Assigned, Ends, RowState, HandlerState
<1>14. ASSUME NEW h \in Handler, InstanceDeleted(h) PROVE Good
  BY <1>14 DEF InstanceDeleted, Goes, RowState, HandlerState
<1>15. ASSUME NEW h \in Handler, DeletionFails(h) PROVE Good
  BY <1>15 DEF DeletionFails, Goes, Fault, RowState, HandlerState
<1>16. ASSUME NEW h \in Handler, RemoveRow(h) PROVE Good
  BY <1>16 DEF RemoveRow, Unborn, Ends, RowState, HandlerState
<1>17. ASSUME NEW h \in Handler, Die(h) PROVE Good
  BY <1>17 DEF Die, Fault, Ends, RowState, HandlerState
<1>18. ASSUME NEW h \in Handler, NEW answer \in Status, Answered(h, answer) PROVE Good
  BY <1>18 DEF Answered, Answers, RowState, HandlerState
<1>19. ASSUME NEW c \in Channel, LateCreation(c) PROVE Good
  BY <1>19 DEF LateCreation, Creates, RowState, HandlerState
<1>20. ASSUME NEW c \in Channel, CreationLost(c) PROVE Good
  BY <1>20 DEF CreationLost, RowState, HandlerState
<1>21. ASSUME NEW c \in Channel, SessionChanges(c) PROVE Good
  BY <1>21 DEF SessionChanges, RowState, HandlerState
<1>22. ASSUME NEW c \in Channel, NEW event \in Event, LoseEvent(c, event) PROVE Good
  BY <1>22 DEF LoseEvent, Fault, RowState, HandlerState
<1>23. ASSUME UNCHANGED vars PROVE Good
  BY <1>23 DEF vars
<1> QED
  BY <1>1, <1>2, <1>3, <1>4, <1>5, <1>6, <1>7, <1>8, <1>9, <1>10, <1>11, <1>12, <1>13,
     <1>14, <1>15, <1>16, <1>17, <1>18, <1>19, <1>20, <1>21, <1>22, <1>23
  DEF Next, Work, Provision, Delete, Begin, Gateway, CreateAgain, Connect, ReadStatus, DeleteChannel

\* A channel shown as connected.
LEMMA ConnectedStep ==
    ASSUME IInv, [Next]_vars
    PROVE  ConnectedIsReal'
<1> USE DEF IInv, Basis, TypeOK, Known, Live, Idle, historyVars,
           ConnectedIsReal
<1>1. ASSUME NEW h \in Handler, NEW c \in Channel, CreateChannel(h, c) PROVE ConnectedIsReal'
  BY <1>1 DEF CreateChannel, UnbornIsBlank, Unborn, RowState, HandlerState
<1>2. ASSUME NEW h \in Handler, NEW c \in Channel, NEW phase \in {"found", "reading", "deleting"},
             NEW connect \in BOOLEAN, Load(h, c, phase, connect) PROVE ConnectedIsReal'
  BY <1>2 DEF Load, RowState, HandlerState
<1>3. ASSUME NEW h \in Handler, NEW c \in Channel, NEW event \in Event, ReceiveEvent(h, c, event) PROVE ConnectedIsReal'
  BY <1>3 DEF ReceiveEvent, EventStatus, Event, RowState, HandlerState
<1>4. ASSUME NEW h \in Handler, SkipProvision(h) PROVE ConnectedIsReal'
  BY <1>4 DEF SkipProvision, Needed, RowState, HandlerState
<1>5. ASSUME NEW h \in Handler, BeginProvision(h) PROVE ConnectedIsReal'
  <2> SUFFICES ASSUME NEW d \in Channel, Live(d)', row'[d].status = "connected", inst'[d] # "in",
                      d \notin misled', "loggedout" \notin news'[d]
               PROVE  \E o \in Handler : (/\ handler[o].phase = "writing" /\ handler[o].chan = d
                                          /\ handler[o].result \notin {"connected", handler[o].seen})'
    OBVIOUS
  <2>1. Live(d) /\ row[d].status = "connected" /\ inst[d] # "in" /\ d \notin misled /\ "loggedout" \notin news[d]
    BY <1>5 DEF BeginProvision, Assigned, Needed, RowState, Session
  <2>2. PICK o \in Handler : handler[o].phase = "writing" /\ handler[o].chan = d
                             /\ handler[o].result \notin {"connected", handler[o].seen}
    BY <2>1
  <2>3. handler'[o] = handler[o]
    BY <1>5, <2>2 DEF BeginProvision
  <2> QED
    BY <2>2, <2>3
<1>6. ASSUME NEW h \in Handler, InstanceCreated(h) PROVE ConnectedIsReal'
  <2> SUFFICES ASSUME NEW d \in Channel, Live(d)', row'[d].status = "connected", inst'[d] # "in",
                      d \notin misled', "loggedout" \notin news'[d]
               PROVE  \E o \in Handler : (/\ handler[o].phase = "writing" /\ handler[o].chan = d
                                          /\ handler[o].result \notin {"connected", handler[o].seen})'
    OBVIOUS
  <2>1. Live(d) /\ row[d].status = "connected" /\ inst[d] # "in" /\ d \notin misled /\ "loggedout" \notin news[d]
    BY <1>6 DEF InstanceCreated, Creates, RowState, Session
  <2>2. PICK o \in Handler : handler[o].phase = "writing" /\ handler[o].chan = d
                             /\ handler[o].result \notin {"connected", handler[o].seen}
    BY <2>1
  <2>3. handler'[o] = handler[o]
    BY <1>6, <2>2 DEF InstanceCreated
  <2> QED
    BY <2>2, <2>3
<1>7. ASSUME NEW h \in Handler, InstanceExists(h) PROVE ConnectedIsReal'
  BY <1>7 DEF InstanceExists, RowState, HandlerState
<1>8. ASSUME NEW h \in Handler, CreationUnanswered(h) PROVE ConnectedIsReal'
  BY <1>8 DEF CreationUnanswered, Fault, RowState, HandlerState
<1>9. ASSUME NEW h \in Handler, CreationRefused(h) PROVE ConnectedIsReal'
  BY <1>9 DEF CreationRefused, Fault, RowState, HandlerState
<1>10. ASSUME NEW h \in Handler, Confirmed(h) PROVE ConnectedIsReal'
  BY <1>10 DEF Confirmed, RowState, HandlerState
<1>11. ASSUME NEW h \in Handler, NotConfirmed(h) PROVE ConnectedIsReal'
  BY <1>11 DEF NotConfirmed, Goes, Fault, RowState, HandlerState
<1>12. ASSUME NEW h \in Handler, Settle(h) PROVE ConnectedIsReal'
  BY <1>12 DEF Settle, Recorded, RowState, HandlerState
<1>13. ASSUME NEW h \in Handler, WriteStatus(h) PROVE ConnectedIsReal'
  BY <1>13 DEF WriteStatus, Assigned, Ends, RowState, HandlerState
<1>14. ASSUME NEW h \in Handler, InstanceDeleted(h) PROVE ConnectedIsReal'
  BY <1>14 DEF InstanceDeleted, Goes, RowState, HandlerState
<1>15. ASSUME NEW h \in Handler, DeletionFails(h) PROVE ConnectedIsReal'
  BY <1>15 DEF DeletionFails, Goes, Fault, RowState, HandlerState
<1>16. ASSUME NEW h \in Handler, RemoveRow(h) PROVE ConnectedIsReal'
  BY <1>16 DEF RemoveRow, Unborn, Ends, RowState, HandlerState
<1>17. ASSUME NEW h \in Handler, Die(h) PROVE ConnectedIsReal'
  BY <1>17 DEF Die, Fault, Ends, RowState, HandlerState
<1>18. ASSUME NEW h \in Handler, NEW answer \in Status, Answered(h, answer) PROVE ConnectedIsReal'
  BY <1>18 DEF Answered, Answers, RowState, HandlerState
<1>19. ASSUME NEW c \in Channel, LateCreation(c) PROVE ConnectedIsReal'
  BY <1>19 DEF LateCreation, Creates, RowState, HandlerState
<1>20. ASSUME NEW c \in Channel, CreationLost(c) PROVE ConnectedIsReal'
  BY <1>20 DEF CreationLost, RowState, HandlerState
<1>21. ASSUME NEW c \in Channel, SessionChanges(c) PROVE ConnectedIsReal'
  BY <1>21 DEF SessionChanges, RowState, HandlerState
<1>22. ASSUME NEW c \in Channel, NEW event \in Event, LoseEvent(c, event) PROVE ConnectedIsReal'
  BY <1>22 DEF LoseEvent, Fault, RowState, HandlerState
<1>23. ASSUME UNCHANGED vars PROVE ConnectedIsReal'
  BY <1>23 DEF vars
<1> QED
  BY <1>1, <1>2, <1>3, <1>4, <1>5, <1>6, <1>7, <1>8, <1>9, <1>10, <1>11, <1>12, <1>13,
     <1>14, <1>15, <1>16, <1>17, <1>18, <1>19, <1>20, <1>21, <1>22, <1>23
  DEF Next, Work, Provision, Delete, Begin, Gateway, CreateAgain, Connect, ReadStatus, DeleteChannel

\* Attempts that meet.
LEMMA RivalsStep ==
    ASSUME IInv, [Next]_vars
    PROVE  RivalsAreKnown'
<1> USE DEF IInv, Basis, TypeOK, Known, Live, Idle, historyVars,
           RivalsAreKnown, Attempts
<1>1. ASSUME NEW h \in Handler, NEW c \in Channel, CreateChannel(h, c) PROVE RivalsAreKnown'
  BY <1>1 DEF CreateChannel, UnbornIsBlank, Unborn, RowState, HandlerState
<1>2. ASSUME NEW h \in Handler, NEW c \in Channel, NEW phase \in {"found", "reading", "deleting"},
             NEW connect \in BOOLEAN, Load(h, c, phase, connect) PROVE RivalsAreKnown'
  BY <1>2 DEF Load, RowState, HandlerState
<1>3. ASSUME NEW h \in Handler, NEW c \in Channel, NEW event \in Event, ReceiveEvent(h, c, event) PROVE RivalsAreKnown'
  BY <1>3 DEF ReceiveEvent, EventStatus, Event, RowState, HandlerState
<1>4. ASSUME NEW h \in Handler, SkipProvision(h) PROVE RivalsAreKnown'
  BY <1>4 DEF SkipProvision, Needed, RowState, HandlerState
<1>5. ASSUME NEW h \in Handler, BeginProvision(h) PROVE RivalsAreKnown'
  BY <1>5 DEF BeginProvision, Assigned, Needed, RowState, HandlerState
<1>6. ASSUME NEW h \in Handler, InstanceCreated(h) PROVE RivalsAreKnown'
  BY <1>6 DEF InstanceCreated, Creates, RowState, HandlerState
<1>7. ASSUME NEW h \in Handler, InstanceExists(h) PROVE RivalsAreKnown'
  BY <1>7 DEF InstanceExists, RowState, HandlerState
<1>8. ASSUME NEW h \in Handler, CreationUnanswered(h) PROVE RivalsAreKnown'
  BY <1>8 DEF CreationUnanswered, Fault, RowState, HandlerState
<1>9. ASSUME NEW h \in Handler, CreationRefused(h) PROVE RivalsAreKnown'
  BY <1>9 DEF CreationRefused, Fault, RowState, HandlerState
<1>10. ASSUME NEW h \in Handler, Confirmed(h) PROVE RivalsAreKnown'
  BY <1>10 DEF Confirmed, RowState, HandlerState
<1>11. ASSUME NEW h \in Handler, NotConfirmed(h) PROVE RivalsAreKnown'
  BY <1>11 DEF NotConfirmed, Goes, Fault, RowState, HandlerState
<1>12. ASSUME NEW h \in Handler, Settle(h) PROVE RivalsAreKnown'
  BY <1>12 DEF Settle, Recorded, RowState, HandlerState
<1>13. ASSUME NEW h \in Handler, WriteStatus(h) PROVE RivalsAreKnown'
  BY <1>13 DEF WriteStatus, Assigned, Ends, RowState, HandlerState
<1>14. ASSUME NEW h \in Handler, InstanceDeleted(h) PROVE RivalsAreKnown'
  BY <1>14 DEF InstanceDeleted, Goes, RowState, HandlerState
<1>15. ASSUME NEW h \in Handler, DeletionFails(h) PROVE RivalsAreKnown'
  BY <1>15 DEF DeletionFails, Goes, Fault, RowState, HandlerState
<1>16. ASSUME NEW h \in Handler, RemoveRow(h) PROVE RivalsAreKnown'
  BY <1>16 DEF RemoveRow, Unborn, Ends, RowState, HandlerState
<1>17. ASSUME NEW h \in Handler, Die(h) PROVE RivalsAreKnown'
  BY <1>17 DEF Die, Fault, Ends, RowState, HandlerState
<1>18. ASSUME NEW h \in Handler, NEW answer \in Status, Answered(h, answer) PROVE RivalsAreKnown'
  BY SMTT(30), <1>18 DEF Answered, Answers, RowState, HandlerState
<1>19. ASSUME NEW c \in Channel, LateCreation(c) PROVE RivalsAreKnown'
  BY <1>19 DEF LateCreation, Creates, RowState, HandlerState
<1>20. ASSUME NEW c \in Channel, CreationLost(c) PROVE RivalsAreKnown'
  BY <1>20 DEF CreationLost, RowState, HandlerState
<1>21. ASSUME NEW c \in Channel, SessionChanges(c) PROVE RivalsAreKnown'
  BY <1>21 DEF SessionChanges, RowState, HandlerState
<1>22. ASSUME NEW c \in Channel, NEW event \in Event, LoseEvent(c, event) PROVE RivalsAreKnown'
  BY <1>22 DEF LoseEvent, Fault, RowState, HandlerState
<1>23. ASSUME UNCHANGED vars PROVE RivalsAreKnown'
  BY <1>23 DEF vars
<1> QED
  BY <1>1, <1>2, <1>3, <1>4, <1>5, <1>6, <1>7, <1>8, <1>9, <1>10, <1>11, <1>12, <1>13,
     <1>14, <1>15, <1>16, <1>17, <1>18, <1>19, <1>20, <1>21, <1>22, <1>23
  DEF Next, Work, Provision, Delete, Begin, Gateway, CreateAgain, Connect, ReadStatus, DeleteChannel

-----------------------------------------------------------------------------
\* The initial state.
LEMMA InitInv == Init => IInv
BY MaxFaultsAssumption, NoChannelAssumption
DEF Init, IInv, Basis, TypeOK, Known, UnbornIsBlank, CutIsNone, OkIsTrue, Unconfirmed, ActiveHasInstance, PendingIsAttended,
    RemovalIsExplained, OrphansAreExplained, ConnectedIsReal, RivalsAreKnown, Attempts, Live, Unborn, Idle,
    RowState, HandlerState, Status, Credential, Session, Outcome, Event

\* IInv holds of every behaviour.
LEMMA Invariance == Spec => []IInv
<1>1. ASSUME IInv, [Next]_vars PROVE IInv'
  <2>1. Basis'
    BY <1>1, BasisStep DEF IInv
  <2> QED
    BY <1>1, <2>1, InstanceStep, PendingStep, OrphanStep, ConnectedStep, RivalsStep DEF IInv
<1> QED
  BY <1>1, InitInv, PTL DEF Spec

\* Every reachable state of the channels, their requests and the gateway is
\* well typed.
THEOREM TypeCorrect == Spec => []TypeOK
<1>1. IInv => TypeOK
  BY DEF IInv, Basis
<1> QED
  BY <1>1, Invariance, PTL

\* provision_evolution_channel marks a credential active only when the
\* instance exists, for any number of requests at once and any answers.
THEOREM ActiveCorrect == Spec => []ActiveHasInstance
<1>1. IInv => ActiveHasInstance
  BY DEF IInv
<1> QED
  BY <1>1, Invariance, PTL

\* A credential is left pending only by a request that died.
THEOREM PendingCorrect == Spec => []PendingIsAttended
<1>1. IInv => PendingIsAttended
  BY DEF IInv
<1> QED
  BY <1>1, Invariance, PTL

\* delete_channel leaves an instance at the gateway only when the gateway
\* failed, or a creation came after it.
THEOREM OrphansCorrect == Spec => []OrphansAreExplained
<1>1. IInv => OrphansAreExplained
  BY DEF IInv
<1> QED
  BY <1>1, Invariance, PTL

\* A channel is shown as connected only while it is, or for one of the four
\* reasons the property names.
THEOREM ConnectedCorrect == Spec => []ConnectedIsReal
<1>1. IInv => ConnectedIsReal
  BY DEF IInv
<1> QED
  BY <1>1, Invariance, PTL

\* An active credential stays active unless two attempts met.
THEOREM ActiveRemains == Spec => ActiveStays
<1> DEFINE Stays == \A c \in Channel :
                       Live(c) /\ row[c].cred = "active" /\ Live(c)' /\ row'[c].cred # "active" => c \in rivals
<1>1. ASSUME IInv, [Next]_vars PROVE Stays
  <2> USE DEF IInv, Basis, TypeOK, Known, Live
  <2> SUFFICES ASSUME NEW c \in Channel, Live(c), row[c].cred = "active", Live(c)', row'[c].cred # "active"
               PROVE  c \in rivals
    OBVIOUS
  <2>1. ASSUME NEW h \in Handler, NEW d \in Channel, CreateChannel(h, d) PROVE FALSE
    BY <2>1 DEF CreateChannel
  <2>2. ASSUME NEW h \in Handler, BeginProvision(h) PROVE FALSE
    <3>1. c = handler[h].chan
      BY <1>1, <2>2 DEF BeginProvision
    <3> QED
      BY <2>2, <3>1 DEF BeginProvision, Needed
  <2>3. ASSUME NEW h \in Handler, WriteStatus(h) PROVE FALSE
    BY <2>3 DEF WriteStatus
  <2>4. ASSUME NEW h \in Handler, RemoveRow(h) PROVE FALSE
    BY <2>4 DEF RemoveRow, Unborn, RowState
  <2>5. ASSUME NEW h \in Handler, Settle(h) PROVE c \in rivals
    <3>1. c = handler[h].chan
      BY <2>5 DEF Settle
    <3>2. Attempts(h, c)
      BY <2>5, <3>1 DEF Settle, Attempts
    <3> QED
      BY <1>1, <3>2 DEF RivalsAreKnown
  <2>6. row' # row
    OBVIOUS
  <2> QED
    BY ZenonT(60), <1>1, <2>1, <2>2, <2>3, <2>4, <2>5, <2>6
    DEF Next, Work, Provision, Delete, Begin, Gateway, CreateAgain, Connect, ReadStatus, DeleteChannel, vars,
        Load, ReceiveEvent, SkipProvision, InstanceCreated, InstanceExists, CreationUnanswered, CreationRefused,
        Confirmed, NotConfirmed, Answered, InstanceDeleted, DeletionFails, Die, LateCreation, CreationLost,
        SessionChanges, LoseEvent
<1> QED
  BY <1>1, Invariance, PTL DEF Spec, ActiveStays
=============================================================================
