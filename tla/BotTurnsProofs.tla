--------------------------- MODULE BotTurnsProofs ---------------------------
(***************************************************************************)
(* Proofs about BotTurns, for any number of messages, flows, moves and     *)
(* crashes, and any kinds of messages.                                     *)
(*                                                                         *)
(* Whoever holds the advisory lock is the only one to change the turns     *)
(* that are there, so that what he picked stays the oldest open turn until *)
(* he has finished with it, whatever is queued behind it meanwhile.  A     *)
(* person who takes the conversation over ends its sessions, and a session *)
(* never becomes active again; what they do not reach, the native AI, the  *)
(* switch of the bot tells apart.                                          *)
(***************************************************************************)
EXTENDS BotTurns, FiniteSetTheorems, SequenceTheorems, TLAPS

Early == {"none", "begun", "locked"}
Executing == {"picked", "calling", "asked"}
Draining == Executing \cup {"loop"}
OpenStatus == {"queued", "processing"}

-----------------------------------------------------------------------------
(* The inductive invariant. *)

\* Messages arrive in the order of their numbers.
Numbered == \A m, k \in Message : k < m /\ run[m].phase # "none" => run[k].phase # "none"

\* Who drains holds the lock.
LockHeld == \A m \in Message : run[m].phase \in Draining <=> lock = m

\* A message is stored when its transaction has committed, its turn and its
\* session with it.
StoredSound ==
    /\ \A m \in Message : m \in Stored <=> run[m].phase \notin Early
    /\ \A m \in Message : session[m].status # "none" => m \in Stored
    /\ \A m \in Message : turn[m].status # "none" =>
         m \in Stored /\ turn[m].session \in Message /\ session[turn[m].session].status # "none"

\* What is being executed is the oldest open turn, and claimed before it is
\* posted.
Executed ==
    \A m \in Message : run[m].phase \in Executing =>
        /\ IsNext(run[m].turn)
        /\ run[m].phase # "picked" => turn[run[m].turn].status = "processing"

\* A turn nobody claimed was not posted, nor was one that its claimer has found
\* in the queue and not posted yet.
PostsSound ==
    /\ \A t \in Message : turn[t].status \in {"none", "queued"} => posts[t] = 0
    /\ \A m \in Message : run[m].phase = "calling" /\ run[m].reason = "none" => posts[run[m].turn] = 0

\* A reply ends its turn or its run, and stands before what is still open.
RepliesSound ==
    \A i \in DOMAIN outgoing :
        LET m == outgoing[i].msg
        IN  /\ outgoing[i].engine = "typebot" =>
                   turn[m].status = "completed" /\ \A u \in OpenTurns : Before(m, u)
            /\ outgoing[i].engine = "native_ai" => run[m].phase = "done"

\* The session of a turn that was overtaken is not active, and the bot is off
\* or has been switched on since.
OvertakenSound ==
    /\ \A t \in Message : <<"typebot", t>> \in overtaken =>
         turn[t].status # "none" /\ session[turn[t].session].status # "active"
    /\ conv.bot => overtaken \subseteq revived

\* The rows and who may write them, and how the bots behave.
Base == TypeOK /\ Numbered /\ LockHeld /\ StoredSound /\ OneActiveSession

Conduct ==
    /\ Executed
    /\ PostsSound /\ PostedOnce
    /\ RepliesSound /\ RepliesInOrder
    /\ OvertakenSound /\ TakeoverSilences
    /\ DrainsItsTurns

IInv == Base /\ Conduct

-----------------------------------------------------------------------------
(* Sequences. *)

\* What Append leaves and adds.
LEMMA AppendIs ==
    ASSUME NEW S, NEW s \in Seq(S), NEW e \in S
    PROVE  /\ Append(s, e) \in Seq(S)
           /\ Len(s) \in Nat /\ DOMAIN s = 1 .. Len(s)
           /\ DOMAIN Append(s, e) = 1 .. Len(s) + 1
           /\ \A i \in 1 .. Len(s) : Append(s, e)[i] = s[i]
           /\ Append(s, e)[Len(s) + 1] = e
OBVIOUS

\* A message that is committed last is stored, behind all that were.
LEMMA OrderGrows ==
    ASSUME order \in Seq(Message), NEW m \in Message, m \notin Stored, order' = Append(order, m)
    PROVE  /\ Stored' = Stored \cup {m}
           /\ \A u, v : Before(u, v) => Before(u, v)'
           /\ \A u, v : Before(u, v)' /\ v \in Stored => Before(u, v)
           /\ \A u \in Stored : Before(u, m)'
<1> DEFINE n == Len(order)
<1>1. /\ n \in Nat /\ DOMAIN order = 1 .. n /\ DOMAIN order' = 1 .. n + 1
      /\ \A i \in 1 .. n : order'[i] = order[i]
      /\ order'[n + 1] = m
  BY AppendIs
<1> HIDE DEF n
<1>2. \A i \in 1 .. n + 1 : i \in 1 .. n \/ i = n + 1
  BY <1>1
<1>3. 1 .. n \subseteq 1 .. n + 1 /\ n + 1 \in 1 .. n + 1
  BY <1>1
<1>4. Stored' = Stored \cup {m}
  BY <1>1, <1>2, <1>3 DEF Stored
<1>5. \A u, v : Before(u, v) => Before(u, v)'
  BY <1>1, <1>3 DEF Before
<1>6. ASSUME NEW u, NEW v, Before(u, v)', v \in Stored PROVE Before(u, v)
  <2>1. PICK i, j \in 1 .. n + 1 : i < j /\ order'[i] = u /\ order'[j] = v
    BY <1>1, <1>6 DEF Before
  <2>2. j \in 1 .. n
    BY <1>1, <1>2, <1>6, <2>1
  <2>3. i \in 1 .. n
    BY <1>1, <2>1, <2>2
  <2> QED
    BY <1>1, <2>1, <2>2, <2>3 DEF Before
<1>7. ASSUME NEW u \in Stored PROVE Before(u, m)'
  <2>1. PICK i \in 1 .. n : order[i] = u
    BY <1>1, <1>7 DEF Stored
  <2>2. i < n + 1 /\ order'[i] = u
    BY <1>1, <2>1
  <2> QED
    BY <1>1, <1>3, <2>2 DEF Before
<1> QED
  BY <1>4, <1>5, <1>6, <1>7

\* What stands before something is stored, and so is what stands behind.
LEMMA BeforeStored == \A u, v : Before(u, v) => u \in Stored /\ v \in Stored
BY DEF Before, Stored

-----------------------------------------------------------------------------
(* Types. *)

SessionState == [status : {"none", "active", "ended", "failed"}, flow : Flow]
TurnState == [status : {"none", "queued", "processing", "completed", "discarded", "failed"},
              session : Message \cup {NoMessage}]
RunState == [phase : Phase, engine : {"none", "typebot", "native_ai"}, flow : Flow,
             turn : Message \cup {NoMessage}, view : {"none", "gone", "stale", "ok"},
             reason : Reason, at : 0 .. Messages]
ReplyRecord == [engine : {"typebot", "native_ai"}, msg : Message, at : 0 .. Messages]
OneActive(sessions) ==
    \A s, u \in Message : sessions[s].status = "active" /\ sessions[u].status = "active" => s = u

\* There are at most as many messages as there are numbers for them.
LEMMA ArrivedBounded == Cardinality(Arrived) \in 0 .. Messages
<1>1. Messages \in Nat /\ Arrived \in SUBSET Message
  BY BotAssumption DEF Arrived
<1>2. IsFiniteSet(Message) /\ Cardinality(Message) = Messages
  BY <1>1, FS_Interval DEF Message
<1>3. IsFiniteSet(Arrived) /\ Cardinality(Arrived) <= Messages
  BY <1>1, <1>2, FS_Subset
<1>4. Cardinality(Arrived) \in Nat
  BY <1>3, FS_CardinalityType
<1> QED
  BY <1>1, <1>3, <1>4

\* A run that goes to another phase is a run.
LEMMA GoesTyped ==
    ASSUME run \in [Message -> RunState], NEW m \in Message, NEW p \in Phase, Goes(m, p)
    PROVE  /\ run' \in [Message -> RunState]
           /\ run'[m].phase = p /\ run'[m].turn = run[m].turn /\ run'[m].reason = run[m].reason
           /\ \A k \in Message : k # m => run'[k] = run[k]
BY DEF Goes, RunState

\* A run that is written is a run.
LEMMA RunTyped ==
    ASSUME run \in [Message -> RunState], NEW m \in Message, NEW w \in RunState, run' = [run EXCEPT ![m] = w]
    PROVE  /\ run' \in [Message -> RunState]
           /\ run'[m] = w
           /\ \A k \in Message : k # m => run'[k] = run[k]
OBVIOUS

\* Ending the sessions leaves none active.
LEMMA EndedIs ==
    ASSUME session \in [Message -> SessionState]
    PROVE  /\ Ended \in [Message -> SessionState]
           /\ \A s \in Message :
                 Ended[s].status = IF session[s].status = "active" THEN "ended" ELSE session[s].status
           /\ OneActive(Ended)
<1>1. ASSUME NEW s \in Message
      PROVE  /\ Ended[s] \in SessionState
             /\ Ended[s].status = IF session[s].status = "active" THEN "ended" ELSE session[s].status
  BY DEF Ended, SessionState
<1>2. Ended = [s \in Message |-> Ended[s]]
  BY DEF Ended
<1>3. Ended \in [Message -> SessionState]
  BY <1>1, <1>2
<1>4. OneActive(Ended)
  BY <1>1 DEF OneActive
<1> QED
  BY <1>1, <1>3, <1>4

\* A turn is queued for a session that is active then, and the only one.
LEMMA PrepareIs ==
    ASSUME NEW m \in Message, NEW sessions \in [Message -> SessionState], OneActive(sessions),
           turn \in [Message -> TurnState], run \in [Message -> RunState], PrepareTurn(m, sessions)
    PROVE  /\ session' \in [Message -> SessionState] /\ turn' \in [Message -> TurnState]
           /\ OneActive(session')
           /\ turn'[m].status = "queued" /\ turn'[m].session \in Message
           /\ session'[turn'[m].session].status = "active"
           /\ \A t \in Message : t # m => turn'[t] = turn[t]
           /\ \A s \in Message : s # m =>
                 session'[s].status \in {sessions[s].status, "ended"}
                 /\ (session'[s].status = "none" <=> sessions[s].status = "none")
<1> DEFINE active == {s \in Message : sessions[s].status = "active"}
           kept == {s \in active : sessions[s].flow = run[m].flow}
           own == CHOOSE s \in kept : TRUE
<1>1. CASE kept # {}
  <2>1. own \in kept
    BY <1>1
  <2>2. own \in Message /\ sessions[own].status = "active"
    BY <2>1
  <2>3. session' = sessions /\ turn' = [turn EXCEPT ![m] = [status |-> "queued", session |-> own]]
    BY <1>1 DEF PrepareTurn
  <2> HIDE DEF own, kept, active
  <2>4. [status |-> "queued", session |-> own] \in TurnState
    BY <2>2 DEF TurnState
  <2>5. turn' \in [Message -> TurnState] /\ turn'[m] = [status |-> "queued", session |-> own]
        /\ \A t \in Message : t # m => turn'[t] = turn[t]
    BY <2>3, <2>4
  <2> QED
    BY <2>2, <2>3, <2>5
<1>2. CASE kept = {}
  <2> DEFINE new(s) == IF s = m THEN [status |-> "active", flow |-> run[m].flow]
                       ELSE IF s \in active THEN [sessions[s] EXCEPT !.status = "ended"] ELSE sessions[s]
  <2>1. /\ session' = [s \in Message |-> new(s)]
        /\ turn' = [turn EXCEPT ![m] = [status |-> "queued", session |-> m]]
    BY <1>2 DEF PrepareTurn
  <2>2. ASSUME NEW s \in Message
        PROVE  /\ new(s) \in SessionState
               /\ s = m => new(s).status = "active"
               /\ s # m => /\ new(s).status \in {sessions[s].status, "ended"}
                           /\ (new(s).status = "none" <=> sessions[s].status = "none")
                           /\ new(s).status # "active"
    BY DEF SessionState, RunState
  <2> HIDE DEF new
  <2>3. session' \in [Message -> SessionState] /\ \A s \in Message : session'[s] = new(s)
    BY <2>1, <2>2
  <2>4. [status |-> "queued", session |-> m] \in TurnState
    BY DEF TurnState
  <2>5. turn' \in [Message -> TurnState] /\ turn'[m] = [status |-> "queued", session |-> m]
        /\ \A t \in Message : t # m => turn'[t] = turn[t]
    BY <2>1, <2>4
  <2>6. OneActive(session')
    BY <2>2, <2>3 DEF OneActive
  <2> QED
    BY <2>2, <2>3, <2>5, <2>6
<1> QED
  BY <1>1, <1>2

-----------------------------------------------------------------------------
(* The rows, the runs and the lock. *)

Rows ==
    /\ session \in [Message -> SessionState]
    /\ turn \in [Message -> TurnState]
    /\ run \in [Message -> RunState]
Histories ==
    /\ order \in Seq(Message)
    /\ posts \in [Message -> Nat]
    /\ outgoing \in Seq(ReplyRecord)
    /\ overtaken \subseteq {"typebot", "native_ai"} \X Message
    /\ revived \subseteq overtaken
    /\ moves \in 0 .. MaxMoves
    /\ crashes \in 0 .. MaxCrashes
Settings ==
    /\ conv \in [status : {"none", "new", "open", "closed"}, assigned : BOOLEAN, bot : BOOLEAN]
    /\ typebot \in [enabled : BOOLEAN, flow : Flow]
    /\ ai \in BOOLEAN
    /\ connected \in BOOLEAN
    /\ lock \in Message \cup {NoMessage}

LEMMA TypeParts == TypeOK <=> Rows /\ Histories /\ Settings
BY DEF TypeOK, ReplyRecord, Rows, Histories, Settings, SessionState, TurnState, RunState

\* Every reply answers a message.
LEMMA RepliesTyped ==
    ASSUME outgoing \in Seq(ReplyRecord)
    PROVE  /\ Len(outgoing) \in Nat /\ DOMAIN outgoing = 1 .. Len(outgoing)
           /\ \A i \in DOMAIN outgoing : outgoing[i].msg \in Message
<1>1. \A i \in DOMAIN outgoing : outgoing[i] \in ReplyRecord
  OBVIOUS
<1>2. \A r \in ReplyRecord : r.msg \in Message
  BY DEF ReplyRecord
<1>3. \A i \in DOMAIN outgoing : outgoing[i].msg \in Message
  BY <1>1, <1>2
<1> QED
  BY <1>3

\* Messages are stored.
LEMMA StoredMessages == order \in Seq(Message) => Stored \subseteq Message
BY DEF Stored

\* A step that stores nothing and neither makes nor forgets a session or a turn.
LEMMA StoredFrame ==
    ASSUME StoredSound, order' = order,
           \A m \in Message : run'[m].phase \in Early <=> run[m].phase \in Early,
           \A s \in Message : session'[s].status = "none" <=> session[s].status = "none",
           \A t \in Message : turn'[t].session = turn[t].session
                             /\ (turn'[t].status = "none" <=> turn[t].status = "none")
    PROVE  StoredSound'
<1>1. Stored' = Stored
  BY DEF Stored
<1> QED
  BY <1>1 DEF StoredSound

\* As many numbers as there are up to one.
LEMMA UpTo == \A j \in Nat : IsFiniteSet(1 .. j) /\ Cardinality(1 .. j) = j
BY FS_Interval

\* The next message is the first that has not arrived.
LEMMA NextIs ==
    ASSUME Numbered, NEW m \in Message, m = Cardinality(Arrived) + 1
    PROVE  run[m].phase = "none" /\ \A k \in Message : k < m => run[k].phase # "none"
<1> DEFINE n == Cardinality(Arrived)
<1>1. Messages \in Nat /\ Message = 1 .. Messages /\ n \in Nat /\ m = n + 1
  BY BotAssumption, ArrivedBounded DEF Message
<1>2. IsFiniteSet(Arrived)
  <2>1. IsFiniteSet(Message) /\ Arrived \subseteq Message
    BY <1>1, FS_Interval DEF Arrived
  <2> QED
    BY <2>1, FS_Subset
<1> HIDE DEF n
<1>3. run[m].phase = "none"
  <2> SUFFICES ASSUME run[m].phase # "none" PROVE FALSE
    OBVIOUS
  <2>1. 1 .. m \subseteq Arrived
    <3> SUFFICES ASSUME NEW k \in 1 .. m PROVE k \in Arrived
      OBVIOUS
    <3>1. k \in Message /\ (k < m \/ k = m)
      BY <1>1
    <3>2. run[k].phase # "none"
      BY <3>1 DEF Numbered
    <3> QED
      BY <3>1, <3>2 DEF Arrived
  <2>2. IsFiniteSet(1 .. m) /\ Cardinality(1 .. m) = m
    BY <1>1, UpTo
  <2>3. m <= n
    BY <1>2, <2>1, <2>2, FS_Subset DEF n
  <2> QED
    BY <1>1, <2>3
<1>4. ASSUME NEW k \in Message, k < m, run[k].phase = "none" PROVE FALSE
  <2>1. k \in Nat /\ k >= 1 /\ k - 1 \in Nat
    BY <1>1
  <2>2. Arrived \subseteq 1 .. k - 1
    <3> SUFFICES ASSUME NEW a \in Arrived PROVE a \in 1 .. k - 1
      OBVIOUS
    <3>1. a \in Message /\ run[a].phase # "none"
      BY DEF Arrived
    <3>2. ~(k < a) /\ a # k
      BY <1>4, <3>1 DEF Numbered
    <3> QED
      BY <1>1, <2>1, <3>1, <3>2
  <2>3. IsFiniteSet(1 .. k - 1) /\ Cardinality(1 .. k - 1) = k - 1
    BY <2>1, UpTo
  <2>4. n <= k - 1
    BY <2>2, <2>3, FS_Subset DEF n
  <2> QED
    BY <1>1, <1>4, <2>1, <2>4
<1> QED
  BY <1>3, <1>4

\* A step with which no message arrives.
LEMMA NumberedFrame ==
    ASSUME Numbered, \A k \in Message : run'[k].phase = "none" <=> run[k].phase = "none"
    PROVE  Numbered'
BY DEF Numbered

\* A step that takes and releases no lock.
LEMMA LockFrame ==
    ASSUME LockHeld, lock' = lock,
           \A m \in Message : run'[m].phase \in Draining <=> run[m].phase \in Draining
    PROVE  LockHeld'
BY DEF LockHeld

\* What an execution writes to its turn.
LEMMA TurnTyped ==
    ASSUME turn \in [Message -> TurnState], NEW t \in Message, turn[t].status # "none",
           NEW s \in {"processing", "completed", "discarded", "failed"},
           turn' = [turn EXCEPT ![t].status = s]
    PROVE  /\ turn' \in [Message -> TurnState]
           /\ turn'[t].status = s
           /\ \A u \in Message : u # t => turn'[u] = turn[u]
           /\ \A u \in Message : turn'[u].session = turn[u].session
                                /\ (turn'[u].status = "none" <=> turn[u].status = "none")
<1>1. turn'[t] = [turn[t] EXCEPT !.status = s] /\ \A u \in Message : u # t => turn'[u] = turn[u]
  OBVIOUS
<1>2. turn'[t] \in TurnState /\ turn'[t].status = s /\ turn'[t].session = turn[t].session
  BY <1>1 DEF TurnState
<1>3. turn' \in [Message -> TurnState]
  BY <1>1, <1>2
<1> QED
  BY <1>1, <1>2, <1>3

\* What an execution makes of the session of its turn.
LEMMA SessionTyped ==
    ASSUME session \in [Message -> SessionState], NEW t \in Message, session[t].status # "none",
           NEW s \in {"ended", "failed"}, session' = [session EXCEPT ![t].status = s]
    PROVE  /\ session' \in [Message -> SessionState]
           /\ \A u \in Message : session'[u].status \in {session[u].status, s}
                                /\ (session'[u].status = "none" <=> session[u].status = "none")
<1>1. session'[t] = [session[t] EXCEPT !.status = s] /\ \A u \in Message : u # t => session'[u] = session[u]
  OBVIOUS
<1>2. session'[t] \in SessionState /\ session'[t].status = s
  BY <1>1 DEF SessionState
<1>3. session' \in [Message -> SessionState]
  BY <1>1, <1>2
<1> QED
  BY <1>1, <1>2, <1>3

\* No step but the commit of an incoming message makes a session active.
LEMMA OneActiveFrame ==
    ASSUME OneActiveSession,
           \A s \in Message : session'[s].status = "active" => session[s].status = "active"
    PROVE  OneActiveSession'
BY DEF OneActiveSession

\* The sessions stay or they are ended.
SessionsEnd == session' = session \/ session' = Ended

LEMMA SessionsEndIs ==
    ASSUME session \in [Message -> SessionState], SessionsEnd
    PROVE  /\ session' \in [Message -> SessionState]
           /\ \A s \in Message : session'[s].status = "active" => session[s].status = "active"
           /\ \A s \in Message : session'[s].status = "none" <=> session[s].status = "none"
<1>1. CASE session' = session
  BY <1>1
<1>2. CASE session' = Ended
  BY <1>2, EndedIs
<1> QED
  BY <1>1, <1>2 DEF SessionsEnd

\* A message is committed with its conversation, session and turn.
LEMMA CommitBase ==
    ASSUME Base, NEW m \in Message, CommitIncoming(m)
    PROVE  /\ Base'
           /\ m \notin Stored /\ order' = Append(order, m)
           /\ \A t \in Message : t # m => turn'[t] = turn[t]
           /\ turn'[m].status \in {"none", "queued"}
           /\ \A s \in Message : s # m /\ session'[s].status = "active" => session[s].status = "active"
<1> DEFINE received == Received(m)
           acts == received.bot /\ ~received.assigned /\ received.status = "new"
           sessions == IF conv.status = "closed" THEN Ended ELSE session
<1>1. /\ run[m].phase = "locked" /\ conv' = received /\ BotBecomes(received.bot)
      /\ order' = Append(order, m)
      /\ Goes(m, IF acts THEN "start" ELSE "done")
      /\ UNCHANGED <<typebot, ai, connected, lock, posts, outgoing, overtaken, moves, crashes>>
      /\ PrepareTurn(m, sessions) \/ (session' = sessions /\ turn' = turn)
  BY DEF CommitIncoming
<1>2. Rows /\ Histories /\ Settings /\ Numbered /\ LockHeld /\ StoredSound /\ OneActiveSession
  BY TypeParts DEF Base
<1>3. received \in [status : {"none", "new", "open", "closed"}, assigned : BOOLEAN, bot : BOOLEAN]
  BY <1>2 DEF Settings, Received
<1> HIDE DEF received
<1>4. /\ run' \in [Message -> RunState] /\ run'[m].phase \in {"start", "done"}
      /\ \A k \in Message : k # m => run'[k] = run[k]
  <2>1. (IF acts THEN "start" ELSE "done") \in Phase /\ (IF acts THEN "start" ELSE "done") \in {"start", "done"}
    BY DEF Phase
  <2> QED
    BY <1>1, <1>2, <2>1, GoesTyped DEF Rows
<1> HIDE DEF acts
<1>5. m \notin Stored /\ session[m].status = "none" /\ turn[m].status = "none"
  BY <1>1, <1>2 DEF StoredSound, Early
<1>6. /\ sessions \in [Message -> SessionState] /\ OneActive(sessions)
      /\ \A s \in Message : (sessions[s].status = "none" <=> session[s].status = "none")
                           /\ (sessions[s].status = "active" => session[s].status = "active")
  BY <1>2, EndedIs DEF Rows, OneActiveSession, OneActive
<1> HIDE DEF sessions
<1>7. /\ session' \in [Message -> SessionState] /\ turn' \in [Message -> TurnState]
      /\ OneActive(session')
      /\ \A t \in Message : t # m => turn'[t] = turn[t]
      /\ turn'[m].status \in {"none", "queued"}
      /\ turn'[m].status # "none" => turn'[m].session \in Message /\ session'[turn'[m].session].status # "none"
      /\ \A s \in Message : s # m => (session'[s].status = "none" <=> session[s].status = "none")
                                  /\ (session'[s].status = "active" => session[s].status = "active")
  <2>1. CASE PrepareTurn(m, sessions)
    <3>1. /\ session' \in [Message -> SessionState] /\ turn' \in [Message -> TurnState]
          /\ OneActive(session')
          /\ turn'[m].status = "queued" /\ turn'[m].session \in Message
          /\ session'[turn'[m].session].status = "active"
          /\ \A t \in Message : t # m => turn'[t] = turn[t]
          /\ \A s \in Message : s # m =>
                 session'[s].status \in {sessions[s].status, "ended"}
                 /\ (session'[s].status = "none" <=> sessions[s].status = "none")
      <4> PICK before \in [Message -> SessionState] : before = sessions
        BY <1>6
      <4>1. OneActive(before) /\ PrepareTurn(m, before)
        BY <1>6, <2>1 DEF OneActive, PrepareTurn
      <4>2. turn \in [Message -> TurnState] /\ run \in [Message -> RunState]
        BY <1>2 DEF Rows
      <4> QED
        BY <4>1, <4>2, PrepareIs
    <3> QED
      BY <1>6, <3>1
  <2>2. CASE session' = sessions /\ turn' = turn
    BY <1>2, <1>5, <1>6, <2>2 DEF Rows
  <2> QED
    BY <1>1, <2>1, <2>2
<1>8. order' \in Seq(Message) /\ Stored' = Stored \cup {m}
  BY <1>1, <1>2, <1>5, OrderGrows, AppendIs DEF Histories
<1>9. revived' \subseteq overtaken
  BY <1>1, <1>2 DEF Histories, BotBecomes
<1>10. TypeOK'
  BY <1>1, <1>2, <1>3, <1>4, <1>7, <1>8, <1>9, TypeParts DEF Rows, Histories, Settings, TypeOK,
     SessionState, TurnState, RunState, ReplyRecord
<1>11. LockHeld'
  BY <1>1, <1>2, <1>4, LockFrame DEF Draining, Executing
<1>12. StoredSound'
  <2>1. \A k \in Message : k \in Stored' <=> run'[k].phase \notin Early
    BY <1>2, <1>4, <1>8 DEF StoredSound, Early
  <2>2. \A s \in Message : session'[s].status # "none" => s \in Stored'
    BY <1>2, <1>7, <1>8 DEF StoredSound
  <2>3. ASSUME NEW t \in Message, turn'[t].status # "none"
        PROVE  t \in Stored' /\ turn'[t].session \in Message /\ session'[turn'[t].session].status # "none"
    <3>1. CASE t = m
      BY <1>7, <1>8, <2>3, <3>1
    <3>2. CASE t # m
      <4>1. /\ turn'[t] = turn[t] /\ t \in Stored /\ turn[t].session \in Message
            /\ session[turn[t].session].status # "none"
        BY <1>2, <1>7, <2>3, <3>2 DEF StoredSound
      <4>2. turn[t].session # m
        BY <1>5, <4>1
      <4> QED
        BY <1>7, <1>8, <4>1, <4>2
    <3> QED
      BY <3>1, <3>2
  <2> QED
    BY <2>1, <2>2, <2>3 DEF StoredSound
<1>13. OneActiveSession'
  BY <1>7 DEF OneActive, OneActiveSession
<1>14. Numbered'
  BY <1>1, <1>2, <1>4, NumberedFrame
<1> QED
  BY <1>1, <1>5, <1>7, <1>10, <1>11, <1>12, <1>13, <1>14 DEF Base

-----------------------------------------------------------------------------
(* A run takes a step that changes no turn. *)

\* What is open and what stands before what depends on order and turns only.
LEMMA OrderFrame ==
    ASSUME order' = order
    PROVE  /\ Stored' = Stored
           /\ \A u, v : Before(u, v)' <=> Before(u, v)
           /\ turn' = turn => OpenTurns' = OpenTurns /\ \A u : IsNext(u)' <=> IsNext(u)
<1>1. Stored' = Stored
  BY DEF Stored
<1>2. \A u, v : Before(u, v)' <=> Before(u, v)
  BY DEF Before
<1>3. ASSUME turn' = turn PROVE OpenTurns' = OpenTurns /\ \A u : IsNext(u)' <=> IsNext(u)
  BY <1>1, <1>2, <1>3 DEF OpenTurns, IsNext
<1> QED
  BY <1>1, <1>2, <1>3

\* Steps that move one run, and the lock at most.
LEMMA QuietStep ==
    ASSUME Base, Conduct, NEW m \in Message, run' \in [Message -> RunState],
           \A k \in Message : k # m => run'[k] = run[k],
           UNCHANGED <<convVars, session, turn, posts, outgoing, historyVars, moves>>,
           crashes' \in 0 .. MaxCrashes, lock' \in Message \cup {NoMessage}, LockHeld', Numbered',
           run[m].phase \notin {"done", "drained"},
           run'[m].phase \in Early <=> run[m].phase \in Early,
           run'[m].phase \in Executing => run'[m].phase = "picked" /\ IsNext(run'[m].turn),
           run'[m].phase = "drained" => OpenTurns = {}
    PROVE  Base' /\ Conduct'
<1> USE DEF convVars, historyVars
<1>1. TypeOK'
  <2>1. Rows /\ Histories /\ Settings
    BY TypeParts DEF Base
  <2>2. Rows' /\ Histories' /\ Settings'
    BY <2>1 DEF Rows, Histories, Settings
  <2> QED
    BY <2>2 DEF TypeOK, Rows, Histories, Settings, SessionState, TurnState, RunState,
       ReplyRecord
<1>2. StoredSound'
  BY StoredFrame DEF Base
<1>3. OneActiveSession'
  BY DEF Base, OneActiveSession
<1>4. /\ Stored' = Stored /\ OpenTurns' = OpenTurns
      /\ \A u, v : Before(u, v)' <=> Before(u, v)
      /\ \A u : IsNext(u)' <=> IsNext(u)
  BY OrderFrame
<1>5. Executed'
  BY <1>4 DEF Conduct, Executed, Executing
<1>6. PostsSound' /\ PostedOnce'
  BY DEF Conduct, PostsSound, PostedOnce, Executing
<1>7. RepliesSound' /\ RepliesInOrder'
  <2>1. RepliesInOrder'
    BY DEF Conduct, RepliesInOrder, Before
  <2>2. \A i \in DOMAIN outgoing : outgoing[i].msg \in Message
    BY TypeParts, RepliesTyped DEF Base, Histories
  <2>3. \A i \in DOMAIN outgoing : outgoing[i].engine = "native_ai" => run'[outgoing[i].msg].phase = "done"
    BY <2>2 DEF Conduct, RepliesSound
  <2>4. RepliesSound'
    BY <2>3 DEF Conduct, RepliesSound, Before, OpenTurns, Stored
  <2> QED
    BY <2>1, <2>4
<1>8. OvertakenSound' /\ TakeoverSilences'
  BY DEF Conduct, OvertakenSound, TakeoverSilences
<1>9. DrainsItsTurns'
  <2> SUFFICES ASSUME NEW k \in Message, NEW t \in Message, run'[k].phase = "drained", t = k \/ Before(t, k)
               PROVE  turn[t].status \notin {"queued", "processing"}
    BY <1>4 DEF DrainsItsTurns
  <2>1. CASE k = m
    <3>1. m \in Stored
      BY <1>2, <1>4, <2>1 DEF StoredSound, Early
    <3>2. t \in Stored
      BY <2>1, <3>1, BeforeStored
    <3> QED
      BY <2>1, <3>2 DEF OpenTurns
  <2>2. CASE k # m
    BY <2>2 DEF Conduct, DrainsItsTurns
  <2> QED
    BY <2>1, <2>2
<1> QED
  BY <1>1, <1>2, <1>3, <1>5, <1>6, <1>7, <1>8, <1>9 DEF Base, Conduct

\* What every step finds.
LEMMA BaseGives ==
    ASSUME Base
    PROVE  /\ Rows /\ Histories /\ Settings
           /\ Numbered /\ LockHeld /\ StoredSound /\ OneActiveSession
           /\ run \in [Message -> RunState] /\ lock \in Message \cup {NoMessage}
           /\ crashes \in 0 .. MaxCrashes
           /\ \A m \in Message : run[m] \in RunState
BY TypeParts DEF Base, Rows, Histories, Settings

\* A message comes in, its transaction has the conversation, the engine is
\* chosen, or the model is asked.
LEMMA Moves ==
    ASSUME Base, Conduct, NEW m \in Message,
           Begin(m) \/ LockConversation(m) \/ Route(m) \/ AskModel(m)
    PROVE  Base' /\ Conduct'
<1>1. /\ UNCHANGED <<convVars, session, turn, posts, outgoing, historyVars, moves>>
      /\ lock' = lock /\ crashes' = crashes
  BY DEF Begin, LockConversation, Route, AskModel, botVars
<1>2. Numbered /\ LockHeld /\ run \in [Message -> RunState] /\ run[m] \in RunState
  BY BaseGives
<1>3. /\ run' \in [Message -> RunState]
      /\ \A k \in Message : k # m => run'[k] = run[k]
      /\ run[m].phase \notin {"done", "drained"} \cup Draining
      /\ run'[m].phase \in Early <=> run[m].phase \in Early
      /\ run'[m].phase \notin {"drained"} \cup Draining
      /\ Numbered'
  <2> USE DEF Early, Draining, Executing
  <2>1. CASE Begin(m)
    <3>1. m = Cardinality(Arrived) + 1 /\ Goes(m, "begun") /\ "begun" \in Phase
      BY <2>1 DEF Begin, Phase
    <3>2. run[m].phase = "none" /\ \A k \in Message : k < m => run[k].phase # "none"
      BY <1>2, <3>1, NextIs
    <3>3. /\ run' \in [Message -> RunState] /\ run'[m].phase = "begun"
          /\ \A k \in Message : k # m => run'[k] = run[k]
      BY <1>2, <3>1, GoesTyped
    <3>4. Numbered'
      <4>1. Message \subseteq Nat
        BY BotAssumption DEF Message
      <4> QED
        BY <1>2, <3>2, <3>3, <4>1 DEF Numbered
    <3> QED
      BY <3>2, <3>3, <3>4
  <2>2. CASE LockConversation(m)
    <3> DEFINE e == configured_engine
               f == typebot.flow
               w == [run[m] EXCEPT !.phase = "locked", !.engine = e, !.flow = f]
    <3>0. e \in {"none", "typebot", "native_ai"} /\ f \in Flow
      BY BaseGives DEF Settings, configured_engine
    <3>1. w \in RunState /\ w.phase = "locked"
      <4> HIDE DEF e, f
      <4> QED
        BY <1>2, <3>0 DEF RunState, Phase
    <3>2. run' = [run EXCEPT ![m] = w] /\ run[m].phase = "begun"
      BY <2>2 DEF LockConversation
    <3> HIDE DEF w
    <3> QED
      BY <1>2, <3>1, <3>2, RunTyped, NumberedFrame
  <2>3. CASE Route(m)
    <3> DEFINE p == CASE configured_engine = "typebot" -> "waiting"
                      [] configured_engine = "native_ai" -> "ai"
                      [] OTHER -> "done"
               v == IF eligible THEN "ok" ELSE "gone"
               c == Cardinality(Arrived)
               w == [run[m] EXCEPT !.phase = p, !.view = v, !.at = c]
    <3>1. p \in {"waiting", "ai", "done"} /\ v \in {"gone", "ok"} /\ c \in 0 .. Messages
      BY ArrivedBounded
    <3>2. run' = [run EXCEPT ![m] = w] /\ run[m].phase = "start"
      BY <2>3 DEF Route
    <3> HIDE DEF p, v, c
    <3>3. w \in RunState /\ w.phase = p
      BY <1>2, <3>1 DEF RunState, Phase
    <3> HIDE DEF w
    <3> QED
      BY <1>2, <3>1, <3>2, <3>3, RunTyped, NumberedFrame
  <2>4. CASE AskModel(m)
    <3>1. run[m].phase = "ai"
      BY <2>4 DEF AskModel
    <3>2. CASE Goes(m, "done")
      BY <1>2, <3>1, <3>2, GoesTyped, NumberedFrame DEF Phase
    <3>3. CASE ~Goes(m, "done")
      <4>1. PICK r \in {"handoff", "none"} :
              run' = [run EXCEPT ![m] = [run[m] EXCEPT !.phase = "llm", !.reason = r]]
        BY <2>4, <3>3 DEF AskModel, Goes
      <4> DEFINE w == [run[m] EXCEPT !.phase = "llm", !.reason = r]
      <4>2. w \in RunState /\ w.phase = "llm"
        BY <1>2 DEF RunState, Phase, Reason
      <4> HIDE DEF w
      <4> QED
        BY <1>2, <3>1, <4>1, <4>2, RunTyped, NumberedFrame DEF w
    <3> QED
      BY <3>2, <3>3
  <2> QED
    BY <2>1, <2>2, <2>3, <2>4
<1>4. LockHeld' /\ lock' \in Message \cup {NoMessage} /\ crashes' \in 0 .. MaxCrashes
  BY <1>1, <1>2, <1>3, LockFrame, BaseGives
<1>5. run'[m].phase \notin Executing /\ run'[m].phase # "drained" /\ run[m].phase \notin {"done", "drained"}
  BY <1>3 DEF Draining
<1> QED
  BY <1>1, <1>3, <1>4, <1>5, QuietStep

\* A run takes the lock, looks for its next turn or lets the lock go, or its
\* process dies.
LEMMA Locks ==
    ASSUME Base, Conduct, NEW m \in Message, TakeTurnLock(m) \/ PickTurn(m) \/ Crash(m)
    PROVE  Base' /\ Conduct'
<1>1. UNCHANGED <<convVars, session, turn, posts, outgoing, historyVars, moves>>
  BY DEF TakeTurnLock, PickTurn, Crash
<1>2. /\ Numbered /\ LockHeld /\ run \in [Message -> RunState] /\ run[m] \in RunState
      /\ NoMessage \notin Message /\ lock \in Message \cup {NoMessage} /\ crashes \in 0 .. MaxCrashes
  BY BaseGives, BotAssumption
<1> USE DEF Early, Draining, Executing
<1>3. CASE TakeTurnLock(m)
  <2>1. run[m].phase = "waiting" /\ lock = NoMessage /\ lock' = m /\ Goes(m, "loop") /\ crashes' = crashes
    BY <1>3 DEF TakeTurnLock
  <2>2. /\ run' \in [Message -> RunState] /\ run'[m].phase = "loop"
        /\ \A k \in Message : k # m => run'[k] = run[k]
    BY <1>2, <2>1, GoesTyped DEF Phase
  <2>3. LockHeld' /\ Numbered' /\ lock' \in Message \cup {NoMessage} /\ crashes' \in 0 .. MaxCrashes
    BY <1>2, <2>1, <2>2, NumberedFrame DEF LockHeld
  <2>4. /\ run[m].phase \notin {"done", "drained"}
        /\ run'[m].phase \in Early <=> run[m].phase \in Early
        /\ run'[m].phase \notin Executing /\ run'[m].phase # "drained"
    BY <2>1, <2>2
  <2> QED
    BY <1>1, <2>2, <2>3, <2>4, QuietStep
<1>4. CASE PickTurn(m)
  <2>1. run[m].phase = "loop" /\ crashes' = crashes /\ lock = m
    BY <1>2, <1>4 DEF PickTurn, LockHeld
  <2>2. CASE OpenTurns = {} /\ Goes(m, "drained") /\ lock' = NoMessage
    <3>1. /\ run' \in [Message -> RunState] /\ run'[m].phase = "drained"
          /\ \A k \in Message : k # m => run'[k] = run[k]
      BY <1>2, <2>2, GoesTyped DEF Phase
    <3>2. LockHeld' /\ Numbered' /\ lock' \in Message \cup {NoMessage} /\ crashes' \in 0 .. MaxCrashes
      BY <1>2, <2>1, <2>2, <3>1, NumberedFrame DEF LockHeld
    <3>3. /\ run[m].phase \notin {"done", "drained"}
          /\ run'[m].phase \in Early <=> run[m].phase \in Early
          /\ run'[m].phase \notin Executing
      BY <2>1, <3>1
    <3> QED
      BY <1>1, <2>2, <3>1, <3>2, <3>3, QuietStep
  <2>3. CASE ~(OpenTurns = {} /\ Goes(m, "drained") /\ lock' = NoMessage)
    <3>1. PICK t \in OpenTurns, v \in {"gone", "ok", "stale"} :
            IsNext(t) /\ run' = [run EXCEPT ![m] = [run[m] EXCEPT !.phase = "picked", !.turn = t, !.view = v]]
      BY <1>4, <2>3 DEF PickTurn
    <3>2. lock' = lock
      BY <1>4, <2>3 DEF PickTurn
    <3> DEFINE w == [run[m] EXCEPT !.phase = "picked", !.turn = t, !.view = v]
    <3>3. t \in Message
      BY BaseGives, StoredMessages DEF OpenTurns, Histories
    <3>4. w \in RunState /\ w.phase = "picked" /\ w.turn = t
      BY <1>2, <3>3 DEF RunState, Phase
    <3> HIDE DEF w
    <3>5. /\ run' \in [Message -> RunState] /\ run'[m] = w
          /\ \A k \in Message : k # m => run'[k] = run[k]
      BY <1>2, <3>1, <3>4, RunTyped DEF w
    <3>6. LockHeld' /\ Numbered' /\ lock' \in Message \cup {NoMessage} /\ crashes' \in 0 .. MaxCrashes
      BY <1>2, <2>1, <3>2, <3>4, <3>5, NumberedFrame DEF LockHeld
    <3>7. /\ run[m].phase \notin {"done", "drained"}
          /\ run'[m].phase \in Early <=> run[m].phase \in Early
          /\ run'[m].phase = "picked" /\ IsNext(run'[m].turn)
      BY <2>1, <3>1, <3>4, <3>5
    <3> QED
      BY <1>1, <3>5, <3>6, <3>7, QuietStep
  <2> QED
    BY <2>2, <2>3
<1>5. CASE Crash(m)
  <2>1. /\ run[m].phase \notin {"done", "drained"} /\ run[m].phase \notin Early
        /\ crashes < MaxCrashes /\ crashes' = crashes + 1 /\ Goes(m, "dead")
        /\ lock' = IF lock = m THEN NoMessage ELSE lock
    BY <1>5 DEF Crash
  <2>2. /\ run' \in [Message -> RunState] /\ run'[m].phase = "dead"
        /\ \A k \in Message : k # m => run'[k] = run[k]
    BY <1>2, <2>1, GoesTyped DEF Phase
  <2>3. crashes' \in 0 .. MaxCrashes
    BY <1>2, <2>1, BotAssumption
  <2>4. LockHeld' /\ Numbered' /\ lock' \in Message \cup {NoMessage}
    BY <1>2, <2>1, <2>2, NumberedFrame DEF LockHeld
  <2>5. run'[m].phase \notin Early \cup Executing /\ run'[m].phase # "drained"
    BY <2>2
  <2> QED
    BY <1>1, <2>1, <2>2, <2>3, <2>4, <2>5, QuietStep
<1> QED
  BY <1>3, <1>4, <1>5

-----------------------------------------------------------------------------
(* Turns go on and sessions end. *)

\* No turn is opened or comes back to the queue, none leaves its session, and
\* what is completed stays so.
TurnsGo ==
    \A u \in Message :
        /\ turn'[u].session = turn[u].session
        /\ turn'[u].status = "none" <=> turn[u].status = "none"
        /\ turn'[u].status \in OpenStatus => turn[u].status \in OpenStatus
        /\ turn'[u].status \in {"none", "queued"} => turn[u].status \in {"none", "queued"}
        /\ turn[u].status = "completed" => turn'[u].status = "completed"

\* No session is started or becomes active again.
SessionsGo ==
    \A s \in Message :
        /\ session'[s].status = "none" <=> session[s].status = "none"
        /\ session'[s].status = "active" => session[s].status = "active"

\* The turns that are open were open, in the same order.
LEMMA OpenShrinks ==
    ASSUME order \in Seq(Message), order' = order, TurnsGo
    PROVE  OpenTurns' \subseteq OpenTurns /\ Stored' = Stored /\ \A u, v : Before(u, v)' <=> Before(u, v)
<1>1. Stored' = Stored /\ (\A u, v : Before(u, v)' <=> Before(u, v)) /\ Stored \subseteq Message
  BY OrderFrame, StoredMessages
<1>2. OpenTurns' \subseteq OpenTurns
  BY <1>1 DEF OpenTurns, TurnsGo, OpenStatus
<1> QED
  BY <1>1, <1>2

\* The rows stay sound.
LEMMA BaseFrame ==
    ASSUME Base, order' = order, TurnsGo, SessionsGo,
           Rows', Histories', Settings', LockHeld',
           \A k \in Message : /\ run'[k].phase = "none" <=> run[k].phase = "none"
                              /\ run'[k].phase \in Early <=> run[k].phase \in Early
    PROVE  Base'
<1>1. TypeOK'
  BY DEF TypeOK, Rows, Histories, Settings, SessionState, TurnState, RunState, ReplyRecord
<1>2. StoredSound'
  BY BaseGives, StoredFrame DEF TurnsGo, SessionsGo
<1>3. Numbered' /\ OneActiveSession'
  BY BaseGives, NumberedFrame, OneActiveFrame DEF SessionsGo
<1> QED
  BY <1>1, <1>2, <1>3 DEF Base

\* What was overtaken stays silent as long as no reply is stored.
LEMMA OvertakenFrame ==
    ASSUME Base, Conduct, TurnsGo, SessionsGo, overtaken' = overtaken, revived \subseteq revived',
           conv'.bot => overtaken \subseteq revived'
    PROVE  OvertakenSound' /\ (outgoing' = outgoing => TakeoverSilences')
<1>1. OvertakenSound'
  <2> SUFFICES ASSUME NEW t \in Message, <<"typebot", t>> \in overtaken
               PROVE  turn'[t].status # "none" /\ session'[turn'[t].session].status # "active"
    BY DEF OvertakenSound
  <2>1. turn[t].status # "none" /\ session[turn[t].session].status # "active"
    BY DEF Conduct, OvertakenSound
  <2>2. turn[t].session \in Message
    BY <2>1, BaseGives DEF StoredSound
  <2> QED
    BY <2>1, <2>2 DEF TurnsGo, SessionsGo
<1>2. outgoing' = outgoing => TakeoverSilences'
  BY DEF Conduct, TakeoverSilences
<1> QED
  BY <1>1, <1>2

\* The replies that are there stay sound while turns go on and runs that are
\* done stay so.
LEMMA RepliesFrame ==
    ASSUME Base, Conduct, order' = order, TurnsGo,
           \A k \in Message : run[k].phase = "done" => run'[k].phase = "done"
    PROVE  /\ \A i \in DOMAIN outgoing :
                 /\ outgoing[i].engine = "typebot" =>
                       /\ turn'[outgoing[i].msg].status = "completed"
                       /\ \A u \in OpenTurns' : Before(outgoing[i].msg, u)
                 /\ outgoing[i].engine = "native_ai" => run'[outgoing[i].msg].phase = "done"
           /\ outgoing' = outgoing => RepliesSound' /\ RepliesInOrder'
<1>1. OpenTurns' \subseteq OpenTurns /\ \A i \in DOMAIN outgoing : outgoing[i].msg \in Message
  BY BaseGives, OpenShrinks, RepliesTyped DEF Histories
<1>2. ASSUME NEW i \in DOMAIN outgoing
      PROVE  /\ outgoing[i].engine = "typebot" =>
                    /\ turn'[outgoing[i].msg].status = "completed"
                    /\ \A u \in OpenTurns' : Before(outgoing[i].msg, u)
             /\ outgoing[i].engine = "native_ai" => run'[outgoing[i].msg].phase = "done"
  <2>1. outgoing[i].msg \in Message
    BY <1>1
  <2>2. outgoing[i].engine = "native_ai" => run'[outgoing[i].msg].phase = "done"
    BY <2>1 DEF Conduct, RepliesSound
  <2>3. ASSUME outgoing[i].engine = "typebot" PROVE turn'[outgoing[i].msg].status = "completed"
    BY <2>1, <2>3 DEF Conduct, RepliesSound, TurnsGo
  <2>4. ASSUME outgoing[i].engine = "typebot", NEW u \in OpenTurns' PROVE Before(outgoing[i].msg, u)
    <3>1. u \in OpenTurns
      BY <1>1
    <3> QED
      BY <2>4, <3>1 DEF Conduct, RepliesSound, Before
  <2> QED
    BY <2>2, <2>3, <2>4
<1>3. outgoing' = outgoing => RepliesSound'
  BY <1>2 DEF RepliesSound, Before
<1>4. outgoing' = outgoing => RepliesInOrder'
  BY DEF Conduct, RepliesInOrder, Before
<1> QED
  BY <1>2, <1>3, <1>4

\* A run that has drained its turns has left none open.
LEMMA DrainsFrame ==
    ASSUME Base, Conduct, order' = order, TurnsGo,
           \A k \in Message : run'[k].phase = "drained" => run[k].phase = "drained"
    PROVE  DrainsItsTurns'
BY DEF Conduct, DrainsItsTurns, Before, TurnsGo, OpenStatus

\* Only the holder of the lock executes a turn.
LEMMA Alone ==
    ASSUME LockHeld, NEW m \in Message, run[m].phase \in Draining
    PROVE  \A k \in Message : k # m => run[k].phase \notin Draining /\ run[k].phase \notin Executing
BY DEF LockHeld, Draining

\* What the run that executes a turn knows of it.
LEMMA ExecutingKnows ==
    ASSUME Base, Conduct, NEW m \in Message, run[m].phase \in Executing
    PROVE  /\ run[m].turn \in Message /\ run[m].turn \in OpenTurns /\ IsNext(run[m].turn)
           /\ turn[run[m].turn].status \in OpenStatus
           /\ run[m].phase # "picked" => turn[run[m].turn].status = "processing"
           /\ turn[run[m].turn].session \in Message
           /\ session[turn[run[m].turn].session].status # "none"
           /\ \A k \in Message : k # m => run[k].phase \notin Executing
<1>1. IsNext(run[m].turn) /\ (run[m].phase # "picked" => turn[run[m].turn].status = "processing")
  BY DEF Conduct, Executed
<1>2. run[m].turn \in OpenTurns
  BY <1>1 DEF IsNext
<1>3. run[m].turn \in Message /\ turn[run[m].turn].status \in OpenStatus
  BY <1>2, BaseGives, StoredMessages DEF OpenTurns, OpenStatus, Histories
<1>4. turn[run[m].turn].session \in Message /\ session[turn[run[m].turn].session].status # "none"
  BY <1>3, BaseGives DEF StoredSound, OpenStatus
<1>5. \A k \in Message : k # m => run[k].phase \notin Executing
  BY BaseGives, Alone DEF Draining
<1> QED
  BY <1>1, <1>2, <1>3, <1>4, <1>5

\* What one run executes is the oldest open turn, and no other run executes any.
LEMMA ExecutedFrame ==
    ASSUME NEW m \in Message, \A k \in Message : k # m => run'[k].phase \notin Executing,
           NEW t \in Message, run'[m].turn = t, IsNext(t)', turn'[t].status = "processing"
    PROVE  Executed'
BY DEF Executed, IsNext, Before

\* A turn that is being executed goes on.
LEMMA ExecutingGoes ==
    ASSUME Base, Conduct, NEW m \in Message, run[m].phase \in Executing,
           NEW s \in {"processing", "completed", "discarded", "failed"},
           turn' = [turn EXCEPT ![run[m].turn].status = s]
    PROVE  /\ turn' \in [Message -> TurnState] /\ TurnsGo
           /\ turn'[run[m].turn].status = s
           /\ \A u \in Message : u # run[m].turn => turn'[u] = turn[u]
<1> DEFINE t == run[m].turn
<1>1. t \in Message /\ turn[t].status \in OpenStatus /\ turn \in [Message -> TurnState]
  BY ExecutingKnows, BaseGives DEF Rows
<1>2. turn' = [turn EXCEPT ![t].status = s]
  OBVIOUS
<1> HIDE DEF t
<1>3. /\ turn' \in [Message -> TurnState] /\ turn'[t].status = s
      /\ \A u \in Message : u # t => turn'[u] = turn[u]
      /\ \A u \in Message : turn'[u].session = turn[u].session
                           /\ (turn'[u].status = "none" <=> turn[u].status = "none")
  BY <1>1, <1>2, TurnTyped DEF OpenStatus
<1>4. TurnsGo
  BY <1>1, <1>3 DEF TurnsGo, OpenStatus
<1> QED
  BY <1>3, <1>4 DEF t

\* A turn is discarded.
LEMMA Discards ==
    ASSUME Base, Conduct, NEW m \in Message, Discard(m)
    PROVE  Base' /\ Conduct'
<1>1. /\ run[m].phase = "picked" /\ Goes(m, "loop")
      /\ turn' = [turn EXCEPT ![run[m].turn].status = "discarded"]
      /\ SessionsEnd
      /\ UNCHANGED <<conv, typebot, ai, connected, lock, posts, outgoing, order, overtaken, revived, moves, crashes>>
  BY DEF Discard, SessionsEnd, convVars, historyVars
<1>2. /\ run' \in [Message -> RunState] /\ run'[m].phase = "loop"
      /\ \A k \in Message : k # m => run'[k] = run[k]
  BY <1>1, BaseGives, GoesTyped DEF Phase
<1>3. run[m].phase \in Executing
  BY <1>1 DEF Executing
<1>4. /\ turn' \in [Message -> TurnState] /\ TurnsGo
      /\ turn'[run[m].turn].status = "discarded"
      /\ \A u \in Message : u # run[m].turn => turn'[u] = turn[u]
  BY <1>1, <1>3, ExecutingGoes
<1>5. session' \in [Message -> SessionState] /\ SessionsGo
  BY <1>1, BaseGives, SessionsEndIs DEF Rows, SessionsGo
<1>6. LockHeld'
  BY <1>1, <1>2, BaseGives, LockFrame DEF Draining, Executing
<1>7. Base'
  <2>1. Rows' /\ Histories' /\ Settings'
    BY <1>1, <1>2, <1>4, <1>5, BaseGives DEF Rows, Histories, Settings
  <2> QED
    BY <1>1, <1>2, <1>4, <1>5, <1>6, <2>1, BaseFrame DEF Early
<1>8. \A k \in Message : run'[k].phase \notin Executing
  BY <1>2, <1>3, ExecutingKnows DEF Executing
<1>9. Executed'
  BY <1>8 DEF Executed
<1>10. PostsSound' /\ PostedOnce'
  BY <1>1, <1>4, <1>8 DEF Conduct, PostsSound, PostedOnce, TurnsGo, Executing
<1>11. RepliesSound' /\ RepliesInOrder'
  BY <1>1, <1>2, <1>4, RepliesFrame
<1>12. OvertakenSound' /\ TakeoverSilences'
  <2>1. revived \subseteq revived' /\ (conv'.bot => overtaken \subseteq revived')
    BY <1>1 DEF Conduct, OvertakenSound
  <2> QED
    BY <1>1, <1>4, <1>5, <2>1, OvertakenFrame
<1>13. DrainsItsTurns'
  BY <1>1, <1>2, <1>4, DrainsFrame
<1> QED
  BY <1>7, <1>9, <1>10, <1>11, <1>12, <1>13 DEF Conduct

\* A turn is claimed, and only asked for when it was in the queue.
LEMMA Claims ==
    ASSUME Base, Conduct, NEW m \in Message, ClaimTurn(m)
    PROVE  Base' /\ Conduct'
<1>0. run[m].phase \in Executing
  BY DEF ClaimTurn, Executing
<1> PICK t \in Message : t = run[m].turn
  BY <1>0, ExecutingKnows
<1> DEFINE r == CASE KindOf[t] = "media" -> "unsupported"
                  [] KindOf[t] # "media" /\ turn[t].status = "processing" -> "unavailable"
                  [] KindOf[t] = "person" /\ turn[t].status = "queued" -> "handoff"
                  [] OTHER -> "none"
           w == [run[m] EXCEPT !.phase = "calling", !.reason = r]
<1>1. /\ run[m].phase = "picked" /\ run' = [run EXCEPT ![m] = w]
      /\ turn' = [turn EXCEPT ![run[m].turn].status = "processing"]
      /\ UNCHANGED <<conv, typebot, ai, connected, session, lock, posts, outgoing, order, overtaken, revived,
                     moves, crashes>>
  BY DEF ClaimTurn, convVars, historyVars
<1>2. run[m].phase \in Executing
  BY <1>1 DEF Executing
<1>3. /\ t \in Message /\ t \in OpenTurns /\ IsNext(t) /\ turn[t].status \in OpenStatus
      /\ \A k \in Message : k # m => run[k].phase \notin Executing
  BY <1>2, ExecutingKnows
<1>4. /\ turn' \in [Message -> TurnState] /\ TurnsGo
      /\ turn'[t].status = "processing"
      /\ \A u \in Message : u # t => turn'[u] = turn[u]
  BY <1>1, <1>2, ExecutingGoes
<1>5. r \in Reason /\ (r = "none" => turn[t].status = "queued")
  BY <1>3 DEF Reason, OpenStatus
<1>6. w \in RunState /\ w.phase = "calling" /\ w.turn = t /\ w.reason = r
  <2> HIDE DEF r
  <2> QED
    BY <1>5, BaseGives DEF RunState, Phase
<1> HIDE DEF r, w
<1>7. /\ run' \in [Message -> RunState] /\ run'[m] = w
      /\ \A k \in Message : k # m => run'[k] = run[k]
  BY <1>1, <1>6, BaseGives, RunTyped
<1>8. LockHeld'
  BY <1>1, <1>6, <1>7, BaseGives, LockFrame DEF Draining, Executing
<1>9. SessionsGo
  BY <1>1 DEF SessionsGo
<1>10. Base'
  <2>1. Rows' /\ Histories' /\ Settings'
    BY <1>1, <1>4, <1>7, BaseGives DEF Rows, Histories, Settings
  <2>2. \A k \in Message : /\ run'[k].phase = "none" <=> run[k].phase = "none"
                           /\ run'[k].phase \in Early <=> run[k].phase \in Early
    BY <1>1, <1>6, <1>7 DEF Early
  <2> QED
    BY <1>1, <1>4, <1>8, <1>9, <2>1, <2>2, BaseFrame
<1>11. Executed'
  <2>1. IsNext(t)'
    <3>1. /\ OpenTurns' \subseteq OpenTurns /\ Stored' = Stored
          /\ \A u, v : Before(u, v)' <=> Before(u, v)
      BY <1>1, <1>4, BaseGives, OpenShrinks DEF Histories
    <3>2. t \in OpenTurns'
      BY <1>3, <1>4, <3>1 DEF OpenTurns
    <3> QED
      BY <1>1, <1>3, <3>1, <3>2 DEF IsNext, Before
  <2>2. \A k \in Message : k # m => run'[k].phase \notin Executing
    BY <1>3, <1>7
  <2>3. turn'[t].status = "processing" /\ run'[m].turn = t
    BY <1>4, <1>6, <1>7
  <2> QED
    BY <1>3, <2>1, <2>2, <2>3, ExecutedFrame DEF IsNext, Before
<1>12. PostsSound' /\ PostedOnce'
  <2>1. PostedOnce'
    BY <1>1 DEF Conduct, PostedOnce
  <2>2. \A u \in Message : turn'[u].status \in {"none", "queued"} => posts'[u] = 0
    BY <1>1, <1>4 DEF Conduct, PostsSound, TurnsGo
  <2>3. run'[m].reason = "none" => posts'[run'[m].turn] = 0
    BY <1>1, <1>3, <1>5, <1>6, <1>7 DEF Conduct, PostsSound
  <2>4. \A k \in Message : k # m => run'[k].phase # "calling"
    BY <1>3, <1>7 DEF Executing
  <2> QED
    BY <2>1, <2>2, <2>3, <2>4 DEF PostsSound
<1>13. RepliesSound' /\ RepliesInOrder'
  BY <1>1, <1>4, <1>6, <1>7, RepliesFrame
<1>14. OvertakenSound' /\ TakeoverSilences'
  <2>1. revived \subseteq revived' /\ (conv'.bot => overtaken \subseteq revived')
    BY <1>1 DEF Conduct, OvertakenSound
  <2> QED
    BY <1>1, <1>4, <1>9, <2>1, OvertakenFrame
<1>15. DrainsItsTurns'
  BY <1>1, <1>4, <1>6, <1>7, DrainsFrame
<1> QED
  BY <1>10, <1>11, <1>12, <1>13, <1>14, <1>15 DEF Conduct

\* A turn is posted, for the first time.
LEMMA Posts ==
    ASSUME Base, Conduct, NEW m \in Message, PostTurn(m)
    PROVE  Base' /\ Conduct'
<1>0. run[m].phase \in Executing
  BY DEF PostTurn, Executing
<1> PICK t \in Message : t = run[m].turn
  BY <1>0, ExecutingKnows
<1>1. /\ run[m].phase = "calling" /\ run[m].reason = "none" /\ Goes(m, "asked")
      /\ posts' = [posts EXCEPT ![t] = posts[t] + 1]
      /\ UNCHANGED <<conv, typebot, ai, connected, session, turn, lock, outgoing, order, overtaken, revived,
                     moves, crashes>>
  BY DEF PostTurn, convVars, historyVars
<1>2. run[m].phase \in Executing /\ run[m].phase # "picked"
  BY <1>1 DEF Executing
<1>3. /\ t \in Message /\ IsNext(t) /\ turn[t].status = "processing"
      /\ \A k \in Message : k # m => run[k].phase \notin Executing
  BY <1>2, ExecutingKnows
<1>4. posts[t] = 0
  BY <1>1 DEF Conduct, PostsSound
<1>5. /\ run' \in [Message -> RunState] /\ run'[m].phase = "asked" /\ run'[m].turn = t
      /\ \A k \in Message : k # m => run'[k] = run[k]
  BY <1>1, BaseGives, GoesTyped DEF Phase
<1>6. posts' \in [Message -> Nat] /\ posts'[t] = 1 /\ \A u \in Message : u # t => posts'[u] = posts[u]
  BY <1>1, <1>3, <1>4, BaseGives DEF Histories
<1>7. LockHeld'
  BY <1>1, <1>5, BaseGives, LockFrame DEF Draining, Executing
<1>8. TurnsGo /\ SessionsGo
  BY <1>1 DEF TurnsGo, SessionsGo
<1>9. Base'
  <2>1. Rows' /\ Histories' /\ Settings'
    BY <1>1, <1>5, <1>6, BaseGives DEF Rows, Histories, Settings
  <2> QED
    BY <1>1, <1>5, <1>7, <1>8, <2>1, BaseFrame DEF Early
<1>10. Executed'
  <2>1. IsNext(t)'
    <3>1. OpenTurns' = OpenTurns
      BY <1>1, OrderFrame
    <3> QED
      BY <1>1, <1>3, <3>1 DEF IsNext, Before
  <2>2. \A k \in Message : k # m => run'[k].phase \notin Executing
    BY <1>3, <1>5
  <2>3. turn'[t].status = "processing" /\ run'[m].turn = t
    BY <1>1, <1>3, <1>5
  <2> QED
    BY <1>3, <2>1, <2>2, <2>3, ExecutedFrame DEF IsNext, Before
<1>11. PostsSound' /\ PostedOnce'
  <2>1. PostedOnce'
    BY <1>3, <1>6 DEF Conduct, PostedOnce
  <2>2. \A u \in Message : turn'[u].status \in {"none", "queued"} => posts'[u] = 0
    BY <1>1, <1>3, <1>6 DEF Conduct, PostsSound
  <2>3. \A k \in Message : run'[k].phase # "calling"
    BY <1>3, <1>5 DEF Executing
  <2> QED
    BY <2>1, <2>2, <2>3 DEF PostsSound
<1>12. RepliesSound' /\ RepliesInOrder'
  BY <1>1, <1>5, <1>8, RepliesFrame
<1>13. OvertakenSound' /\ TakeoverSilences'
  <2>1. revived \subseteq revived' /\ (conv'.bot => overtaken \subseteq revived')
    BY <1>1 DEF Conduct, OvertakenSound
  <2> QED
    BY <1>1, <1>8, <2>1, OvertakenFrame
<1>14. DrainsItsTurns'
  BY <1>1, <1>5, <1>8, DrainsFrame
<1> QED
  BY <1>9, <1>10, <1>11, <1>12, <1>13, <1>14 DEF Conduct

-----------------------------------------------------------------------------
(* Answers. *)

\* A reply is stored: Typebot's for the oldest open turn, which it completes,
\* the model's by a run that is done then; and it was not overtaken.
LEMMA RepliesGrow ==
    ASSUME Base, Conduct, order' = order, TurnsGo, overtaken' = overtaken, revived' = revived,
           \A k \in Message : run[k].phase = "done" => run'[k].phase = "done",
           NEW engine \in {"typebot", "native_ai"}, NEW t \in Message, NEW at \in 0 .. Messages,
           outgoing' = Append(outgoing, [engine |-> engine, msg |-> t, at |-> at]),
           engine = "typebot" => IsNext(t) /\ turn'[t].status = "completed",
           engine = "native_ai" => run'[t].phase = "done",
           <<engine, t>> \in overtaken => engine = "native_ai" /\ <<engine, t>> \in revived
    PROVE  outgoing' \in Seq(ReplyRecord) /\ RepliesSound' /\ RepliesInOrder' /\ TakeoverSilences'
<1> DEFINE r == [engine |-> engine, msg |-> t, at |-> at]
           n == Len(outgoing)
<1>1. r \in ReplyRecord /\ r.engine = engine /\ r.msg = t
  BY DEF ReplyRecord
<1>2. outgoing' = Append(outgoing, r) /\ outgoing \in Seq(ReplyRecord)
  BY BaseGives DEF Histories
<1> HIDE DEF r
<1>3. /\ outgoing' \in Seq(ReplyRecord) /\ n \in Nat
      /\ DOMAIN outgoing = 1 .. n /\ DOMAIN outgoing' = 1 .. n + 1
      /\ \A i \in 1 .. n : outgoing'[i] = outgoing[i]
      /\ outgoing'[n + 1] = r
  BY <1>1, <1>2, AppendIs
<1> HIDE DEF n
<1>4. \A i \in 1 .. n + 1 : i \in 1 .. n \/ i = n + 1
  BY <1>3
<1>5. /\ OpenTurns' \subseteq OpenTurns
      /\ \A i \in 1 .. n : outgoing[i].msg \in Message
  BY <1>3, BaseGives, OpenShrinks, RepliesTyped DEF Histories
<1> DEFINE Ahead(x) == \A u \in OpenTurns' : \E j, l \in DOMAIN order : j < l /\ order[j] = x /\ order[l] = u
<1>6. ASSUME NEW i \in 1 .. n
      PROVE  /\ outgoing[i].engine = "typebot" =>
                    turn'[outgoing[i].msg].status = "completed" /\ Ahead(outgoing[i].msg)
             /\ outgoing[i].engine = "native_ai" => run'[outgoing[i].msg].phase = "done"
  <2>1. /\ outgoing[i].engine = "typebot" =>
                 /\ turn'[outgoing[i].msg].status = "completed"
                 /\ \A u \in OpenTurns' : Before(outgoing[i].msg, u)
        /\ outgoing[i].engine = "native_ai" => run'[outgoing[i].msg].phase = "done"
    BY <1>3, RepliesFrame
  <2> QED
    BY <2>1 DEF Before
<1>7. RepliesSound'
  <2> SUFFICES ASSUME NEW i \in 1 .. n + 1, NEW e, e = outgoing'[i].engine, NEW x, x = outgoing'[i].msg
               PROVE  /\ e = "typebot" => turn'[x].status = "completed" /\ Ahead(x)
                      /\ e = "native_ai" => run'[x].phase = "done"
    BY <1>3 DEF RepliesSound, Before
  <2> HIDE DEF Ahead
  <2>1. CASE i \in 1 .. n
    <3>1. e = outgoing[i].engine /\ x = outgoing[i].msg
      BY <1>3, <2>1
    <3>2. /\ outgoing[i].engine = "typebot" =>
                   turn'[outgoing[i].msg].status = "completed" /\ Ahead(outgoing[i].msg)
          /\ outgoing[i].engine = "native_ai" => run'[outgoing[i].msg].phase = "done"
      BY <1>6, <2>1
    <3> QED
      BY <3>1, <3>2
  <2>2. CASE i = n + 1
    <3>1. e = engine /\ x = t
      BY <1>1, <1>3, <2>2
    <3>2. ASSUME engine = "typebot" PROVE Ahead(t)
      <4> SUFFICES ASSUME NEW u \in OpenTurns'
                   PROVE  \E j, l \in DOMAIN order : j < l /\ order[j] = t /\ order[l] = u
        BY DEF Ahead
      <4>1. u \in OpenTurns /\ u # t
        BY <1>5, <3>2 DEF OpenTurns
      <4> QED
        BY <3>2, <4>1 DEF IsNext, Before
    <3> QED
      BY <3>1, <3>2
  <2> QED
    BY <1>4, <2>1, <2>2
<1>8. RepliesInOrder'
  <2> SUFFICES ASSUME NEW i \in 1 .. n + 1, NEW j \in 1 .. n + 1, i < j,
                      outgoing'[i].engine = "typebot", outgoing'[j].engine = "typebot"
               PROVE  \E k, l \in DOMAIN order :
                        k < l /\ order[k] = outgoing'[i].msg /\ order[l] = outgoing'[j].msg
    BY <1>3 DEF RepliesInOrder, Before
  <2>1. i \in 1 .. n /\ outgoing'[i] = outgoing[i]
    BY <1>3
  <2>2. CASE j \in 1 .. n
    <3>1. outgoing'[j] = outgoing[j]
      BY <1>3, <2>2
    <3>2. /\ outgoing[i].engine = "typebot" /\ outgoing[j].engine = "typebot"
          /\ i \in DOMAIN outgoing /\ j \in DOMAIN outgoing
      BY <1>3, <2>1, <2>2, <3>1
    <3>3. Before(outgoing[i].msg, outgoing[j].msg)
      BY <3>2 DEF Conduct, RepliesInOrder
    <3> QED
      BY <2>1, <3>1, <3>3 DEF Before
  <2>3. CASE j = n + 1
    <3>1. outgoing'[j].msg = t /\ t \in OpenTurns
      BY <1>1, <1>3, <2>3 DEF IsNext
    <3>2. Before(outgoing[i].msg, t)
      BY <1>3, <2>1, <3>1 DEF Conduct, RepliesSound
    <3> QED
      BY <2>1, <3>1, <3>2 DEF Before
  <2> QED
    BY <1>4, <2>2, <2>3
<1>9. TakeoverSilences'
  <2> SUFFICES ASSUME NEW i \in 1 .. n + 1, <<outgoing'[i].engine, outgoing'[i].msg>> \in overtaken
               PROVE  /\ outgoing'[i].engine = "native_ai"
                      /\ <<outgoing'[i].engine, outgoing'[i].msg>> \in revived
    BY <1>3 DEF TakeoverSilences
  <2>1. CASE i \in 1 .. n
    <3>1. outgoing'[i] = outgoing[i]
      BY <1>3, <2>1
    <3> QED
      BY <1>3, <2>1, <3>1 DEF Conduct, TakeoverSilences
  <2>2. CASE i = n + 1
    <3>1. outgoing'[i].engine = engine /\ outgoing'[i].msg = t
      BY <1>1, <1>3, <2>2
    <3> QED
      BY <3>1
  <2> QED
    BY <1>4, <2>1, <2>2
<1> QED
  BY <1>3, <1>7, <1>8, <1>9

\* The conversation may lose its bot.
LEMMA BotOff ==
    ASSUME Settings, conv' = conv \/ conv' = [conv EXCEPT !.bot = FALSE]
    PROVE  /\ conv' \in [status : {"none", "new", "open", "closed"}, assigned : BOOLEAN, bot : BOOLEAN]
           /\ conv'.bot => conv.bot
BY DEF Settings

\* The model answers, and what it says is kept only while the bot is on.
LEMMA ModelAnswers ==
    ASSUME Base, Conduct, NEW m \in Message, AnswerModel(m)
    PROVE  Base' /\ Conduct'
<1> DEFINE at == run[m].at
<1>1. /\ run[m].phase = "llm" /\ Goes(m, "done")
      /\ UNCHANGED <<typebot, ai, connected, session, turn, lock, posts, order, overtaken, revived, moves, crashes>>
  BY DEF AnswerModel, historyVars
<1>2. /\ conv' = conv \/ conv' = [conv EXCEPT !.bot = FALSE]
      /\ \/ outgoing' = outgoing
         \/ conv.bot /\ outgoing' = Append(outgoing, [engine |-> "native_ai", msg |-> m, at |-> at])
  BY DEF AnswerModel, KeepAnswer, eligible, Reply
<1>3. /\ run' \in [Message -> RunState] /\ run'[m].phase = "done"
      /\ \A k \in Message : k # m => run'[k] = run[k]
  BY <1>1, BaseGives, GoesTyped DEF Phase
<1>4. at \in 0 .. Messages
  BY BaseGives DEF RunState
<1> HIDE DEF at
<1>5. conv' \in [status : {"none", "new", "open", "closed"}, assigned : BOOLEAN, bot : BOOLEAN]
      /\ (conv'.bot => conv.bot)
  BY <1>2, BaseGives, BotOff
<1>6. TurnsGo /\ SessionsGo /\ \A k \in Message : run[k].phase = "done" => run'[k].phase = "done"
  BY <1>1, <1>3 DEF TurnsGo, SessionsGo
<1>7. revived \subseteq revived' /\ (conv.bot => overtaken \subseteq revived)
  BY <1>1 DEF Conduct, OvertakenSound
<1>8. OvertakenSound' /\ (outgoing' = outgoing => TakeoverSilences')
  BY <1>1, <1>5, <1>6, <1>7, OvertakenFrame
<1>9. outgoing' \in Seq(ReplyRecord) /\ RepliesSound' /\ RepliesInOrder' /\ TakeoverSilences'
  <2>1. CASE outgoing' = outgoing
    BY <1>1, <1>6, <1>8, <2>1, BaseGives, RepliesFrame DEF Histories
  <2>2. CASE conv.bot /\ outgoing' = Append(outgoing, [engine |-> "native_ai", msg |-> m, at |-> at])
    <3> DEFINE engine == "native_ai"
    <3>1. <<engine, m>> \in overtaken => <<engine, m>> \in revived
      BY <1>7, <2>2
    <3>2. /\ outgoing' = Append(outgoing, [engine |-> engine, msg |-> m, at |-> at])
          /\ engine = "native_ai" /\ engine # "typebot"
      BY <2>2
    <3> QED
      BY <1>1, <1>3, <1>4, <1>6, <2>2, <3>1, RepliesGrow
  <2> QED
    BY <1>2, <2>1, <2>2
<1>10. Base'
  <2>1. Rows' /\ Histories' /\ Settings'
    BY <1>1, <1>3, <1>5, <1>9, BaseGives DEF Rows, Histories, Settings
  <2>2. LockHeld'
    BY <1>1, <1>3, BaseGives, LockFrame DEF Draining, Executing
  <2> QED
    BY <1>1, <1>3, <1>6, <2>1, <2>2, BaseFrame DEF Early
<1>11. Executed'
  <2>1. OpenTurns' = OpenTurns
    BY <1>1, OrderFrame
  <2> QED
    BY <1>1, <1>3, <2>1 DEF Conduct, Executed, Executing, IsNext, Before
<1>12. PostsSound' /\ PostedOnce'
  BY <1>1, <1>3 DEF Conduct, PostsSound, PostedOnce
<1>13. DrainsItsTurns'
  BY <1>1, <1>3, <1>6, DrainsFrame
<1> QED
  BY <1>8, <1>9, <1>10, <1>11, <1>12, <1>13 DEF Conduct

\* The answer for a turn is stored while its session is active, and ends the
\* turn in any case.
LEMMA FinishIs ==
    ASSUME Base, Conduct, NEW m \in Message, FinishTurn(m), NEW t \in Message, t = run[m].turn
    PROVE  /\ conv' = conv \/ conv' = [conv EXCEPT !.bot = FALSE]
           /\ SessionsEnd \/ \E s \in {"ended", "failed"} : session' = [session EXCEPT ![turn[t].session].status = s]
           /\ \E s \in {"completed", "discarded", "failed"} :
                 /\ turn' = [turn EXCEPT ![run[m].turn].status = s]
                 /\ \/ outgoing' = outgoing
                    \/ /\ s = "completed" /\ session[turn[t].session].status = "active"
                       /\ outgoing' = Append(outgoing, [engine |-> "typebot", msg |-> t, at |-> Cardinality(Arrived)])
<1>1. CASE DiscardAnswer(m)
  BY <1>1 DEF DiscardAnswer, SessionsEnd
<1>2. ASSUME SessionCurrent(run[m].turn), NEW reason, NEW says, NEW finished, reason = "unavailable" => ~says,
             StoreAnswer(m, reason, says, finished)
      PROVE  /\ conv' = conv \/ conv' = [conv EXCEPT !.bot = FALSE]
             /\ SessionsEnd \/ \E s \in {"ended", "failed"} : session' = [session EXCEPT ![turn[t].session].status = s]
             /\ \E s \in {"completed", "discarded", "failed"} :
                   /\ turn' = [turn EXCEPT ![run[m].turn].status = s]
                   /\ \/ outgoing' = outgoing
                      \/ /\ s = "completed" /\ session[turn[t].session].status = "active"
                         /\ outgoing' = Append(outgoing, [engine |-> "typebot", msg |-> t, at |-> Cardinality(Arrived)])
  <2>1. conv' = conv \/ conv' = [conv EXCEPT !.bot = FALSE]
    BY <1>2 DEF StoreAnswer
  <2>2. SessionsEnd \/ \E s \in {"ended", "failed"} : session' = [session EXCEPT ![turn[t].session].status = s]
    BY <1>2 DEF StoreAnswer, SessionsEnd
  <2>3. session[turn[t].session].status = "active"
    BY <1>2 DEF SessionCurrent
  <2>4. CASE reason = "unavailable"
    BY <1>2, <2>1, <2>2, <2>4 DEF StoreAnswer
  <2>5. CASE reason # "unavailable"
    BY <1>2, <2>1, <2>2, <2>3, <2>5 DEF StoreAnswer, Reply
  <2> QED
    BY <2>4, <2>5
<1>3. \/ DiscardAnswer(m)
      \/ SessionCurrent(run[m].turn) /\ \E says, finished \in BOOLEAN : StoreAnswer(m, "none", says, finished)
      \/ SessionCurrent(run[m].turn) /\ StoreAnswer(m, "unavailable", FALSE, FALSE)
      \/ SessionCurrent(run[m].turn) /\ StoreAnswer(m, run[m].reason, run[m].reason = "handoff", FALSE)
  BY DEF FinishTurn
<1>4. CASE SessionCurrent(run[m].turn) /\ \E says, finished \in BOOLEAN : StoreAnswer(m, "none", says, finished)
  BY <1>2, <1>4
<1>5. CASE SessionCurrent(run[m].turn) /\ StoreAnswer(m, "unavailable", FALSE, FALSE)
  BY <1>2, <1>5
<1>6. CASE SessionCurrent(run[m].turn) /\ StoreAnswer(m, run[m].reason, run[m].reason = "handoff", FALSE)
  <2>1. PICK reason : reason = run[m].reason
    OBVIOUS
  <2>2. PICK says : says = (reason = "handoff")
    OBVIOUS
  <2>3. StoreAnswer(m, reason, says, FALSE)
    BY <1>6, <2>1, <2>2
  <2>4. reason = "unavailable" => ~says
    BY <2>2
  <2> QED
    BY <1>2, <1>6, <2>3, <2>4
<1> QED
  BY <1>1, <1>3, <1>4, <1>5, <1>6

\* Typebot answers, fails, or was not asked.
LEMMA Finishes ==
    ASSUME Base, Conduct, NEW m \in Message, FinishTurn(m)
    PROVE  Base' /\ Conduct'
<1>1. /\ run[m].phase \in {"asked", "calling"}
      /\ run' = [run EXCEPT ![m] = [run[m] EXCEPT !.phase = "loop", !.turn = NoMessage, !.reason = "none"]]
      /\ UNCHANGED <<typebot, ai, connected, lock, posts, order, overtaken, revived, moves, crashes>>
  BY DEF FinishTurn, historyVars
<1>2. run[m].phase \in Executing
  BY <1>1 DEF Executing
<1> PICK t \in Message : t = run[m].turn
  BY <1>2, ExecutingKnows
<1>3. /\ t \in OpenTurns /\ IsNext(t) /\ turn[t].session \in Message
      /\ session[turn[t].session].status # "none"
      /\ \A k \in Message : k # m => run[k].phase \notin Executing
  BY <1>2, ExecutingKnows DEF IsNext, Before
<1>4. /\ conv' = conv \/ conv' = [conv EXCEPT !.bot = FALSE]
      /\ SessionsEnd \/ \E s \in {"ended", "failed"} : session' = [session EXCEPT ![turn[t].session].status = s]
      /\ \E s \in {"completed", "discarded", "failed"} :
            /\ turn' = [turn EXCEPT ![run[m].turn].status = s]
            /\ \/ outgoing' = outgoing
               \/ /\ s = "completed" /\ session[turn[t].session].status = "active"
                  /\ outgoing' = Append(outgoing, [engine |-> "typebot", msg |-> t, at |-> Cardinality(Arrived)])
  BY FinishIs
<1> PICK s \in {"completed", "discarded", "failed"} :
       /\ turn' = [turn EXCEPT ![run[m].turn].status = s]
       /\ \/ outgoing' = outgoing
          \/ /\ s = "completed" /\ session[turn[t].session].status = "active"
             /\ outgoing' = Append(outgoing, [engine |-> "typebot", msg |-> t, at |-> Cardinality(Arrived)])
  BY <1>4
<1>5. /\ turn' \in [Message -> TurnState] /\ TurnsGo
      /\ turn'[t].status = s
      /\ \A u \in Message : u # t => turn'[u] = turn[u]
  BY <1>2, ExecutingGoes
<1>6. session' \in [Message -> SessionState] /\ SessionsGo
  <2>1. CASE SessionsEnd
    BY <2>1, BaseGives, SessionsEndIs DEF Rows, SessionsGo
  <2>2. CASE \E e \in {"ended", "failed"} : session' = [session EXCEPT ![turn[t].session].status = e]
    <3> PICK e \in {"ended", "failed"} : session' = [session EXCEPT ![turn[t].session].status = e]
      BY <2>2
    <3> PICK own \in Message : own = turn[t].session
      BY <1>3
    <3>1. session' = [session EXCEPT ![own].status = e] /\ session[own].status # "none"
      BY <1>3
    <3>2. /\ session' \in [Message -> SessionState]
          /\ \A u \in Message : session'[u].status \in {session[u].status, e}
                              /\ (session'[u].status = "none" <=> session[u].status = "none")
      BY <3>1, BaseGives, SessionTyped DEF Rows
    <3> QED
      BY <3>2 DEF SessionsGo
  <2> QED
    BY <1>4, <2>1, <2>2
<1>7. /\ run' \in [Message -> RunState] /\ run'[m].phase = "loop"
      /\ \A k \in Message : k # m => run'[k] = run[k]
  <2> DEFINE w == [run[m] EXCEPT !.phase = "loop", !.turn = NoMessage, !.reason = "none"]
  <2>1. w \in RunState /\ w.phase = "loop"
    BY BaseGives DEF RunState, Phase, Reason
  <2> HIDE DEF w
  <2> QED
    BY <1>1, <2>1, BaseGives, RunTyped DEF w
<1>8. conv' \in [status : {"none", "new", "open", "closed"}, assigned : BOOLEAN, bot : BOOLEAN]
      /\ (conv'.bot => conv.bot)
  BY <1>4, BaseGives, BotOff
<1>9. revived \subseteq revived' /\ (conv'.bot => overtaken \subseteq revived')
  BY <1>1, <1>8 DEF Conduct, OvertakenSound
<1>10. OvertakenSound' /\ (outgoing' = outgoing => TakeoverSilences')
  BY <1>1, <1>5, <1>6, <1>9, OvertakenFrame
<1>11. \A k \in Message : /\ run'[k].phase \notin Executing
                          /\ run[k].phase = "done" => run'[k].phase = "done"
                          /\ run'[k].phase = "drained" => run[k].phase = "drained"
                          /\ run'[k].phase = "none" <=> run[k].phase = "none"
                          /\ run'[k].phase \in Early <=> run[k].phase \in Early
                          /\ run'[k].phase \in Draining <=> run[k].phase \in Draining
  BY <1>1, <1>3, <1>7 DEF Executing, Early, Draining
<1>12. outgoing' \in Seq(ReplyRecord) /\ RepliesSound' /\ RepliesInOrder' /\ TakeoverSilences'
  <2>1. CASE outgoing' = outgoing
    BY <1>1, <1>5, <1>10, <1>11, <2>1, BaseGives, RepliesFrame DEF Histories
  <2>2. CASE outgoing' # outgoing
    <3> DEFINE engine == "typebot"
    <3> PICK at \in 0 .. Messages : at = Cardinality(Arrived)
      BY ArrivedBounded
    <3>1. /\ outgoing' = Append(outgoing, [engine |-> engine, msg |-> t, at |-> at])
          /\ engine = "typebot" /\ engine # "native_ai"
      BY <2>2
    <3>2. session[turn[t].session].status = "active" /\ turn'[t].status = "completed"
      BY <1>5, <2>2
    <3>3. <<"typebot", t>> \notin overtaken
      BY <3>2 DEF Conduct, OvertakenSound
    <3> QED
      BY <1>1, <1>3, <1>5, <1>11, <3>1, <3>2, <3>3, RepliesGrow
  <2> QED
    BY <2>1, <2>2
<1>13. Base'
  <2>1. Rows' /\ Histories' /\ Settings'
    BY <1>1, <1>5, <1>6, <1>7, <1>8, <1>12, BaseGives DEF Rows, Histories, Settings
  <2>2. LockHeld'
    BY <1>1, <1>11, BaseGives, LockFrame
  <2> QED
    BY <1>1, <1>5, <1>6, <1>11, <2>1, <2>2, BaseFrame
<1>14. Executed'
  BY <1>11 DEF Executed
<1>15. PostsSound' /\ PostedOnce'
  BY <1>1, <1>5, <1>11 DEF Conduct, PostsSound, PostedOnce, TurnsGo, Executing
<1>16. DrainsItsTurns'
  BY <1>1, <1>5, <1>11, DrainsFrame
<1> QED
  BY <1>10, <1>12, <1>13, <1>14, <1>15, <1>16 DEF Conduct

-----------------------------------------------------------------------------
(* People and the channel. *)

\* Someone changes the conversation or the configuration; sessions end, and
\* what is in flight when a person takes over is overtaken.
LEMMA PeopleStep ==
    ASSUME Base, Conduct, Settings', moves' \in 0 .. MaxMoves, SessionsEnd,
           UNCHANGED <<turn, lock, posts, outgoing, order, run, crashes>>,
           \/ overtaken' = overtaken /\ revived' = revived /\ (conv'.bot => conv.bot)
           \/ overtaken' = overtaken /\ BotBecomes(conv'.bot)
           \/ overtaken' = overtaken \cup InFlight /\ revived' = revived /\ ~conv'.bot /\ session' = Ended
    PROVE  Base' /\ Conduct'
<1>1. /\ overtaken \subseteq overtaken' /\ revived \subseteq revived'
      /\ overtaken' \subseteq {"typebot", "native_ai"} \X Message /\ revived' \subseteq overtaken'
      /\ conv'.bot => overtaken' \subseteq revived'
  <2>1. overtaken \subseteq {"typebot", "native_ai"} \X Message /\ revived \subseteq overtaken
    BY BaseGives DEF Histories
  <2>2. conv.bot => overtaken \subseteq revived
    BY DEF Conduct, OvertakenSound
  <2>3. InFlight \subseteq {"typebot", "native_ai"} \X Message
    BY ExecutingKnows DEF InFlight, Executing
  <2> QED
    BY <2>1, <2>2, <2>3 DEF BotBecomes
<1>2. session' \in [Message -> SessionState] /\ SessionsGo
  BY BaseGives, SessionsEndIs DEF Rows, SessionsGo
<1>3. TurnsGo
  BY DEF TurnsGo
<1>4. Base'
  <2>1. Rows' /\ Histories'
    BY <1>1, <1>2, BaseGives DEF Rows, Histories
  <2>2. LockHeld'
    BY BaseGives, LockFrame
  <2> QED
    BY <1>2, <1>3, <2>1, <2>2, BaseFrame
<1>5. Executed'
  <2>1. OpenTurns' = OpenTurns
    BY OrderFrame
  <2> QED
    BY <2>1 DEF Conduct, Executed, IsNext, Before
<1>6. PostsSound' /\ PostedOnce'
  BY DEF Conduct, PostsSound, PostedOnce
<1>7. RepliesSound' /\ RepliesInOrder'
  BY <1>3, RepliesFrame
<1>8. OvertakenSound'
  <2> SUFFICES ASSUME NEW t \in Message, <<"typebot", t>> \in overtaken'
               PROVE  turn[t].status # "none" /\ session'[turn[t].session].status # "active"
    BY <1>1 DEF OvertakenSound
  <2>1. CASE <<"typebot", t>> \in overtaken
    <3>1. turn[t].status # "none" /\ session[turn[t].session].status # "active"
      BY <2>1 DEF Conduct, OvertakenSound
    <3>2. turn[t].session \in Message
      BY <3>1, BaseGives DEF StoredSound
    <3> QED
      BY <1>2, <3>1, <3>2 DEF SessionsGo
  <2>2. CASE <<"typebot", t>> \notin overtaken
    <3>1. session' = Ended /\ <<"typebot", t>> \in InFlight
      BY <2>2
    <3>2. PICK k \in Message : run[k].phase \in Executing /\ run[k].turn = t
      BY <3>1 DEF InFlight, Executing
    <3>3. turn[t].status \in OpenStatus /\ turn[t].session \in Message
      BY <3>2, ExecutingKnows
    <3>4. session'[turn[t].session].status # "active"
      BY <3>1, <3>3, BaseGives, EndedIs DEF Rows
    <3> QED
      BY <3>3, <3>4 DEF OpenStatus
  <2> QED
    BY <2>1, <2>2
<1>9. TakeoverSilences'
  <2> SUFFICES ASSUME NEW i \in DOMAIN outgoing, <<outgoing[i].engine, outgoing[i].msg>> \in overtaken'
               PROVE  /\ outgoing[i].engine = "native_ai"
                      /\ <<outgoing[i].engine, outgoing[i].msg>> \in revived'
    BY DEF TakeoverSilences
  <2>1. <<outgoing[i].engine, outgoing[i].msg>> \notin InFlight
    <3>1. outgoing[i].engine = "typebot" => turn[outgoing[i].msg].status = "completed"
      BY DEF Conduct, RepliesSound
    <3>2. outgoing[i].engine = "native_ai" => run[outgoing[i].msg].phase = "done"
      BY DEF Conduct, RepliesSound
    <3>3. \A k \in Message : run[k].phase \in Executing => turn[run[k].turn].status \in OpenStatus
      BY ExecutingKnows
    <3> QED
      BY <3>1, <3>2, <3>3 DEF InFlight, Executing, OpenStatus
  <2>2. <<outgoing[i].engine, outgoing[i].msg>> \in overtaken
    BY <2>1
  <2> QED
    BY <1>1, <2>2 DEF Conduct, TakeoverSilences
<1>10. DrainsItsTurns'
  BY <1>3, DrainsFrame
<1> QED
  BY <1>4, <1>5, <1>6, <1>7, <1>8, <1>9, <1>10 DEF Conduct

\* What people and the channel do is such a step.
LEMMA PeopleAct ==
    ASSUME Base, Conduct, People \/ ChannelFlips
    PROVE  Base' /\ Conduct'
<1>1. Settings /\ moves \in 0 .. MaxMoves /\ MaxMoves \in Nat
  BY BaseGives, BotAssumption DEF Histories
<1>2. ASSUME Move PROVE moves' \in 0 .. MaxMoves
  BY <1>1, <1>2 DEF Move
<1>3. CASE OnConversation /\ (assign_conversation \/ release_conversation \/ close_conversation
                              \/ toggle_conversation_bot)
  <2>1. /\ moves' \in 0 .. MaxMoves
        /\ UNCHANGED <<typebot, ai, connected, turn, lock, posts, outgoing, order, run, crashes>>
    BY <1>2, <1>3 DEF OnConversation
  <2>2. SessionsEnd
    BY <1>3 DEF assign_conversation, release_conversation, close_conversation, toggle_conversation_bot, SessionsEnd
  <2>3. conv' \in [status : {"none", "new", "open", "closed"}, assigned : BOOLEAN, bot : BOOLEAN]
    <3> DEFINE row == [status : {"none", "new", "open", "closed"}, assigned : BOOLEAN, bot : BOOLEAN]
    <3>1. conv \in row
      BY <1>1 DEF Settings
    <3>2. CASE assign_conversation
      BY <3>2 DEF assign_conversation
    <3>3. CASE release_conversation
      BY <3>1, <3>3 DEF release_conversation
    <3>4. CASE close_conversation
      BY <3>1, <3>4 DEF close_conversation
    <3>5. CASE toggle_conversation_bot
      <4> PICK on \in BOOLEAN : conv' = [conv EXCEPT !.bot = on]
        BY <3>5 DEF toggle_conversation_bot
      <4> QED
        BY <3>1
    <3> QED
      BY <1>3, <3>2, <3>3, <3>4, <3>5
  <2>4. Settings'
    BY <1>1, <2>1, <2>3 DEF Settings
  <2>5. \/ overtaken' = overtaken /\ revived' = revived /\ (conv'.bot => conv.bot)
        \/ overtaken' = overtaken /\ BotBecomes(conv'.bot)
        \/ overtaken' = overtaken \cup InFlight /\ revived' = revived /\ ~conv'.bot /\ session' = Ended
    <3>1. CASE assign_conversation
      BY <3>1 DEF assign_conversation
    <3>2. CASE release_conversation \/ close_conversation
      BY <1>1, <3>2 DEF release_conversation, close_conversation, Settings
    <3>3. CASE toggle_conversation_bot
      <4> PICK on \in BOOLEAN : conv' = [conv EXCEPT !.bot = on] /\ BotBecomes(on)
        BY <3>3 DEF toggle_conversation_bot
      <4>1. conv'.bot = on
        BY <1>1 DEF Settings
      <4> QED
        BY <3>3, <4>1 DEF toggle_conversation_bot, BotBecomes
    <3> QED
      BY <1>3, <3>1, <3>2, <3>3
  <2> QED
    BY <2>1, <2>2, <2>4, <2>5, PeopleStep
<1>4. CASE OnChannel /\ (write_typebot_config \/ update_ai_config \/ ChannelFlips)
  <2>1. /\ moves' \in 0 .. MaxMoves
        /\ UNCHANGED <<conv, turn, lock, posts, outgoing, order, overtaken, revived, run, crashes>>
    BY <1>2, <1>4 DEF OnChannel, historyVars
  <2>2. SessionsEnd
    BY <1>4 DEF write_typebot_config, update_ai_config, ChannelFlips, SessionsEnd
  <2>3. typebot' \in [enabled : BOOLEAN, flow : Flow] /\ ai' \in BOOLEAN /\ connected' \in BOOLEAN
    <3>1. typebot \in [enabled : BOOLEAN, flow : Flow] /\ ai \in BOOLEAN /\ connected \in BOOLEAN
      BY <1>1 DEF Settings
    <3>2. CASE write_typebot_config
      BY <3>1, <3>2 DEF write_typebot_config
    <3>3. CASE update_ai_config
      BY <3>1, <3>3 DEF update_ai_config
    <3>4. CASE ChannelFlips
      BY <3>1, <3>4 DEF ChannelFlips
    <3> QED
      BY <1>4, <3>2, <3>3, <3>4
  <2>4. Settings'
    BY <1>1, <2>1, <2>3 DEF Settings
  <2>5. overtaken' = overtaken /\ revived' = revived /\ (conv'.bot => conv.bot)
    BY <2>1
  <2> QED
    BY <2>1, <2>2, <2>4, <2>5, PeopleStep
<1> QED
  BY <1>3, <1>4 DEF People, assign_conversation, release_conversation, close_conversation, toggle_conversation_bot,
     write_typebot_config, update_ai_config, ChannelFlips

-----------------------------------------------------------------------------
(* A message is stored. *)

\* The message that is committed stands behind all that are there, and its
\* turn is neither claimed nor posted.
LEMMA Commits ==
    ASSUME Base, Conduct, NEW m \in Message, CommitIncoming(m)
    PROVE  Base' /\ Conduct'
<1>1. /\ Base'
      /\ m \notin Stored /\ order' = Append(order, m)
      /\ \A t \in Message : t # m => turn'[t] = turn[t]
      /\ turn'[m].status \in {"none", "queued"}
      /\ \A s \in Message : s # m /\ session'[s].status = "active" => session[s].status = "active"
  BY CommitBase
<1>2. /\ run[m].phase = "locked"
      /\ UNCHANGED <<typebot, ai, connected, lock, posts, outgoing, overtaken, moves, crashes>>
      /\ BotBecomes(conv'.bot)
      /\ \E p \in {"start", "done"} : Goes(m, p)
  BY DEF CommitIncoming
<1>3. /\ run'[m].phase \in {"start", "done"}
      /\ \A k \in Message : k # m => run'[k] = run[k]
  BY <1>2, BaseGives, GoesTyped DEF Phase
<1>4. turn[m].status = "none" /\ session[m].status = "none"
  BY <1>1, BaseGives DEF StoredSound
<1>5. /\ Stored' = Stored \cup {m} /\ Stored \subseteq Message
      /\ \A u, v : Before(u, v) => Before(u, v)'
      /\ \A u, v : Before(u, v)' /\ v \in Stored => Before(u, v)
      /\ \A u \in Stored : Before(u, m)'
  BY <1>1, BaseGives, OrderGrows, StoredMessages DEF Histories
<1>6. OpenTurns' \subseteq OpenTurns \cup {m} /\ OpenTurns \subseteq OpenTurns' /\ OpenTurns \subseteq Stored
  BY <1>1, <1>5 DEF OpenTurns
<1>7. Executed'
  <2> SUFFICES ASSUME NEW k \in Message, run'[k].phase \in Executing, NEW t, t = run[k].turn
               PROVE  IsNext(t)' /\ (run[k].phase # "picked" => turn'[t].status = "processing") /\ run'[k] = run[k]
    BY DEF Executed, IsNext, Before
  <2>1. run'[k] = run[k] /\ run[k].phase \in Executing
    BY <1>3 DEF Executing
  <2>2. t \in Message /\ t \in OpenTurns /\ (run[k].phase # "picked" => turn[t].status = "processing")
        /\ \A u \in OpenTurns \ {t} : Before(t, u)
    BY <2>1, ExecutingKnows DEF IsNext, Before
  <2>3. t # m
    BY <1>1, <1>6, <2>2
  <2>4. \A u \in OpenTurns' \ {t} : Before(t, u)'
    BY <1>5, <1>6, <2>2
  <2> QED
    BY <1>1, <1>6, <2>1, <2>2, <2>3, <2>4 DEF IsNext
<1>8. PostsSound' /\ PostedOnce'
  <2>1. PostedOnce'
    BY <1>2 DEF Conduct, PostedOnce
  <2>2. \A t \in Message : turn'[t].status \in {"none", "queued"} => posts'[t] = 0
    BY <1>1, <1>2, <1>4 DEF Conduct, PostsSound
  <2>3. \A k \in Message : run'[k].phase = "calling" /\ run'[k].reason = "none" => posts'[run'[k].turn] = 0
    BY <1>2, <1>3 DEF Conduct, PostsSound
  <2> QED
    BY <2>2, <2>1, <2>3 DEF PostsSound
<1>9. RepliesSound'
  <2> SUFFICES ASSUME NEW i \in DOMAIN outgoing, NEW t \in Message, t = outgoing[i].msg
               PROVE  /\ outgoing[i].engine = "typebot" =>
                             turn'[t].status = "completed" /\ \A u \in OpenTurns' : Before(t, u)'
                      /\ outgoing[i].engine = "native_ai" => run'[t].phase = "done"
    <3>1. \A i \in DOMAIN outgoing : outgoing[i].msg \in Message
      BY BaseGives, RepliesTyped DEF Histories
    <3> QED
      BY <1>2, <3>1 DEF RepliesSound, Before
  <2>1. ASSUME outgoing[i].engine = "typebot"
        PROVE  turn'[t].status = "completed" /\ \A u \in OpenTurns' : Before(t, u)'
    <3>1. turn[t].status = "completed" /\ \A u \in OpenTurns : Before(t, u)
      BY <2>1 DEF Conduct, RepliesSound, Before
    <3>2. t # m /\ t \in Stored
      BY <1>4, <3>1, BaseGives DEF StoredSound
    <3> QED
      BY <1>1, <1>5, <1>6, <3>1, <3>2
  <2>2. ASSUME outgoing[i].engine = "native_ai" PROVE run'[t].phase = "done"
    <3>1. run[t].phase = "done"
      BY <2>2 DEF Conduct, RepliesSound
    <3> QED
      BY <1>2, <1>3, <3>1
  <2> QED
    BY <2>1, <2>2
<1>10. RepliesInOrder'
  <2> SUFFICES ASSUME NEW i \in DOMAIN outgoing, NEW j \in DOMAIN outgoing, i < j,
                      outgoing[i].engine = "typebot", outgoing[j].engine = "typebot",
                      NEW u, u = outgoing[i].msg, NEW v, v = outgoing[j].msg
               PROVE  Before(u, v)'
    BY <1>2 DEF RepliesInOrder, Before
  <2>1. Before(u, v)
    BY DEF Conduct, RepliesInOrder, Before
  <2> QED
    BY <1>5, <2>1
<1>11. overtaken' = overtaken /\ revived \subseteq revived' /\ (conv'.bot => overtaken \subseteq revived')
  BY <1>2 DEF BotBecomes, Conduct, OvertakenSound
<1>12. OvertakenSound'
  <2> SUFFICES ASSUME NEW t \in Message, <<"typebot", t>> \in overtaken
               PROVE  turn'[t].status # "none" /\ session'[turn'[t].session].status # "active"
    BY <1>11 DEF OvertakenSound
  <2>1. turn[t].status # "none" /\ session[turn[t].session].status # "active"
    BY DEF Conduct, OvertakenSound
  <2>2. t # m /\ turn[t].session \in Message /\ turn[t].session # m
    BY <1>4, <2>1, BaseGives DEF StoredSound
  <2> QED
    BY <1>1, <2>1, <2>2
<1>13. TakeoverSilences'
  BY <1>2, <1>11 DEF Conduct, TakeoverSilences
<1>14. DrainsItsTurns'
  <2> SUFFICES ASSUME NEW k \in Message, NEW t \in Message, run'[k].phase = "drained", t = k \/ Before(t, k)'
               PROVE  turn'[t].status \notin {"queued", "processing"}
    BY DEF DrainsItsTurns
  <2>1. k # m /\ run[k].phase = "drained"
    BY <1>3
  <2>2. k \in Stored
    BY <2>1, BaseGives DEF StoredSound, Early
  <2>3. t = k \/ Before(t, k)
    BY <1>5, <2>2
  <2>4. t # m
    BY <1>1, <2>1, <2>3, BeforeStored
  <2> QED
    BY <1>1, <2>1, <2>3, <2>4 DEF Conduct, DrainsItsTurns
<1> QED
  BY <1>1, <1>7, <1>8, <1>9, <1>10, <1>12, <1>13, <1>14 DEF Conduct

-----------------------------------------------------------------------------
(* The turns are the queue of TurnQueue. *)

\* What a run that asks Typebot, or was told why not to, knows of its turn.
CallSound(m) ==
    /\ run[m].phase = "calling" /\ run[m].reason = "none" => KindOf[run[m].turn] = "text"
    /\ run[m].phase = "calling" /\ run[m].reason = "handoff" => KindOf[run[m].turn] = "person"
    /\ run[m].phase = "asked" => posts[run[m].turn] = 1

CallsSound == \A m \in Message : CallSound(m)

\* A step that posts nothing and leaves who calls or has asked as he is.
LEMMA CallsFrame ==
    ASSUME CallsSound, posts' = posts,
           \A k \in Message : run'[k] = run[k] \/ run'[k].phase \notin {"calling", "asked"}
    PROVE  CallsSound'
BY DEF CallsSound, CallSound

\* A turn is claimed with a reason that fits its kind, and asked for once.
LEMMA CallsStep == IInv /\ CallsSound /\ [Next]_vars => CallsSound'
<1> SUFFICES ASSUME Base, Conduct, CallsSound, [Next]_vars PROVE CallsSound'
  BY DEF IInv
<1>1. run \in [Message -> RunState]
  BY BaseGives
<1>2. ASSUME NEW m \in Message, NEW p \in Phase \ {"calling", "asked"}, Goes(m, p), posts' = posts
      PROVE  CallsSound'
  BY <1>1, <1>2, GoesTyped, CallsFrame
<1>3. ASSUME NEW m \in Message, Begin(m) \/ CommitIncoming(m) \/ TakeTurnLock(m) \/ Discard(m)
                              \/ AnswerModel(m) \/ Crash(m)
      PROVE  CallsSound'
  <2>1. posts' = posts /\ \E p \in {"begun", "start", "done", "loop", "dead"} : Goes(m, p)
    BY <1>3 DEF Begin, CommitIncoming, TakeTurnLock, Discard, AnswerModel, Crash, botVars
  <2> QED
    BY <2>1, <1>2 DEF Phase
<1>4. ASSUME NEW m \in Message, LockConversation(m) \/ Route(m) \/ AskModel(m) \/ PickTurn(m) \/ FinishTurn(m)
      PROVE  CallsSound'
  <2>1. posts' = posts
    BY <1>4 DEF LockConversation, Route, AskModel, PickTurn, FinishTurn, botVars
  <2>2. \A k \in Message : k # m => run'[k] = run[k]
    BY <1>1, <1>4 DEF LockConversation, Route, AskModel, PickTurn, FinishTurn, Goes
  <2>3. run'[m].phase \notin {"calling", "asked"}
    <3>1. CASE LockConversation(m)
      BY <1>1, <3>1 DEF LockConversation, RunState
    <3>2. CASE Route(m)
      BY <1>1, <3>2 DEF Route, RunState
    <3>3. CASE AskModel(m)
      BY <1>1, <3>3 DEF AskModel, RunState
    <3>4. CASE PickTurn(m)
      <4>1. CASE Goes(m, "drained")
        BY <1>1, <4>1, GoesTyped DEF Phase
      <4>2. ASSUME NEW t, NEW v, run' = [run EXCEPT ![m] = [run[m] EXCEPT !.phase = "picked", !.turn = t, !.view = v]]
            PROVE  run'[m].phase = "picked"
        BY <1>1, <4>2 DEF RunState
      <4>3. \/ Goes(m, "drained")
            \/ \E t, v : run' = [run EXCEPT ![m] = [run[m] EXCEPT !.phase = "picked", !.turn = t, !.view = v]]
        BY <3>4 DEF PickTurn
      <4> QED
        BY <4>1, <4>2, <4>3
    <3>5. CASE FinishTurn(m)
      BY <1>1, <3>5 DEF FinishTurn, RunState
    <3> QED
      BY <1>4, <3>1, <3>2, <3>3, <3>4, <3>5
  <2> QED
    BY <2>1, <2>2, <2>3, CallsFrame
<1>5. ASSUME NEW m \in Message, ClaimTurn(m) PROVE CallsSound'
  <2>1. run[m].phase \in Executing
    BY <1>5 DEF ClaimTurn, Executing
  <2> PICK t \in Message : t = run[m].turn
    BY <2>1, ExecutingKnows
  <2> DEFINE r == CASE KindOf[t] = "media" -> "unsupported"
                    [] KindOf[t] # "media" /\ turn[t].status = "processing" -> "unavailable"
                    [] KindOf[t] = "person" /\ turn[t].status = "queued" -> "handoff"
                    [] OTHER -> "none"
             w == [run[m] EXCEPT !.phase = "calling", !.reason = r]
  <2>2. run' = [run EXCEPT ![m] = w] /\ posts' = posts
    BY <1>5 DEF ClaimTurn
  <2>3. /\ r = "none" => KindOf[t] = "text"
        /\ r = "handoff" => KindOf[t] = "person"
    <3>1. turn[t].status \in {"queued", "processing"} /\ KindOf[t] \in {"text", "person", "media"}
      BY <2>1, ExecutingKnows, BotAssumption DEF OpenStatus
    <3> QED
      BY <3>1
  <2> HIDE DEF r
  <2>4. w.phase = "calling" /\ w.turn = t /\ w.reason = r
    BY <1>1 DEF RunState
  <2> HIDE DEF w
  <2>5. run'[m] = w /\ \A k \in Message : k # m => run'[k] = run[k]
    BY <1>1, <2>2
  <2>6. CallSound(m)'
    BY <2>3, <2>4, <2>5 DEF CallSound
  <2>7. \A k \in Message : k # m => CallSound(k)'
    BY <2>2, <2>5 DEF CallsSound, CallSound
  <2> QED
    BY <2>6, <2>7 DEF CallsSound, CallSound
<1>6. ASSUME NEW m \in Message, PostTurn(m) PROVE CallsSound'
  <2>1. run[m].phase \in Executing /\ run[m].phase = "calling" /\ run[m].reason = "none" /\ Goes(m, "asked")
    BY <1>6 DEF PostTurn, Executing
  <2> PICK t \in Message : t = run[m].turn
    BY <2>1, ExecutingKnows
  <2>2. posts[t] = 0
    BY <2>1 DEF Conduct, PostsSound
  <2>3. posts' = [posts EXCEPT ![t] = posts[t] + 1] /\ posts \in [Message -> Nat]
    BY <1>6, BaseGives DEF PostTurn, Histories
  <2>4. posts'[t] = 1
    BY <2>2, <2>3
  <2>5. /\ run'[m].phase = "asked" /\ run'[m].turn = t
        /\ \A k \in Message : k # m => run'[k] = run[k]
    BY <1>1, <2>1, GoesTyped DEF Phase
  <2>6. \A k \in Message : k # m => run'[k].phase # "asked"
    BY <2>1, <2>5, ExecutingKnows DEF Executing
  <2>7. ASSUME NEW k \in Message PROVE CallSound(k)'
    BY <2>4, <2>5, <2>6 DEF CallsSound, CallSound
  <2> QED
    BY <2>7 DEF CallsSound, CallSound
<1>7. CASE People \/ ChannelFlips \/ UNCHANGED vars
  <2>1. run' = run /\ posts' = posts
    BY <1>7 DEF People, assign_conversation, release_conversation, close_conversation, toggle_conversation_bot,
       write_typebot_config, update_ai_config, ChannelFlips, OnConversation, OnChannel, vars, botVars, historyVars
  <2> QED
    BY <2>1, CallsFrame
<1> QED
  BY <1>3, <1>4, <1>5, <1>6, <1>7 DEF Next, Incoming, Typebot, NativeAi

\* Nobody has asked anything yet.
LEMMA CallsInit == Init => CallsSound
BY DEF Init, CallsSound, CallSound

\* A reply is stored by who has asked, or was told to hand off.
LEMMA AnswersWhom ==
    ASSUME NEW m \in Message, FinishTurn(m), outgoing' # outgoing
    PROVE  run[m].phase = "asked" \/ (run[m].phase = "calling" /\ run[m].reason = "handoff")
BY DEF FinishTurn, StoreAnswer, DiscardAnswer

\* The replies of Typebot to one message.
RepliesTo(m) == {i \in DOMAIN outgoing : outgoing[i].engine = "typebot" /\ outgoing[i].msg = m}

\* A step that leaves order, posts, replies and what is open alone.
LEMMA QueueStutters ==
    ASSUME order' = order, OpenTurns' = OpenTurns, posts' = posts, outgoing' = outgoing
    PROVE  UNCHANGED Queue!vars
BY DEF Queue!vars, Answers

\* A reply of the model is not counted, one of Typebot once.
LEMMA AnswersGrow ==
    ASSUME outgoing \in Seq(ReplyRecord), NEW engine \in {"typebot", "native_ai"}, NEW t \in Message,
           NEW at \in 0 .. Messages,
           outgoing' = Append(outgoing, [engine |-> engine, msg |-> t, at |-> at])
    PROVE  /\ engine = "native_ai" => Answers' = Answers
           /\ engine = "typebot" /\ RepliesTo(t) = {} => Answers' = [Answers EXCEPT ![t] = 1]
<1> DEFINE r == [engine |-> engine, msg |-> t, at |-> at]
           n == Len(outgoing)
<1>1. r \in ReplyRecord /\ r.engine = engine /\ r.msg = t /\ outgoing' = Append(outgoing, r)
  BY DEF ReplyRecord
<1> HIDE DEF r
<1>2. /\ n \in Nat /\ DOMAIN outgoing = 1 .. n /\ DOMAIN outgoing' = 1 .. n + 1
      /\ \A i \in 1 .. n : outgoing'[i] = outgoing[i]
      /\ outgoing'[n + 1] = r
  BY <1>1, AppendIs
<1> HIDE DEF n
<1>3. \A i : i \in 1 .. n + 1 <=> i \in 1 .. n \/ i = n + 1
  BY <1>2
<1>4. Answers = [m \in Message |-> Cardinality(RepliesTo(m))]
  BY DEF Answers, RepliesTo
<1>5. Answers' = [m \in Message |-> Cardinality(RepliesTo(m)')]
  BY DEF Answers, RepliesTo
<1>6. ASSUME NEW m \in Message, engine = "native_ai" \/ m # t PROVE RepliesTo(m)' = RepliesTo(m)
  <2>1. ASSUME NEW i PROVE i \in RepliesTo(m)' <=> i \in RepliesTo(m)
    BY <1>1, <1>2, <1>3, <1>6 DEF RepliesTo
  <2> QED
    BY <2>1
<1>7. ASSUME engine = "typebot", RepliesTo(t) = {} PROVE RepliesTo(t)' = {n + 1}
  <2>1. \A i \in 1 .. n : ~(outgoing[i].engine = "typebot" /\ outgoing[i].msg = t)
    BY <1>2, <1>7 DEF RepliesTo
  <2>2. ASSUME NEW i PROVE i \in RepliesTo(t)' <=> i = n + 1
    BY <1>1, <1>2, <1>3, <1>7, <2>1 DEF RepliesTo
  <2> QED
    BY <2>2
<1>8. ASSUME engine = "native_ai" PROVE Answers' = Answers
  BY <1>4, <1>5, <1>6, <1>8
<1>9. ASSUME engine = "typebot", RepliesTo(t) = {} PROVE Answers' = [Answers EXCEPT ![t] = 1]
  <2>1. Cardinality(RepliesTo(t)') = 1
    BY <1>7, <1>9, FS_Singleton
  <2>2. \A m \in Message : Cardinality(RepliesTo(m)') = IF m = t THEN 1 ELSE Cardinality(RepliesTo(m))
    BY <1>6, <2>1
  <2> QED
    BY <1>4, <1>5, <2>2
<1> QED
  BY <1>8, <1>9

\* The oldest open turn is that of TurnQueue.
LEMMA OldestIs == \A t : Queue!IsOldest(t) <=> IsNext(t)
BY DEF Queue!IsOldest, Queue!Before, IsNext, Before

\* Initially the queue is empty.
LEMMA QueueInit == Init => Queue!Init
<1> SUFFICES ASSUME Init PROVE Queue!Init
  OBVIOUS
<1>1. order = <<>> /\ posts = [m \in Message |-> 0] /\ outgoing = <<>>
  BY DEF Init
<1>2. OpenTurns = {} /\ \A m \in Message : RepliesTo(m) = {}
  BY <1>1 DEF OpenTurns, Stored, RepliesTo
<1>3. Answers = [m \in Message |-> 0]
  BY <1>2, FS_EmptySet DEF Answers, RepliesTo
<1> QED
  BY <1>1, <1>2, <1>3 DEF Queue!Init

\* The run that executes a turn settles it.
LEMMA QueueSettles ==
    ASSUME Base, Conduct, CallsSound, NEW m \in Message, Discard(m) \/ FinishTurn(m)
    PROVE  Queue!Next
<1>1. run[m].phase \in Executing
  BY DEF Discard, FinishTurn, Executing
<1> PICK t \in Message : t = run[m].turn
  BY <1>1, ExecutingKnows
<1>2. t \in OpenTurns /\ IsNext(t) /\ turn[t].status \in OpenStatus
  BY <1>1, ExecutingKnows DEF IsNext, Before
<1>3. \E s \in {"completed", "discarded", "failed"} :
         /\ turn' = [turn EXCEPT ![run[m].turn].status = s]
         /\ \/ outgoing' = outgoing
            \/ outgoing' = Append(outgoing, [engine |-> "typebot", msg |-> t, at |-> Cardinality(Arrived)])
  <2>1. CASE Discard(m)
    BY <2>1 DEF Discard
  <2>2. CASE FinishTurn(m)
    BY <2>2, FinishIs
  <2> QED
    BY <2>1, <2>2
<1> PICK s \in {"completed", "discarded", "failed"} :
       /\ turn' = [turn EXCEPT ![run[m].turn].status = s]
       /\ \/ outgoing' = outgoing
          \/ outgoing' = Append(outgoing, [engine |-> "typebot", msg |-> t, at |-> Cardinality(Arrived)])
  BY <1>3
<1>4. order' = order /\ posts' = posts
  BY DEF Discard, FinishTurn, historyVars
<1>5. OpenTurns' = OpenTurns \ {t}
  <2>1. turn'[t].status = s /\ \A u \in Message : u # t => turn'[u] = turn[u]
    BY <1>1, ExecutingGoes
  <2>2. Stored' = Stored /\ Stored \subseteq Message
    BY <1>4, OrderFrame, BaseGives, StoredMessages DEF Histories
  <2> QED
    BY <2>1, <2>2 DEF OpenTurns
<1>6. \/ Answers' = Answers
      \/ Answers' = [Answers EXCEPT ![t] = 1] /\ (posts[t] = 1 \/ t \in OfKind("person"))
  <2>1. CASE outgoing' = outgoing
    BY <2>1 DEF Answers
  <2>2. CASE outgoing' # outgoing
    <3> DEFINE engine == "typebot"
    <3> PICK at \in 0 .. Messages : at = Cardinality(Arrived)
      BY ArrivedBounded
    <3>1. outgoing' = Append(outgoing, [engine |-> engine, msg |-> t, at |-> at])
      BY <2>2
    <3>2. RepliesTo(t) = {}
      BY <1>2 DEF Conduct, RepliesSound, RepliesTo, OpenStatus
    <3>3. Answers' = [Answers EXCEPT ![t] = 1]
      BY <3>1, <3>2, BaseGives, AnswersGrow DEF Histories
    <3>4. FinishTurn(m)
      BY <2>2 DEF Discard
    <3>5. posts[t] = 1 \/ t \in OfKind("person")
      BY <2>2, <3>4, AnswersWhom DEF CallsSound, CallSound, OfKind
    <3> QED
      BY <3>3, <3>5
  <2> QED
    BY <2>1, <2>2
<1>7. Queue!IsOldest(t)
  BY <1>2, OldestIs
<1>8. CASE Answers' = Answers
  BY <1>4, <1>5, <1>7, <1>8 DEF Queue!Next, Queue!GiveUp
<1>9. CASE Answers' = [Answers EXCEPT ![t] = 1] /\ (posts[t] = 1 \/ t \in OfKind("person"))
  BY <1>4, <1>5, <1>7, <1>9 DEF Queue!Next, Queue!Answer
<1> QED
  BY <1>6, <1>8, <1>9

\* Every step is one of the queue or leaves it alone.
LEMMA QueueStep == IInv /\ CallsSound /\ [Next]_vars => [Queue!Next]_(Queue!vars)
<1> SUFFICES ASSUME Base, Conduct, CallsSound, [Next]_vars PROVE Queue!Next \/ UNCHANGED Queue!vars
  BY DEF IInv
<1>1. ASSUME NEW m \in Message, CommitIncoming(m) PROVE Queue!Next
  <2>1. /\ m \notin Stored /\ order' = Append(order, m)
        /\ \A t \in Message : t # m => turn'[t] = turn[t]
    BY <1>1, CommitBase
  <2>2. posts' = posts /\ outgoing' = outgoing
    BY <1>1 DEF CommitIncoming
  <2>3. Answers' = Answers
    BY <2>2 DEF Answers
  <2>4. Stored' = Stored \cup {m} /\ Stored \subseteq Message
    BY <2>1, BaseGives, OrderGrows, StoredMessages DEF Histories
  <2>5. OpenTurns' \in {OpenTurns, OpenTurns \cup {m}}
    <3>1. m \notin OpenTurns
      BY <2>1 DEF OpenTurns
    <3>2. OpenTurns' \ {m} = OpenTurns
      BY <2>1, <2>4, <3>1 DEF OpenTurns
    <3> QED
      BY <3>2
  <2>6. \A i \in DOMAIN order : order[i] # m
    BY <2>1 DEF Stored
  <2> QED
    BY <2>1, <2>2, <2>3, <2>5, <2>6 DEF Queue!Next, Queue!Join
<1>2. ASSUME NEW m \in Message, PostTurn(m) PROVE Queue!Next
  <2>1. run[m].phase \in Executing /\ run[m].phase = "calling" /\ run[m].reason = "none"
    BY <1>2 DEF PostTurn, Executing
  <2> PICK t \in Message : t = run[m].turn
    BY <2>1, ExecutingKnows
  <2>2. IsNext(t)
    BY <2>1, ExecutingKnows DEF IsNext, Before
  <2>3. posts[t] = 0
    BY <2>1 DEF Conduct, PostsSound
  <2>4. posts' = [posts EXCEPT ![t] = posts[t] + 1] /\ order' = order /\ turn' = turn /\ outgoing' = outgoing
    BY <1>2 DEF PostTurn, historyVars
  <2>5. OpenTurns' = OpenTurns /\ Answers' = Answers
    BY <2>4, OrderFrame DEF Answers
  <2>6. posts' = [posts EXCEPT ![t] = 1]
    BY <2>3, <2>4
  <2>7. Queue!IsOldest(t) /\ t \in OfKind("text")
    BY <2>1, <2>2, OldestIs DEF CallsSound, CallSound, OfKind
  <2> QED
    BY <2>3, <2>4, <2>5, <2>6, <2>7 DEF Queue!Next, Queue!Ask
<1>3. ASSUME NEW m \in Message, Discard(m) \/ FinishTurn(m) PROVE Queue!Next
  BY <1>3, QueueSettles
<1>4. ASSUME NEW m \in Message, ClaimTurn(m) PROVE UNCHANGED Queue!vars
  <2>1. run[m].phase \in Executing
    BY <1>4 DEF ClaimTurn, Executing
  <2> PICK t \in Message : t = run[m].turn
    BY <2>1, ExecutingKnows
  <2>2. t \in OpenTurns
    BY <2>1, ExecutingKnows
  <2>3. /\ turn' = [turn EXCEPT ![run[m].turn].status = "processing"]
        /\ order' = order /\ posts' = posts /\ outgoing' = outgoing
    BY <1>4 DEF ClaimTurn, historyVars
  <2>4. turn'[t].status = "processing" /\ \A u \in Message : u # t => turn'[u] = turn[u]
    BY <2>1, <2>3, ExecutingGoes
  <2>5. Stored' = Stored /\ Stored \subseteq Message
    BY <2>3, OrderFrame, BaseGives, StoredMessages DEF Histories
  <2>6. OpenTurns' = OpenTurns
    BY <2>2, <2>4, <2>5 DEF OpenTurns
  <2> QED
    BY <2>3, <2>6, QueueStutters
<1>5. ASSUME NEW m \in Message, AnswerModel(m) PROVE UNCHANGED Queue!vars
  <2>1. order' = order /\ turn' = turn /\ posts' = posts
    BY <1>5 DEF AnswerModel, historyVars
  <2>2. \/ outgoing' = outgoing
        \/ outgoing' = Append(outgoing, [engine |-> "native_ai", msg |-> m, at |-> run[m].at])
    BY <1>5 DEF AnswerModel, KeepAnswer, Reply
  <2>3. Answers' = Answers
    <3>1. CASE outgoing' = outgoing
      BY <3>1 DEF Answers
    <3>2. CASE outgoing' = Append(outgoing, [engine |-> "native_ai", msg |-> m, at |-> run[m].at])
      <4> DEFINE engine == "native_ai"
      <4> PICK at \in 0 .. Messages : at = run[m].at
        BY BaseGives DEF RunState
      <4>1. outgoing' = Append(outgoing, [engine |-> engine, msg |-> m, at |-> at])
        BY <3>2
      <4> QED
        BY <4>1, BaseGives, AnswersGrow DEF Histories
    <3> QED
      BY <2>2, <3>1, <3>2
  <2>4. OpenTurns' = OpenTurns
    BY <2>1, OrderFrame
  <2> QED
    BY <2>1, <2>3, <2>4 DEF Queue!vars
<1>6. ASSUME UNCHANGED <<order, turn, posts, outgoing>> PROVE UNCHANGED Queue!vars
  BY <1>6, OrderFrame, QueueStutters
<1>7. ASSUME NEW m \in Message, \/ Begin(m) \/ LockConversation(m) \/ Route(m) \/ TakeTurnLock(m) \/ PickTurn(m)
                              \/ AskModel(m) \/ Crash(m)
      PROVE  UNCHANGED <<order, turn, posts, outgoing>>
  BY <1>7 DEF Begin, LockConversation, Route, TakeTurnLock, PickTurn, AskModel, Crash, botVars, historyVars
<1>8. ASSUME People \/ ChannelFlips \/ UNCHANGED vars PROVE UNCHANGED <<order, turn, posts, outgoing>>
  BY <1>8 DEF People, assign_conversation, release_conversation, close_conversation, toggle_conversation_bot,
     write_typebot_config, update_ai_config, ChannelFlips, OnConversation, OnChannel, vars, botVars, historyVars
<1> QED
  BY <1>1, <1>2, <1>3, <1>4, <1>5, <1>6, <1>7, <1>8 DEF Next, Incoming, Typebot, NativeAi

-----------------------------------------------------------------------------
(* The theorems. *)

\* No message has arrived, and nobody holds the lock.
LEMMA IInvInit == Init => IInv
<1> SUFFICES ASSUME Init PROVE IInv
  OBVIOUS
<1>1. Messages \in Nat /\ NoMessage \notin Message /\ MaxMoves \in Nat /\ MaxCrashes \in Nat
  BY BotAssumption
<1>2. PICK f \in Flow :
        /\ typebot \in [enabled : BOOLEAN, flow : {f}]
        /\ session = [m \in Message |-> [status |-> "none", flow |-> f]]
        /\ run = [m \in Message |->
                    [phase |-> "none", engine |-> "none", flow |-> f, turn |-> NoMessage,
                     view |-> "none", reason |-> "none", at |-> 0]]
  BY DEF Init
<1>3. /\ conv = [status |-> "none", assigned |-> FALSE, bot |-> FALSE]
      /\ ai = ~typebot.enabled /\ connected = TRUE
      /\ turn = [m \in Message |-> [status |-> "none", session |-> NoMessage]]
      /\ order = <<>> /\ lock = NoMessage /\ posts = [m \in Message |-> 0] /\ outgoing = <<>>
      /\ overtaken = {} /\ revived = {} /\ moves = 0 /\ crashes = 0
  BY DEF Init
<1>4. DOMAIN order = {} /\ DOMAIN outgoing = {} /\ Stored = {} /\ OpenTurns = {}
  BY <1>3 DEF Stored, OpenTurns
<1>5. Rows
  BY <1>1, <1>2, <1>3 DEF Rows, SessionState, TurnState, RunState, Phase, Reason
<1>6. Histories /\ Settings
  BY <1>1, <1>2, <1>3 DEF Histories, Settings
<1>7. \A m \in Message : /\ run[m].phase = "none" /\ session[m].status = "none" /\ turn[m].status = "none"
                         /\ posts[m] = 0
  BY <1>2, <1>3
<1>8. Base
  <2>1. TypeOK
    BY <1>5, <1>6, TypeParts
  <2>2. Numbered /\ LockHeld /\ StoredSound /\ OneActiveSession
    BY <1>1, <1>3, <1>4, <1>7 DEF Numbered, LockHeld, StoredSound, OneActiveSession, Draining, Executing, Early
  <2> QED
    BY <2>1, <2>2 DEF Base
<1>9. Conduct
  <2>1. Executed /\ PostsSound /\ PostedOnce
    BY <1>7 DEF Executed, PostsSound, PostedOnce, Executing
  <2>2. RepliesSound /\ RepliesInOrder /\ TakeoverSilences
    BY <1>4 DEF RepliesSound, RepliesInOrder, TakeoverSilences
  <2>3. OvertakenSound /\ DrainsItsTurns
    BY <1>3, <1>7 DEF OvertakenSound, DrainsItsTurns
  <2> QED
    BY <2>1, <2>2, <2>3 DEF Conduct
<1> QED
  BY <1>8, <1>9 DEF IInv

\* Every step keeps the inductive invariant.
LEMMA IInvStep == IInv /\ [Next]_vars => IInv'
<1> SUFFICES ASSUME Base, Conduct, [Next]_vars PROVE Base' /\ Conduct'
  BY DEF IInv
<1>1. ASSUME NEW m \in Message, Incoming(m) \/ Route(m) \/ Typebot(m) \/ NativeAi(m) \/ Crash(m)
      PROVE  Base' /\ Conduct'
  <2>1. CASE Begin(m) \/ LockConversation(m) \/ Route(m) \/ AskModel(m)
    BY <2>1, Moves
  <2>2. CASE CommitIncoming(m)
    BY <2>2, Commits
  <2>3. CASE TakeTurnLock(m) \/ PickTurn(m) \/ Crash(m)
    BY <2>3, Locks
  <2>4. CASE Discard(m)
    BY <2>4, Discards
  <2>5. CASE ClaimTurn(m)
    BY <2>5, Claims
  <2>6. CASE PostTurn(m)
    BY <2>6, Posts
  <2>7. CASE FinishTurn(m)
    BY <2>7, Finishes
  <2>8. CASE AnswerModel(m)
    BY <2>8, ModelAnswers
  <2> QED
    BY <1>1, <2>1, <2>2, <2>3, <2>4, <2>5, <2>6, <2>7, <2>8 DEF Incoming, Typebot, NativeAi
<1>2. CASE People \/ ChannelFlips
  BY <1>2, PeopleAct
<1>3. CASE UNCHANGED vars
  <2>1. Base'
    BY <1>3 DEF vars, convVars, botVars, historyVars, Base, TypeOK, Numbered, LockHeld, StoredSound, Stored,
       OneActiveSession
  <2>2. Conduct'
    BY <1>3 DEF vars, convVars, botVars, historyVars, Conduct, Executed, IsNext, OpenTurns, Stored, Before,
       PostsSound, PostedOnce, RepliesSound, RepliesInOrder, OvertakenSound, TakeoverSilences, DrainsItsTurns
  <2> QED
    BY <2>1, <2>2
<1> QED
  BY <1>1, <1>2, <1>3 DEF Next

\* The inductive invariant holds.
THEOREM IInvCorrect == Spec => []IInv
BY IInvInit, IInvStep, PTL DEF Spec

\* Every variable has its type.
THEOREM TypeCorrect == Spec => []TypeOK
<1>1. IInv => TypeOK
  BY DEF IInv, Base
<1> QED
  BY <1>1, IInvCorrect, PTL

\* Whatever runs die and whichever run finds what they left, no turn is posted
\* to Typebot twice.
THEOREM PostedOnceCorrect == Spec => []PostedOnce
<1>1. IInv => PostedOnce
  BY DEF IInv, Conduct
<1> QED
  BY <1>1, IInvCorrect, PTL

\* No transaction of an incoming message meets a second active session.
THEOREM OneActiveCorrect == Spec => []OneActiveSession
<1>1. IInv => OneActiveSession
  BY DEF IInv, Base
<1> QED
  BY <1>1, IInvCorrect, PTL

\* What was in flight when a person took the conversation over is not said.
THEOREM TakeoverCorrect == Spec => []TakeoverSilences
<1>1. IInv => TakeoverSilences
  BY DEF IInv, Conduct
<1> QED
  BY <1>1, IInvCorrect, PTL

\* Typebot's replies stand in the order of the messages.
THEOREM RepliesOrdered == Spec => []RepliesInOrder
<1>1. IInv => RepliesInOrder
  BY DEF IInv, Conduct
<1> QED
  BY <1>1, IInvCorrect, PTL

\* A run that ends by itself leaves nothing open behind it.
THEOREM DrainsCorrect == Spec => []DrainsItsTurns
<1>1. IInv => DrainsItsTurns
  BY DEF IInv, Conduct
<1> QED
  BY <1>1, IInvCorrect, PTL

\* Whoever calls Typebot knows why.
THEOREM CallsCorrect == Spec => []CallsSound
BY IInvCorrect, CallsInit, CallsStep, PTL DEF Spec

\* The runs implement the queue: the oldest turn is dealt with first, put to
\* Typebot at most once and answered at most once, and only then or if it asks
\* for a person, and it leaves the queue for good.
THEOREM QueueImplemented == Spec => ImplementsQueue
BY IInvCorrect, CallsCorrect, QueueInit, QueueStep, PTL DEF Spec, ImplementsQueue, Queue!Spec
=============================================================================
