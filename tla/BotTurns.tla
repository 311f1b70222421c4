------------------------------ MODULE BotTurns ------------------------------
(***************************************************************************)
(* Automatic replies in one conversation of fluvius-core: src/api/app/bots *)
(* and src/api/app/ai, with what conversations/router.py and the inbox     *)
(* processor do to the conversation meanwhile.  A message that comes in    *)
(* while the bot is on starts a run.  With Typebot, the message has left a *)
(* durable turn, and the run drains the turns of the conversation under an *)
(* advisory lock that outlives its transactions; with the native AI, the   *)
(* run asks a model and keeps nothing until it has the answer.  Nobody     *)
(* holds the conversation while the outside answers: a person may take it  *)
(* over, and the reply must then be thrown away.                           *)
(*                                                                         *)
(* Transactions that take the row locks of channel and conversation before *)
(* they look, and commit without leaving them, are one action; those that  *)
(* read before they lock are several.  An incoming message locks the       *)
(* conversation (ConversationFree) and then reads the configuration, which *)
(* it does not lock; the code reads it twice, the model once.              *)
(*                                                                         *)
(* Abstracted: texts and bubbles (a reply is one message or none), the     *)
(* external session, contacts and groups, a missing API key, messages      *)
(* people write, and what becomes of a reply in the outbox                 *)
(* (DeliveryOutbox).  How an incoming message survives a crash before it   *)
(* is stored is ProviderInbox's subject.                                   *)
(***************************************************************************)
EXTENDS Naturals, Sequences, FiniteSets

CONSTANTS
    Messages,       \* incoming messages are numbered 1 .. Messages by created_at
    KindOf,         \* "text", "person" (it asks for one) or "media"
    Flow,           \* Typebot public ids
    NoMessage,
    MaxMoves,       \* bound: what people and the channel do
    MaxCrashes      \* bound: runs whose process dies

Message == 1 .. Messages

ASSUME BotAssumption ==
    /\ Messages \in Nat
    /\ KindOf \in [Message -> {"text", "person", "media"}]
    /\ NoMessage \notin Message
    /\ MaxMoves \in Nat
    /\ MaxCrashes \in Nat

VARIABLES
    conv,           \* the conversation row
    typebot, ai,    \* channel_typebot_configs and channel_ai_configs
    connected,      \* the channel's status
    session,        \* bot_sessions, by the message that started them
    turn,           \* bot_turns, by message
    order,          \* history: messages in the order of their commits
    run,            \* by message, the process that handles it
    lock,           \* the advisory lock of the conversation
    posts,          \* history: POSTs to Typebot for a turn
    outgoing,       \* history: the replies stored
    overtaken,      \* history: work in flight when a person took over
    revived,        \* history: such work that saw the bot switched on again
    moves, crashes

botVars == <<session, turn, lock, posts, outgoing>>
convVars == <<conv, typebot, ai, connected>>
historyVars == <<order, overtaken, revived>>
vars == <<convVars, botVars, historyVars, run, moves, crashes>>

Phase == {"none", "begun", "locked", "start", "waiting", "loop", "picked", "calling", "asked",
          "ai", "llm", "drained", "done", "dead"}
Reason == {"none", "handoff", "unsupported", "unavailable"}

TypeOK ==
    /\ conv \in [status : {"none", "new", "open", "closed"}, assigned : BOOLEAN, bot : BOOLEAN]
    /\ typebot \in [enabled : BOOLEAN, flow : Flow]
    /\ ai \in BOOLEAN
    /\ connected \in BOOLEAN
    /\ session \in [Message -> [status : {"none", "active", "ended", "failed"}, flow : Flow]]
    /\ turn \in [Message -> [status : {"none", "queued", "processing", "completed", "discarded", "failed"},
                             session : Message \cup {NoMessage}]]
    /\ order \in Seq(Message)
    /\ run \in [Message -> [phase : Phase, engine : {"none", "typebot", "native_ai"}, flow : Flow,
                            turn : Message \cup {NoMessage}, view : {"none", "gone", "stale", "ok"},
                            reason : Reason, at : 0 .. Messages]]
    /\ lock \in Message \cup {NoMessage}
    /\ posts \in [Message -> Nat]
    /\ outgoing \in Seq([engine : {"typebot", "native_ai"}, msg : Message, at : 0 .. Messages])
    /\ overtaken \subseteq {"typebot", "native_ai"} \X Message
    /\ revived \subseteq overtaken
    /\ moves \in 0 .. MaxMoves
    /\ crashes \in 0 .. MaxCrashes

Init ==
    /\ conv = [status |-> "none", assigned |-> FALSE, bot |-> FALSE]
    /\ \E f \in Flow :
        /\ typebot \in [enabled : BOOLEAN, flow : {f}]
        /\ session = [m \in Message |-> [status |-> "none", flow |-> f]]
        /\ run = [m \in Message |->
                    [phase |-> "none", engine |-> "none", flow |-> f, turn |-> NoMessage,
                     view |-> "none", reason |-> "none", at |-> 0]]
    /\ ai = ~typebot.enabled
    /\ connected = TRUE
    /\ turn = [m \in Message |-> [status |-> "none", session |-> NoMessage]]
    /\ order = <<>>
    /\ lock = NoMessage
    /\ posts = [m \in Message |-> 0]
    /\ outgoing = <<>>
    /\ overtaken = {}
    /\ revived = {}
    /\ moves = 0
    /\ crashes = 0

-----------------------------------------------------------------------------
(* Helpers. *)

eligible == conv.bot /\ ~conv.assigned /\ conv.status = "new"

configured_engine == IF typebot.enabled THEN "typebot" ELSE IF ai THEN "native_ai" ELSE "none"

\* What end_bot_sessions and end_channel_sessions leave of the sessions.
Ended == [s \in Message |-> IF session[s].status = "active"
                            THEN [session[s] EXCEPT !.status = "ended"] ELSE session[s]]

\* No transaction holds the conversation over its other steps.
ConversationFree == \A m \in Message : run[m].phase # "locked"

Stored == {order[i] : i \in DOMAIN order}
Arrived == {m \in Message : run[m].phase # "none"}

\* OpenTurns as a bug would have it: what a dead run claimed is forgotten.
QueuedTurns == {m \in Stored : turn[m].status = "queued"}

\* The turns a run has to deal with: queued, or left processing by a dead run.
OpenTurns == {m \in Stored : turn[m].status \in {"queued", "processing"}}
Before(m, n) == \E i, j \in DOMAIN order : i < j /\ order[i] = m /\ order[j] = n

\* IsNext as a bug would have it: no ORDER BY.
IsAnyOpen(t) == t \in OpenTurns

\* The oldest of them is next.
IsNext(t) == t \in OpenTurns /\ \A u \in OpenTurns \ {t} : Before(t, u)

\* _context: may the bot act here now?
Context == eligible /\ connected /\ typebot.enabled

\* Does turn t still belong to the session and the flow it was made for?
SessionCurrent(t) ==
    /\ session[turn[t].session].status = "active"
    /\ session[turn[t].session].flow = typebot.flow

Goes(m, phase) == run' = [run EXCEPT ![m].phase = phase]

InFlight ==
    {<<"typebot", run[m].turn>> : m \in {k \in Message : run[k].phase \in {"picked", "calling", "asked"}}}
    \cup {<<"native_ai", m>> : m \in {k \in Message : run[k].phase \in {"ai", "llm"}}}

\* The bot is switched on again: replies overtaken before may pass the check.
BotBecomes(on) == revived' = IF on /\ ~conv.bot THEN revived \cup overtaken ELSE revived

Reply(engine, m, at) == Append(outgoing, [engine |-> engine, msg |-> m, at |-> at])

-----------------------------------------------------------------------------
(* A message comes in.  Its transaction begins (created_at is that instant), *)
(* locks thread and conversation, reads the configuration and commits.       *)

Begin(m) ==
    /\ m = Cardinality(Arrived) + 1
    /\ Goes(m, "begun")
    /\ UNCHANGED <<convVars, botVars, historyVars, moves, crashes>>

LockConversation(m) ==
    /\ run[m].phase = "begun"
    /\ ConversationFree
    /\ run' = [run EXCEPT ![m] =
                  [run[m] EXCEPT !.phase = "locked", !.engine = configured_engine, !.flow = typebot.flow]]
    /\ UNCHANGED <<convVars, botVars, historyVars, moves, crashes>>

\* A conversation that is new, or closed and thereby reopened, gets the bot
\* the channel has.
Received(m) ==
    LET fresh == conv.status \in {"none", "closed"}
    IN  [status   |-> IF fresh THEN "new" ELSE conv.status,
         assigned |-> conv.assigned /\ ~fresh,
         bot      |-> IF fresh /\ run[m].engine # "none" THEN TRUE ELSE conv.bot]

\* prepare_typebot_turn as a bug would have it: the session of another flow
\* is left as it is.
PrepareBesideOldSession(m, sessions) ==
    LET current == {s \in Message : sessions[s].status = "active" /\ sessions[s].flow = run[m].flow}
        own     == IF current = {} THEN m ELSE CHOOSE s \in current : TRUE
    IN  /\ session' = IF current = {} THEN [sessions EXCEPT ![m] = [status |-> "active", flow |-> run[m].flow]]
                                      ELSE sessions
        /\ turn' = [turn EXCEPT ![m] = [status |-> "queued", session |-> own]]

\* prepare_typebot_turn: the active session if it is of this flow, else a new
\* one in its place, and a queued turn.
PrepareTurn(m, sessions) ==
    LET active == {s \in Message : sessions[s].status = "active"}
        kept   == {s \in active : sessions[s].flow = run[m].flow}
    IN  IF kept # {}
        THEN /\ session' = sessions
             /\ turn' = [turn EXCEPT ![m] = [status |-> "queued", session |-> CHOOSE s \in kept : TRUE]]
        ELSE /\ session' = [s \in Message |->
                    IF s = m THEN [status |-> "active", flow |-> run[m].flow]
                    ELSE IF s \in active THEN [sessions[s] EXCEPT !.status = "ended"] ELSE sessions[s]]
             /\ turn' = [turn EXCEPT ![m] = [status |-> "queued", session |-> m]]

\* The message, the conversation, session and turn are committed together; if
\* the bot may act, the process goes on to execute_bot_turn.
CommitIncoming(m) ==
    LET received == Received(m)
        acts     == received.bot /\ ~received.assigned /\ received.status = "new"
        sessions == IF conv.status = "closed" THEN Ended ELSE session
    IN  /\ run[m].phase = "locked"
        /\ conv' = received
        /\ BotBecomes(received.bot)
        /\ order' = Append(order, m)
        /\ IF acts /\ connected /\ run[m].engine = "typebot"
           THEN PrepareTurn(m, sessions)
           ELSE session' = sessions /\ UNCHANGED turn
        /\ Goes(m, IF acts THEN "start" ELSE "done")
        /\ UNCHANGED <<typebot, ai, connected, lock, posts, outgoing, overtaken, moves, crashes>>

-----------------------------------------------------------------------------
(* execute_bot_turn.  The engine and the conversation are read at once; the *)
(* native AI keeps this conversation for its first check, and the time its  *)
(* transaction began for created_at.                                        *)

Route(m) ==
    /\ run[m].phase = "start"
    /\ run' = [run EXCEPT ![m] = [run[m] EXCEPT
         !.phase = CASE configured_engine = "typebot" -> "waiting"
                     [] configured_engine = "native_ai" -> "ai"
                     [] OTHER -> "done",
         !.view = IF eligible THEN "ok" ELSE "gone",
         !.at = Cardinality(Arrived)]]
    /\ UNCHANGED <<convVars, botVars, historyVars, moves, crashes>>

\* TakeTurnLock as a bug would have it: the answer of the lock is not looked at.
EnterUnlocked(m) ==
    /\ run[m].phase = "waiting"
    /\ lock' = m
    /\ Goes(m, "loop")
    /\ UNCHANGED <<convVars, session, turn, posts, outgoing, historyVars, moves, crashes>>

\* _conversation_turn_lock: polled until it is free.
TakeTurnLock(m) ==
    /\ run[m].phase = "waiting"
    /\ lock = NoMessage
    /\ lock' = m
    /\ Goes(m, "loop")
    /\ UNCHANGED <<convVars, session, turn, posts, outgoing, historyVars, moves, crashes>>

\* _execute_typebot_turn reads the oldest open turn, its session and, without
\* a lock, the context; when no turn is open the lock is released.
PickTurn(m) ==
    /\ run[m].phase = "loop"
    /\ \/ /\ OpenTurns = {}
          /\ Goes(m, "drained")
          /\ lock' = NoMessage
       \/ /\ \E t \in OpenTurns :
               /\ IsNext(t)
               /\ run' = [run EXCEPT ![m] = [run[m] EXCEPT
                    !.phase = "picked",
                    !.turn = t,
                    !.view = IF ~Context THEN "gone" ELSE IF SessionCurrent(t) THEN "ok" ELSE "stale"]]
          /\ UNCHANGED lock
    /\ UNCHANGED <<convVars, session, turn, posts, outgoing, historyVars, moves, crashes>>

\* Discard as a bug would have it: a status ck_bot_turn_status does not know.
DiscardAsEnded(m) ==
    /\ run[m].phase = "picked"
    /\ run[m].view # "ok"
    /\ turn' = [turn EXCEPT ![run[m].turn].status = "ended"]
    /\ session' = IF run[m].view = "gone" THEN Ended ELSE session
    /\ Goes(m, "loop")
    /\ UNCHANGED <<convVars, lock, posts, outgoing, historyVars, moves, crashes>>

\* The turn is discarded; where the bot may not act here any more, the
\* sessions active by now end with it.
Discard(m) ==
    /\ run[m].phase = "picked"
    /\ run[m].view # "ok"
    /\ turn' = [turn EXCEPT ![run[m].turn].status = "discarded"]
    /\ session' = IF run[m].view = "gone" THEN Ended ELSE session
    /\ Goes(m, "loop")
    /\ UNCHANGED <<convVars, lock, posts, outgoing, historyVars, moves, crashes>>

\* ClaimTurn as a bug would have it: a turn left in processing is sent again.
ClaimAgain(m) ==
    /\ run[m].phase = "picked"
    /\ run[m].view = "ok"
    /\ run' = [run EXCEPT ![m] = [run[m] EXCEPT
         !.phase = "calling",
         !.reason = CASE KindOf[run[m].turn] = "media" -> "unsupported"
                      [] KindOf[run[m].turn] = "person" -> "handoff"
                      [] OTHER -> "none"]]
    /\ turn' = [turn EXCEPT ![run[m].turn].status = "processing"]
    /\ UNCHANGED <<convVars, session, lock, posts, outgoing, historyVars, moves, crashes>>

\* The claim is committed before the POST.  A turn found in processing was
\* claimed by a run that died, perhaps after its POST, and is handed off.
ClaimTurn(m) ==
    /\ run[m].phase = "picked"
    /\ run[m].view = "ok"
    /\ run' = [run EXCEPT ![m] = [run[m] EXCEPT
         !.phase = "calling",
         !.reason = CASE KindOf[run[m].turn] = "media" -> "unsupported"
                      [] KindOf[run[m].turn] # "media" /\ turn[run[m].turn].status = "processing" -> "unavailable"
                      [] KindOf[run[m].turn] = "person" /\ turn[run[m].turn].status = "queued" -> "handoff"
                      [] OTHER -> "none"]]
    /\ turn' = [turn EXCEPT ![run[m].turn].status = "processing"]
    /\ UNCHANGED <<convVars, session, lock, posts, outgoing, historyVars, moves, crashes>>

\* start or continue_chat.
PostTurn(m) ==
    /\ run[m].phase = "calling"
    /\ run[m].reason = "none"
    /\ posts' = [posts EXCEPT ![run[m].turn] = @ + 1]
    /\ Goes(m, "asked")
    /\ UNCHANGED <<convVars, session, turn, lock, outgoing, historyVars, moves, crashes>>

-----------------------------------------------------------------------------
(* The answer, under the locks of channel and conversation. *)

\* The handoff switches the bot off and ends the session, as failed when
\* Typebot could not be reached; a flow that finished only ends the session.
StoreAnswer(m, reason, says, finished) ==
    LET t == run[m].turn
    IN  /\ conv' = IF reason = "none" THEN conv ELSE [conv EXCEPT !.bot = FALSE]
        /\ session' = IF reason = "none" /\ ~finished THEN session
                      ELSE [session EXCEPT ![turn[t].session].status =
                              IF reason = "unavailable" THEN "failed" ELSE "ended"]
        /\ turn' = [turn EXCEPT ![t].status = IF reason = "unavailable" THEN "failed" ELSE "completed"]
        /\ outgoing' = IF says THEN Reply("typebot", t, Cardinality(Arrived)) ELSE outgoing

\* The second look at the context finds the bot or its session gone.
DiscardAnswer(m) ==
    /\ turn' = [turn EXCEPT ![run[m].turn].status = "discarded"]
    /\ session' = IF ~Context THEN Ended ELSE session
    /\ UNCHANGED <<conv, outgoing>>

\* FinishTurn as a bug would have it: the second look is at the context only.
FinishUnlessGone(m) ==
    /\ ConversationFree
    /\ \/ /\ run[m].phase = "asked"
          /\ \/ ~Context /\ DiscardAnswer(m)
             \/ Context /\ \E says, finished \in BOOLEAN : StoreAnswer(m, "none", says, finished)
             \/ Context /\ StoreAnswer(m, "unavailable", FALSE, FALSE)
       \/ /\ run[m].phase = "calling"
          /\ run[m].reason # "none"
          /\ \/ ~Context /\ DiscardAnswer(m)
             \/ Context /\ StoreAnswer(m, run[m].reason, run[m].reason = "handoff", FALSE)
    /\ run' = [run EXCEPT ![m] = [run[m] EXCEPT !.phase = "loop", !.turn = NoMessage, !.reason = "none"]]
    /\ UNCHANGED <<typebot, ai, connected, lock, posts, historyVars, moves, crashes>>

\* Typebot answers, with or without text, or fails; or nobody was asked.
FinishTurn(m) ==
    LET current == Context /\ SessionCurrent(run[m].turn)
    IN  /\ ConversationFree
        /\ \/ /\ run[m].phase = "asked"
              /\ \/ ~current /\ DiscardAnswer(m)
                 \/ current /\ \E says, finished \in BOOLEAN : StoreAnswer(m, "none", says, finished)
                 \/ current /\ StoreAnswer(m, "unavailable", FALSE, FALSE)
           \/ /\ run[m].phase = "calling"
              /\ run[m].reason # "none"
              /\ \/ ~current /\ DiscardAnswer(m)
                 \/ current /\ StoreAnswer(m, run[m].reason, run[m].reason = "handoff", FALSE)
        /\ run' = [run EXCEPT ![m] = [run[m] EXCEPT !.phase = "loop", !.turn = NoMessage, !.reason = "none"]]
        /\ UNCHANGED <<typebot, ai, connected, lock, posts, historyVars, moves, crashes>>

-----------------------------------------------------------------------------
(* execute_ai_turn. *)

\* By created_at, the last message of the conversation is a reply.
LastIsReply == \E i \in DOMAIN outgoing : \A m \in Stored : m <= outgoing[i].at

\* The model is asked, unless the bot may not act, a reply is the last message
\* or the last message settles the matter.
AskModel(m) ==
    /\ run[m].phase = "ai"
    /\ run' = IF run[m].view = "ok" /\ connected /\ ai /\ ~LastIsReply
              THEN [run EXCEPT ![m] = [run[m] EXCEPT
                      !.phase = "llm",
                      !.reason = IF \E k \in Stored : KindOf[k] = "person" /\ \A l \in Stored : l <= k
                                 THEN "handoff" ELSE "none"]]
              ELSE [run EXCEPT ![m].phase = "done"]
    /\ UNCHANGED <<convVars, botVars, historyVars, moves, crashes>>

\* The answer is kept if the bot may still act; the model may hand off, too.
KeepAnswer(m, handoff) ==
    /\ eligible /\ connected /\ ai /\ ~typebot.enabled
    /\ conv' = IF handoff THEN [conv EXCEPT !.bot = FALSE] ELSE conv
    /\ outgoing' = Reply("native_ai", m, run[m].at)

AnswerModel(m) ==
    /\ run[m].phase = "llm"
    /\ ConversationFree
    /\ \/ KeepAnswer(m, TRUE)
       \/ run[m].reason = "none" /\ KeepAnswer(m, FALSE)
       \/ /\ run[m].reason = "none" \/ ~(eligible /\ connected /\ ai /\ ~typebot.enabled)
          /\ UNCHANGED <<conv, outgoing>>
    /\ Goes(m, "done")
    /\ UNCHANGED <<typebot, ai, connected, session, turn, lock, posts, historyVars, moves, crashes>>

-----------------------------------------------------------------------------
(* A process dies: its transactions are rolled back, its advisory lock is   *)
(* released.                                                                *)

\* The lock as a bug would have it: held by a pooled connection, not by a
\* transaction.
CrashHoldingLock(m) ==
    /\ run[m].phase \in {"start", "waiting", "loop", "picked", "calling", "asked", "ai", "llm"}
    /\ crashes < MaxCrashes
    /\ crashes' = crashes + 1
    /\ Goes(m, "dead")
    /\ UNCHANGED <<convVars, botVars, historyVars, moves>>

Crash(m) ==
    /\ run[m].phase \in {"start", "waiting", "loop", "picked", "calling", "asked", "ai", "llm"}
    /\ crashes < MaxCrashes
    /\ crashes' = crashes + 1
    /\ Goes(m, "dead")
    /\ lock' = IF lock = m THEN NoMessage ELSE lock
    /\ UNCHANGED <<convVars, session, turn, posts, outgoing, historyVars, moves>>

-----------------------------------------------------------------------------
(* People and the channel. *)

Move == moves < MaxMoves /\ moves' = moves + 1

OnConversation ==
    /\ Move
    /\ ConversationFree
    /\ conv.status # "none"
    /\ UNCHANGED <<typebot, ai, connected, turn, lock, posts, outgoing, order, run, crashes>>

\* A person takes the conversation, whatever its state.
assign_conversation ==
    /\ OnConversation
    /\ conv' = [status |-> "open", assigned |-> TRUE, bot |-> FALSE]
    /\ session' = Ended
    /\ overtaken' = overtaken \cup InFlight
    /\ UNCHANGED revived

\* An administrator gives it back to the queue; also users/router.py when the
\* assignee loses the channel.
release_conversation ==
    /\ OnConversation
    /\ conv.status = "open"
    /\ conv' = [conv EXCEPT !.status = "new", !.assigned = FALSE]
    /\ UNCHANGED <<session, overtaken, revived>>

close_conversation ==
    /\ OnConversation
    /\ conv.status = "open"
    /\ conv.assigned
    /\ conv' = [conv EXCEPT !.status = "closed"]
    /\ session' = Ended
    /\ UNCHANGED <<overtaken, revived>>

toggle_conversation_bot ==
    /\ OnConversation
    /\ \E on \in BOOLEAN :
        /\ conv' = [conv EXCEPT !.bot = on]
        /\ session' = IF ~on \/ ~conv.bot THEN Ended ELSE session
        /\ BotBecomes(on)
    /\ UNCHANGED overtaken

OnChannel ==
    /\ Move
    /\ UNCHANGED <<conv, turn, lock, posts, outgoing, historyVars, run, crashes>>

\* Either engine is switched on only while the other is off.
write_typebot_config ==
    /\ OnChannel
    /\ \E enabled \in BOOLEAN, flow \in Flow :
        /\ enabled => ~ai
        /\ typebot' = [enabled |-> enabled, flow |-> flow]
        /\ session' = IF typebot' = typebot THEN session ELSE Ended
    /\ UNCHANGED <<ai, connected>>

update_ai_config ==
    /\ OnChannel
    /\ \/ ai /\ ai' = FALSE
       \/ ~ai /\ ~typebot.enabled /\ ai' = TRUE
    /\ UNCHANGED <<typebot, connected, session>>

ChannelFlips ==
    /\ OnChannel
    /\ connected' = ~connected
    /\ UNCHANGED <<typebot, ai, session>>

-----------------------------------------------------------------------------
Incoming(m) == Begin(m) \/ LockConversation(m) \/ CommitIncoming(m)

Typebot(m) ==
    \/ TakeTurnLock(m)
    \/ PickTurn(m)
    \/ Discard(m)
    \/ ClaimTurn(m)
    \/ PostTurn(m)
    \/ FinishTurn(m)

NativeAi(m) == AskModel(m) \/ AnswerModel(m)

People ==
    \/ assign_conversation
    \/ release_conversation
    \/ close_conversation
    \/ toggle_conversation_bot
    \/ write_typebot_config
    \/ update_ai_config

Next ==
    \/ \E m \in Message : Incoming(m) \/ Route(m) \/ Typebot(m) \/ NativeAi(m) \/ Crash(m)
    \/ People
    \/ ChannelFlips

Spec == Init /\ [][Next]_vars

-----------------------------------------------------------------------------
(* What the bots must not do. *)

\* A turn is posted to Typebot at most once, though runs die and others find
\* what they left.
PostedOnce == \A m \in Message : posts[m] <= 1

\* A conversation has at most one active session: uq_bot_session_active never
\* makes the transaction of an incoming message fail.
OneActiveSession ==
    \A s, u \in Message : session[s].status = "active" /\ session[u].status = "active" => s = u

\* A person who takes the conversation over silences what is in flight: no
\* reply of a Typebot turn that was being executed then is stored, and none of
\* the native AI unless the bot has been switched on again since.
TakeoverSilences ==
    \A i \in DOMAIN outgoing :
        <<outgoing[i].engine, outgoing[i].msg>> \in overtaken =>
            outgoing[i].engine = "native_ai" /\ <<outgoing[i].engine, outgoing[i].msg>> \in revived

\* Typebot's replies stand in the order of the messages they answer.
RepliesInOrder ==
    \A i, j \in DOMAIN outgoing :
        i < j /\ outgoing[i].engine = "typebot" /\ outgoing[j].engine = "typebot" =>
            Before(outgoing[i].msg, outgoing[j].msg)

\* A run that got the lock and ended by itself leaves no open turn for its
\* message or an earlier one: only a run that died, or that found another
\* engine, leaves turns to the next message.
DrainsItsTurns ==
    \A m, t \in Message :
        run[m].phase = "drained" /\ (t = m \/ Before(t, m)) => turn[t].status \notin {"queued", "processing"}

\* The turns are the queue that TurnQueue describes: whoever executes them, and
\* whoever dies, the oldest is settled first, once, and never opens again, and
\* only what was put to Typebot, or asks for a person, is answered.
Answers ==
    [m \in Message |->
        Cardinality({i \in DOMAIN outgoing : outgoing[i].engine = "typebot" /\ outgoing[i].msg = m})]
OfKind(kind) == {m \in Message : KindOf[m] = kind}
Queue == INSTANCE TurnQueue WITH
    open <- OpenTurns, answers <- Answers, ForTypebot <- OfKind("text"), ForPerson <- OfKind("person")
ImplementsQueue == Queue!Spec

-----------------------------------------------------------------------------
(* Fairness: a process goes on while nothing holds it up.  Typebot and the  *)
(* model answer or time out after 30 s; the advisory lock is polled every   *)
(* 50 ms and a conversation is locked for the length of a transaction, so   *)
(* that with finitely many messages both stay free in the end.              *)

RunStep(m) == LockConversation(m) \/ CommitIncoming(m) \/ Route(m) \/ Typebot(m) \/ NativeAi(m)

Fairness == \A m \in Message : WF_vars(RunStep(m))

FairSpec == Spec /\ Fairness

\* Every run ends, and with it the wait of the runs behind it.
RunEnds == \A m \in Message : run[m].phase = "start" ~> run[m].phase \in {"drained", "done", "dead"}
=============================================================================
