------------------------------- MODULE History -------------------------------
(***************************************************************************)
(* How messages whose webhook was lost come back, for the threads of one   *)
(* channel: providers/history_reconcile.py asks the gateway for what came  *)
(* before the newest stored message of a thread, and the gateway answers   *)
(* with a HistorySync webhook that _accept_history_sync_event of           *)
(* providers/webhook_router.py takes apart.                                *)
(*                                                                         *)
(* Every API process runs the loop; one lock in Redis, which expires,      *)
(* keeps it to one process, and an administrator's request does without.   *)
(* A thread is asked for once per cooldown.  A batch is known by the hash  *)
(* of its payload; its event is committed as processed before its messages *)
(* are accepted, one transaction each.                                     *)
(*                                                                         *)
(* Messages are numbered in the order of their time.  An accepted message  *)
(* has a row in the inbox, and is stored some time later (ProviderInbox).  *)
(* Not here: ages (all messages lie within the two days a scan looks at    *)
(* and the thirty of history_sync_max_age_days), media, heartbeat, stats.  *)
(***************************************************************************)
EXTENDS FiniteSetsExt, Integers

CONSTANTS Message,            \* numbers
          ThreadOf,           \* the conversation of each message
          Worker,             \* API processes handling a webhook
          Loop, Manual,       \* scans: of the loops, and of administrators
          Nobody, Nothing,    \* the holder of a free lock; the message of nobody
          RowLimit,           \* rows a scan reads
          ThreadLimit,        \* threads it asks for
          RequestCount,       \* messages it asks for
          MaxFaults           \* bound on losses, errors and deaths

ASSUME HistoryAssumption ==
    /\ Message \subseteq Nat /\ Nothing \notin Message
    /\ Loop \cap Manual = {} /\ Nobody \notin Loop
    /\ {RowLimit, ThreadLimit, RequestCount, MaxFaults} \subseteq Nat

VARIABLES sent,       \* the messages there are
          webhooks,   \* messages whose webhook is on its way
          event,      \* messages with a row in provider_events
          stored,     \* messages with a row in messages
          batches,    \* HistorySync webhooks on their way
          imported,   \* batches with a row in provider_events, processed
          importer,   \* the HistorySync webhooks being handled
          scan,       \* the scans
          lock,       \* fluvius:history-reconcile-lock: who set it
          cooling,    \* threads asked for within the cooldown
          faults,     \* how many faults there were
          torn        \* history: messages of batches whose handler came to grief

vars == <<sent, webhooks, event, stored, batches, imported, importer, scan, lock, cooling, faults, torn>>
gateway == <<sent, webhooks>>
imports == <<batches, imported, importer, torn>>
scans == <<scan, lock, cooling>>

Scanner == Loop \cup Manual
Thread == {ThreadOf[m] : m \in Message}
Batch == SUBSET Message

ImporterState == [phase : {"idle", "found", "importing"}, batch : Batch, left : Batch]
NoImport == [phase |-> "idle", batch |-> {}, left |-> {}]

\* The candidates still to be asked for, by their anchors, and the one a
\* request is out for.
ScanState == [active : BOOLEAN, todo : Batch, asking : Message \cup {Nothing}]
NoScan == [active |-> FALSE, todo |-> {}, asking |-> Nothing]

TypeOK ==
    /\ sent \subseteq Message /\ webhooks \subseteq sent
    /\ event \subseteq sent /\ stored \subseteq event
    /\ batches \subseteq SUBSET sent /\ imported \subseteq SUBSET sent
    /\ importer \in [Worker -> ImporterState]
    /\ scan \in [Scanner -> ScanState]
    /\ lock \in Loop \cup {Nobody}
    /\ cooling \subseteq Thread
    /\ faults \in 0..MaxFaults
    /\ torn \subseteq sent

Init ==
    /\ sent = {} /\ webhooks = {} /\ event = {} /\ stored = {}
    /\ batches = {} /\ imported = {}
    /\ importer = [w \in Worker |-> NoImport]
    /\ scan = [s \in Scanner |-> NoScan]
    /\ lock = Nobody
    /\ cooling = {}
    /\ faults = 0
    /\ torn = {}

Fault == faults < MaxFaults /\ faults' = faults + 1

-----------------------------------------------------------------------------
(* Messages as they come. *)

\* Somebody writes a message; the gateway sends its webhook.
Send(m) ==
    /\ m \notin sent
    /\ \A n \in Message : n < m => n \in sent
    /\ sent' = sent \cup {m}
    /\ webhooks' = webhooks \cup {m}
    /\ UNCHANGED <<event, stored, faults, imports, scans>>

LoseWebhook(m) ==
    /\ m \in webhooks
    /\ Fault
    /\ webhooks' = webhooks \ {m}
    /\ UNCHANGED <<sent, event, stored, imports, scans>>

\* The Message webhook is accepted; the event's id is the message's, and one
\* that is there already makes it a duplicate.
AcceptMessage(m) ==
    /\ m \in webhooks
    /\ webhooks' = webhooks \ {m}
    /\ event' = event \cup {m}
    /\ UNCHANGED <<sent, stored, faults, imports, scans>>

\* The inbox stores an accepted message.
Store(m) ==
    /\ m \in event \ stored
    /\ stored' = stored \cup {m}
    /\ UNCHANGED <<gateway, event, faults, imports, scans>>

-----------------------------------------------------------------------------
(* The HistorySync webhook. *)

\* Unless its event is there, the payload is taken apart.
FindBatch(w, b) ==
    /\ importer[w].phase = "idle"
    /\ b \in batches
    /\ batches' = batches \ {b}
    /\ importer' = IF b \in imported THEN importer
                   ELSE [importer EXCEPT ![w] = [phase |-> "found", batch |-> b, left |-> b]]
    /\ UNCHANGED <<gateway, event, stored, imported, faults, torn, scans>>

\* Its event is committed, as processed, or the unique constraint refuses it
\* because a handler of the same batch was faster.
CommitBatch(w) ==
    LET b == importer[w].batch
    IN  /\ importer[w].phase = "found"
        /\ imported' = imported \cup {b}
        /\ importer' = [importer EXCEPT ![w] = IF b \in imported THEN NoImport
                                             ELSE [importer[w] EXCEPT !.phase = "importing"]]
        /\ UNCHANGED <<gateway, event, stored, batches, faults, torn, scans>>

\* The handler goes on with what is left; the payload lists the newest first.
GoesOn(w, left) ==
    importer' = [importer EXCEPT ![w] = IF left = {} THEN NoImport ELSE [importer[w] EXCEPT !.left = left]]

\* Mutant: the handler stops at the first message it knows.
AcceptUntilKnown(w) ==
    LET m == Max(importer[w].left)
    IN  /\ importer[w].phase = "importing"
        /\ event' = event \cup {m}
        /\ GoesOn(w, IF m \in event THEN {} ELSE importer[w].left \ {m})
        /\ UNCHANGED <<gateway, stored, batches, imported, faults, torn, scans>>

\* Mutant: the message is stored past the inbox.
AcceptPastInbox(w) ==
    LET m == Max(importer[w].left)
    IN  /\ importer[w].phase = "importing"
        /\ stored' = stored \cup {m}
        /\ GoesOn(w, importer[w].left \ {m})
        /\ UNCHANGED <<gateway, event, batches, imported, faults, torn, scans>>

\* One of its messages is accepted, or is a duplicate.
AcceptOld(w) ==
    LET m == Max(importer[w].left)
    IN  /\ importer[w].phase = "importing"
        /\ event' = event \cup {m}
        /\ GoesOn(w, importer[w].left \ {m})
        /\ UNCHANGED <<gateway, stored, batches, imported, faults, torn, scans>>

\* The process dies, or storing the media of a message fails and the webhook is
\* answered with an error: the gateway repeats it, or does not.
ImportFails(w) ==
    /\ importer[w].phase # "idle"
    /\ Fault
    /\ torn' = IF importer[w].phase = "importing" THEN torn \cup importer[w].left ELSE torn
    /\ batches' \in {batches, batches \cup {importer[w].batch}}
    /\ importer' = [importer EXCEPT ![w] = NoImport]
    /\ UNCHANGED <<gateway, event, stored, imported, scans>>

\* The gateway repeats a batch that was imported.
Repeat(b) ==
    /\ b \in imported \ batches
    /\ Fault
    /\ batches' = batches \cup {b}
    /\ UNCHANGED <<gateway, event, stored, imported, importer, torn, scans>>

LoseBatch(b) ==
    /\ b \in batches
    /\ Fault
    /\ batches' = batches \ {b}
    /\ UNCHANGED <<gateway, event, stored, imported, importer, torn, scans>>

HandleBatch(w) == CommitBatch(w) \/ AcceptOld(w)

-----------------------------------------------------------------------------
(* The scans. *)

\* The newest rows a scan reads, and of them the newest of each thread.
RowsRead == {m \in stored : Cardinality({n \in stored : n > m}) < RowLimit}
Anchors == {m \in RowsRead : \A n \in RowsRead : ThreadOf[n] = ThreadOf[m] => n <= m}
Candidates == {m \in Anchors : Cardinality({n \in Anchors : n > m}) < ThreadLimit}

\* What the gateway returns: the messages of the thread before the anchor.
Before(a) ==
    LET older == {m \in sent : ThreadOf[m] = ThreadOf[a] /\ m < a}
    IN  {m \in older : Cardinality({n \in older : n > m}) < RequestCount}

\* A loop sets the lock unless it is set; an administrator needs none.
BeginScan(s) ==
    /\ ~scan[s].active
    /\ s \in Loop => lock = Nobody
    /\ lock' = IF s \in Loop THEN s ELSE lock
    /\ scan' = [scan EXCEPT ![s] = [active |-> TRUE, todo |-> Candidates, asking |-> Nothing]]
    /\ UNCHANGED <<gateway, event, stored, cooling, faults, imports>>

Following(s) == Max(scan[s].todo)
AsksFor(s, a) == scan' = [scan EXCEPT ![s] = [active |-> TRUE, todo |-> scan[s].todo \ {a}, asking |-> a]]
AtThread(s) == scan[s].active /\ scan[s].asking = Nothing /\ scan[s].todo # {}

\* Mutant: the cooldown is looked at and not set.
AskUncooled(s) ==
    /\ AtThread(s)
    /\ ThreadOf[Following(s)] \notin cooling
    /\ AsksFor(s, Following(s))
    /\ UNCHANGED <<gateway, event, stored, lock, cooling, faults, imports>>

\* The cooldown of the next thread is set, and its request goes out.
Ask(s) ==
    /\ AtThread(s)
    /\ ThreadOf[Following(s)] \notin cooling
    /\ cooling' = cooling \cup {ThreadOf[Following(s)]}
    /\ AsksFor(s, Following(s))
    /\ UNCHANGED <<gateway, event, stored, lock, faults, imports>>

\* It is set already, or Redis does not answer.
PassThread(s) ==
    /\ AtThread(s)
    /\ IF ThreadOf[Following(s)] \in cooling THEN UNCHANGED faults ELSE Fault
    /\ scan' = [scan EXCEPT ![s].todo = @ \ {Following(s)}]
    /\ UNCHANGED <<gateway, event, stored, lock, cooling, imports>>

\* The batch comes as a webhook; without older messages there is none.
Requested(s) == batches \cup ({Before(scan[s].asking)} \ {{}})

\* The gateway takes the request.
Answered(s) ==
    /\ scan[s].asking # Nothing
    /\ batches' = Requested(s)
    /\ scan' = [scan EXCEPT ![s].asking = Nothing]
    /\ UNCHANGED <<gateway, event, stored, imported, importer, torn, lock, cooling, faults>>

\* The request fails, or only its answer does: the thread stays cooling.
NotAnswered(s) ==
    /\ scan[s].asking # Nothing
    /\ Fault
    /\ batches' \in {batches, Requested(s)}
    /\ scan' = [scan EXCEPT ![s].asking = Nothing]
    /\ UNCHANGED <<gateway, event, stored, imported, importer, torn, lock, cooling>>

\* A loop deletes the lock, be it its own or by now another's.
EndScan(s) ==
    /\ scan[s].active /\ scan[s].todo = {} /\ scan[s].asking = Nothing
    /\ lock' = IF s \in Loop THEN Nobody ELSE lock
    /\ scan' = [scan EXCEPT ![s] = NoScan]
    /\ UNCHANGED <<gateway, event, stored, cooling, faults, imports>>

\* The channel is not connected or has no credential, an exception ends the
\* scan (the lock is deleted), or the process dies (it is not).
ScanFails(s) ==
    /\ scan[s].active
    /\ Fault
    /\ lock' \in {lock, IF s \in Loop THEN Nobody ELSE lock}
    /\ scan' = [scan EXCEPT ![s] = NoScan]
    /\ UNCHANGED <<gateway, event, stored, cooling, imports>>

\* Mutant: the lock is set without a TTL.
LockStays == FALSE /\ UNCHANGED vars

\* Four minutes have passed, whether or not the scan has ended.
LockExpires ==
    /\ lock # Nobody
    /\ lock' = Nobody
    /\ UNCHANGED <<gateway, event, stored, scan, cooling, faults, imports>>

\* Thirty minutes have passed; a request is given up long before.
CooldownExpires(t) ==
    /\ t \in cooling
    /\ \A s \in Scanner : scan[s].asking # Nothing => ThreadOf[scan[s].asking] # t
    /\ cooling' = cooling \ {t}
    /\ UNCHANGED <<gateway, event, stored, scan, lock, faults, imports>>

ScanStep(s) == Ask(s) \/ PassThread(s) \/ Answered(s) \/ EndScan(s)

-----------------------------------------------------------------------------
Next ==
    \/ \E m \in Message : Send(m) \/ LoseWebhook(m) \/ AcceptMessage(m) \/ Store(m)
    \/ \E w \in Worker : HandleBatch(w) \/ ImportFails(w) \/ \E b \in batches : FindBatch(w, b)
    \/ \E b \in imported \cup batches : Repeat(b) \/ LoseBatch(b)
    \/ \E s \in Scanner : BeginScan(s) \/ ScanStep(s) \/ NotAnswered(s) \/ ScanFails(s)
    \/ LockExpires
    \/ \E t \in Thread : CooldownExpires(t)

Spec == Init /\ [][Next]_vars

\* Processes go on; some loop scans again after its pause; keys expire; the
\* inbox stores what was accepted.  MaxFaults being finite, the gateway answers
\* in the end.  Nobody has to write, and no administrator to ask.
Fairness ==
    /\ WF_vars(\E m \in Message : Store(m))
    /\ WF_vars(\E w \in Worker : HandleBatch(w))
    /\ \A a \in Message : WF_vars(\E w \in Worker : FindBatch(w, Before(a)))
    /\ WF_vars(\E s \in Loop : BeginScan(s))
    /\ \A s \in Scanner : WF_vars(ScanStep(s))
    /\ WF_vars(LockExpires)
    /\ \A t \in Thread : WF_vars(CooldownExpires(t))

FairSpec == Spec /\ Fairness

-----------------------------------------------------------------------------
(* What the history is for. *)

\* A batch that counts as processed has left every one of its messages in the
\* inbox, or is being imported, or its handler came to grief.
ImportedOrTorn ==
    \A b \in imported :
        b \subseteq event \cup torn \cup UNION {importer[w].left : w \in Worker}

\* One request at a time is out for a thread, also when two loops run because
\* a lock expired or was deleted by its former owner, or an administrator asks.
AskedOnce ==
    \A s, u \in Scanner :
        s # u /\ scan[s].asking # Nothing /\ scan[u].asking # Nothing =>
            ThreadOf[scan[s].asking] # ThreadOf[scan[u].asking]

\* The lost messages that the history would bring, because a newer one of their
\* thread is stored and the thread is among those a scan asks for, are accepted
\* in the end, except those whose import came to grief: their batch is then a
\* duplicate for good.
Recoverable == {m \in sent \ (event \cup torn) : \E a \in Candidates : m \in Before(a)}
HistoryHeals == Recoverable # {} ~> Recoverable = {}
=============================================================================
