---------------------------- MODULE ReceiptsProofs ----------------------------
(***************************************************************************)
(* Proofs about Receipts, for any number of messages, receipts, handlers,  *)
(* loops, workers and retries, and any events listing any messages.        *)
(*                                                                         *)
(* Transactions overlap freely and a worker writes its outcome without     *)
(* looking, so an answer is only as good as the claim it goes back to.     *)
(* Until a message is retried one worker at a time is between its claim    *)
(* and its outcome, and it keeps the message without an id; a row with an  *)
(* id has a closed delivery, which nobody claims.  The first retry ends    *)
(* that, but finds nothing to clear; what is left until the second one is  *)
(* that a copy has no timestamp its row has not.                           *)
(***************************************************************************)
EXTENDS Receipts, TLAPS

\* The statuses of a message the provider knows.
Known == {"sent", "delivered", "read"}
Bare(r) == ~r.hasId /\ ~r.deliveredAt /\ ~r.readAt

\* Nobody has retried m, or only once.
Fresh(m) == retries[m] = 0
Young(m) == retries[m] <= 1

\* t is between the claim of m and its outcome; t holds the delivery row of m.
Sends(t, m) == tx[t].about = m /\ tx[t].stage \in {"calling", "applying"}
Locks(t, m) == tx[t].about = m /\ tx[t].stage \in {"applying", "closing"}

\* Only workers close deliveries or apply receipts about a message they sent.
RoleSound(t) ==
    t \notin Worker => /\ tx[t].stage # "closing"
                       /\ tx[t].stage = "applying" => tx[t].about = NoMessage

\* An id goes with a status of its own, timestamps with an id, and an id with a
\* delivery that is over.
RowSound(m) ==
    Fresh(m) => /\ row[m].hasId <=> row[m].status \in Known
                /\ row[m].deliveredAt \/ row[m].readAt => row[m].hasId
                /\ row[m].hasId => delivery[m] = "closed"

\* One transaction holds a delivery row, and one sends a fresh message.
HeldSound(m) ==
    /\ \A t, u \in Tx : Locks(t, m) /\ Locks(u, m) => t = u
    /\ Fresh(m) => \A t, u \in Tx : Sends(t, m) /\ Sends(u, m) => t = u

\* What a transaction's copy of m says about the row it was read from.
SenderSound(t, m) ==
    Sends(t, m) => delivery[m] # "open" /\ ~row[m].hasId /\ Bare(tx[t].copy[m])
RetrierSound(t, m) ==
    tx[t].about = m /\ tx[t].stage = "retrying" => Bare(tx[t].copy[m])
FoundSound(t, m) ==
    \A e \in Event : <<e, m>> \in tx[t].found /\ tx[t].about # m =>
        row[m].hasId /\ tx[t].copy[m].status \in Known
TimesSound(t, m) ==
    /\ tx[t].copy[m].deliveredAt => row[m].deliveredAt
    /\ tx[t].copy[m].readAt => row[m].readAt
CloserSound(t, m) == tx[t].about = m /\ tx[t].stage = "closing" => delivery[m] # "closed"
CopySound(t, m) ==
    /\ CloserSound(t, m)
    /\ Fresh(m) => SenderSound(t, m) /\ RetrierSound(t, m) /\ FoundSound(t, m)
    /\ Young(m) => TimesSound(t, m)

Sound ==
    /\ TypeOK
    /\ \A t \in Tx : RoleSound(t)
    /\ \A m \in Message : RowSound(m) /\ HeldSound(m)
    /\ \A t \in Tx, m \in Message : CopySound(t, m)
IInv == Sound /\ ReceiptLeavesTimestamp

-----------------------------------------------------------------------------
(* The operators on statuses and copies. *)

\* A receipt is applied to a message if the transaction found its row.
LEMMA TargetsAre ==
    ASSUME TypeOK, NEW t \in Tx, NEW m \in Message
    PROVE  \A s : s \in TargetsFor(t, m) <=> \E e \in Event : <<e, m>> \in tx[t].found /\ s = TargetOf[e]
<1> TAKE s
<1>1. tx[t].found \subseteq Event \X Message
  BY DEF TypeOK, TxState
<1>2. ASSUME NEW e \in Event, <<e, m>> \in tx[t].found, s = TargetOf[e]
      PROVE  s \in TargetsFor(t, m)
  <2>1. <<e, m>> \in {q \in tx[t].found : q[2] = m}
    BY <1>2
  <2> QED
    BY <2>1, <1>2 DEF TargetsFor
<1>3. ASSUME s \in TargetsFor(t, m)
      PROVE  \E e \in Event : <<e, m>> \in tx[t].found /\ s = TargetOf[e]
  <2>1. PICK p \in tx[t].found : p[2] = m /\ s = TargetOf[p[1]]
    BY <1>3 DEF TargetsFor
  <2>2. p[1] \in Event /\ p = <<p[1], p[2]>>
    BY <1>1
  <2> QED
    BY <2>1, <2>2
<1> QED
  BY <1>2, <1>3

\* A receipt reports one of two statuses.
LEMMA TargetsTyped ==
    ASSUME TypeOK, NEW t \in Tx, NEW m \in Message
    PROVE  TargetsFor(t, m) \subseteq {"delivered", "read"}
<1>1. \A s : s \in TargetsFor(t, m) => \E e \in Event : <<e, m>> \in tx[t].found /\ s = TargetOf[e]
  BY TargetsAre
<1>2. \A e \in Event : TargetOf[e] \in {"delivered", "read"}
  BY ReceiptsAssumption
<1> QED
  BY <1>1, <1>2

\* The status a transaction ends with is the one it held or a receipt's.
LEMMA AdvancedIs ==
    ASSUME TypeOK, NEW t \in Tx, NEW m \in Message
    PROVE  \/ Advanced(t, m) = IF tx[t].about = m THEN "sent" ELSE tx[t].copy[m].status
           \/ Advanced(t, m) \in TargetsFor(t, m)
<1> DEFINE current == IF tx[t].about = m THEN "sent" ELSE tx[t].copy[m].status
           better == {s \in TargetsFor(t, m) : CanAdvance(current, s)}
           Furthest(s) == \A o \in better : Rank(o) <= Rank(s)
<1>1. Advanced(t, m) = IF better = {} THEN current ELSE CHOOSE s \in better : Furthest(s)
  BY DEF Advanced
<1>2. better \subseteq {"delivered", "read"} /\ better \subseteq TargetsFor(t, m)
  BY TargetsTyped
<1>3. Rank("delivered") = 2 /\ Rank("read") = 3
  BY DEF Rank
<1> HIDE DEF current, better
<1>4. ASSUME better # {} PROVE \E s \in better : Furthest(s)
  <2>1. CASE "read" \in better
    BY <1>2, <1>3, <2>1
  <2>2. CASE "read" \notin better
    <3>1. better = {"delivered"}
      BY <1>2, <1>4, <2>2
    <3> QED
      BY <1>3, <3>1
  <2> QED
    BY <2>1, <2>2
<1>5. better # {} => (CHOOSE s \in better : Furthest(s)) \in better
  BY <1>4
<1> QED
  BY <1>1, <1>2, <1>5 DEF current

\* The columns a commit leaves in a row that its transaction does not set.
LEMMA WrittenIs ==
    ASSUME TypeOK, NEW t \in Tx, NEW m \in Message
    PROVE  /\ Written(t, m) \in Row
           /\ tx[t].about = m => Written(t, m).status \in Known
           /\ tx[t].about # m =>
                 \/ Written(t, m).status = row[m].status
                 \/ TargetsFor(t, m) # {} /\ Written(t, m).status \in {"delivered", "read"}
           /\ row[m].hasId => Written(t, m).hasId
           /\ tx[t].about = m /\ ~tx[t].copy[m].hasId => Written(t, m).hasId
           /\ tx[t].about # m => Written(t, m).hasId = row[m].hasId
           /\ row[m].deliveredAt => Written(t, m).deliveredAt
           /\ row[m].readAt => Written(t, m).readAt
           /\ Written(t, m).deliveredAt => row[m].deliveredAt \/ TargetsFor(t, m) # {}
           /\ Written(t, m).readAt => row[m].readAt \/ TargetsFor(t, m) # {}
<1> DEFINE copy == tx[t].copy[m]
           target == TargetsFor(t, m)
<1>1. row[m] \in Row /\ copy \in Row
  BY DEF TypeOK, TxState
<1>2. target \subseteq {"delivered", "read"}
  BY TargetsTyped
<1>3. \/ Advanced(t, m) = IF tx[t].about = m THEN "sent" ELSE copy.status
      \/ Advanced(t, m) \in target
  BY AdvancedIs
<1>4. Advanced(t, m) \in Status
  BY <1>1, <1>2, <1>3 DEF Row, Status
<1>5. /\ Written(t, m).status = IF tx[t].about = m \/ Advanced(t, m) # copy.status
                                THEN Advanced(t, m) ELSE row[m].status
      /\ Written(t, m).hasId = (row[m].hasId \/ (tx[t].about = m /\ ~copy.hasId))
      /\ Written(t, m).deliveredAt = (row[m].deliveredAt \/ (target # {} /\ ~copy.deliveredAt))
      /\ Written(t, m).readAt = (row[m].readAt \/ ("read" \in target /\ ~copy.readAt))
  BY DEF Written, SetsStatus, SetsDelivered, SetsRead
<1>6. Written(t, m) \in Row
  BY <1>1, <1>4 DEF Written, SetsStatus, SetsDelivered, SetsRead, Row
<1> HIDE DEF copy, target
<1>7. /\ copy.hasId \in BOOLEAN /\ copy.deliveredAt \in BOOLEAN /\ copy.readAt \in BOOLEAN
      /\ row[m].hasId \in BOOLEAN /\ row[m].deliveredAt \in BOOLEAN /\ row[m].readAt \in BOOLEAN
  BY <1>1 DEF Row
<1>8. /\ tx[t].about = m => Written(t, m).status \in Known
      /\ tx[t].about # m =>
            \/ Written(t, m).status = row[m].status
            \/ target # {} /\ Written(t, m).status \in {"delivered", "read"}
  BY <1>2, <1>3, <1>5 DEF Known
<1>9. /\ row[m].hasId => Written(t, m).hasId
      /\ tx[t].about = m /\ ~copy.hasId => Written(t, m).hasId
      /\ tx[t].about # m => Written(t, m).hasId = row[m].hasId
      /\ row[m].deliveredAt => Written(t, m).deliveredAt
      /\ row[m].readAt => Written(t, m).readAt
      /\ Written(t, m).deliveredAt => row[m].deliveredAt \/ target # {}
      /\ Written(t, m).readAt => row[m].readAt \/ target # {}
  BY <1>5, <1>7
<1> QED
  BY <1>6, <1>8, <1>9 DEF copy, target

\* A commit leaves the timestamps of the receipts it applies, also where its
\* copy had them already and the UPDATE does not name them.
LEMMA WrittenLeaves ==
    ASSUME TypeOK, NEW t \in Tx, NEW m \in Message, TimesSound(t, m)
    PROVE  /\ TargetsFor(t, m) # {} => Written(t, m).deliveredAt
           /\ "read" \in TargetsFor(t, m) => Written(t, m).readAt
<1>1. /\ Written(t, m).deliveredAt = (row[m].deliveredAt \/ (TargetsFor(t, m) # {} /\ ~tx[t].copy[m].deliveredAt))
      /\ Written(t, m).readAt = (row[m].readAt \/ ("read" \in TargetsFor(t, m) /\ ~tx[t].copy[m].readAt))
  BY DEF Written, SetsDelivered, SetsRead
<1>2. /\ tx[t].copy[m].deliveredAt \in BOOLEAN /\ tx[t].copy[m].readAt \in BOOLEAN
      /\ row[m].deliveredAt \in BOOLEAN /\ row[m].readAt \in BOOLEAN
  BY DEF TypeOK, TxState, Row
<1> QED
  BY <1>1, <1>2 DEF TimesSound

\* A receipt that a transaction applies to somebody else's message is one it
\* found a row with an id for.
LEMMA TargetsFound ==
    ASSUME Sound, NEW t \in Tx, NEW m \in Message, TargetsFor(t, m) # {}, tx[t].about # m, Fresh(m)
    PROVE  row[m].hasId /\ tx[t].copy[m].status \in Known
<1>1. TypeOK /\ FoundSound(t, m)
  BY DEF Sound, CopySound
<1>2. PICK e \in Event : <<e, m>> \in tx[t].found
  BY <1>1, TargetsAre
<1> QED
  BY <1>1, <1>2 DEF FoundSound

-----------------------------------------------------------------------------
(* Types. *)

\* The states of a transaction that ends, begins to look at events, or begins
\* with a message.
LEMMA BeginTyped ==
    ASSUME TypeOK
    PROVE  /\ Idle \in TxState
           /\ \A events \in SUBSET Event : Looking(events) \in TxState
           /\ \A stage \in Stage, m \in Message : Holding(stage, m) \in TxState
<1>1. Idle \in TxState
  BY DEF Idle, TxState, Unread, Row, Status, Stage
<1>2. ASSUME NEW events \in SUBSET Event PROVE Looking(events) \in TxState
  BY <1>1 DEF Looking, TxState, Stage
<1>3. ASSUME NEW stage \in Stage, NEW m \in Message PROVE Holding(stage, m) \in TxState
  <2> DEFINE copies == [i \in Message |-> IF i = m THEN row[m] ELSE Unread]
  <2>1. copies \in [Message -> Row]
    BY DEF TypeOK, Unread, Row, Status
  <2> HIDE DEF copies
  <2>2. [Idle EXCEPT !.stage = stage, !.about = m, !.copy = copies] \in TxState
    BY <1>1, <2>1 DEF TxState
  <2> QED
    BY <2>2 DEF Holding, copies
<1> QED
  BY <1>1, <1>2, <1>3

\* An event that is resolved.
LEMMA ResolvedIs ==
    ASSUME TypeOK, NEW t \in Tx, NEW e \in Event
    PROVE  Resolved(t, e) \in EventRow /\ Resolved(t, e).processed
BY DEF TypeOK, Resolved, EventRow

\* Looking at an event copies rows that have an id, as they are now, and leaves
\* alone the message the transaction is about.
LEMMA LoadIs ==
    ASSUME TypeOK, NEW t \in Tx, NEW e \in Event, Load(t, e)
    PROVE  /\ tx' \in [Tx -> TxState]
           /\ \A u \in Tx \ {t} : tx'[u] = tx[u]
           /\ tx'[t].stage = tx[t].stage /\ tx'[t].about = tx[t].about
           /\ \A m \in Message :
                 \/ tx'[t].copy[m] = tx[t].copy[m]
                 \/ tx'[t].copy[m] = row[m] /\ row[m].hasId /\ m # tx[t].about
           /\ \A f \in Event, m \in Message :
                 <<f, m>> \in tx'[t].found /\ m # tx[t].about =>
                    \/ \E g \in Event : <<g, m>> \in tx[t].found
                    \/ tx'[t].copy[m] = row[m] /\ row[m].hasId
<1> DEFINE rows == {m \in IdsOf[e] : Matches(t, m)}
           held == {p[2] : p \in tx[t].found} \cup {tx[t].about}
           copies == [m \in Message |-> IF m \in rows \ held THEN row[m] ELSE tx[t].copy[m]]
           todo == tx[t].todo \ {e}
           seen == tx[t].seen \cup {e}
           found == tx[t].found \cup {<<e, m>> : m \in rows}
<1>1. tx' = [tx EXCEPT ![t] = [tx[t] EXCEPT !.todo = todo, !.seen = seen, !.found = found, !.copy = copies]]
  BY DEF Load
<1>2. tx[t] \in TxState /\ tx \in [Tx -> TxState] /\ row \in [Message -> Row]
  BY DEF TypeOK
<1>3. rows \subseteq Message /\ \A m \in rows : row[m].hasId \/ tx[t].about = m
  BY ReceiptsAssumption DEF Matches
<1>4. copies \in [Message -> Row]
  BY <1>2 DEF TxState
<1>5. todo \in SUBSET Event /\ seen \in SUBSET Event /\ found \in SUBSET (Event \X Message)
  BY <1>2, <1>3 DEF TxState
<1>6. \A m \in Message : \/ copies[m] = tx[t].copy[m]
                         \/ copies[m] = row[m] /\ row[m].hasId /\ m # tx[t].about
  BY <1>3
<1>7. ASSUME NEW f \in Event, NEW m \in Message, <<f, m>> \in found, m # tx[t].about
      PROVE  \/ \E g \in Event : <<g, m>> \in tx[t].found
             \/ copies[m] = row[m] /\ row[m].hasId
  <2>1. CASE \E p \in tx[t].found : p[2] = m
    <3>1. PICK p \in tx[t].found : p[2] = m
      BY <2>1
    <3>2. p[1] \in Event /\ p = <<p[1], p[2]>>
      BY <1>2 DEF TxState
    <3> QED
      BY <3>1, <3>2
  <2>2. CASE ~\E p \in tx[t].found : p[2] = m
    <3>1. <<f, m>> \in {<<e, n>> : n \in rows}
      BY <1>7, <2>2
    <3>2. m \in rows
      BY <3>1
    <3>3. m \notin held
      BY <1>7, <2>2
    <3> QED
      BY <1>3, <1>7, <3>2, <3>3
  <2> QED
    BY <2>1, <2>2
<1> HIDE DEF rows, held, copies, todo, seen, found
<1>8. tx'[t] = [tx[t] EXCEPT !.todo = todo, !.seen = seen, !.found = found, !.copy = copies]
  BY <1>1, <1>2
<1>9. tx'[t] \in TxState
  BY <1>2, <1>4, <1>5, <1>8 DEF TxState
<1>10. /\ tx' \in [Tx -> TxState] /\ \A u \in Tx \ {t} : tx'[u] = tx[u]
  BY <1>1, <1>2, <1>8, <1>9
<1>11. /\ tx'[t].stage = tx[t].stage /\ tx'[t].about = tx[t].about
       /\ tx'[t].found = found /\ tx'[t].copy = copies
  BY <1>2, <1>8 DEF TxState
<1> QED
  BY <1>6, <1>7, <1>10, <1>11

\* A late failure takes the id only if the copy had one, and no timestamp.
LEMMA SendFailsIs ==
    ASSUME TypeOK, NEW t \in Tx, NEW m \in Message, SendFails(t, m)
    PROVE  /\ row' \in [Message -> Row]
           /\ \A n \in Message \ {m} : row'[n] = row[n]
           /\ row'[m].status = "failed"
           /\ row'[m].hasId = (row[m].hasId /\ ~tx[t].copy[m].hasId)
           /\ row'[m].deliveredAt = row[m].deliveredAt /\ row'[m].readAt = row[m].readAt
<1> DEFINE id == row[m].hasId /\ ~tx[t].copy[m].hasId
           r == [row[m] EXCEPT !.status = "failed", !.hasId = id]
<1>1. row \in [Message -> Row] /\ row[m] \in Row /\ id \in BOOLEAN
  BY DEF TypeOK
<1>2. row' = [row EXCEPT ![m].status = "failed", ![m].hasId = id]
  BY DEF SendFails
<1> HIDE DEF id
<1>3. row' = [row EXCEPT ![m] = r]
  BY <1>1, <1>2
<1>4. /\ r \in Row /\ r.status = "failed" /\ r.hasId = id
      /\ r.deliveredAt = row[m].deliveredAt /\ r.readAt = row[m].readAt
  BY <1>1 DEF Row, Status
<1> HIDE DEF r
<1>5. row'[m] = r /\ \A n \in Message \ {m} : row'[n] = row[n]
  BY <1>1, <1>3
<1>6. row' \in [Message -> Row]
  BY <1>1, <1>3, <1>4
<1> QED
  BY <1>4, <1>5, <1>6 DEF id

\* The copy decides what a retry clears.
LEMMA CommitRetryIs ==
    ASSUME TypeOK, NEW t \in Tx, NEW m \in Message, CommitRetry(t, m)
    PROVE  /\ row' \in [Message -> Row]
           /\ retries' \in [Message -> Nat] /\ retries'[m] = retries[m] + 1
           /\ \A n \in Message \ {m} : row'[n] = row[n] /\ retries'[n] = retries[n]
           /\ row'[m].deliveredAt = (row[m].deliveredAt /\ ~tx[t].copy[m].deliveredAt)
           /\ row'[m].readAt = (row[m].readAt /\ ~tx[t].copy[m].readAt)
<1> DEFINE r == [status |-> "pending", hasId |-> row[m].hasId /\ ~tx[t].copy[m].hasId,
                 deliveredAt |-> row[m].deliveredAt /\ ~tx[t].copy[m].deliveredAt,
                 readAt |-> row[m].readAt /\ ~tx[t].copy[m].readAt]
<1>1. row \in [Message -> Row] /\ retries \in [Message -> Nat]
  BY DEF TypeOK
<1>2. row' = [row EXCEPT ![m] = r] /\ retries' = [retries EXCEPT ![m] = retries[m] + 1]
  BY DEF CommitRetry
<1>3. /\ r \in Row
      /\ r.deliveredAt = (row[m].deliveredAt /\ ~tx[t].copy[m].deliveredAt)
      /\ r.readAt = (row[m].readAt /\ ~tx[t].copy[m].readAt)
  BY DEF Row, Status
<1> HIDE DEF r
<1>4. row' \in [Message -> Row] /\ row'[m] = r /\ \A n \in Message \ {m} : row'[n] = row[n]
  BY <1>1, <1>2, <1>3
<1>5. /\ retries' \in [Message -> Nat] /\ retries'[m] = retries[m] + 1
      /\ \A n \in Message \ {m} : retries'[n] = retries[n]
  BY <1>1, <1>2
<1> QED
  BY <1>3, <1>4, <1>5

\* Every step keeps the types.
LEMMA TypeStep == TypeOK /\ [Next]_vars => TypeOK'
<1> SUFFICES ASSUME TypeOK, [Next]_vars PROVE TypeOK'
  OBVIOUS
<1> USE DEF Tx
<1>0. /\ row \in [Message -> Row] /\ delivery \in [Message -> Delivery] /\ event \in [Event -> EventRow]
      /\ tx \in [Tx -> TxState] /\ retries \in [Message -> Nat] /\ rollbacks \in Nat
      /\ stale \in SUBSET Event /\ orphaned \in SUBSET Event
  BY DEF TypeOK
<1>1. ASSUME NEW t \in Tx, tx' = [tx EXCEPT ![t] = Idle] PROVE tx' \in [Tx -> TxState]
  BY <1>0, <1>1, BeginTyped
<1>2. ASSUME NEW t \in Tx, row' = [m \in Message |-> Written(t, m)] PROVE row' \in [Message -> Row]
  BY <1>2, WrittenIs
<1>3. ASSUME NEW t \in Webhook, NEW e \in Event, Accept(t, e) PROVE TypeOK'
  <2>1. tx' \in [Tx -> TxState]
    BY <1>0, <1>3, BeginTyped DEF Accept
  <2>2. event' \in [Event -> EventRow]
    BY <1>0, <1>3 DEF Accept, EventRow
  <2> QED
    BY <1>0, <1>3, <2>1, <2>2 DEF Accept, TypeOK
<1>4. ASSUME NEW t \in Tx, NEW e \in Event, Load(t, e) PROVE TypeOK'
  BY <1>0, <1>4, LoadIs DEF Load, TypeOK
<1>5. ASSUME NEW t \in Webhook, NEW e \in Event, CommitReceipt(t, e) PROVE TypeOK'
  <2>1. row' \in [Message -> Row] /\ tx' \in [Tx -> TxState]
    BY <1>1, <1>2, <1>5 DEF CommitReceipt
  <2>2. event' \in [Event -> EventRow]
    BY <1>0, <1>5, ResolvedIs DEF CommitReceipt, EventRow
  <2> QED
    BY <1>0, <1>5, <2>1, <2>2 DEF CommitReceipt, TypeOK
<1>6. ASSUME NEW t \in Webhook, HandlerDies(t) PROVE TypeOK'
  <2>1. tx' \in [Tx -> TxState] /\ orphaned' \in SUBSET Event
    BY <1>0, <1>1, <1>6 DEF HandlerDies, TxState
  <2> QED
    BY <1>0, <1>6, <2>1 DEF HandlerDies, TypeOK
<1>7. ASSUME NEW t \in Reconciler, StartReconcile(t) PROVE TypeOK'
  <2>1. tx' \in [Tx -> TxState]
    BY <1>0, <1>7, BeginTyped DEF StartReconcile
  <2> QED
    BY <1>0, <1>7, <2>1 DEF StartReconcile, TypeOK
<1>8. ASSUME NEW t \in Reconciler, CommitBatch(t) PROVE TypeOK'
  <2>1. row' \in [Message -> Row] /\ tx' \in [Tx -> TxState]
    BY <1>1, <1>2, <1>8 DEF CommitBatch
  <2>2. event' \in [Event -> EventRow]
    BY <1>0, <1>8, ResolvedIs DEF CommitBatch, EventRow
  <2> QED
    BY <1>0, <1>8, <2>1, <2>2 DEF CommitBatch, TypeOK
<1>9. ASSUME NEW t \in Reconciler, Rollback(t) PROVE TypeOK'
  <2>1. tx' \in [Tx -> TxState]
    BY <1>1, <1>9 DEF Rollback
  <2> QED
    BY <1>0, <1>9, <2>1 DEF Rollback, TypeOK
<1>10. ASSUME NEW t \in Tx, Breaks(t) PROVE TypeOK'
  <2>1. tx' \in [Tx -> TxState]
    BY <1>1, <1>10 DEF Breaks
  <2> QED
    BY <1>0, <1>10, <2>1 DEF Breaks, TypeOK
<1>11. ASSUME NEW t \in Worker, NEW m \in Message, Begin(t, m) PROVE TypeOK'
  <2>1. tx' \in [Tx -> TxState]
    BY <1>0, <1>11, BeginTyped DEF Begin, Claim, Close, Stage
  <2>2. delivery' \in [Message -> Delivery]
    BY <1>0, <1>11 DEF Begin, Claim, Close, Delivery
  <2> QED
    BY <1>0, <1>11, <2>1, <2>2 DEF Begin, Claim, Close, TypeOK
<1>12. ASSUME NEW t \in Worker, NEW m \in Message, Confirm(t, m) PROVE TypeOK'
  <2> DEFINE early == {e \in Event : event[e].stored /\ ~event[e].processed /\ m \in IdsOf[e]}
             waited == {e \in early : event[e].waiting}
  <2>1. tx' = [tx EXCEPT ![t] = [tx[t] EXCEPT !.stage = "applying", !.todo = early, !.waited = waited]]
    BY <1>12 DEF Confirm
  <2>2. early \in SUBSET Event /\ waited \in SUBSET Event
    OBVIOUS
  <2> HIDE DEF early, waited
  <2>3. [tx[t] EXCEPT !.stage = "applying", !.todo = early, !.waited = waited] \in TxState
    BY <1>0, <2>2 DEF TxState, Stage
  <2>4. tx' \in [Tx -> TxState]
    BY <1>0, <2>1, <2>3
  <2> QED
    BY <1>0, <1>12, <2>4 DEF Confirm, TypeOK
<1>13. ASSUME NEW t \in Worker, CommitConfirm(t) PROVE TypeOK'
  <2>1. row' \in [Message -> Row] /\ tx' \in [Tx -> TxState]
    BY <1>1, <1>2, <1>13 DEF CommitConfirm
  <2>2. event' \in [Event -> EventRow]
    BY <1>0, <1>13, ResolvedIs DEF CommitConfirm
  <2>3. delivery' \in [Message -> Delivery]
    BY <1>0, <1>13 DEF CommitConfirm, Delivery
  <2> QED
    BY <1>0, <1>13, <2>1, <2>2, <2>3 DEF CommitConfirm, TypeOK
<1>14. ASSUME NEW t \in Worker, NEW m \in Message, SendFails(t, m) PROVE TypeOK'
  <2>1. tx' \in [Tx -> TxState] /\ delivery' \in [Message -> Delivery]
    BY <1>0, <1>1, <1>14 DEF SendFails, Delivery
  <2>2. row' \in [Message -> Row]
    BY <1>14, SendFailsIs
  <2> QED
    BY <1>0, <1>14, <2>1, <2>2 DEF SendFails, TypeOK
<1>15. ASSUME NEW t \in Worker, NEW m \in Message, SendLater(t, m) PROVE TypeOK'
  <2>1. tx' \in [Tx -> TxState] /\ delivery' \in [Message -> Delivery]
    BY <1>0, <1>1, <1>15 DEF SendLater, Delivery
  <2> QED
    BY <1>0, <1>15, <2>1 DEF SendLater, TypeOK
<1>16. ASSUME NEW t \in Worker, NEW m \in Message, CommitClose(t, m) PROVE TypeOK'
  <2>1. tx' \in [Tx -> TxState] /\ delivery' \in [Message -> Delivery]
    BY <1>0, <1>1, <1>16 DEF CommitClose, Delivery
  <2>2. row' \in [Message -> Row]
    BY <1>0, <1>16 DEF CommitClose, Row, Status
  <2> QED
    BY <1>0, <1>16, <2>1, <2>2 DEF CommitClose, TypeOK
<1>17. ASSUME NEW t \in Operator, NEW m \in Message, BeginRetry(t, m) PROVE TypeOK'
  <2>1. tx' \in [Tx -> TxState]
    BY <1>0, <1>17, BeginTyped DEF BeginRetry, Stage
  <2> QED
    BY <1>0, <1>17, <2>1 DEF BeginRetry, TypeOK
<1>18. ASSUME NEW t \in Operator, NEW m \in Message, CommitRetry(t, m) PROVE TypeOK'
  <2>1. tx' \in [Tx -> TxState] /\ delivery' \in [Message -> Delivery]
    BY <1>0, <1>1, <1>18 DEF CommitRetry, Delivery
  <2>2. row' \in [Message -> Row] /\ retries' \in [Message -> Nat]
    BY <1>18, CommitRetryIs
  <2> QED
    BY <1>0, <1>18, <2>1, <2>2 DEF CommitRetry, TypeOK
<1>19. ASSUME NEW e \in Event, GrowsStale(e) PROVE TypeOK'
  BY <1>0, <1>19 DEF GrowsStale, TypeOK
<1>20. CASE UNCHANGED vars
  BY <1>0, <1>20 DEF vars, TypeOK
<1> QED
  BY <1>3, <1>4, <1>5, <1>6, <1>7, <1>8, <1>9, <1>10, <1>11, <1>12, <1>13, <1>14, <1>15, <1>16, <1>17,
     <1>18, <1>19, <1>20 DEF Next, HandleWebhook, Reconcile, Deliver, Answer

-----------------------------------------------------------------------------
(* The inductive step.  A step of one transaction is harmless to a message    *)
(* if what the others hold of it stays true.                                  *)

Harmless(t, m) ==
    /\ Fresh(m)' => /\ Fresh(m) /\ RowSound(m)'
                    /\ row[m].hasId => row'[m].hasId
                    /\ \A u \in Tx \ {t} : Sends(u, m) => delivery'[m] # "open" /\ ~row'[m].hasId
    /\ Young(m)' => /\ Young(m)
                    /\ row[m].deliveredAt => row'[m].deliveredAt
                    /\ row[m].readAt => row'[m].readAt
    /\ \A u \in Tx \ {t} : tx[u].about = m /\ tx[u].stage = "closing" => delivery'[m] # "closed"

\* What t must leave true of itself; it takes no message that is taken.
OwnSound(t, m) ==
    /\ CopySound(t, m)'
    /\ Locks(t, m)' => \A u \in Tx \ {t} : ~Locks(u, m)
    /\ Fresh(m)' /\ Sends(t, m)' => \A u \in Tx \ {t} : ~Sends(u, m)

\* A step that does not touch the message is harmless to it.
LEMMA UntouchedHarmless ==
    ASSUME Sound, NEW t \in Tx, NEW m \in Message,
           row'[m] = row[m], delivery'[m] = delivery[m], retries'[m] = retries[m]
    PROVE  Harmless(t, m)
<1>1. RowSound(m) /\ \A u \in Tx : CopySound(u, m)
  BY DEF Sound
<1> QED
  BY <1>1 DEF Harmless, Fresh, Young, RowSound, CopySound, SenderSound, CloserSound

\* A step that is harmless to all and leaves its own transaction sound is sound.
LEMMA HarmlessStep ==
    ASSUME Sound, TypeOK', NEW t \in Tx, \A u \in Tx \ {t} : tx'[u] = tx[u],
           RoleSound(t)', \A m \in Message : Harmless(t, m) /\ OwnSound(t, m)
    PROVE  Sound'
<1>1. ASSUME NEW u \in Tx PROVE RoleSound(u)'
  BY DEF Sound, RoleSound
<1>2. ASSUME NEW m \in Message PROVE RowSound(m)'
  <2>1. Harmless(t, m)
    OBVIOUS
  <2> QED
    BY <2>1 DEF Harmless, RowSound, Fresh
<1>3. ASSUME NEW m \in Message PROVE HeldSound(m)'
  <2>1. HeldSound(m) /\ Harmless(t, m) /\ OwnSound(t, m)
    BY DEF Sound
  <2>2. \A u \in Tx \ {t} : (Locks(u, m)' <=> Locks(u, m)) /\ (Sends(u, m)' <=> Sends(u, m))
    BY DEF Locks, Sends
  <2>3. Fresh(m)' => Fresh(m)
    BY <2>1 DEF Harmless
  <2>4. ASSUME NEW u \in Tx, NEW w \in Tx, Locks(u, m)', Locks(w, m)' PROVE u = w
    BY <2>1, <2>2, <2>4 DEF HeldSound, OwnSound
  <2>5. ASSUME Fresh(m)', NEW u \in Tx, NEW w \in Tx, Sends(u, m)', Sends(w, m)' PROVE u = w
    BY <2>1, <2>2, <2>3, <2>5 DEF HeldSound, OwnSound
  <2> QED
    BY <2>4, <2>5 DEF HeldSound
<1>4. ASSUME NEW u \in Tx, NEW m \in Message PROVE CopySound(u, m)'
  <2>1. CopySound(u, m) /\ Harmless(t, m) /\ OwnSound(t, m)
    BY DEF Sound
  <2>2. CASE u = t
    BY <2>1, <2>2 DEF OwnSound
  <2>3. CASE u # t
    <3>1. tx'[u] = tx[u] /\ (Sends(u, m)' <=> Sends(u, m))
      BY <2>3 DEF Sends
    <3>2. CloserSound(u, m)'
      BY <2>1, <2>3, <3>1 DEF CloserSound, Harmless
    <3>3. Fresh(m)' => SenderSound(u, m)' /\ RetrierSound(u, m)' /\ FoundSound(u, m)'
      BY <2>1, <2>3, <3>1 DEF Harmless, CopySound, SenderSound, RetrierSound, FoundSound
    <3>4. Young(m)' => TimesSound(u, m)'
      BY <2>1, <3>1 DEF Harmless, CopySound, TimesSound
    <3> QED
      BY <3>2, <3>3, <3>4 DEF CopySound
  <2> QED
    BY <2>2, <2>3
<1> QED
  BY <1>1, <1>2, <1>3, <1>4 DEF Sound

\* A transaction that ends, or begins without a message, holds nothing.
LEMMA NothingHeld ==
    ASSUME TypeOK, TypeOK', NEW t \in Tx, NEW w,
           tx' = [tx EXCEPT ![t] = w], w = Idle \/ \E events \in SUBSET Event : w = Looking(events)
    PROVE  /\ \A u \in Tx \ {t} : tx'[u] = tx[u]
           /\ RoleSound(t)' /\ \A m \in Message : OwnSound(t, m)
<1>1. tx'[t] = w /\ \A u \in Tx \ {t} : tx'[u] = tx[u]
  BY DEF TypeOK
<1>2. /\ w.about = NoMessage /\ w.stage \in {"idle", "applying"} /\ w.found = {}
      /\ \A m \in Message : w.copy[m] = Unread
  <2>1. /\ Idle.about = NoMessage /\ Idle.stage = "idle" /\ Idle.found = {}
        /\ \A m \in Message : Idle.copy[m] = Unread
    BY DEF Idle
  <2>2. ASSUME NEW events, w = Looking(events)
        PROVE  w.about = Idle.about /\ w.stage = "applying" /\ w.found = Idle.found /\ w.copy = Idle.copy
    <3> DEFINE waited == {e \in events : event[e].waiting}
    <3>1. w = [Idle EXCEPT !.stage = "applying", !.todo = events, !.waited = waited]
      BY <2>2 DEF Looking
    <3> HIDE DEF waited
    <3> QED
      BY <3>1 DEF Idle
  <2> QED
    BY <2>1, <2>2
<1>3. RoleSound(t)'
  BY <1>1, <1>2 DEF RoleSound
<1>4. ASSUME NEW m \in Message PROVE OwnSound(t, m)
  <2>1. tx'[t].about # m /\ m \notin {NoMessage} /\ tx'[t].copy[m] = Unread /\ tx'[t].found = {}
    BY <1>1, <1>2, ReceiptsAssumption
  <2>2. ~Locks(t, m)' /\ ~Sends(t, m)'
    BY <2>1 DEF Locks, Sends
  <2>3. CopySound(t, m)'
    BY <2>1, <2>2 DEF CopySound, CloserSound, SenderSound, RetrierSound, FoundSound, TimesSound, Unread
  <2> QED
    BY <2>2, <2>3 DEF OwnSound
<1> QED
  BY <1>1, <1>3, <1>4

\* A transaction ends: what it wrote must be harmless.
LEMMA EndSound ==
    ASSUME Sound, TypeOK', NEW t \in Tx, tx' = [tx EXCEPT ![t] = Idle],
           \A m \in Message : Harmless(t, m)
    PROVE  Sound'
<1>1. /\ \A u \in Tx \ {t} : tx'[u] = tx[u]
      /\ RoleSound(t)' /\ \A m \in Message : OwnSound(t, m)
  BY NothingHeld DEF Sound
<1> QED
  BY <1>1, HarmlessStep

\* A transaction begins to look at events, or ends without a trace.
LEMMA LookSound ==
    ASSUME Sound, TypeOK', NEW t \in Tx, NEW w, tx' = [tx EXCEPT ![t] = w],
           w = Idle \/ \E events \in SUBSET Event : w = Looking(events),
           UNCHANGED <<row, delivery, retries>>
    PROVE  Sound'
<1>1. /\ \A u \in Tx \ {t} : tx'[u] = tx[u]
      /\ RoleSound(t)' /\ \A m \in Message : OwnSound(t, m)
  BY NothingHeld DEF Sound
<1>2. \A m \in Message : Harmless(t, m)
  BY UntouchedHarmless
<1> QED
  BY <1>1, <1>2, HarmlessStep

\* A transaction that begins with a message copies it as it is.
LEMMA HoldingIs ==
    ASSUME TypeOK, NEW t \in Tx, NEW m \in Message, NEW stage \in Stage, tx' = [tx EXCEPT ![t] = Holding(stage, m)]
    PROVE  /\ \A u \in Tx \ {t} : tx'[u] = tx[u]
           /\ tx'[t].stage = stage /\ tx'[t].about = m /\ tx'[t].found = {}
           /\ \A n \in Message : tx'[t].copy[n] = IF n = m THEN row[m] ELSE Unread
<1> DEFINE copies == [i \in Message |-> IF i = m THEN row[m] ELSE Unread]
<1>1. tx'[t] = Holding(stage, m) /\ \A u \in Tx \ {t} : tx'[u] = tx[u]
  BY DEF TypeOK
<1>2. Holding(stage, m) = [Idle EXCEPT !.stage = stage, !.about = m, !.copy = copies]
  BY DEF Holding
<1>3. \A n \in Message : copies[n] = IF n = m THEN row[m] ELSE Unread
  OBVIOUS
<1> HIDE DEF copies
<1>4. /\ Holding(stage, m).stage = stage /\ Holding(stage, m).about = m
      /\ Holding(stage, m).found = {} /\ Holding(stage, m).copy = copies
  BY <1>2 DEF Idle
<1> QED
  BY <1>1, <1>3, <1>4

\* A commit writes its receipts to rows that have an id, and its send to a
\* message no other transaction sends or closes.
LEMMA CommitHarmless ==
    ASSUME Sound, NEW t \in Tx, NEW m \in Message, tx[t].stage = "applying",
           row'[m] = Written(t, m), retries'[m] = retries[m],
           delivery'[m] = IF tx[t].about = m THEN "closed" ELSE delivery[m]
    PROVE  Harmless(t, m)
<1> USE DEF Sound
<1>1. /\ TypeOK /\ RowSound(m) /\ HeldSound(m) /\ CopySound(t, m)
      /\ \A u \in Tx : CopySound(u, m)
  OBVIOUS
<1>2. CASE tx[t].about = m
  <2>1. Locks(t, m) /\ Sends(t, m)
    BY <1>2 DEF Locks, Sends
  <2>2. \A u \in Tx \ {t} : ~(tx[u].about = m /\ tx[u].stage = "closing")
    BY <1>1, <2>1 DEF HeldSound, Locks
  <2>3. Fresh(m) => \A u \in Tx \ {t} : ~Sends(u, m)
    BY <1>1, <2>1 DEF HeldSound
  <2>4. Fresh(m) => ~tx[t].copy[m].hasId
    BY <1>1, <2>1 DEF CopySound, SenderSound, Bare
  <2>5. /\ row'[m].status \in Known /\ (Fresh(m) => row'[m].hasId)
        /\ (row[m].deliveredAt => row'[m].deliveredAt) /\ (row[m].readAt => row'[m].readAt)
        /\ delivery'[m] = "closed"
    BY <1>1, <1>2, <2>4, WrittenIs
  <2>6. (Fresh(m)' <=> Fresh(m)) /\ (Young(m)' <=> Young(m))
    BY DEF Fresh, Young
  <2>7. Fresh(m)' => RowSound(m)'
    BY <2>5, <2>6 DEF RowSound
  <2> QED
    BY <2>2, <2>3, <2>5, <2>6, <2>7 DEF Harmless
<1>3. CASE tx[t].about # m
  <2>1. Fresh(m) /\ TargetsFor(t, m) # {} => row[m].hasId
    BY <1>3, TargetsFound
  <2>2. /\ row'[m].hasId = row[m].hasId /\ delivery'[m] = delivery[m]
        /\ (row[m].deliveredAt => row'[m].deliveredAt) /\ (row[m].readAt => row'[m].readAt)
        /\ row'[m].deliveredAt => row[m].deliveredAt \/ TargetsFor(t, m) # {}
        /\ row'[m].readAt => row[m].readAt \/ TargetsFor(t, m) # {}
        /\ \/ row'[m].status = row[m].status
           \/ TargetsFor(t, m) # {} /\ row'[m].status \in {"delivered", "read"}
    BY <1>1, <1>3, WrittenIs
  <2>3. (Fresh(m)' <=> Fresh(m)) /\ (Young(m)' <=> Young(m))
    BY DEF Fresh, Young
  <2>4. Fresh(m)' => RowSound(m)'
    <3>1. SUFFICES ASSUME Fresh(m) PROVE RowSound(m)'
      BY <2>3
    <3>2. /\ row[m].hasId <=> row[m].status \in Known
          /\ row[m].deliveredAt \/ row[m].readAt => row[m].hasId
          /\ row[m].hasId => delivery[m] = "closed"
      BY <1>1, <3>1 DEF RowSound
    <3>3. row'[m].status \in Known <=> row[m].status \in Known
      BY <2>1, <2>2, <3>1, <3>2 DEF Known
    <3>4. row'[m].deliveredAt \/ row'[m].readAt => row[m].hasId
      BY <2>1, <2>2, <3>1, <3>2
    <3> QED
      BY <2>2, <3>2, <3>3, <3>4 DEF RowSound
  <2>5. Fresh(m) => \A u \in Tx \ {t} : Sends(u, m) => delivery[m] # "open" /\ ~row[m].hasId
    BY <1>1 DEF CopySound, SenderSound
  <2>6. \A u \in Tx \ {t} : tx[u].about = m /\ tx[u].stage = "closing" => delivery[m] # "closed"
    BY <1>1 DEF CopySound, CloserSound
  <2> QED
    BY <2>2, <2>3, <2>4, <2>5, <2>6 DEF Harmless
<1> QED
  BY <1>2, <1>3

\* So a commit of receipts keeps the invariant, a worker's and anybody's.
LEMMA CommitSound ==
    ASSUME Sound, TypeOK', NEW t \in Tx, tx[t].stage = "applying",
           row' = [m \in Message |-> Written(t, m)], UNCHANGED retries, tx' = [tx EXCEPT ![t] = Idle],
           \/ t \notin Worker /\ UNCHANGED delivery
           \/ delivery' = [delivery EXCEPT ![tx[t].about] = "closed"]
    PROVE  Sound'
<1>1. ASSUME NEW m \in Message PROVE Harmless(t, m)
  <2>1. RoleSound(t) /\ TypeOK
    BY DEF Sound
  <2>2. t \notin Worker => tx[t].about # m
    BY <2>1, ReceiptsAssumption DEF RoleSound
  <2>3. delivery'[m] = IF tx[t].about = m THEN "closed" ELSE delivery[m]
    BY <2>1, <2>2 DEF TypeOK
  <2>4. row'[m] = Written(t, m)
    OBVIOUS
  <2> QED
    BY <2>3, <2>4, CommitHarmless
<1> QED
  BY <1>1, EndSound

\* What looking at an event adds to the copies has an id.
LEMMA LoadSound ==
    ASSUME Sound, TypeOK', NEW t \in Tx, NEW e \in Event, Load(t, e)
    PROVE  Sound'
<1>1. /\ \A u \in Tx \ {t} : tx'[u] = tx[u]
      /\ tx'[t].stage = tx[t].stage /\ tx'[t].about = tx[t].about
  BY LoadIs DEF Sound
<1>2. UNCHANGED <<row, delivery, retries>>
  BY DEF Load
<1>3. RoleSound(t)'
  BY <1>1 DEF Sound, RoleSound
<1>4. \A m \in Message : Harmless(t, m)
  BY <1>2, UntouchedHarmless
<1>5. ASSUME NEW m \in Message PROVE OwnSound(t, m)
  <2>1. HeldSound(m) /\ CopySound(t, m) /\ RowSound(m)
    BY DEF Sound
  <2>2. \/ tx'[t].copy[m] = tx[t].copy[m]
        \/ tx'[t].copy[m] = row[m] /\ row[m].hasId /\ m # tx[t].about
    BY LoadIs DEF Sound
  <2>3. (Locks(t, m)' <=> Locks(t, m)) /\ (Sends(t, m)' <=> Sends(t, m))
        /\ (Fresh(m)' <=> Fresh(m)) /\ (Young(m)' <=> Young(m))
    BY <1>1, <1>2 DEF Locks, Sends, Fresh, Young
  <2>4. CloserSound(t, m)' /\ (Young(m) => TimesSound(t, m)')
    BY <1>1, <1>2, <2>1, <2>2 DEF CopySound, CloserSound, TimesSound
  <2>5. Fresh(m) => SenderSound(t, m)' /\ RetrierSound(t, m)'
    BY <1>1, <1>2, <2>1, <2>2, <2>3 DEF CopySound, SenderSound, RetrierSound, Sends
  <2>6. Fresh(m) => FoundSound(t, m)'
    <3>1. SUFFICES ASSUME Fresh(m), NEW f \in Event, <<f, m>> \in tx'[t].found, tx[t].about # m
                   PROVE  row[m].hasId /\ tx'[t].copy[m].status \in Known
      BY <1>1, <1>2 DEF FoundSound
    <3>2. row[m].hasId => row[m].status \in Known
      BY <2>1, <3>1 DEF RowSound
    <3>3. \/ \E g \in Event : <<g, m>> \in tx[t].found
          \/ tx'[t].copy[m] = row[m] /\ row[m].hasId
      BY <3>1, LoadIs DEF Sound
    <3>4. (\E g \in Event : <<g, m>> \in tx[t].found) => row[m].hasId /\ tx[t].copy[m].status \in Known
      BY <2>1, <3>1 DEF CopySound, FoundSound
    <3> QED
      BY <2>2, <3>2, <3>3, <3>4
  <2>7. CopySound(t, m)'
    BY <2>3, <2>4, <2>5, <2>6 DEF CopySound
  <2> QED
    BY <2>1, <2>3, <2>7 DEF OwnSound, HeldSound
<1> QED
  BY <1>1, <1>3, <1>4, <1>5, HarmlessStep

\* Nobody but a worker holds a delivery row.
LEMMA UnlockedIs ==
    ASSUME Sound, NEW m \in Message, ~DeliveryLocked(m)
    PROVE  \A u \in Tx : ~Locks(u, m)
<1>1. \A u \in Tx : Locks(u, m) => u \in Worker
  BY ReceiptsAssumption DEF Sound, RoleSound, Locks
<1> QED
  BY <1>1 DEF DeliveryLocked, Locks

\* An open delivery is claimed by one worker, of a message without an id.
LEMMA ClaimSound ==
    ASSUME Sound, TypeOK', NEW t \in Worker, NEW m \in Message, Claim(t, m)
    PROVE  Sound'
<1> USE DEF Tx
<1>1. TypeOK /\ RowSound(m) /\ HeldSound(m) /\ \A u \in Tx, n \in Message : CopySound(u, n)
  BY DEF Sound
<1>2. /\ delivery[m] = "open" /\ row[m].status = "pending" /\ UNCHANGED <<row, retries>>
      /\ tx' = [tx EXCEPT ![t] = Holding("calling", m)]
      /\ delivery'[m] = "processing" /\ \A n \in Message \ {m} : delivery'[n] = delivery[n]
  BY <1>1 DEF Claim, TypeOK
<1>3. /\ \A u \in Tx \ {t} : tx'[u] = tx[u]
      /\ tx'[t].stage = "calling" /\ tx'[t].about = m /\ tx'[t].found = {}
      /\ \A n \in Message : tx'[t].copy[n] = IF n = m THEN row[m] ELSE Unread
  BY <1>1, <1>2, HoldingIs DEF Stage
<1>4. Fresh(m) => Bare(row[m]) /\ \A u \in Tx : ~Sends(u, m)
  BY <1>1, <1>2 DEF RowSound, CopySound, SenderSound, Bare, Known
<1>5. \A n \in Message : (Fresh(n)' <=> Fresh(n)) /\ (Young(n)' <=> Young(n))
  BY <1>2 DEF Fresh, Young
<1>6. ASSUME NEW n \in Message PROVE Harmless(t, n)
  <2>1. CASE n = m
    <3>1. Fresh(m) => RowSound(m)'
      BY <1>2, <1>4, <1>1 DEF RowSound, Bare
    <3> QED
      BY <1>2, <1>4, <1>5, <2>1, <3>1 DEF Harmless
  <2>2. CASE n # m
    BY <1>2, <2>2, UntouchedHarmless
  <2> QED
    BY <2>1, <2>2
<1>7. ASSUME NEW n \in Message PROVE OwnSound(t, n)
  <2>1. /\ ~Locks(t, n)' /\ (Sends(t, n)' => n = m)
        /\ CloserSound(t, n)' /\ RetrierSound(t, n)' /\ FoundSound(t, n)'
    BY <1>3 DEF Locks, Sends, CloserSound, RetrierSound, FoundSound
  <2>2. Fresh(n) => SenderSound(t, n)'
    BY <1>2, <1>3, <1>4, <2>1 DEF SenderSound, Bare
  <2>3. TimesSound(t, n)'
    BY <1>2, <1>3 DEF TimesSound, Unread
  <2> QED
    BY <1>4, <1>5, <2>1, <2>2, <2>3 DEF OwnSound, CopySound
<1>8. RoleSound(t)'
  BY DEF RoleSound
<1> QED
  BY <1>3, <1>6, <1>7, <1>8, HarmlessStep

\* A delivery that is to be closed is not closed; a message that is retried is
\* failed, and so without an id as long as nobody has retried it before.
LEMMA HoldSound ==
    ASSUME Sound, TypeOK', NEW t \in Tx, NEW m \in Message, NEW stage \in {"closing", "retrying"},
           tx' = [tx EXCEPT ![t] = Holding(stage, m)], UNCHANGED <<row, delivery, retries>>,
           \/ stage = "closing" /\ t \in Worker /\ delivery[m] # "closed" /\ ~DeliveryLocked(m)
           \/ stage = "retrying" /\ row[m].status = "failed"
    PROVE  Sound'
<1>1. TypeOK /\ RowSound(m) /\ stage \in Stage
  BY DEF Sound, Stage
<1>2. /\ \A u \in Tx \ {t} : tx'[u] = tx[u]
      /\ tx'[t].stage = stage /\ tx'[t].about = m /\ tx'[t].found = {}
      /\ \A n \in Message : tx'[t].copy[n] = IF n = m THEN row[m] ELSE Unread
  BY <1>1, HoldingIs, ZenonT(30)
<1>3. \A n \in Message : Harmless(t, n)
  BY UntouchedHarmless
<1>4. stage = "retrying" /\ Fresh(m) => Bare(row[m])
  BY <1>1 DEF RowSound, Bare, Known
<1>5. ASSUME NEW n \in Message PROVE OwnSound(t, n)
  <2>1. ~Sends(t, n)' /\ FoundSound(t, n)' /\ TimesSound(t, n)'
    BY <1>2 DEF Sends, FoundSound, TimesSound, Unread
  <2>2. CloserSound(t, n)' /\ (Fresh(n)' => RetrierSound(t, n)')
    BY <1>2, <1>4 DEF CloserSound, RetrierSound, Fresh
  <2>3. Locks(t, n)' => \A u \in Tx \ {t} : ~Locks(u, n)
    BY <1>2, UnlockedIs DEF Locks
  <2> QED
    BY <2>1, <2>2, <2>3 DEF OwnSound, CopySound, SenderSound
<1>6. RoleSound(t)'
  BY <1>2 DEF RoleSound
<1> QED
  BY <1>2, <1>3, <1>5, <1>6, HarmlessStep

\* A worker that has its answer goes on with the copy it called with.
LEMMA ConfirmSound ==
    ASSUME Sound, TypeOK', NEW t \in Worker, NEW m \in Message, Confirm(t, m)
    PROVE  Sound'
<1> USE DEF Tx
<1>1. TypeOK /\ HeldSound(m) /\ \A n \in Message : CopySound(t, n)
  BY DEF Sound
<1>2. tx[t].stage = "calling" /\ tx[t].about = m /\ ~DeliveryLocked(m) /\ UNCHANGED <<row, delivery, retries>>
  BY DEF Confirm
<1>3. /\ \A u \in Tx \ {t} : tx'[u] = tx[u]
      /\ tx'[t].stage = "applying" /\ tx'[t].about = m
      /\ tx'[t].found = tx[t].found /\ tx'[t].copy = tx[t].copy
  <2> DEFINE early == {e \in Event : event[e].stored /\ ~event[e].processed /\ m \in IdsOf[e]}
             waited == {e \in early : event[e].waiting}
  <2>1. tx' = [tx EXCEPT ![t] = [tx[t] EXCEPT !.stage = "applying", !.todo = early, !.waited = waited]]
    BY DEF Confirm
  <2> HIDE DEF early, waited
  <2>2. tx[t] \in TxState /\ tx \in [Tx -> TxState]
    BY <1>1 DEF TypeOK
  <2> QED
    BY <1>2, <2>1, <2>2 DEF TxState
<1>4. \A n \in Message : Harmless(t, n)
  BY <1>2, UntouchedHarmless
<1>5. ASSUME NEW n \in Message PROVE OwnSound(t, n)
  <2>1. /\ Sends(t, n)' <=> Sends(t, n)
        /\ Fresh(n)' <=> Fresh(n)
        /\ Young(n)' <=> Young(n)
        /\ Sends(t, n)' => n = m
        /\ Locks(t, n)' => n = m
    BY <1>2, <1>3 DEF Sends, Locks, Fresh, Young
  <2>2. CopySound(t, n)'
    BY <1>1, <1>2, <1>3, <2>1
       DEF CopySound, CloserSound, SenderSound, RetrierSound, FoundSound, TimesSound
  <2>3. \A u \in Tx : ~Locks(u, m)
    BY <1>2, UnlockedIs
  <2> QED
    BY <1>1, <2>1, <2>2, <2>3 DEF OwnSound, HeldSound
<1>6. RoleSound(t)'
  BY DEF RoleSound
<1> QED
  BY <1>3, <1>4, <1>5, <1>6, HarmlessStep

\* An outcome other than a confirmation goes to a message without an id, and
\* closes or opens a delivery that nobody else is closing or calling for.
LEMMA OutcomeHarmless ==
    ASSUME Sound, NEW t \in Tx, NEW m \in Message, retries'[m] = retries[m],
           Fresh(m) => ~row[m].hasId,
           row'[m] = row[m] \/ row'[m].status = "failed",
           Fresh(m) => ~row'[m].hasId,
           row'[m].deliveredAt = row[m].deliveredAt, row'[m].readAt = row[m].readAt,
           \/ /\ delivery'[m] = "closed"
              /\ \A u \in Tx \ {t} : ~Locks(u, m)
           \/ /\ delivery'[m] = "open"
              /\ Fresh(m) => \A u \in Tx \ {t} : ~Sends(u, m)
    PROVE  Harmless(t, m)
<1>1. RowSound(m) /\ \A u \in Tx : CopySound(u, m)
  BY DEF Sound
<1>2. (Fresh(m)' <=> Fresh(m)) /\ (Young(m)' <=> Young(m))
  BY DEF Fresh, Young
<1>3. Fresh(m) => RowSound(m)'
  BY <1>1, <1>2 DEF RowSound, Known
<1>4. \A u \in Tx \ {t} : tx[u].about = m /\ tx[u].stage = "closing" => delivery'[m] # "closed"
  BY DEF Locks
<1>5. Fresh(m) => \A u \in Tx \ {t} : Sends(u, m) => delivery'[m] # "open" /\ ~row'[m].hasId
  OBVIOUS
<1> QED
  BY <1>2, <1>3, <1>4, <1>5 DEF Harmless

\* Failures, retries left to the next job and closed deliveries are such outcomes.
LEMMA OutcomeSound ==
    ASSUME Sound, TypeOK', NEW t \in Worker, NEW m \in Message,
           SendFails(t, m) \/ SendLater(t, m) \/ CommitClose(t, m)
    PROVE  Sound'
<1> USE DEF Tx
<1>1. TypeOK /\ RowSound(m) /\ HeldSound(m) /\ CopySound(t, m)
  BY DEF Sound
<1>2. tx' = [tx EXCEPT ![t] = Idle] /\ UNCHANGED retries
  BY DEF SendFails, SendLater, CommitClose
<1>3. ASSUME NEW n \in Message, n # m PROVE Harmless(t, n)
  <2>1. delivery'[n] = delivery[n]
    BY <1>1, <1>3 DEF SendFails, SendLater, CommitClose, TypeOK
  <2>2. row'[n] = row[n]
    BY <1>1, <1>3, SendFailsIs DEF SendLater, CommitClose, TypeOK
  <2> QED
    BY <1>2, <2>1, <2>2, UntouchedHarmless
<1>4. CASE SendFails(t, m)
  <2>1. Sends(t, m) /\ ~DeliveryLocked(m) /\ delivery'[m] = "closed"
    BY <1>1, <1>4 DEF SendFails, Sends, TypeOK
  <2>2. Fresh(m) => ~row[m].hasId
    BY <1>1, <2>1 DEF CopySound, SenderSound
  <2>3. \A u \in Tx \ {t} : ~Locks(u, m)
    BY <2>1, UnlockedIs
  <2>4. /\ row'[m].status = "failed" /\ (Fresh(m) => ~row'[m].hasId)
        /\ row'[m].deliveredAt = row[m].deliveredAt /\ row'[m].readAt = row[m].readAt
    BY <1>1, <1>4, <2>2, SendFailsIs
  <2>5. Harmless(t, m)
    BY <1>2, <2>1, <2>2, <2>3, <2>4, OutcomeHarmless
  <2> QED
    BY <1>2, <1>3, <2>5, EndSound
<1>5. CASE SendLater(t, m)
  <2>1. Sends(t, m) /\ row' = row /\ delivery'[m] = "open"
    BY <1>1, <1>5 DEF SendLater, Sends, TypeOK
  <2>2. Fresh(m) => ~row[m].hasId /\ \A u \in Tx \ {t} : ~Sends(u, m)
    BY <1>1, <2>1 DEF CopySound, SenderSound, HeldSound
  <2>3. Harmless(t, m)
    BY <1>2, <2>1, <2>2, OutcomeHarmless
  <2> QED
    BY <1>2, <1>3, <2>3, EndSound
<1>6. CASE CommitClose(t, m)
  <2>1. Locks(t, m) /\ delivery'[m] = "closed" /\ delivery[m] # "closed"
    BY <1>1, <1>6 DEF CommitClose, Locks, TypeOK, CopySound, CloserSound
  <2>2. Fresh(m) => ~row[m].hasId
    BY <1>1, <2>1 DEF RowSound
  <2>3. \A u \in Tx \ {t} : ~Locks(u, m)
    BY <1>1, <2>1 DEF HeldSound
  <2>4. row[m] \in Row /\ row'[m] \in {row[m], [row[m] EXCEPT !.status = "failed"]}
    BY <1>1, <1>6 DEF CommitClose, TypeOK
  <2>5. /\ row'[m] = row[m] \/ row'[m].status = "failed"
        /\ row'[m].hasId = row[m].hasId
        /\ row'[m].deliveredAt = row[m].deliveredAt /\ row'[m].readAt = row[m].readAt
    BY <2>4 DEF Row
  <2>6. Harmless(t, m)
    BY <1>2, <2>1, <2>2, <2>3, <2>5, OutcomeHarmless
  <2> QED
    BY <1>2, <1>3, <2>6, EndSound
<1> QED
  BY <1>4, <1>5, <1>6

\* The first retry finds no timestamp to clear, and no retry closes a delivery.
LEMMA RetrySound ==
    ASSUME Sound, TypeOK', NEW t \in Operator, NEW m \in Message, CommitRetry(t, m)
    PROVE  Sound'
<1> USE DEF Tx
<1>1. TypeOK /\ CopySound(t, m) /\ retries[m] \in Nat
  BY DEF Sound, TypeOK
<1>2. /\ tx' = [tx EXCEPT ![t] = Idle] /\ delivery' = [delivery EXCEPT ![m] = "open"]
      /\ tx[t].about = m /\ tx[t].stage = "retrying"
  BY DEF CommitRetry
<1>3. retries'[m] = retries[m] + 1 /\ \A n \in Message \ {m} : row'[n] = row[n] /\ retries'[n] = retries[n]
  BY <1>1, CommitRetryIs
<1>4. \A n \in Message \ {m} : Harmless(t, n)
  BY <1>1, <1>2, <1>3, UntouchedHarmless DEF TypeOK
<1>5. ~Fresh(m)' /\ (Young(m)' => Fresh(m) /\ Young(m))
  BY <1>1, <1>3 DEF Fresh, Young
<1>6. Fresh(m) => Bare(tx[t].copy[m])
  BY <1>1, <1>2 DEF CopySound, RetrierSound
<1>7. Fresh(m) => (row[m].deliveredAt => row'[m].deliveredAt) /\ (row[m].readAt => row'[m].readAt)
  BY <1>1, <1>6, CommitRetryIs DEF Bare
<1>8. delivery'[m] = "open"
  BY <1>1, <1>2 DEF TypeOK
<1>9. Harmless(t, m)
  BY <1>5, <1>7, <1>8 DEF Harmless
<1> QED
  BY <1>2, <1>4, <1>9, EndSound

\* Every step keeps what the overlapping transactions rely on.
LEMMA SoundStep == Sound /\ [Next]_vars => Sound'
<1> SUFFICES ASSUME Sound, [Next]_vars PROVE Sound'
  OBVIOUS
<1>0. TypeOK'
  BY TypeStep DEF Sound
<1> USE <1>0 DEF Tx
<1>1. ASSUME NEW t \in Webhook, NEW e \in Event, Accept(t, e) PROVE Sound'
  BY <1>1, LookSound DEF Accept
<1>2. ASSUME NEW t \in Tx, NEW e \in Event, Load(t, e) PROVE Sound'
  BY <1>2, LoadSound
<1>3. ASSUME NEW t \in Webhook, NEW e \in Event, CommitReceipt(t, e) PROVE Sound'
  BY <1>3, CommitSound, ReceiptsAssumption DEF CommitReceipt
<1>4. ASSUME NEW t \in Tx, HandlerDies(t) \/ Rollback(t) \/ Breaks(t) PROVE Sound'
  BY <1>4, LookSound DEF HandlerDies, Rollback, Breaks
<1>5. ASSUME NEW t \in Reconciler, StartReconcile(t) PROVE Sound'
  <2> DEFINE batch == {e \in Event : event[e].stored /\ ~event[e].processed /\ event[e].waiting}
  <2>1. tx' = [tx EXCEPT ![t] = Looking(batch)] /\ batch \in SUBSET Event /\ UNCHANGED <<row, delivery, retries>>
    BY <1>5 DEF StartReconcile
  <2> HIDE DEF batch
  <2> QED
    BY <2>1, LookSound
<1>6. ASSUME NEW t \in Reconciler, CommitBatch(t) PROVE Sound'
  BY <1>6, CommitSound, ReceiptsAssumption DEF CommitBatch
<1>7. ASSUME NEW t \in Worker, NEW m \in Message, Begin(t, m) PROVE Sound'
  <2>1. CASE Claim(t, m)
    BY <2>1, ClaimSound
  <2>2. CASE Close(t, m)
    BY <2>2, HoldSound DEF Close
  <2> QED
    BY <1>7, <2>1, <2>2 DEF Begin
<1>8. ASSUME NEW t \in Worker, NEW m \in Message, Answer(t, m) \/ CommitClose(t, m) PROVE Sound'
  BY <1>8, ConfirmSound, OutcomeSound DEF Answer
<1>9. ASSUME NEW t \in Worker, CommitConfirm(t) PROVE Sound'
  BY <1>9, CommitSound DEF CommitConfirm
<1>10. ASSUME NEW t \in Operator, NEW m \in Message, BeginRetry(t, m) PROVE Sound'
  BY <1>10, HoldSound DEF BeginRetry
<1>11. ASSUME NEW t \in Operator, NEW m \in Message, CommitRetry(t, m) PROVE Sound'
  BY <1>11, RetrySound
<1>12. ASSUME UNCHANGED <<row, delivery, tx, retries>> PROVE Sound'
  BY <1>12 DEF Sound, RoleSound, RowSound, HeldSound, CopySound, CloserSound, SenderSound, RetrierSound,
               FoundSound, TimesSound, Fresh, Young, Sends, Locks
<1>13. ASSUME NEW e \in Event, GrowsStale(e) PROVE Sound'
  BY <1>12, <1>13 DEF GrowsStale
<1>14. CASE UNCHANGED vars
  BY <1>12, <1>14 DEF vars
<1> QED
  BY <1>1, <1>2, <1>3, <1>4, <1>5, <1>6, <1>7, <1>8, <1>9, <1>10, <1>11, <1>13, <1>14
     DEF Next, HandleWebhook, Reconcile, Deliver

-----------------------------------------------------------------------------
(* What may happen to a row. *)

StatusChange ==
    \A m \in Message : row'[m].status # row[m].status =>
        /\ row'[m].status = "pending" => retries'[m] = retries[m] + 1
        /\ retries'[m] = 0 => <<row[m].status, row'[m].status>> \in StatusSteps

Cleared(m) ==
    \/ row[m].deliveredAt /\ ~row'[m].deliveredAt
    \/ row[m].readAt /\ ~row'[m].readAt

TimestampsKept == \A m \in Message : Cleared(m) => retries[m] >= 1 /\ retries'[m] = retries[m] + 1

\* A commit makes pending and failed messages known and advances known ones;
\* from a copy that is out of date it may also take read back to delivered.
LEMMA CommitChanges ==
    ASSUME Sound, NEW t \in Tx, tx[t].stage = "applying", row' = [m \in Message |-> Written(t, m)],
           UNCHANGED retries
    PROVE  StatusChange /\ TimestampsKept
<1>1. ASSUME NEW m \in Message, row'[m].status # row[m].status
      PROVE  /\ row'[m].status # "pending"
             /\ Fresh(m) => <<row[m].status, row'[m].status>> \in StatusSteps
  <2>1. row'[m] = Written(t, m) /\ TypeOK /\ RowSound(m) /\ CopySound(t, m) /\ row[m].status \in Status
    BY DEF Sound, TypeOK, Row
  <2>2. CASE tx[t].about = m
    <3>1. row'[m].status \in Known
      BY <2>1, <2>2, WrittenIs
    <3>2. Fresh(m) => row[m].status \notin Known
      BY <2>1, <2>2 DEF CopySound, SenderSound, Sends, RowSound
    <3> QED
      BY <2>1, <3>1, <3>2 DEF Known, Status, StatusSteps
  <2>3. CASE tx[t].about # m
    <3>1. TargetsFor(t, m) # {} /\ row'[m].status \in {"delivered", "read"}
      BY <1>1, <2>1, <2>3, WrittenIs
    <3>2. Fresh(m) => row[m].status \in Known
      BY <2>1, <2>3, <3>1, TargetsFound DEF RowSound
    <3> QED
      BY <1>1, <2>1, <3>1, <3>2 DEF Known, Status, StatusSteps
  <2> QED
    BY <2>2, <2>3
<1>2. ASSUME NEW m \in Message PROVE ~Cleared(m)
  <2>1. row'[m] = Written(t, m)
    OBVIOUS
  <2> QED
    BY <2>1, WrittenIs DEF Sound, Cleared
<1>3. StatusChange
  BY <1>1 DEF StatusChange, Fresh
<1> QED
  BY <1>2, <1>3 DEF TimestampsKept

\* A failure is written over a message without an id as long as nobody has
\* retried it, and a closed delivery's message was still pending.
LEMMA OutcomeChanges ==
    ASSUME Sound, NEW t \in Worker, NEW m \in Message, SendFails(t, m) \/ CommitClose(t, m)
    PROVE  StatusChange /\ TimestampsKept
<1> USE DEF Tx
<1>1. /\ TypeOK /\ RowSound(m) /\ CopySound(t, m) /\ row[m] \in Row /\ row[m].status \in Status
      /\ UNCHANGED retries
  BY DEF Sound, TypeOK, Row, SendFails, CommitClose
<1>2. /\ \A n \in Message \ {m} : row'[n] = row[n]
      /\ row'[m].status \in {"failed", row[m].status}
      /\ row'[m].deliveredAt = row[m].deliveredAt /\ row'[m].readAt = row[m].readAt
  <2>1. CASE SendFails(t, m)
    BY <1>1, <2>1, SendFailsIs
  <2>2. CASE CommitClose(t, m)
    <3>1. \A n \in Message \ {m} : row'[n] = row[n]
      BY <1>1, <2>2 DEF CommitClose, TypeOK
    <3>2. row'[m] \in {row[m], [row[m] EXCEPT !.status = "failed"]}
      BY <1>1, <2>2 DEF CommitClose, TypeOK
    <3> QED
      BY <1>1, <3>1, <3>2 DEF Row
  <2> QED
    BY <2>1, <2>2
<1>3. Fresh(m) => row[m].status \notin Known
  BY <1>1 DEF SendFails, CommitClose, CopySound, SenderSound, CloserSound, RowSound, Sends
<1>4. StatusChange
  BY <1>1, <1>2, <1>3 DEF StatusChange, Fresh, Known, Status, StatusSteps
<1> QED
  BY <1>2, <1>4 DEF TimestampsKept, Cleared

\* Only a retry makes a message pending and clears timestamps.
LEMMA RetryChanges ==
    ASSUME Sound, NEW t \in Operator, NEW m \in Message, CommitRetry(t, m)
    PROVE  StatusChange /\ TimestampsKept
<1> USE DEF Tx
<1>1. TypeOK /\ CopySound(t, m) /\ retries[m] \in Nat
  BY DEF Sound, TypeOK
<1>2. /\ \A n \in Message \ {m} : row'[n] = row[n]
      /\ retries'[m] = retries[m] + 1
      /\ row'[m].deliveredAt = (row[m].deliveredAt /\ ~tx[t].copy[m].deliveredAt)
      /\ row'[m].readAt = (row[m].readAt /\ ~tx[t].copy[m].readAt)
  BY <1>1, CommitRetryIs
<1>3. Fresh(m) => Bare(tx[t].copy[m])
  BY <1>1 DEF CommitRetry, CopySound, RetrierSound
<1>4. Cleared(m) => retries[m] >= 1
  <2>1. Fresh(m) => ~Cleared(m)
    BY <1>2, <1>3 DEF Cleared, Bare
  <2>2. ~Fresh(m) => retries[m] >= 1
    BY <1>1 DEF Fresh
  <2> QED
    BY <2>1, <2>2
<1>5. StatusChange
  BY <1>1, <1>2 DEF StatusChange
<1> QED
  BY <1>2, <1>4, <1>5 DEF TimestampsKept, Cleared

\* What every step may do to a row.
LEMMA RowChanges == Sound /\ [Next]_vars => StatusChange /\ TimestampsKept
<1> SUFFICES ASSUME Sound, [Next]_vars PROVE StatusChange /\ TimestampsKept
  OBVIOUS
<1> USE DEF Tx
<1>1. ASSUME row' = row PROVE StatusChange /\ TimestampsKept
  BY <1>1 DEF StatusChange, TimestampsKept, Cleared
<1>2. ASSUME NEW t \in Tx, NEW e \in Event, Accept(t, e) \/ Load(t, e) PROVE StatusChange /\ TimestampsKept
  BY <1>1, <1>2 DEF Accept, Load
<1>3. ASSUME NEW t \in Tx, NEW e \in Event, CommitReceipt(t, e) PROVE StatusChange /\ TimestampsKept
  BY <1>3, CommitChanges DEF CommitReceipt
<1>4. ASSUME NEW t \in Tx, HandlerDies(t) \/ StartReconcile(t) \/ Rollback(t) \/ Breaks(t)
      PROVE  StatusChange /\ TimestampsKept
  BY <1>1, <1>4 DEF HandlerDies, StartReconcile, Rollback, Breaks
<1>5. ASSUME NEW t \in Tx, CommitBatch(t) \/ CommitConfirm(t) PROVE StatusChange /\ TimestampsKept
  BY <1>5, CommitChanges DEF CommitBatch, CommitConfirm
<1>6. ASSUME NEW t \in Worker, NEW m \in Message, Begin(t, m) \/ Answer(t, m) \/ CommitClose(t, m)
      PROVE  StatusChange /\ TimestampsKept
  <2>1. CASE SendFails(t, m) \/ CommitClose(t, m)
    BY <2>1, OutcomeChanges
  <2>2. CASE Begin(t, m) \/ Confirm(t, m) \/ SendLater(t, m)
    BY <1>1, <2>2 DEF Begin, Claim, Close, Confirm, SendLater
  <2> QED
    BY <1>6, <2>1, <2>2 DEF Answer
<1>7. ASSUME NEW t \in Operator, NEW m \in Message, BeginRetry(t, m) \/ CommitRetry(t, m)
      PROVE  StatusChange /\ TimestampsKept
  BY <1>1, <1>7, RetryChanges DEF BeginRetry
<1>8. ASSUME NEW e \in Event, GrowsStale(e) PROVE StatusChange /\ TimestampsKept
  BY <1>1, <1>8 DEF GrowsStale
<1>9. CASE UNCHANGED vars
  BY <1>1, <1>9 DEF vars
<1> QED
  BY <1>2, <1>3, <1>4, <1>5, <1>6, <1>7, <1>8, <1>9 DEF Next, HandleWebhook, Reconcile, Deliver

-----------------------------------------------------------------------------
(* What a processed receipt has left. *)

Settled(e) == event[e].processed /\ ~event[e].expired
Left(e) ==
    \A m \in IdsOf[e] : Young(m) => row[m].deliveredAt /\ (TargetOf[e] = "read" => row[m].readAt)

\* What a receipt left stays until the second retry.
LEMMA LeftKept ==
    ASSUME TypeOK, TimestampsKept, NEW e \in Event, Left(e),
           \A m \in Message : retries'[m] \in {retries[m], retries[m] + 1}
    PROVE  Left(e)'
<1> SUFFICES ASSUME NEW m \in IdsOf[e], Young(m)'
             PROVE  row'[m].deliveredAt /\ (TargetOf[e] = "read" => row'[m].readAt)
  BY DEF Left
<1>1. m \in Message /\ retries[m] \in Nat
  BY ReceiptsAssumption DEF TypeOK
<1>2. Young(m) /\ ~Cleared(m)
  BY <1>1 DEF Young, TimestampsKept
<1> QED
  BY <1>1, <1>2 DEF Left, Cleared

\* A commit that covers an event leaves its timestamps on all of its messages.
LEMMA CoveredLeft ==
    ASSUME Sound, NEW t \in Tx, NEW e \in Event, Covers(t, e), row' = [m \in Message |-> Written(t, m)],
           UNCHANGED retries
    PROVE  Left(e)'
<1> SUFFICES ASSUME NEW m \in IdsOf[e], Young(m)
             PROVE  row'[m].deliveredAt /\ (TargetOf[e] = "read" => row'[m].readAt)
  BY DEF Left, Young
<1>1. m \in Message /\ row'[m] = Written(t, m)
  BY ReceiptsAssumption
<1>2. TargetOf[e] \in TargetsFor(t, m)
  BY <1>1, TargetsAre DEF Covers, Sound
<1>3. TypeOK /\ TimesSound(t, m)
  BY <1>1 DEF Sound, CopySound
<1> QED
  BY <1>1, <1>2, <1>3, WrittenLeaves

\* Retries are counted one by one.
LEMMA RetriesCount ==
    ASSUME TypeOK, [Next]_vars, NEW m \in Message
    PROVE  retries'[m] \in {retries[m], retries[m] + 1}
<1>1. CASE UNCHANGED retries
  BY <1>1
<1>2. CASE \E t \in Operator, n \in Message : CommitRetry(t, n)
  <2>1. PICK t \in Operator, n \in Message : CommitRetry(t, n)
    BY <1>2
  <2> QED
    BY <2>1, CommitRetryIs DEF Tx
<1> QED
  BY <1>1, <1>2 DEF Next, vars, HandleWebhook, Reconcile, Deliver, Begin, Answer, Accept, Load, CommitReceipt,
     HandlerDies, StartReconcile, CommitBatch, Rollback, Breaks, Claim, Close, Confirm, SendFails, SendLater,
     CommitClose, CommitConfirm, BeginRetry, GrowsStale

\* Whoever settles an event covers it.
LEMMA LeavesStep == Sound /\ ReceiptLeavesTimestamp /\ [Next]_vars => ReceiptLeavesTimestamp'
<1> SUFFICES ASSUME Sound, ReceiptLeavesTimestamp, [Next]_vars,
                    NEW e \in Event, Settled(e)'
             PROVE  Left(e)'
  BY DEF ReceiptLeavesTimestamp, Settled, Left, Young
<1> USE DEF Tx
<1>0. TypeOK /\ event \in [Event -> EventRow] /\ TimestampsKept
  BY RowChanges DEF Sound, TypeOK
<1>1. ASSUME Settled(e) PROVE Left(e)'
  <2>1. Left(e)
    BY <1>1 DEF ReceiptLeavesTimestamp, Settled, Left, Young
  <2> QED
    BY <1>0, <2>1, RetriesCount, LeftKept
<1>2. CASE event' = event
  BY <1>1, <1>2 DEF Settled
<1>3. ASSUME NEW t \in Webhook, NEW f \in Event, Accept(t, f) PROVE Left(e)'
  BY <1>0, <1>1, <1>3 DEF Accept, Settled, EventRow
<1>4. ASSUME NEW t \in Tx, NEW f \in Event, Load(t, f) PROVE Left(e)'
  BY <1>2, <1>4 DEF Load
<1>5. ASSUME NEW t \in Webhook, NEW f \in Event, CommitReceipt(t, f) PROVE Left(e)'
  <2>1. CASE e = f /\ Covers(t, e)
    BY <1>5, <2>1, CoveredLeft DEF CommitReceipt
  <2>2. CASE ~(e = f /\ Covers(t, e))
    <3>1. event'[e].processed = event[e].processed /\ event'[e].expired = event[e].expired
      BY <1>0, <1>5, <2>2 DEF CommitReceipt, EventRow
    <3> QED
      BY <1>1, <3>1 DEF Settled
  <2> QED
    BY <2>1, <2>2
<1>6. ASSUME NEW t \in Tx, CommitBatch(t) \/ CommitConfirm(t) PROVE Left(e)'
  <2>1. CASE e \in tx[t].seen /\ Covers(t, e)
    BY <1>6, <2>1, CoveredLeft DEF CommitBatch, CommitConfirm
  <2>2. CASE ~(e \in tx[t].seen /\ Covers(t, e))
    <3>1. event'[e] \in {event[e], [event[e] EXCEPT !.processed = TRUE, !.waiting = FALSE, !.expired = TRUE]}
      BY <1>6, <2>2 DEF CommitBatch, CommitConfirm
    <3>2. event'[e] = event[e]
      BY <1>0, <3>1 DEF Settled, EventRow
    <3> QED
      BY <1>1, <3>2 DEF Settled
  <2> QED
    BY <2>1, <2>2
<1>7. ASSUME NEW t \in Tx, HandlerDies(t) \/ StartReconcile(t) \/ Rollback(t) \/ Breaks(t) PROVE Left(e)'
  BY <1>2, <1>7 DEF HandlerDies, StartReconcile, Rollback, Breaks
<1>8. ASSUME NEW t \in Worker, NEW m \in Message, Begin(t, m) \/ Answer(t, m) \/ CommitClose(t, m) PROVE Left(e)'
  BY <1>2, <1>8 DEF Begin, Claim, Close, Answer, Confirm, SendFails, SendLater, CommitClose
<1>9. ASSUME NEW t \in Operator, NEW m \in Message, BeginRetry(t, m) \/ CommitRetry(t, m) PROVE Left(e)'
  BY <1>2, <1>9 DEF BeginRetry, CommitRetry
<1>10. ASSUME NEW f \in Event, GrowsStale(f) PROVE Left(e)'
  BY <1>2, <1>10 DEF GrowsStale
<1>11. CASE UNCHANGED vars
  BY <1>2, <1>11 DEF vars
<1> QED
  BY <1>3, <1>4, <1>5, <1>6, <1>7, <1>8, <1>9, <1>10, <1>11
     DEF Next, HandleWebhook, Reconcile, Deliver

-----------------------------------------------------------------------------

\* All of it holds before anything was sent.
LEMMA IInvInit == Init => IInv
<1> SUFFICES ASSUME Init PROVE IInv
  OBVIOUS
<1>1. TypeOK
  <2>1. Idle \in TxState
    BY DEF Idle, TxState, Unread, Row, Status, Stage
  <2> QED
    BY <2>1 DEF Init, TypeOK, NewRow, Row, Status, EventRow, Delivery
<1>2. \A m \in Message : RowSound(m)
  BY DEF Init, RowSound, NewRow, Known
<1>3. ASSUME NEW t \in Tx
      PROVE  /\ tx[t].stage = "idle" /\ tx[t].found = {}
             /\ \A m \in Message : tx[t].copy[m] = Unread
  BY DEF Init, Idle
<1>4. \A t \in Tx : RoleSound(t)
  BY <1>3 DEF RoleSound
<1>5. \A m \in Message : HeldSound(m)
  BY <1>3 DEF HeldSound, Locks, Sends
<1>6. \A t \in Tx, m \in Message : CopySound(t, m)
  BY <1>3 DEF CopySound, CloserSound, SenderSound, RetrierSound, FoundSound, TimesSound, Sends, Unread
<1>7. ReceiptLeavesTimestamp
  BY DEF Init, ReceiptLeavesTimestamp
<1> QED
  BY <1>1, <1>2, <1>4, <1>5, <1>6, <1>7 DEF IInv, Sound

\* The invariant holds in every reachable state.
LEMMA IInvCorrect == Spec => []IInv
<1>1. IInv /\ [Next]_vars => IInv'
  BY SoundStep, LeavesStep DEF IInv
<1> QED
  BY <1>1, IInvInit, PTL DEF Spec

\* Every variable keeps its type: a row only ever has one of the five statuses.
THEOREM TypeCorrect == Spec => []TypeOK
<1>1. IInv => TypeOK
  BY DEF IInv, Sound
<1> QED
  BY <1>1, IInvCorrect, PTL

\* A receipt that counts as processed, and was not given up, has left its
\* timestamps on every message it lists that was not retried twice, however
\* the transactions overlap and however late an answer is written.
THEOREM LeavesCorrect == Spec => []ReceiptLeavesTimestamp
<1>1. IInv => ReceiptLeavesTimestamp
  BY DEF IInv
<1> QED
  BY <1>1, IInvCorrect, PTL

\* Until a message is retried its status changes along the listed steps only:
\* no late answer takes what the provider knows back to pending, sent or failed.
\* At any time only a retry makes a message pending.
THEOREM StatusPathCorrect == Spec => StatusPath
<1>1. IInv /\ [Next]_vars =>
        [\A m \in Message : row'[m].status # row[m].status =>
            /\ row'[m].status = "pending" => retries'[m] = retries[m] + 1
            /\ retries'[m] = 0 => <<row[m].status, row'[m].status>> \in StatusSteps]_row
  BY RowChanges DEF IInv, StatusChange
<1> QED
  BY <1>1, IInvCorrect, PTL DEF Spec, StatusPath

\* A timestamp is taken off a message by a person's retry alone, and not by the
\* first one: late outcomes and stale copies never clear one.
THEOREM OnlyRetryCorrect == Spec => OnlyRetryClears
<1>1. IInv /\ [Next]_vars =>
        [\A m \in Message :
            \/ row[m].deliveredAt /\ ~row'[m].deliveredAt
            \/ row[m].readAt /\ ~row'[m].readAt
            => retries[m] >= 1 /\ retries'[m] = retries[m] + 1]_row
  BY RowChanges DEF IInv, TimestampsKept, Cleared
<1> QED
  BY <1>1, IInvCorrect, PTL DEF Spec, OnlyRetryClears
=============================================================================
