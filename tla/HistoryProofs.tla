---------------------------- MODULE HistoryProofs ----------------------------
(***************************************************************************)
(* Proofs about History, for any number of messages, threads, processes    *)
(* and scans, and whatever the limits of a scan.                           *)
(*                                                                         *)
(* Two facts carry the rest.  A request is out for a thread only while the *)
(* thread is cooling, so that nobody else asks for it: this is what keeps  *)
(* AskedOnce when the lock of the loops does not.  And a batch that has    *)
(* its row is covered by the inbox, by what a handler has still to accept  *)
(* AFTER committing it, or by torn: a handler that has only found the      *)
(* batch covers nothing, since it gives up when the row is there.          *)
(***************************************************************************)
EXTENDS History, FiniteSetTheorems, TLAPS

\* The handler holds a batch of sent messages and has something left of it.
Holds(w) ==
    /\ importer[w].batch \subseteq sent
    /\ importer[w].left \subseteq importer[w].batch
    /\ importer[w].left # {}
    /\ importer[w].phase = "found" => importer[w].left = importer[w].batch

Finite == IsFiniteSet(sent)
NoEmptyBatch == {} \notin batches \cup imported
Holding == \A w \in Worker : importer[w].phase # "idle" => Holds(w)
Scanning == \A s \in Scanner : scan[s].todo \subseteq stored /\ scan[s].asking \in sent \cup {Nothing}

Sound == Finite /\ NoEmptyBatch /\ Holding /\ Scanning

\* What is out for a thread keeps it cooling.
Cooled == \A s \in Scanner : scan[s].asking # Nothing => ThreadOf[scan[s].asking] \in cooling

\* Somebody who has committed a batch has the message before him.
Pending(m) == \E w \in Worker : importer[w].phase = "importing" /\ m \in importer[w].left
Accounted(m) == m \in event \cup torn \/ Pending(m)
Covered == \A b \in imported : \A m \in b : Accounted(m)

IInv == TypeOK /\ Sound /\ Cooled /\ Covered

-----------------------------------------------------------------------------
(* The largest of finitely many numbers. *)

\* A set of numbers has a largest one, however many it has.
HasMax(S) == \E x \in S : \A y \in S : x >= y

\* By a smallest counterexample, without one of its members.
LEMMA FiniteHasMax ==
    ASSUME NEW S \in SUBSET Nat, IsFiniteSet(S), S # {}
    PROVE  HasMax(S)
<1> DEFINE Without == {T \in SUBSET S : T # {} /\ ~HasMax(T)}
<1> SUFFICES ASSUME ~HasMax(S) PROVE FALSE
  OBVIOUS
<1>1. S \in Without /\ Without # {}
  OBVIOUS
<1>2. Without \subseteq FiniteSubsetsOf(S)
  BY FS_Subset DEF FiniteSubsetsOf
<1>3. IsWellFoundedOn(StrictSubsetOrdering(S), FiniteSubsetsOf(S))
  BY FS_StrictSubsetOrderingWellFounded
<1> HIDE DEF Without
<1>4. PICK T \in Without : \A U \in Without : ~(<<U, T>> \in StrictSubsetOrdering(S))
  BY <1>1, <1>2, <1>3, WFMin
<1>5. T \in SUBSET S /\ T # {} /\ ~HasMax(T)
  BY <1>4 DEF Without
<1>6. PICK x \in T : TRUE
  BY <1>5
<1> DEFINE U == T \ {x}
<1>7. <<U, T>> \in StrictSubsetOrdering(S)
  BY <1>5, <1>6 DEF StrictSubsetOrdering
<1>8. U \notin Without
  BY <1>4, <1>7
<1>9. U = {} \/ HasMax(U)
  BY <1>5, <1>8 DEF Without
<1>10. T \subseteq Nat /\ x \in Nat
  BY <1>5, <1>6
<1>11. CASE U = {}
  <2>1. \A y \in T : y = x
    BY <1>11
  <2> QED
    BY <2>1, <1>5, <1>6, <1>10 DEF HasMax
<1>12. CASE HasMax(U)
  <2>1. PICK z \in U : \A y \in U : z >= y
    BY <1>12 DEF HasMax
  <2>2. z \in T /\ z \in Nat
    BY <2>1, <1>10
  <2>3. CASE z >= x
    <3>1. \A y \in T : z >= y
      BY <2>1, <2>3
    <3> QED
      BY <3>1, <2>2, <1>5 DEF HasMax
  <2>4. CASE ~(z >= x)
    <3>1. \A y \in T : x >= y
      BY <2>1, <2>2, <2>4, <1>10
    <3> QED
      BY <3>1, <1>6, <1>5 DEF HasMax
  <2> QED
    BY <2>3, <2>4
<1> QED
  BY <1>9, <1>11, <1>12

\* What a handler or a scan takes next is one of those it has.
LEMMA MaxMember ==
    ASSUME NEW S \in SUBSET sent, S # {}, TypeOK, Finite
    PROVE  Max(S) \in S
<1>1. IsFiniteSet(S) /\ S \in SUBSET Nat
  BY FS_Subset, HistoryAssumption DEF Finite, TypeOK
<1>2. HasMax(S)
  BY <1>1, FiniteHasMax
<1> QED
  BY <1>2 DEF HasMax, Max

-----------------------------------------------------------------------------
(* Types, and what a handler and a scan hold. *)

\* All of it holds while nothing was sent.
LEMMA IInvInit == Init => IInv
BY FS_EmptySet, HistoryAssumption
   DEF Init, IInv, TypeOK, Sound, Finite, NoEmptyBatch, Holding, Scanning, Cooled, Covered,
       ImporterState, NoImport, Batch, ScanState, NoScan, Scanner

\* A scan asks for messages that are stored, and the gateway returns some that
\* were sent.
LEMMA ScanReads ==
    /\ Candidates \subseteq stored
    /\ \A a : Before(a) \subseteq sent
BY DEF Candidates, Anchors, RowsRead, Before

\* The writes of a handler's state keep its type.
LEMMA ImporterTyped ==
    ASSUME importer \in [Worker -> ImporterState], NEW w \in Worker,
           NEW p \in {"idle", "found", "importing"}, NEW b \in Batch, NEW l \in Batch,
           importer' = [importer EXCEPT ![w] = [phase |-> p, batch |-> b, left |-> l]]
    PROVE  importer' \in [Worker -> ImporterState]
BY DEF ImporterState

\* The writes of a scan's state keep its type.
LEMMA ScanTyped ==
    ASSUME scan \in [Scanner -> ScanState], NEW s \in Scanner,
           NEW p \in BOOLEAN, NEW t \in Batch, NEW a \in Message \cup {Nothing},
           scan' = [scan EXCEPT ![s] = [active |-> p, todo |-> t, asking |-> a]]
    PROVE  scan' \in [Scanner -> ScanState]
BY DEF ScanState

\* What a handler and a scan are put back to has its type.
LEMMA NoStateTyped == NoImport \in ImporterState /\ NoScan \in ScanState
BY DEF NoImport, ImporterState, Batch, NoScan, ScanState

\* A step keeps the types, and what the handlers and the scans hold stays
\* something that was sent, is stored, and is not empty.
LEMMA SoundStep == TypeOK /\ Sound /\ [Next]_vars => TypeOK' /\ Sound'
<1> SUFFICES ASSUME TypeOK, Sound, [Next]_vars PROVE TypeOK' /\ Sound'
  OBVIOUS
<1> USE DEF TypeOK, Sound, Finite, NoEmptyBatch, Holding, Holds, Scanning, gateway, imports, scans
<1>0. /\ \A w \in Worker : importer[w] \in ImporterState
      /\ \A s \in Scanner : scan[s] \in ScanState
      /\ faults \in Nat /\ MaxFaults \in Nat
  BY HistoryAssumption
<1>1. ASSUME NEW m \in Message, Send(m) PROVE TypeOK' /\ Sound'
  BY <1>1, FS_AddElement DEF Send
<1>2. ASSUME NEW m \in Message, LoseWebhook(m) PROVE TypeOK' /\ Sound'
  BY <1>2, <1>0 DEF LoseWebhook, Fault
<1>3. ASSUME NEW m \in Message, AcceptMessage(m) PROVE TypeOK' /\ Sound'
  BY <1>3 DEF AcceptMessage
<1>4. ASSUME NEW m \in Message, Store(m) PROVE TypeOK' /\ Sound'
  BY <1>4 DEF Store
<1>5. ASSUME NEW w \in Worker, NEW b \in batches, FindBatch(w, b) PROVE TypeOK' /\ Sound'
  <2>1. importer' \in [Worker -> ImporterState]
    BY <1>5, ImporterTyped DEF FindBatch, Batch
  <2> QED
    BY <1>5, <2>1 DEF FindBatch
<1>6. ASSUME NEW w \in Worker, CommitBatch(w) PROVE TypeOK' /\ Sound'
  <2>1. importer' \in [Worker -> ImporterState]
    BY <1>6, <1>0 DEF CommitBatch, ImporterState, NoImport, Batch
  <2> QED
    BY <1>6, <1>0, <2>1 DEF CommitBatch, ImporterState, NoImport
<1>7. ASSUME NEW w \in Worker, AcceptOld(w) PROVE TypeOK' /\ Sound'
  <2>1. importer[w].left \subseteq sent /\ Max(importer[w].left) \in importer[w].left
    BY <1>7, MaxMember DEF AcceptOld
  <2>2. importer' \in [Worker -> ImporterState]
    BY <1>7, <1>0, <2>1 DEF AcceptOld, GoesOn, ImporterState, NoImport, Batch
  <2> QED
    BY <1>7, <1>0, <2>1, <2>2 DEF AcceptOld, GoesOn, ImporterState, NoImport
<1>8. ASSUME NEW w \in Worker, ImportFails(w) PROVE TypeOK' /\ Sound'
  <2>1. importer' \in [Worker -> ImporterState]
    BY <1>8, NoStateTyped DEF ImportFails
  <2>2. importer[w].batch \subseteq sent /\ importer[w].batch # {} /\ importer[w].left \subseteq sent
    BY <1>8 DEF ImportFails
  <2>3. batches' \subseteq SUBSET sent /\ {} \notin batches' /\ torn' \subseteq sent
    BY <1>8, <2>2 DEF ImportFails
  <2> QED
    BY <1>8, <1>0, <2>1, <2>3 DEF ImportFails, NoImport, Fault
<1>9. ASSUME NEW b \in imported \cup batches, Repeat(b) PROVE TypeOK' /\ Sound'
  <2>1. b \in imported /\ batches' = batches \cup {b} /\ imported' = imported
    BY <1>9 DEF Repeat
  <2>2. b \subseteq sent /\ b # {}
    BY <2>1
  <2>3. batches' \subseteq SUBSET sent /\ {} \notin batches' \cup imported'
    BY <2>1, <2>2
  <2> QED
    BY <1>9, <1>0, <2>1, <2>3 DEF Repeat, Fault
<1>10. ASSUME NEW b \in imported \cup batches, LoseBatch(b) PROVE TypeOK' /\ Sound'
  BY <1>10, <1>0 DEF LoseBatch, Fault
<1>11. ASSUME NEW s \in Scanner, BeginScan(s) PROVE TypeOK' /\ Sound'
  <2>1. scan' \in [Scanner -> ScanState]
    BY <1>11, ScanReads, ScanTyped DEF BeginScan, Batch
  <2> QED
    BY <1>11, <2>1, ScanReads DEF BeginScan
<1>12. ASSUME NEW s \in Scanner, Ask(s) PROVE TypeOK' /\ Sound'
  <2>1. Following(s) \in scan[s].todo
    BY <1>12, MaxMember DEF Ask, AtThread, Following
  <2>2. Following(s) \in stored /\ Following(s) \in Message
    BY <2>1
  <2>3. scan' \in [Scanner -> ScanState]
    BY <1>12, <1>0, <2>2, ScanTyped DEF Ask, AsksFor, ScanState, Batch
  <2> QED
    BY <1>12, <1>0, <2>2, <2>3 DEF Ask, AsksFor, ScanState, Thread
<1>13. ASSUME NEW s \in Scanner, PassThread(s) PROVE TypeOK' /\ Sound'
  <2>1. scan' \in [Scanner -> ScanState]
    BY <1>13, <1>0 DEF PassThread, ScanState, Batch
  <2> QED
    BY <1>13, <1>0, <2>1 DEF PassThread, ScanState, Fault
<1>14. ASSUME NEW s \in Scanner, Answered(s) PROVE TypeOK' /\ Sound'
  <2>1. scan' \in [Scanner -> ScanState]
    BY <1>14, <1>0 DEF Answered, ScanState, Batch
  <2> QED
    BY <1>14, <1>0, <2>1, ScanReads DEF Answered, Requested, ScanState
<1>15. ASSUME NEW s \in Scanner, NotAnswered(s) PROVE TypeOK' /\ Sound'
  <2>1. scan' \in [Scanner -> ScanState]
    BY <1>15, <1>0 DEF NotAnswered, ScanState, Batch
  <2> QED
    BY <1>15, <1>0, <2>1, ScanReads DEF NotAnswered, Requested, ScanState, Fault
<1>16. ASSUME NEW s \in Scanner, EndScan(s) PROVE TypeOK' /\ Sound'
  <2>1. scan' \in [Scanner -> ScanState]
    BY <1>16, NoStateTyped DEF EndScan
  <2> QED
    BY <1>16, <2>1 DEF EndScan, NoScan
<1>17. ASSUME NEW s \in Scanner, ScanFails(s) PROVE TypeOK' /\ Sound'
  <2>1. scan' \in [Scanner -> ScanState]
    BY <1>17, NoStateTyped DEF ScanFails
  <2> QED
    BY <1>17, <1>0, <2>1 DEF ScanFails, NoScan, Fault
<1>18. CASE LockExpires
  BY <1>18 DEF LockExpires
<1>19. ASSUME NEW t \in Thread, CooldownExpires(t) PROVE TypeOK' /\ Sound'
  BY <1>19 DEF CooldownExpires
<1>20. CASE UNCHANGED vars
  BY <1>20 DEF vars
<1> QED
  BY <1>1, <1>2, <1>3, <1>4, <1>5, <1>6, <1>7, <1>8, <1>9, <1>10, <1>11, <1>12, <1>13, <1>14,
     <1>15, <1>16, <1>17, <1>18, <1>19, <1>20 DEF Next, HandleBatch, ScanStep

-----------------------------------------------------------------------------
(* One request for a thread. *)

\* A step that leaves the scans' requests alone, or takes some back, and does
\* not end a cooldown.
LEMMA CooledFrame ==
    ASSUME Cooled, cooling \subseteq cooling',
           \A s \in Scanner : scan'[s].asking \in {scan[s].asking, Nothing}
    PROVE  Cooled'
BY DEF Cooled

\* Asking sets the cooldown first; a cooldown outlives the request.
LEMMA CooledStep == TypeOK /\ Cooled /\ [Next]_vars => Cooled'
<1> SUFFICES ASSUME TypeOK, Cooled, [Next]_vars PROVE Cooled'
  OBVIOUS
<1> USE DEF gateway, imports, scans
<1>0. scan \in [Scanner -> ScanState]
  BY DEF TypeOK
<1>1. ASSUME UNCHANGED <<scan, cooling>> PROVE Cooled'
  BY <1>1, CooledFrame
<1>2. ASSUME NEW m \in Message, Send(m) \/ LoseWebhook(m) \/ AcceptMessage(m) \/ Store(m)
      PROVE  Cooled'
  BY <1>1, <1>2 DEF Send, LoseWebhook, AcceptMessage, Store
<1>3. ASSUME NEW w \in Worker, NEW b \in batches, FindBatch(w, b) PROVE Cooled'
  BY <1>1, <1>3 DEF FindBatch
<1>4. ASSUME NEW w \in Worker, CommitBatch(w) \/ AcceptOld(w) \/ ImportFails(w) PROVE Cooled'
  BY <1>1, <1>4 DEF CommitBatch, AcceptOld, ImportFails
<1>5. ASSUME NEW b, Repeat(b) \/ LoseBatch(b) PROVE Cooled'
  BY <1>1, <1>5 DEF Repeat, LoseBatch
<1>6. ASSUME NEW s \in Scanner, BeginScan(s) PROVE Cooled'
  BY <1>0, <1>6, CooledFrame DEF BeginScan
<1>7. ASSUME NEW s \in Scanner, Ask(s) PROVE Cooled'
  <2>1. cooling' = cooling \cup {ThreadOf[Following(s)]} /\ scan'[s].asking = Following(s)
    BY <1>0, <1>7 DEF Ask, AsksFor
  <2>2. \A u \in Scanner : u # s => scan'[u] = scan[u]
    BY <1>0, <1>7 DEF Ask, AsksFor
  <2> QED
    BY <2>1, <2>2 DEF Cooled
<1>8. ASSUME NEW s \in Scanner, PassThread(s) PROVE Cooled'
  <2>1. \A u \in Scanner : scan'[u].asking = scan[u].asking
    BY <1>0, <1>8 DEF PassThread, ScanState
  <2> QED
    BY <1>8, <2>1, CooledFrame DEF PassThread
<1>9. ASSUME NEW s \in Scanner, Answered(s) \/ NotAnswered(s) PROVE Cooled'
  <2>1. scan' = [scan EXCEPT ![s].asking = Nothing] /\ cooling' = cooling
    BY <1>9 DEF Answered, NotAnswered
  <2>2. \A u \in Scanner : scan'[u].asking \in {scan[u].asking, Nothing}
    BY <1>0, <2>1 DEF ScanState
  <2> QED
    BY <2>1, <2>2, CooledFrame
<1>10. ASSUME NEW s \in Scanner, EndScan(s) \/ ScanFails(s) PROVE Cooled'
  <2>1. scan' = [scan EXCEPT ![s] = NoScan] /\ cooling' = cooling
    BY <1>10 DEF EndScan, ScanFails
  <2> QED
    BY <1>0, <2>1, CooledFrame DEF NoScan
<1>11. CASE LockExpires
  BY <1>1, <1>11 DEF LockExpires
<1>12. ASSUME NEW t \in Thread, CooldownExpires(t) PROVE Cooled'
  BY <1>12 DEF CooldownExpires, Cooled
<1>13. CASE UNCHANGED vars
  BY <1>1, <1>13 DEF vars
<1> QED
  BY <1>2, <1>3, <1>4, <1>5, <1>6, <1>7, <1>8, <1>9, <1>10, <1>11, <1>12, <1>13
     DEF Next, HandleBatch, ScanStep

\* A scan that asks finds its thread not cooling, so nobody has a request out
\* for it, and no two requests can begin at once.
LEMMA AskedOnceStep == TypeOK /\ Cooled /\ AskedOnce /\ [Next]_vars => AskedOnce'
<1> SUFFICES ASSUME TypeOK, Cooled, AskedOnce, [Next]_vars PROVE AskedOnce'
  OBVIOUS
<1> USE DEF gateway, imports, scans
<1>0. scan \in [Scanner -> ScanState]
  BY DEF TypeOK
<1>1. ASSUME \A s \in Scanner : scan'[s].asking \in {scan[s].asking, Nothing} PROVE AskedOnce'
  BY <1>1 DEF AskedOnce
<1>2. CASE UNCHANGED scan
  BY <1>1, <1>2
<1>3. ASSUME NEW m \in Message, Send(m) \/ LoseWebhook(m) \/ AcceptMessage(m) \/ Store(m)
      PROVE  AskedOnce'
  BY <1>2, <1>3 DEF Send, LoseWebhook, AcceptMessage, Store
<1>4. ASSUME NEW w \in Worker, NEW b \in batches, FindBatch(w, b) PROVE AskedOnce'
  BY <1>2, <1>4 DEF FindBatch
<1>5. ASSUME NEW w \in Worker, CommitBatch(w) \/ AcceptOld(w) \/ ImportFails(w) PROVE AskedOnce'
  BY <1>2, <1>5 DEF CommitBatch, AcceptOld, ImportFails
<1>6. ASSUME NEW b, Repeat(b) \/ LoseBatch(b) PROVE AskedOnce'
  BY <1>2, <1>6 DEF Repeat, LoseBatch
<1>7. ASSUME NEW s \in Scanner, BeginScan(s) \/ EndScan(s) \/ ScanFails(s) PROVE AskedOnce'
  BY <1>0, <1>1, <1>7 DEF BeginScan, EndScan, ScanFails, NoScan
<1>8. ASSUME NEW s \in Scanner, Ask(s) PROVE AskedOnce'
  <2>1. scan'[s].asking = Following(s) /\ ThreadOf[Following(s)] \notin cooling
    BY <1>0, <1>8 DEF Ask, AsksFor
  <2>2. \A u \in Scanner : u # s => scan'[u] = scan[u]
    BY <1>0, <1>8 DEF Ask, AsksFor
  <2>3. \A u \in Scanner : scan[u].asking # Nothing => ThreadOf[scan[u].asking] # ThreadOf[Following(s)]
    BY <2>1 DEF Cooled
  <2> QED
    BY <2>1, <2>2, <2>3 DEF AskedOnce
<1>9. ASSUME NEW s \in Scanner, PassThread(s) PROVE AskedOnce'
  <2>1. \A u \in Scanner : scan'[u].asking = scan[u].asking
    BY <1>0, <1>9 DEF PassThread, ScanState
  <2> QED
    BY <2>1, <1>1
<1>10. ASSUME NEW s \in Scanner, Answered(s) \/ NotAnswered(s) PROVE AskedOnce'
  <2>1. scan' = [scan EXCEPT ![s].asking = Nothing]
    BY <1>10 DEF Answered, NotAnswered
  <2>2. \A u \in Scanner : scan'[u].asking \in {scan[u].asking, Nothing}
    BY <1>0, <2>1 DEF ScanState
  <2> QED
    BY <2>2, <1>1
<1>11. CASE LockExpires
  BY <1>2, <1>11 DEF LockExpires
<1>12. ASSUME NEW t \in Thread, CooldownExpires(t) PROVE AskedOnce'
  BY <1>2, <1>12 DEF CooldownExpires
<1>13. CASE UNCHANGED vars
  BY <1>2, <1>13 DEF vars
<1> QED
  BY <1>3, <1>4, <1>5, <1>6, <1>7, <1>8, <1>9, <1>10, <1>11, <1>12, <1>13
     DEF Next, HandleBatch, ScanStep

-----------------------------------------------------------------------------
(* What an imported batch leaves. *)

\* A step after which nobody has dropped a message of a committed batch.
LEMMA CoveredFrame ==
    ASSUME Covered, imported' = imported, event \subseteq event', torn \subseteq torn',
           \A m : Pending(m) => Pending(m)' \/ m \in event' \cup torn'
    PROVE  Covered'
<1> SUFFICES ASSUME NEW b \in imported, NEW m \in b PROVE Accounted(m)'
  BY DEF Covered
<1>1. m \in event \cup torn \/ Pending(m)
  BY DEF Covered, Accounted
<1> QED
  BY <1>1 DEF Accounted

\* Whoever commits a batch has all of it before him; each message he takes is
\* accepted, and what a failure leaves is torn.
LEMMA CoveredStep == TypeOK /\ Sound /\ Covered /\ [Next]_vars => Covered'
<1> SUFFICES ASSUME TypeOK, Sound, Covered, [Next]_vars PROVE Covered'
  OBVIOUS
<1> USE DEF gateway, imports, scans
<1>0. importer \in [Worker -> ImporterState]
  BY DEF TypeOK
<1>1. ASSUME UNCHANGED <<imported, importer, torn>>, event \subseteq event' PROVE Covered'
  BY <1>1, CoveredFrame DEF Pending
<1>2. ASSUME NEW m \in Message, Send(m) \/ LoseWebhook(m) \/ AcceptMessage(m) \/ Store(m)
      PROVE  Covered'
  BY <1>1, <1>2 DEF Send, LoseWebhook, AcceptMessage, Store
<1>3. ASSUME NEW w \in Worker, NEW b \in batches, FindBatch(w, b) PROVE Covered'
  <2>1. \A m : Pending(m) => Pending(m)'
    BY <1>0, <1>3 DEF FindBatch, Pending
  <2> QED
    BY <1>3, <2>1, CoveredFrame DEF FindBatch
<1>4. ASSUME NEW w \in Worker, CommitBatch(w) PROVE Covered'
  <2> DEFINE b == importer[w].batch
  <2>1. importer[w].phase = "found" /\ importer[w].left = b
    BY <1>4 DEF CommitBatch, Sound, Holding, Holds
  <2>2. \A m : Pending(m) => Pending(m)'
    BY <1>0, <1>4, <2>1 DEF CommitBatch, Pending
  <2>3. CASE b \in imported
    <3>1. imported' = imported /\ UNCHANGED <<event, torn>>
      BY <1>4, <2>3 DEF CommitBatch
    <3> QED
      BY <3>1, <2>2, CoveredFrame
  <2>4. CASE b \notin imported
    <3>1. importer'[w] = [importer[w] EXCEPT !.phase = "importing"]
      BY <1>0, <1>4, <2>4 DEF CommitBatch
    <3>2. importer'[w].phase = "importing" /\ importer'[w].left = b
      BY <1>0, <2>1, <3>1 DEF ImporterState
    <3>3. \A m \in b : Accounted(m)'
      BY <3>2 DEF Accounted, Pending
    <3>4. \A m : Accounted(m) => Accounted(m)'
      BY <1>4, <2>2 DEF CommitBatch, Accounted
    <3>5. imported' = imported \cup {b}
      BY <1>4 DEF CommitBatch
    <3> QED
      BY <3>3, <3>4, <3>5 DEF Covered
  <2> QED
    BY <2>3, <2>4
<1>5. ASSUME NEW w \in Worker, AcceptOld(w) PROVE Covered'
  <2> DEFINE left == importer[w].left \ {Max(importer[w].left)}
  <2>1. /\ importer' = [importer EXCEPT ![w] = IF left = {} THEN NoImport
                                               ELSE [importer[w] EXCEPT !.left = left]]
        /\ event' = event \cup {Max(importer[w].left)} /\ UNCHANGED <<imported, torn>>
        /\ importer[w].phase = "importing"
    BY <1>5 DEF AcceptOld, GoesOn
  <2>2. left # {} => importer'[w].phase = "importing" /\ importer'[w].left = left
    BY <1>0, <2>1 DEF ImporterState
  <2>3. \A u \in Worker : u # w => importer'[u] = importer[u]
    BY <1>0, <2>1
  <2>4. \A m : Pending(m) => Pending(m)' \/ m \in event'
    <3> SUFFICES ASSUME NEW m, NEW u \in Worker, importer[u].phase = "importing", m \in importer[u].left,
                        m \notin event'
                 PROVE  Pending(m)'
      BY DEF Pending
    <3>1. CASE u = w
      BY <3>1, <2>1, <2>2 DEF Pending
    <3>2. CASE u # w
      BY <3>2, <2>3 DEF Pending
    <3> QED
      BY <3>1, <3>2
  <2> QED
    BY <2>1, <2>4, CoveredFrame
<1>6. ASSUME NEW w \in Worker, ImportFails(w) PROVE Covered'
  <2>1. \A u \in Worker : u # w => importer'[u] = importer[u]
    BY <1>0, <1>6 DEF ImportFails
  <2>2. torn \subseteq torn' /\ (importer[w].phase = "importing" => importer[w].left \subseteq torn')
    BY <1>6 DEF ImportFails
  <2>3. \A m : Pending(m) => Pending(m)' \/ m \in torn'
    BY <2>1, <2>2 DEF Pending
  <2> QED
    BY <1>6, <2>2, <2>3, CoveredFrame DEF ImportFails
<1>7. ASSUME NEW b, Repeat(b) \/ LoseBatch(b) PROVE Covered'
  BY <1>1, <1>7 DEF Repeat, LoseBatch
<1>8. ASSUME NEW s \in Scanner, BeginScan(s) \/ Ask(s) \/ PassThread(s) \/ EndScan(s) \/ ScanFails(s)
      PROVE  Covered'
  BY <1>1, <1>8 DEF BeginScan, Ask, PassThread, EndScan, ScanFails
<1>9. ASSUME NEW s \in Scanner, Answered(s) \/ NotAnswered(s) PROVE Covered'
  BY <1>1, <1>9 DEF Answered, NotAnswered
<1>10. CASE LockExpires
  BY <1>1, <1>10 DEF LockExpires
<1>11. ASSUME NEW t \in Thread, CooldownExpires(t) PROVE Covered'
  BY <1>1, <1>11 DEF CooldownExpires
<1>12. CASE UNCHANGED vars
  BY <1>1, <1>12 DEF vars
<1> QED
  BY <1>2, <1>3, <1>4, <1>5, <1>6, <1>7, <1>8, <1>9, <1>10, <1>11, <1>12
     DEF Next, HandleBatch, ScanStep

-----------------------------------------------------------------------------

\* All of it stays true.
LEMMA IInvCorrect == Spec => []IInv
<1>1. IInv /\ [Next]_vars => IInv'
  BY SoundStep, CooledStep, CoveredStep DEF IInv
<1> QED
  BY <1>1, IInvInit, PTL DEF Spec

\* Every variable keeps its type; in particular only sent messages are
\* accepted, stored, returned by the gateway and taken from a batch.
THEOREM TypeCorrect == Spec => []TypeOK
<1>1. IInv => TypeOK
  BY DEF IInv
<1> QED
  BY <1>1, IInvCorrect, PTL

\* One request at a time is out for a thread, whoever holds the lock: the
\* cooldown, set before the request goes out and longer than any request, is
\* what keeps the scans of several processes apart.
THEOREM AskedOnceCorrect == Spec => []AskedOnce
<1>1. Init => AskedOnce
  BY DEF Init, AskedOnce, NoScan
<1>2. IInv => TypeOK /\ Cooled
  BY DEF IInv
<1> QED
  BY <1>1, <1>2, IInvCorrect, AskedOnceStep, PTL DEF Spec

\* The event of a batch vouches for its messages: every one has a row in the
\* inbox, is before a handler, or was before one that came to grief.
THEOREM ImportedCorrect == Spec => []ImportedOrTorn
<1>1. IInv => ImportedOrTorn
  BY DEF IInv, Covered, Accounted, Pending, ImportedOrTorn
<1> QED
  BY <1>1, IInvCorrect, PTL
=============================================================================
