---- MODULE ContinuousIngest_proofs ----
(***************************************************************************)
(* Proofs about ContinuousIngest: its type invariant, the exclusion of     *)
(* transactions, the soundness of what a thread decided, the uniqueness of *)
(* rows, the durability of answers, the refinement of EventLedger, what    *)
(* ingestion inherits from it, and that correlation never contradicts      *)
(* itself.                                                                 *)
(***************************************************************************)
EXTENDS ContinuousIngest, FiniteSetTheorems, TLAPS

(* The theorems about the ledger, for the tables of ingestion.              *)
Correlated == INSTANCE CorrelatedLedger_proofs

(* What most proofs need of the assumption: nobody is taken for a thread or  *)
(* a frame, and frames are identified.                                      *)
LEMMA FramesAreIdentified ==
  /\ NoWorker \notin Workers
  /\ NoFrame \notin Frames
  /\ InvalidFrames \subseteq Frames
  /\ \A f \in Frames : f.event.id \in Nat /\ f.source # None
  /\ MaxCrashes \in Nat
BY IngestAssumption

(* The type invariant holds in every state.                                 *)
LEMMA TypeInit == Init => TypeOK
BY IngestAssumption DEF Init, TypeOK, Phases, Verdicts, Terminal

LEMMA TypeStep == TypeOK /\ [Next]_vars => TypeOK'
<1> SUFFICES ASSUME TypeOK, [Next]_vars PROVE TypeOK'
  OBVIOUS
<1> USE FramesAreIdentified DEF Phases, Verdicts, Terminal, tables, outputs
<1>1. ASSUME NEW w \in Workers, NEW f \in Frames, Receive(w, f) PROVE TypeOK'
  BY <1>1 DEF TypeOK, Receive
<1>2. ASSUME NEW w \in Workers, RejectInvalid(w) PROVE TypeOK'
  BY <1>2 DEF TypeOK, RejectInvalid
<1>3. ASSUME NEW w \in Workers, InsertEvent(w) PROVE TypeOK'
  BY <1>3 DEF TypeOK, InsertEvent, Classify
<1>4. ASSUME NEW w \in Workers, Correlate(w) PROVE TypeOK'
  BY <1>4 DEF TypeOK, Correlate
<1>5. ASSUME NEW w \in Workers, IncidentCollision(w) PROVE TypeOK'
  <2>1. PICK id : clash' = [clash EXCEPT ![w] = id]
    BY <1>5 DEF IncidentCollision
  <2>2. clash' = [v \in Workers |-> clash'[v]]
    BY <2>1 DEF TypeOK
  <2>3. /\ pc' = [pc EXCEPT ![w] = "diagnose"] /\ pc[w] = "inserted" /\ writer' = NoWorker
        /\ UNCHANGED <<events, receipts, collisions, diagnostics, frame, answer, opened,
                       answers, crashes>>
    BY <1>5 DEF IncidentCollision
  <2>4. /\ pc' \in [Workers -> Phases]
        /\ \A v \in Workers : (pc'[v] = pc[v] \/ pc'[v] = "diagnose") /\ (pc'[v] # "idle" => frame'[v] \in Frames)
    BY <2>3 DEF TypeOK
  <2> QED
    BY <2>2, <2>3, <2>4 DEF TypeOK
<1>6. ASSUME NEW w \in Workers, RecordIncidentCollision(w) PROVE TypeOK'
  <2>1. \A d \in diagnostics' : d.source \in {f.source : f \in Frames}
    BY <1>6 DEF TypeOK, RecordIncidentCollision
  <2>2. clash' = [v \in Workers |-> clash'[v]]
    BY <1>6 DEF TypeOK, RecordIncidentCollision
  <2>3. /\ pc' \in [Workers -> Phases] /\ answer' \in [Workers -> Verdicts \union {None}]
        /\ \A v \in Workers : pc'[v] = "reply" => answer'[v] \in {"rejected_permanent", "retry_later"}
    BY <1>6 DEF TypeOK, RecordIncidentCollision
  <2> QED
    BY <1>6, <2>1, <2>2, <2>3 DEF TypeOK, RecordIncidentCollision
<1>7. ASSUME NEW w \in Workers, CommitEvent(w) PROVE TypeOK'
  BY <1>7 DEF TypeOK, CommitEvent
<1>8. ASSUME NEW w \in Workers, CommitDuplicate(w) PROVE TypeOK'
  BY <1>8 DEF TypeOK, CommitDuplicate
<1>9. ASSUME NEW w \in Workers, CommitCollision(w) PROVE TypeOK'
  BY <1>9 DEF TypeOK, CommitCollision
<1>10. ASSUME NEW w \in Workers, StorageError(w) PROVE TypeOK'
  BY <1>10 DEF TypeOK, StorageError, FailingPhases, Released, ErrorVerdict
<1>11. ASSUME NEW w \in Workers, WriteNotice(w) PROVE TypeOK'
  BY <1>11 DEF TypeOK, WriteNotice
<1>12. ASSUME NEW w \in Workers, Answer(w) PROVE TypeOK'
  BY <1>12 DEF TypeOK, Answer, Answered, Finish
<1>13. ASSUME NEW w \in Workers, LoseAnswer(w) PROVE TypeOK'
  BY <1>13 DEF TypeOK, LoseAnswer, Answered, Finish
<1>14. CASE Crash
  BY <1>14 DEF TypeOK, Crash
<1>15. CASE UNCHANGED vars
  BY <1>15 DEF TypeOK, vars, InTransaction
<1> QED
  BY <1>1, <1>2, <1>3, <1>4, <1>5, <1>6, <1>7, <1>8, <1>9, <1>10, <1>11, <1>12,
     <1>13, <1>14, <1>15 DEF Next, Step

(* Every variable stays within its type, whatever the threads, the producers *)
(* and the crashes do.                                                       *)
THEOREM TypeCorrect == Spec => []TypeOK
BY TypeInit, TypeStep, PTL DEF Spec

----
(* The write lock and the threads inside a transaction agree: every path    *)
(* out of a transaction releases the lock, none takes another thread's.     *)
LEMMA TransactionInit == Init => OneTransaction
BY IngestAssumption DEF Init, OneTransaction, InTransaction

LEMMA TransactionStep == TypeOK /\ OneTransaction /\ [Next]_vars => OneTransaction'
<1> SUFFICES ASSUME TypeOK, OneTransaction, [Next]_vars PROVE OneTransaction'
  OBVIOUS
<1> USE FramesAreIdentified DEF TypeOK, InTransaction, tables, outputs
<1>1. ASSUME NEW w \in Workers, NEW f \in Frames, Receive(w, f) PROVE OneTransaction'
  BY <1>1 DEF OneTransaction, Receive
<1>2. ASSUME NEW w \in Workers, RejectInvalid(w) PROVE OneTransaction'
  BY <1>2 DEF OneTransaction, RejectInvalid
<1>3. ASSUME NEW w \in Workers, InsertEvent(w) PROVE OneTransaction'
  BY <1>3 DEF OneTransaction, InsertEvent, CanBegin
<1>4. ASSUME NEW w \in Workers, Correlate(w) PROVE OneTransaction'
  BY <1>4 DEF OneTransaction, Correlate
<1>5. ASSUME NEW w \in Workers, IncidentCollision(w) PROVE OneTransaction'
  BY <1>5 DEF OneTransaction, IncidentCollision
<1>6. ASSUME NEW w \in Workers, RecordIncidentCollision(w) PROVE OneTransaction'
  BY <1>6 DEF OneTransaction, RecordIncidentCollision
<1>7. ASSUME NEW w \in Workers, CommitEvent(w) PROVE OneTransaction'
  BY <1>7 DEF OneTransaction, CommitEvent
<1>8. ASSUME NEW w \in Workers, CommitDuplicate(w) PROVE OneTransaction'
  BY <1>8 DEF OneTransaction, CommitDuplicate
<1>9. ASSUME NEW w \in Workers, CommitCollision(w) PROVE OneTransaction'
  BY <1>9 DEF OneTransaction, CommitCollision
<1>10. ASSUME NEW w \in Workers, StorageError(w) PROVE OneTransaction'
  BY <1>10 DEF OneTransaction, StorageError, FailingPhases, Released
<1>11. ASSUME NEW w \in Workers, WriteNotice(w) PROVE OneTransaction'
  BY <1>11 DEF OneTransaction, WriteNotice
<1>12. ASSUME NEW w \in Workers, Answer(w) PROVE OneTransaction'
  BY <1>12 DEF OneTransaction, Answer, Answered, Finish
<1>13. ASSUME NEW w \in Workers, LoseAnswer(w) PROVE OneTransaction'
  BY <1>13 DEF OneTransaction, LoseAnswer, Answered, Finish
<1>14. CASE Crash
  BY <1>14 DEF OneTransaction, Crash
<1>15. CASE UNCHANGED vars
  BY <1>15 DEF OneTransaction, vars
<1> QED
  BY <1>1, <1>2, <1>3, <1>4, <1>5, <1>6, <1>7, <1>8, <1>9, <1>10, <1>11, <1>12,
     <1>13, <1>14, <1>15 DEF Next, Step

(* At most one thread is inside a transaction, and it holds the lock.        *)
THEOREM TransactionsExclude == Spec => []OneTransaction
<1>1. Init => TypeOK /\ OneTransaction
  BY TypeInit, TransactionInit
<1>2. TypeOK /\ OneTransaction /\ [Next]_vars => TypeOK' /\ OneTransaction'
  BY TypeStep, TransactionStep
<1> QED
  BY <1>1, <1>2, PTL DEF Spec

----
(* What a thread decided stays true.  A thread that found an identifier     *)
(* free commits it only while it holds the lock, and nobody else commits    *)
(* meanwhile; a row, once stored, stays.                                    *)
LEMMA DecisionsInit == Init => DecisionsHold
BY DEF Init, DecisionsHold, InTransaction

LEMMA DecisionsStep == TypeOK /\ OneTransaction /\ DecisionsHold /\ [Next]_vars => DecisionsHold'
<1> SUFFICES ASSUME TypeOK, OneTransaction, DecisionsHold, [Next]_vars PROVE DecisionsHold'
  OBVIOUS
<1> USE FramesAreIdentified DEF TypeOK, OneTransaction, InTransaction, NewIncidents, tables, outputs
<1>1. ASSUME NEW w \in Workers, NEW f \in Frames, Receive(w, f) PROVE DecisionsHold'
  BY <1>1 DEF DecisionsHold, Receive
<1>2. ASSUME NEW w \in Workers, RejectInvalid(w) PROVE DecisionsHold'
  BY <1>2 DEF DecisionsHold, RejectInvalid
<1>3. ASSUME NEW w \in Workers, InsertEvent(w) PROVE DecisionsHold'
  <2>1. pc[w] = "received" /\ writer = NoWorker /\ UNCHANGED <<events, incidents, collisions, frame, opened>>
    BY <1>3 DEF InsertEvent, CanBegin
  <2>2. \A v \in Workers \ {w} : pc'[v] = pc[v] /\ answer'[v] = answer[v] /\ ~ InTransaction(v)
    BY <1>3 DEF InsertEvent, CanBegin
  <2>3. CASE \A row \in events : row.event.id # frame[w].event.id
    <3>1. pc'[w] = "inserted" /\ answer'[w] = "persisted"
      BY <1>3, <2>3 DEF InsertEvent
    <3> QED
      BY <2>1, <2>2, <2>3, <3>1 DEF DecisionsHold
  <2>4. CASE \E row \in events : row.event.id = frame[w].event.id
    <3>1. /\ pc'[w] = "staged"
          /\ answer'[w] = IF frame[w] \in events THEN "duplicate" ELSE "collision"
      BY <1>3, <2>4 DEF InsertEvent, Classify
    <3> QED
      BY <2>1, <2>2, <2>4, <3>1 DEF DecisionsHold
  <2> QED
    BY <2>3, <2>4
<1>4. ASSUME NEW w \in Workers, Correlate(w) PROVE DecisionsHold'
  BY <1>4 DEF DecisionsHold, Correlate
<1>5. ASSUME NEW w \in Workers, IncidentCollision(w) PROVE DecisionsHold'
  BY <1>5 DEF DecisionsHold, IncidentCollision
<1>6. ASSUME NEW w \in Workers, RecordIncidentCollision(w) PROVE DecisionsHold'
  BY <1>6 DEF DecisionsHold, RecordIncidentCollision
<1>7. ASSUME NEW w \in Workers, CommitEvent(w) PROVE DecisionsHold'
  BY <1>7 DEF DecisionsHold, CommitEvent
<1>8. ASSUME NEW w \in Workers, CommitDuplicate(w) PROVE DecisionsHold'
  BY <1>8 DEF DecisionsHold, CommitDuplicate
<1>9. ASSUME NEW w \in Workers, CommitCollision(w) PROVE DecisionsHold'
  BY <1>9 DEF DecisionsHold, CommitCollision
<1>10. ASSUME NEW w \in Workers, StorageError(w) PROVE DecisionsHold'
  BY <1>10 DEF DecisionsHold, StorageError, FailingPhases, ErrorVerdict
<1>11. ASSUME NEW w \in Workers, WriteNotice(w) PROVE DecisionsHold'
  BY <1>11 DEF DecisionsHold, WriteNotice, Notifies
<1>12. ASSUME NEW w \in Workers, Answer(w) PROVE DecisionsHold'
  BY <1>12 DEF DecisionsHold, Answer, Answered, Finish
<1>13. ASSUME NEW w \in Workers, LoseAnswer(w) PROVE DecisionsHold'
  BY <1>13 DEF DecisionsHold, LoseAnswer, Answered, Finish
<1>14. CASE Crash
  BY <1>14 DEF DecisionsHold, Crash
<1>15. CASE UNCHANGED vars
  BY <1>15 DEF DecisionsHold, vars
<1> QED
  BY <1>1, <1>2, <1>3, <1>4, <1>5, <1>6, <1>7, <1>8, <1>9, <1>10, <1>11, <1>12,
     <1>13, <1>14, <1>15 DEF Next, Step

(* The inductive invariant of ingestion.  Uniqueness and durability are not *)
(* inductive alone: they rest on what the threads decided, and that on the  *)
(* exclusion of transactions.                                               *)
IngestInvariant ==
  TypeOK /\ OneTransaction /\ DecisionsHold /\ OneRowPerEvent /\ AnswersDurable

(* Only a commit changes the tables of events and collisions, and only the  *)
(* delivery of an answer changes the answers.                               *)
LEMMA QuietStep ==
  ASSUME OneRowPerEvent, AnswersDurable, UNCHANGED <<events, collisions, answers>>
  PROVE  OneRowPerEvent' /\ AnswersDurable'
BY DEF OneRowPerEvent, AnswersDurable

LEMMA UniqueStep == IngestInvariant /\ [Next]_vars => OneRowPerEvent' /\ AnswersDurable'
<1> SUFFICES ASSUME IngestInvariant, [Next]_vars PROVE OneRowPerEvent' /\ AnswersDurable'
  OBVIOUS
<1> USE DEF IngestInvariant, tables, outputs
<1>1. ASSUME NEW w \in Workers, CommitEvent(w) PROVE OneRowPerEvent' /\ AnswersDurable'
  <2>1. \A row \in events : row.event.id # frame[w].event.id
    BY <1>1 DEF CommitEvent, DecisionsHold, InTransaction
  <2>2. events' = events \union {frame[w]} /\ UNCHANGED <<collisions, answers>>
    BY <1>1 DEF CommitEvent
  <2>3. OneRowPerEvent'
    BY <2>1, <2>2 DEF OneRowPerEvent
  <2>4. AnswersDurable'
    BY <2>1, <2>2 DEF AnswersDurable
  <2> QED
    BY <2>3, <2>4
<1>2. ASSUME NEW w \in Workers, CommitCollision(w) PROVE OneRowPerEvent' /\ AnswersDurable'
  BY <1>2 DEF CommitCollision, OneRowPerEvent, AnswersDurable
<1>3. ASSUME NEW w \in Workers, Answer(w) PROVE OneRowPerEvent' /\ AnswersDurable'
  <2>1. OneRowPerEvent'
    BY <1>3 DEF Answer, OneRowPerEvent
  <2>2. CASE pc[w] = "reply"
    <3>1. answer[w] \in {"rejected_permanent", "retry_later"}
      BY <2>2 DEF TypeOK
    <3>2. UNCHANGED <<events, collisions>> /\ \A a \in answers' : a \in answers \/ a.verdict = "rejected_permanent"
      BY <1>3, <3>1 DEF Answer, Terminal
    <3> QED
      BY <2>1, <3>2 DEF AnswersDurable
  <2>3. CASE pc[w] = "committed"
    <3>1. answer[w] \in {"persisted", "duplicate", "collision"}
      BY <2>3 DEF TypeOK
    <3>2. answers' = answers \union {[frame |-> frame[w], verdict |-> answer[w]]} /\ UNCHANGED <<events, collisions>>
      BY <1>3, <3>1 DEF Answer, Terminal
    <3>3. /\ answer[w] \in {"persisted", "duplicate"} => frame[w] \in events
          /\ answer[w] = "collision" =>
               /\ frame[w] \notin events
               /\ \E row \in events : row.event.id = frame[w].event.id
               /\ [id |-> frame[w].event.id, source |-> frame[w].source] \in collisions
      BY <2>3 DEF DecisionsHold
    <3> QED
      BY <2>1, <3>2, <3>3 DEF AnswersDurable
  <2> QED
    BY <1>3, <2>2, <2>3 DEF Answer, Answered
<1>4. CASE UNCHANGED <<events, collisions, answers>>
  BY <1>4, QuietStep
<1>5. ASSUME NEW w \in Workers, Step(w)
      PROVE  \/ UNCHANGED <<events, collisions, answers>>
             \/ CommitEvent(w) \/ CommitCollision(w) \/ Answer(w)
  BY <1>5 DEF Step, RejectInvalid, InsertEvent, Correlate, IncidentCollision,
     RecordIncidentCollision, CommitDuplicate, StorageError, WriteNotice, LoseAnswer
<1>6. ASSUME NEW w \in Workers, NEW f \in Frames, Receive(w, f)
      PROVE  UNCHANGED <<events, collisions, answers>>
  BY <1>6 DEF Receive
<1>7. Crash \/ UNCHANGED vars => UNCHANGED <<events, collisions, answers>>
  BY DEF Crash, vars
<1> QED
  BY <1>1, <1>2, <1>3, <1>4, <1>5, <1>6, <1>7 DEF Next

LEMMA IngestInvariantHolds == Spec => []IngestInvariant
<1>1. Init => IngestInvariant
  BY TypeInit, TransactionInit, DecisionsInit, IngestAssumption
     DEF IngestInvariant, Init, OneRowPerEvent, AnswersDurable
<1>2. IngestInvariant /\ [Next]_vars => IngestInvariant'
  BY TypeStep, TransactionStep, DecisionsStep, UniqueStep DEF IngestInvariant
<1> QED
  BY <1>1, <1>2, PTL DEF Spec

(* Between the moment a thread decides what an event is and the moment it   *)
(* commits or answers, no other thread makes the decision wrong.            *)
THEOREM DecisionsStayTrue == Spec => []DecisionsHold
BY IngestInvariantHolds, PTL DEF IngestInvariant

(* Threads that race to insert one identifier leave one row.                *)
THEOREM RowsAreUnique == Spec => []OneRowPerEvent
BY IngestInvariantHolds, PTL DEF IngestInvariant

(* Every terminal answer a producer received is true of the tables, in that *)
(* state and in every later one.                                            *)
THEOREM AnswersAreDurable == Spec => []AnswersDurable
BY IngestInvariantHolds, PTL DEF IngestInvariant

----
(* The receipt of an event.  A commit appends the receipt of a row whose    *)
(* identifier no row, hence no receipt, had before.                         *)
LEMMA ReceiptsStep ==
  IngestInvariant /\ ReceiptsMatchEvents /\ [Next]_vars => ReceiptsMatchEvents'
<1> SUFFICES ASSUME IngestInvariant, ReceiptsMatchEvents, [Next]_vars
             PROVE  ReceiptsMatchEvents'
  OBVIOUS
<1> USE DEF IngestInvariant, tables, outputs
<1>1. ASSUME NEW w \in Workers, CommitEvent(w) PROVE ReceiptsMatchEvents'
  <2> DEFINE new == [id |-> frame[w].event.id, source |-> frame[w].source]
             n == Len(receipts)
  <2>1. /\ events' = events \union {frame[w]}
        /\ receipts' = Append(receipts, new)
        /\ \A row \in events : row.event.id # new.id
    BY <1>1 DEF CommitEvent, DecisionsHold, InTransaction
  <2>2. receipts \in Seq([id : Nat, source : {f.source : f \in Frames}])
    BY DEF TypeOK
  <2>3. new \in [id : Nat, source : {f.source : f \in Frames}]
    BY <1>1, IngestAssumption DEF CommitEvent, TypeOK
  <2>4. /\ DOMAIN receipts = 1 .. n /\ n \in Nat
        /\ DOMAIN receipts' = 1 .. n + 1
        /\ \A i \in 1 .. n : receipts'[i] = receipts[i]
        /\ receipts'[n + 1] = new
    BY <2>1, <2>2, <2>3
  <2>5. \A i \in DOMAIN receipts' :
          \E row \in events' : row.event.id = receipts'[i].id /\ row.source = receipts'[i].source
    BY <2>1, <2>4 DEF ReceiptsMatchEvents
  <2>6. \A row \in events' :
          row.source # None => \E i \in DOMAIN receipts' : receipts'[i].id = row.event.id
    BY <2>1, <2>4 DEF ReceiptsMatchEvents
  <2>7. \A i \in 1 .. n : receipts[i].id # new.id
    BY <2>1, <2>4 DEF ReceiptsMatchEvents
  <2>8. \A i, j \in DOMAIN receipts' : receipts'[i].id = receipts'[j].id => i = j
    BY <2>4, <2>7 DEF ReceiptsMatchEvents
  <2> QED
    BY <2>5, <2>6, <2>8 DEF ReceiptsMatchEvents
<1>2. ASSUME UNCHANGED <<events, receipts>> PROVE ReceiptsMatchEvents'
  BY <1>2 DEF ReceiptsMatchEvents
<1>3. ASSUME NEW w \in Workers, Step(w)
      PROVE  CommitEvent(w) \/ UNCHANGED <<events, receipts>>
  BY <1>3 DEF Step, RejectInvalid, InsertEvent, Correlate, IncidentCollision,
     RecordIncidentCollision, CommitDuplicate, CommitCollision, StorageError, WriteNotice,
     Answer, LoseAnswer
<1>4. ASSUME NEW w \in Workers, NEW f \in Frames, Receive(w, f)
      PROVE  UNCHANGED <<events, receipts>>
  BY <1>4 DEF Receive
<1>5. Crash \/ UNCHANGED vars => UNCHANGED <<events, receipts>>
  BY DEF Crash, vars
<1> QED
  BY <1>1, <1>2, <1>3, <1>4, <1>5 DEF Next

(* No crash, error or race ever separates an event from its receipt, or     *)
(* gives an event two of them.                                              *)
THEOREM ReceiptsAreAtomic == Spec => []ReceiptsMatchEvents
<1>1. Init => ReceiptsMatchEvents
  BY IngestAssumption DEF Init, ReceiptsMatchEvents
<1> QED
  BY <1>1, ReceiptsStep, IngestInvariantHolds, PTL DEF Spec

----
(* Refinement: a commit records its frame with its incidents, every other   *)
(* step leaves the ledger as it is.                                         *)
LEMMA CommitRecords ==
  ASSUME IngestInvariant, NEW w \in Workers, CommitEvent(w)
  PROVE  Ledger!LedgerNext
<1> USE DEF IngestInvariant
<1>1. frame[w] \in Frames
  BY DEF CommitEvent, TypeOK
<1>2. \A row \in events : row.event.id # frame[w].event.id
  BY DEF CommitEvent, DecisionsHold, InTransaction
<1>3. /\ \A incident \in NewIncidents(w) : ~ Contradicts(incidents, incident)
      /\ opened[w] = NewIncidents(w) \ incidents
  BY DEF CommitEvent, DecisionsHold
<1>4. incidents' = incidents \union NewIncidents(w)
  BY <1>3 DEF CommitEvent
<1>5. Ledger!Record(frame[w])
  BY <1>2, <1>3, <1>4
     DEF CommitEvent, NewIncidents, RowsOf, Contradicts, Ledger!Record, Ledger!Recorded
<1> QED
  BY <1>1, <1>5 DEF Ledger!LedgerNext

LEMMA StepRefines == IngestInvariant /\ [Next]_vars => [Ledger!LedgerNext]_(Ledger!ledgerVars)
<1> SUFFICES ASSUME IngestInvariant, [Next]_vars
             PROVE  Ledger!LedgerNext \/ UNCHANGED <<events, receipts, incidents>>
  BY DEF Ledger!ledgerVars
<1> USE DEF tables, outputs
<1>1. ASSUME NEW w \in Workers, Step(w)
      PROVE  CommitEvent(w) \/ UNCHANGED <<events, receipts, incidents>>
  BY <1>1 DEF Step, RejectInvalid, InsertEvent, Correlate, IncidentCollision,
     RecordIncidentCollision, CommitDuplicate, CommitCollision, StorageError, WriteNotice,
     Answer, LoseAnswer
<1>2. ASSUME NEW w \in Workers, NEW f \in Frames, Receive(w, f)
      PROVE  UNCHANGED <<events, receipts, incidents>>
  BY <1>2 DEF Receive
<1>3. Crash \/ UNCHANGED vars => UNCHANGED <<events, receipts, incidents>>
  BY DEF Crash, vars
<1> QED
  BY <1>1, <1>2, <1>3, CommitRecords DEF Next

(* Continuous ingestion implements the ledger: every execution, whatever    *)
(* the number of threads, frames and crashes, looks like a sequence of      *)
(* frames recorded one at a time with the incidents they correlate into.    *)
THEOREM IngestImplementsLedger == Spec => ImplementsLedger
<1>1. Init => Ledger!LedgerInit
  BY DEF Init, Ledger!LedgerInit
<1>2. IngestInvariant /\ [Next]_vars => [Ledger!LedgerNext]_(Ledger!ledgerVars)
  BY StepRefines
<1> QED
  BY <1>1, <1>2, IngestInvariantHolds, PTL DEF Spec, ImplementsLedger, Ledger!LedgerSpec

----
(* Notices.  Only a transaction that is staged or committed has opened       *)
(* anything, and only when it persists its event.                           *)
OpenedHold ==
  \A w \in Workers :
    opened[w] # {} => pc[w] \in {"staged", "committed"} /\ answer[w] = "persisted"

LEMMA OpenedStep ==
  ASSUME TypeOK, OpenedHold, NEW w \in Workers, Step(w)
  PROVE  OpenedHold'
<1> USE DEF TypeOK, OpenedHold, tables, outputs
<1>1. CASE RejectInvalid(w) \/ InsertEvent(w)
  BY <1>1 DEF RejectInvalid, InsertEvent
<1>2. CASE Correlate(w)
  BY <1>2 DEF Correlate
<1>3. CASE IncidentCollision(w) \/ RecordIncidentCollision(w)
  BY <1>3 DEF IncidentCollision, RecordIncidentCollision
<1>4. CASE CommitEvent(w) \/ CommitDuplicate(w) \/ CommitCollision(w)
  BY <1>4 DEF CommitEvent, CommitDuplicate, CommitCollision
<1>5. CASE StorageError(w)
  BY <1>5 DEF StorageError
<1>6. CASE WriteNotice(w)
  BY <1>6 DEF WriteNotice, Notifies
<1>7. CASE Answer(w) \/ LoseAnswer(w)
  BY <1>7 DEF Answer, LoseAnswer, Answered, Finish
<1> QED
  BY <1>1, <1>2, <1>3, <1>4, <1>5, <1>6, <1>7 DEF Step

LEMMA NoticesStep ==
  ASSUME IngestInvariant, OpenedHold, NoticesFollowCommit, NEW w \in Workers, Step(w)
  PROVE  NoticesFollowCommit'
<1> USE DEF IngestInvariant, TypeOK, tables, outputs
<1>1. CASE CommitEvent(w)
  <2>1. /\ opened[w] \intersect incidents = {}
        /\ incidents' = incidents \union opened[w]
        /\ UNCHANGED <<opened, notices>>
        /\ \A v \in Workers \ {w} : pc'[v] = pc[v]
    BY <1>1 DEF CommitEvent, DecisionsHold
  <2>2. notices' \subseteq incidents'
    BY <2>1 DEF NoticesFollowCommit
  <2>3. /\ opened'[w] \subseteq incidents'
        /\ opened'[w] \intersect notices' = {}
        /\ \A v \in Workers \ {w} : pc'[v] = "committed" => opened'[v] \intersect opened'[w] = {}
    BY <2>1 DEF NoticesFollowCommit
  <2>4. ASSUME NEW v \in Workers \ {w}, pc'[v] = "committed"
        PROVE  /\ opened'[v] \subseteq incidents'
               /\ opened'[v] \intersect notices' = {}
               /\ \A u \in Workers \ {v, w} :
                    pc'[u] = "committed" => opened'[u] \intersect opened'[v] = {}
    BY <2>1, <2>4 DEF NoticesFollowCommit
  <2> QED
    BY <2>2, <2>3, <2>4 DEF NoticesFollowCommit
<1>2. CASE WriteNotice(w)
  <2>1. PICK incident \in opened[w] :
          /\ opened' = [opened EXCEPT ![w] = @ \ {incident}]
          /\ notices' \in {notices, notices \union {incident}}
    BY <1>2 DEF WriteNotice
  <2>2. pc[w] = "committed" /\ UNCHANGED <<pc, incidents>>
    BY <1>2 DEF WriteNotice, Notifies
  <2>3. opened'[w] = opened[w] \ {incident} /\ \A v \in Workers \ {w} : opened'[v] = opened[v]
    BY <2>1
  <2>4. notices' \subseteq incidents'
    BY <2>1, <2>2 DEF NoticesFollowCommit
  <2>5. ASSUME NEW v \in Workers, pc'[v] = "committed"
        PROVE  /\ opened'[v] \subseteq incidents'
               /\ opened'[v] \intersect notices' = {}
               /\ \A u \in Workers \ {v} :
                    pc'[u] = "committed" => opened'[u] \intersect opened'[v] = {}
    <3>1. /\ opened'[v] \subseteq opened[v]
          /\ opened[v] \subseteq incidents
          /\ opened[v] \intersect notices = {}
          /\ v # w => opened[v] \intersect opened[w] = {}
      BY <2>2, <2>3, <2>5 DEF NoticesFollowCommit
    <3>2. \A u \in Workers \ {v} : pc[u] = "committed" => opened[u] \intersect opened[v] = {}
      BY <2>2, <2>5 DEF NoticesFollowCommit
    <3> QED
      BY <2>1, <2>2, <2>3, <3>1, <3>2
  <2> QED
    BY <2>4, <2>5 DEF NoticesFollowCommit
<1>3. CASE CommitDuplicate(w) \/ CommitCollision(w)
  <2>1. opened[w] = {}
    BY <1>3 DEF CommitDuplicate, CommitCollision, OpenedHold
  <2> QED
    BY <1>3, <2>1 DEF CommitDuplicate, CommitCollision, NoticesFollowCommit
<1>4. CASE RejectInvalid(w) \/ InsertEvent(w) \/ IncidentCollision(w) \/ RecordIncidentCollision(w)
  BY <1>4 DEF RejectInvalid, InsertEvent, IncidentCollision, RecordIncidentCollision,
              NoticesFollowCommit
<1>5. CASE Correlate(w) \/ StorageError(w)
  BY <1>5 DEF Correlate, StorageError, FailingPhases, NoticesFollowCommit
<1>6. CASE Answer(w) \/ LoseAnswer(w)
  BY <1>6 DEF Answer, LoseAnswer, Finish, NoticesFollowCommit
<1> QED
  BY <1>1, <1>2, <1>3, <1>4, <1>5, <1>6 DEF Step

(* An alert notice is about an incident that is durable, and no two threads  *)
(* are about to write the same one, nor one that was written.               *)
THEOREM NoticesAreDurable == Spec => []NoticesFollowCommit
<1>1. Init => OpenedHold /\ NoticesFollowCommit
  BY DEF Init, OpenedHold, NoticesFollowCommit
<1>2. IngestInvariant /\ OpenedHold /\ NoticesFollowCommit /\ [Next]_vars
        => OpenedHold' /\ NoticesFollowCommit'
  <2> SUFFICES ASSUME IngestInvariant, OpenedHold, NoticesFollowCommit, [Next]_vars
               PROVE  OpenedHold' /\ NoticesFollowCommit'
    OBVIOUS
  <2>1. ASSUME NEW w \in Workers, Step(w)
        PROVE  OpenedHold' /\ NoticesFollowCommit'
    BY <2>1, OpenedStep, NoticesStep DEF IngestInvariant
  <2>2. ASSUME NEW w \in Workers, NEW f \in Frames, Receive(w, f)
        PROVE  OpenedHold' /\ NoticesFollowCommit'
    BY <2>2 DEF Receive, OpenedHold, NoticesFollowCommit, IngestInvariant, TypeOK, tables, outputs
  <2>3. CASE Crash
    BY <2>3 DEF Crash, OpenedHold, NoticesFollowCommit, tables, outputs
  <2>4. CASE UNCHANGED vars
    BY <2>4 DEF vars, OpenedHold, NoticesFollowCommit
  <2> QED
    BY <2>1, <2>2, <2>3, <2>4 DEF Next
<1> QED
  BY <1>1, <1>2, IngestInvariantHolds, PTL DEF Spec

----
(* What ingestion inherits.  The operators of Correlation as the theorems    *)
(* about the ledger name them are the ones ingestion uses.                  *)
LEMMA SameOrder ==
  /\ \A a, b : Correlated!Before(a, b) = Before(a, b)
  /\ \A S : Correlated!Earliest(S) = Earliest(S) /\ Correlated!Latest(S) = Latest(S)
BY DEF Correlated!Before, Before, Correlated!Earliest, Earliest, Correlated!Latest, Latest

LEMMA SameCandidates ==
  \A stored, trigger : /\ Correlated!Candidates(stored, trigger) = Candidates(stored, trigger)
                       /\ Correlated!Truncated(stored, trigger) = Truncated(stored, trigger)
<1>1. \A S : Correlated!Cardinality(S) = Cardinality(S)
  BY DEF Correlated!Cardinality, Cardinality
<1>2. \A S : Correlated!Max(S) = Max(S)
  BY DEF Correlated!Max, Max
<1>3. Correlated!MaxRuleWindow = MaxRuleWindow
  BY <1>2 DEF Correlated!MaxRuleWindow, MaxRuleWindow
<1>4. \A stored, trigger : Correlated!Eligible(stored, trigger) = Eligible(stored, trigger)
  BY <1>3 DEF Correlated!Eligible, Eligible, Correlated!Within, Within
<1>5. \A S, n : Correlated!Newest(S, n) = Newest(S, n)
  BY <1>1, SameOrder DEF Correlated!Newest, Newest
<1> QED
  BY <1>1, <1>4, <1>5 DEF Correlated!Candidates, Candidates, Correlated!Truncated, Truncated

LEMMA SameP1 ==
  \A cands, trigger : Correlated!P1Incidents(cands, trigger) = P1Incidents(cands, trigger)
BY DEF Correlated!Before, Before, Correlated!Earliest, Earliest, Correlated!Latest, Latest,
   Correlated!P1Incidents, P1Incidents, Correlated!P1Pairs, P1Pairs, Correlated!Exfiltrates,
   Exfiltrates, Correlated!P1Joined, P1Joined, Correlated!Within, Within, Correlated!Cites, Cites

LEMMA SameMatches ==
  \A cands, trigger : Correlated!SequenceMatches(cands, trigger) = SequenceMatches(cands, trigger)
BY DEF Correlated!Before, Before, Correlated!Earliest, Earliest, Correlated!Latest, Latest,
   Correlated!SequenceMatches, SequenceMatches, Correlated!MatchesOf, MatchesOf,
   Correlated!Successors, Successors, Correlated!Predecessors, Predecessors,
   Correlated!Preceding, Preceding, Correlated!Completes, Completes, Correlated!SameJoin,
   SameJoin, Correlated!PairLeq, PairLeq, Correlated!Within, Within

LEMMA SameIncidents ==
  \A source, stored, trigger :
    Correlated!IncidentsOf(source, stored, trigger) = IncidentsOf(source, stored, trigger)
BY SameCandidates, SameP1, SameMatches
   DEF IncidentsOf, Correlated!IncidentsOf, Correlated!Cites, Cites,
       Correlated!DegradedIncident, DegradedIncident

(* The assumptions those theorems rest on.                                  *)
LEMMA LedgerAssumptionsHold == Correlated!CorrelationAssumption /\ Correlated!LedgerAssumption
BY CorrelationAssumption, IngestAssumption
   DEF Correlated!CorrelationAssumption, Correlated!LedgerAssumption, Correlated!OtherKinds,
       OtherKinds, Correlated!IsFiniteSet, IsFiniteSet

LEMMA IngestIsCorrelatedLedger == Spec => Correlated!LedgerSpec
<1>1. Ledger!LedgerInit => Correlated!LedgerInit
  BY DEF Ledger!LedgerInit, Correlated!LedgerInit
<1>2. [Ledger!LedgerNext]_(Ledger!ledgerVars) => [Correlated!LedgerNext]_(Correlated!ledgerVars)
  <2>1. ASSUME NEW f \in Frames, Ledger!Record(f) PROVE Correlated!Record(f)
    BY <2>1, SameIncidents
       DEF Ledger!Record, Ledger!Recorded, Correlated!Record, Correlated!Recorded
  <2> QED
    BY <2>1 DEF Ledger!LedgerNext, Correlated!LedgerNext, Ledger!ledgerVars, Correlated!ledgerVars
<1> QED
  BY <1>1, <1>2, IngestImplementsLedger, PTL
     DEF ImplementsLedger, Ledger!LedgerSpec, Correlated!LedgerSpec

(* No interleaving of threads, lost answer or crash lets a qualifying pair   *)
(* into the tables without an incident: what holds of the ledger holds of   *)
(* the tables of the daemon.                                                *)
THEOREM IngestReportsExfiltration == Spec => []Correlated!ExfiltrationReported
<1>1. Correlated!LedgerSpec => []Correlated!ExfiltrationReported
  BY Correlated!ExfiltrationNeverSilent, LedgerAssumptionsHold
<1> QED
  BY <1>1, IngestIsCorrelatedLedger, PTL

(* The tables of the daemon never hold the two steps of a sequence rule in  *)
(* silence, but for the case that the search floor excuses.                 *)
THEOREM IngestReportsSequences == Spec => []Correlated!SequenceReported
<1>1. Correlated!LedgerSpec => []Correlated!SequenceReported
  BY Correlated!SequenceNeverSilent, LedgerAssumptionsHold
<1> QED
  BY <1>1, IngestIsCorrelatedLedger, PTL

(* When the commits follow the times of the events, the tables of the daemon *)
(* hold the incidents that the batch engine finds in them.                  *)
THEOREM IngestAgreesWithBatch == Spec => []Correlated!AgreesWithBatch
<1>1. Correlated!LedgerSpec => []Correlated!AgreesWithBatch
  BY Correlated!AgreementWithBatch, LedgerAssumptionsHold
<1> QED
  BY <1>1, IngestIsCorrelatedLedger, PTL

----
(* Incident collisions.  The identifier of an incident names the event that  *)
(* opened it, and that event is stored with it, so a transaction that found *)
(* its event's identifier free finds the identifiers of its incidents free, *)
(* but for those another path of the program took.                          *)
NamesStored(id) == \A k \in DOMAIN id.cites : \E row \in events : row.event.id = id.cites[k]

OwnIncidents == incidents \ ForeignIncidents

IsForeign(id) == \E foreign \in ForeignIncidents : foreign.id = id

CollisionsHold ==
  /\ IsFiniteSet(events)
  /\ \A incident \in OwnIncidents : NamesStored(incident.id)
  /\ \A w \in Workers : pc[w] = "diagnose" => IsForeign(clash[w])
  /\ OnlyForeignIncidentsCollide

Uncommitted(w) == InTransaction(w) /\ answer[w] = "persisted"

LEMMA NewIncidentsName ==
  ASSUME IngestInvariant, CollisionsHold, NEW w \in Workers, Uncommitted(w),
         NEW incident \in NewIncidents(w)
  PROVE  /\ \E k \in DOMAIN incident.id.cites : incident.id.cites[k] = frame[w].event.id
         /\ \A k \in DOMAIN incident.id.cites :
              \/ incident.id.cites[k] = frame[w].event.id
              \/ \E row \in events : row.event.id = incident.id.cites[k]
<1> DEFINE f == frame[w]
           rows == {row \in events : row.source = f.source}
           stored == RowsOf(events, f.source)
           eventOf == [row \in rows |-> row.event]
<1>1. f \in Frames /\ f.source # None
  BY IngestAssumption DEF Uncommitted, InTransaction, IngestInvariant, TypeOK
<1>2. \A row \in events : row.event.id # f.event.id
  BY DEF Uncommitted, IngestInvariant, DecisionsHold
<1>3. IsFiniteSet(stored)
  <2>1. rows \in SUBSET events /\ IsFiniteSet(events)
    BY DEF CollisionsHold
  <2>2. eventOf \in Surjection(rows, stored)
    BY DEF Surjection, RowsOf
  <2> HIDE DEF rows, stored, eventOf
  <2>3. IsFiniteSet(rows)
    BY <2>1, FS_Subset
  <2> QED
    BY <2>2, <2>3, FS_Surjection
<1>4. \A row \in rows : row \in Frames
  BY <1>1, IngestAssumption DEF IngestInvariant, TypeOK
<1>5. \A e \in stored : e.id \in Nat /\ e.time \in Nat /\ e.id # f.event.id
  BY <1>2, <1>4, IngestAssumption DEF RowsOf
<1>6. \A e, o \in stored : e.id = o.id => e = o
  BY DEF RowsOf, IngestInvariant, OneRowPerEvent
<1>7. f.event.id \in Nat /\ f.event.time \in Nat
  BY <1>1, IngestAssumption
<1>8. incident \in Correlated!IncidentsOf(f.source, stored, f.event)
  BY SameIncidents DEF NewIncidents
<1>9. \A e \in stored : \E row \in events : row.event.id = e.id
  BY DEF RowsOf
<1> HIDE DEF f, stored
<1>10. Correlated!Arriving(stored, f.event)
  BY <1>3, <1>5, <1>6, <1>7
     DEF Correlated!Arriving, Correlated!Distinguished, Correlated!Numbered,
         Correlated!IsFiniteSet, IsFiniteSet
<1>11. Correlated!CitesArrival(incident, stored, f.event)
  BY <1>8, <1>10, LedgerAssumptionsHold, Correlated!IncidentsCiteTheArrival
<1>12. /\ \E k \in DOMAIN incident.id.cites : incident.id.cites[k] = f.event.id
       /\ \A k \in DOMAIN incident.id.cites :
            \/ incident.id.cites[k] = f.event.id
            \/ \E row \in events : row.event.id = incident.id.cites[k]
  <2>1. PICK cites : /\ incident.id.cites = cites
                     /\ DOMAIN cites = DOMAIN incident.payload
                     /\ \A k \in DOMAIN cites : cites[k] = incident.payload[k].id
    BY <1>11 DEF Correlated!CitesArrival
  <2>2. /\ \A k \in DOMAIN incident.payload : incident.payload[k] \in stored \union {f.event}
        /\ \E k \in DOMAIN incident.payload : incident.payload[k] = f.event
    BY <1>11 DEF Correlated!CitesArrival
  <2> QED
    BY <1>9, <2>1, <2>2
<1> QED
  BY <1>12 DEF f

LEMMA CollisionIsForeign ==
  ASSUME IngestInvariant, CollisionsHold, NEW w \in Workers, Uncommitted(w),
         NEW incident \in NewIncidents(w), Contradicts(incidents, incident)
  PROVE  IsForeign(incident.id)
<1>1. PICK other \in incidents : other.id = incident.id
  BY DEF Contradicts
<1>2. CASE other \in OwnIncidents
  <2>1. PICK k \in DOMAIN incident.id.cites : incident.id.cites[k] = frame[w].event.id
    BY NewIncidentsName
  <2>2. \E row \in events : row.event.id = frame[w].event.id
    BY <1>1, <1>2, <2>1 DEF CollisionsHold, NamesStored
  <2> QED
    BY <2>2 DEF Uncommitted, IngestInvariant, DecisionsHold
<1> QED
  BY <1>1, <1>2 DEF OwnIncidents, IsForeign

(* What a transaction committed is named by stored events.                  *)
LEMMA CommitNamesStored ==
  ASSUME IngestInvariant, CollisionsHold, NEW w \in Workers, CommitEvent(w)
  PROVE  CollisionsHold'
<1>1. pc[w] = "staged" /\ answer[w] = "persisted" /\ Uncommitted(w)
  BY DEF CommitEvent, Uncommitted, InTransaction
<1>2. /\ events' = events \union {frame[w]}
      /\ incidents' = incidents \union opened[w]
      /\ pc' = [pc EXCEPT ![w] = "committed"]
      /\ UNCHANGED <<diagnostics, clash>>
  BY DEF CommitEvent
<1>3. opened[w] \subseteq NewIncidents(w)
  BY <1>1 DEF IngestInvariant, DecisionsHold
<1>4. IsFiniteSet(events')
  BY <1>2, FS_AddElement DEF CollisionsHold
<1>5. ASSUME NEW incident \in OwnIncidents' PROVE NamesStored(incident.id)'
  <2>1. CASE incident \in OwnIncidents
    BY <1>2, <2>1 DEF CollisionsHold, NamesStored
  <2>2. CASE incident \in NewIncidents(w)
    BY <1>1, <1>2, <2>2, NewIncidentsName DEF NamesStored
  <2> QED
    BY <1>2, <1>3, <1>5, <2>1, <2>2 DEF OwnIncidents
<1>6. \A v \in Workers : pc'[v] = "diagnose" => pc[v] = "diagnose"
  BY <1>2 DEF IngestInvariant, TypeOK
<1>7. /\ \A v \in Workers : pc'[v] = "diagnose" => IsForeign(clash'[v])
      /\ OnlyForeignIncidentsCollide'
  BY <1>2, <1>6 DEF CollisionsHold, OnlyForeignIncidentsCollide
<1> QED
  BY <1>4, <1>5, <1>7 DEF CollisionsHold, IsForeign

LEMMA CollisionsStep == IngestInvariant /\ CollisionsHold /\ [Next]_vars => CollisionsHold'
<1> SUFFICES ASSUME IngestInvariant, CollisionsHold, [Next]_vars PROVE CollisionsHold'
  OBVIOUS
<1> USE DEF tables, outputs
<1>1. ASSUME UNCHANGED <<events, incidents, diagnostics>>,
             \A v \in Workers : pc'[v] = "diagnose" => IsForeign(clash'[v])
      PROVE  CollisionsHold'
  BY <1>1 DEF CollisionsHold, OwnIncidents, NamesStored, IsForeign, OnlyForeignIncidentsCollide
<1>2. ASSUME NEW w \in Workers, IncidentCollision(w) PROVE CollisionsHold'
  <2>1. PICK incident \in NewIncidents(w) :
          Contradicts(incidents, incident) /\ clash' = [clash EXCEPT ![w] = incident.id]
    BY <1>2 DEF IncidentCollision
  <2>2. Uncommitted(w)
    BY <1>2 DEF IncidentCollision, Uncommitted, InTransaction, IngestInvariant, TypeOK
  <2>3. IsForeign(incident.id)
    BY <2>1, <2>2, CollisionIsForeign
  <2>4. pc' = [pc EXCEPT ![w] = "diagnose"] /\ UNCHANGED <<events, incidents, diagnostics>>
    BY <1>2 DEF IncidentCollision
  <2>5. ASSUME NEW v \in Workers, pc'[v] = "diagnose" PROVE IsForeign(clash'[v])
    <3>1. CASE v = w
      BY <2>1, <2>3, <3>1 DEF IngestInvariant, TypeOK
    <3>2. CASE v # w
      <4>1. pc[v] = "diagnose" /\ clash'[v] = clash[v]
        BY <2>1, <2>4, <2>5, <3>2 DEF IngestInvariant, TypeOK
      <4> QED
        BY <4>1 DEF CollisionsHold
    <3> QED
      BY <3>1, <3>2
  <2> QED
    BY <1>1, <2>4, <2>5
<1>3. ASSUME NEW w \in Workers, RecordIncidentCollision(w) PROVE CollisionsHold'
  <2>1. /\ pc[w] = "diagnose"
        /\ diagnostics' = diagnostics \union {[incident |-> clash[w], source |-> frame[w].source]}
        /\ pc' = [pc EXCEPT ![w] = "reply"] /\ clash' = [clash EXCEPT ![w] = None]
        /\ UNCHANGED <<events, incidents>>
    BY <1>3 DEF RecordIncidentCollision
  <2>2. IsForeign(clash[w])
    BY <2>1 DEF CollisionsHold
  <2>3. \A v \in Workers : pc'[v] = "diagnose" => pc[v] = "diagnose" /\ clash'[v] = clash[v]
    BY <2>1 DEF IngestInvariant, TypeOK
  <2>4. OnlyForeignIncidentsCollide'
    BY <2>1, <2>2 DEF CollisionsHold, OnlyForeignIncidentsCollide, IsForeign
  <2> QED
    BY <2>1, <2>3, <2>4 DEF CollisionsHold, OwnIncidents, NamesStored, IsForeign
<1>4. ASSUME NEW w \in Workers, CommitEvent(w) PROVE CollisionsHold'
  BY <1>4, CommitNamesStored
<1>5. ASSUME NEW w \in Workers, Step(w), ~ IncidentCollision(w), ~ RecordIncidentCollision(w),
             ~ CommitEvent(w)
      PROVE  /\ UNCHANGED <<events, incidents, diagnostics>>
             /\ \A v \in Workers : pc'[v] = "diagnose" => pc[v] = "diagnose" /\ clash'[v] = clash[v]
  <2> USE DEF IngestInvariant, TypeOK
  <2>1. CASE RejectInvalid(w) \/ InsertEvent(w) \/ Correlate(w)
    BY <2>1 DEF RejectInvalid, InsertEvent, Correlate
  <2>2. CASE CommitDuplicate(w) \/ CommitCollision(w) \/ StorageError(w)
    BY <2>2 DEF CommitDuplicate, CommitCollision, StorageError
  <2>3. CASE WriteNotice(w) \/ Answer(w) \/ LoseAnswer(w)
    BY <2>3 DEF WriteNotice, Answer, LoseAnswer, Finish
  <2> QED
    BY <1>5, <2>1, <2>2, <2>3 DEF Step
<1>6. ASSUME NEW w \in Workers, NEW f \in Frames, Receive(w, f)
      PROVE  /\ UNCHANGED <<events, incidents, diagnostics>>
             /\ \A v \in Workers : pc'[v] = "diagnose" => pc[v] = "diagnose" /\ clash'[v] = clash[v]
  BY <1>6 DEF Receive, IngestInvariant, TypeOK
<1>7. ASSUME Crash \/ UNCHANGED vars
      PROVE  /\ UNCHANGED <<events, incidents, diagnostics>>
             /\ \A v \in Workers : pc'[v] = "diagnose" => pc[v] = "diagnose" /\ clash'[v] = clash[v]
  BY <1>7 DEF Crash, vars
<1>8. ASSUME \A v \in Workers : pc'[v] = "diagnose" => pc[v] = "diagnose" /\ clash'[v] = clash[v]
      PROVE  \A v \in Workers : pc'[v] = "diagnose" => IsForeign(clash'[v])
  BY <1>8 DEF CollisionsHold
<1> QED
  BY <1>1, <1>2, <1>3, <1>4, <1>5, <1>6, <1>7, <1>8 DEF Next

(* Only an incident row that another path of the program wrote ever stops a  *)
(* transaction: correlation computes no identifier twice for two contents.  *)
THEOREM CorrelationIsConsistent == Spec => []OnlyForeignIncidentsCollide
<1>1. Init => CollisionsHold
  BY IngestAssumption DEF Init, CollisionsHold, OwnIncidents, OnlyForeignIncidentsCollide
<1>2. CollisionsHold => OnlyForeignIncidentsCollide
  BY DEF CollisionsHold
<1> QED
  BY <1>1, <1>2, CollisionsStep, IngestInvariantHolds, PTL DEF Spec

====
