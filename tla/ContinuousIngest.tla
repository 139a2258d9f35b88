---- MODULE ContinuousIngest ----
(***************************************************************************)
(* The daemon's continuous ingestion: connection threads that each commit  *)
(* one authenticated frame through LocalStore::commit_continuous_event and *)
(* answer it, sharing one SQLite database.                                 *)
(*                                                                         *)
(* A transaction takes the database's write lock at its first statement    *)
(* (the INSERT of the event) and holds it until COMMIT or rollback, so its *)
(* effects are staged in the thread (answer, opened) and reach the tables  *)
(* in one step.  Alert notices and the answer are written after the commit *)
(* and may be lost; the daemon may stop between any two steps.             *)
(***************************************************************************)
EXTENDS Correlation, Sequences

CONSTANTS
  Workers,           \* connection threads
  Frames,            \* what producers may send, any number of times
  InvalidFrames,     \* frames whose event the projection rejects
  Imported,          \* rows of the events table with no ingest source
  ForeignIncidents,  \* incident rows written by another path of the program
  NoWorker,          \* nobody holds the write lock
  NoFrame,           \* the thread has no connection
  MaxCrashes         \* bound on daemon crashes

ASSUME IngestAssumption ==
  /\ NoWorker \notin Workers
  /\ NoFrame \notin Frames
  /\ InvalidFrames \subseteq Frames
  /\ \A f \in Frames : f.event.id \in Nat /\ f.event.time \in Nat /\ f.source # None
  /\ IsFiniteSet(Imported)
  /\ \A row \in Imported : row.source = None
  /\ \A r1, r2 \in Imported : r1.event.id = r2.event.id => r1 = r2
  /\ MaxCrashes \in Nat

VARIABLES
  events,       \* table events: rows [source, event]
  receipts,     \* table ingest_receipts: [id, source] in commit order
  incidents,    \* table incidents: [id, payload]
  collisions,   \* table ingest_collisions: [id, source], the evidence key
  diagnostics,  \* table incident_collision_diagnostics: [incident, source]
  writer,       \* the thread inside a transaction, or NoWorker
  pc,           \* where each thread is
  frame,        \* the frame each thread works on
  answer,       \* the status it decided
  opened,       \* incidents its transaction inserts, then those to notify
  clash,        \* the incident identifier that stopped its transaction
  notices,      \* incidents whose alert notice was written
  answers,      \* terminal answers that reached a producer: [frame, verdict]
  crashes       \* daemon crashes so far

tables == <<events, receipts, incidents, collisions, diagnostics>>
outputs == <<notices, answers>>
vars == <<events, receipts, incidents, collisions, diagnostics,
          writer, pc, frame, answer, opened, clash, notices, answers, crashes>>

Terminal == {"persisted", "duplicate", "collision", "rejected_permanent"}
Verdicts == Terminal \union {"retry_later"}

Phases == {"idle", "received", "inserted", "staged", "diagnose", "committed", "reply"}

InTransaction(w) == pc[w] \in {"inserted", "staged"}

Init ==
  /\ events = Imported
  /\ receipts = <<>>
  /\ incidents = ForeignIncidents
  /\ collisions = {}
  /\ diagnostics = {}
  /\ writer = NoWorker
  /\ pc = [w \in Workers |-> "idle"]
  /\ frame = [w \in Workers |-> NoFrame]
  /\ answer = [w \in Workers |-> None]
  /\ opened = [w \in Workers |-> {}]
  /\ clash = [w \in Workers |-> None]
  /\ notices = {}
  /\ answers = {}
  /\ crashes = 0

----
(* An authorized connection delivered a complete frame. *)
Receive(w, f) ==
  /\ pc[w] = "idle"
  /\ pc' = [pc EXCEPT ![w] = "received"]
  /\ frame' = [frame EXCEPT ![w] = f]
  /\ UNCHANGED <<tables, writer, answer, opened, clash, outputs, crashes>>

(* The projection of the event fails before the transaction begins. *)
RejectInvalid(w) ==
  /\ pc[w] = "received"
  /\ frame[w] \in InvalidFrames
  /\ pc' = [pc EXCEPT ![w] = "reply"]
  /\ answer' = [answer EXCEPT ![w] = "rejected_permanent"]
  /\ UNCHANGED <<tables, writer, frame, opened, clash, outputs, crashes>>

(* Mutant: the transaction does not exclude other writers. *)
BeginsAnyway(w) == TRUE

(* The first statement of a transaction takes the write lock. *)
CanBegin(w) == writer = NoWorker

(* Same source and same payload, or else a collision. *)
Classify(f, same) == IF f \in same THEN "duplicate" ELSE "collision"

(* INSERT ... ON CONFLICT(id) DO NOTHING, then the comparison with the row  *)
(* already there: same source and same payload is a duplicate.              *)
InsertEvent(w) ==
  LET same == {row \in events : row.event.id = frame[w].event.id}
  IN  /\ pc[w] = "received"
      /\ frame[w] \notin InvalidFrames
      /\ CanBegin(w)
      /\ writer' = w
      /\ \/ /\ same = {}
            /\ answer' = [answer EXCEPT ![w] = "persisted"]
            /\ pc' = [pc EXCEPT ![w] = "inserted"]
         \/ /\ same # {}
            /\ answer' = [answer EXCEPT ![w] = Classify(frame[w], same)]
            /\ pc' = [pc EXCEPT ![w] = "staged"]
      /\ UNCHANGED <<tables, frame, opened, clash, outputs, crashes>>

(* The incidents of the new event.  One already stored with the same        *)
(* content is not opened again; one stored with other content rolls the     *)
(* transaction back.                                                        *)
(* Mutant: an event correlates with the rows of every source. *)
RowsOfAnyone(rows, source) == {row.event : row \in rows}

RowsOf(rows, source) == {row.event : row \in {r \in rows : r.source = source}}

Contradicts(stored, incident) ==
  \E other \in stored : other.id = incident.id /\ other.payload # incident.payload

NewIncidents(w) ==
  IncidentsOf(frame[w].source, RowsOf(events, frame[w].source), frame[w].event)

Correlate(w) ==
  /\ pc[w] = "inserted"
  /\ \A incident \in NewIncidents(w) : ~ Contradicts(incidents, incident)
  /\ opened' = [opened EXCEPT ![w] = NewIncidents(w) \ incidents]
  /\ pc' = [pc EXCEPT ![w] = "staged"]
  /\ UNCHANGED <<tables, writer, frame, answer, clash, outputs, crashes>>

IncidentCollision(w) ==
  /\ pc[w] = "inserted"
  /\ \E incident \in NewIncidents(w) :
       /\ Contradicts(incidents, incident)
       /\ clash' = [clash EXCEPT ![w] = incident.id]
  /\ writer' = NoWorker
  /\ pc' = [pc EXCEPT ![w] = "diagnose"]
  /\ UNCHANGED <<tables, frame, answer, opened, outputs, crashes>>

(* The diagnostic is a transaction of its own, after the rollback. *)
RecordIncidentCollision(w) ==
  /\ pc[w] = "diagnose"
  /\ writer = NoWorker
  /\ diagnostics' = diagnostics \union {[incident |-> clash[w], source |-> frame[w].source]}
  /\ pc' = [pc EXCEPT ![w] = "reply"]
  /\ answer' = [answer EXCEPT ![w] = "rejected_permanent"]
  /\ clash' = [clash EXCEPT ![w] = None]
  /\ UNCHANGED <<events, receipts, incidents, collisions, writer, frame, opened, outputs, crashes>>

----
(* The three commits.  Event, incidents and receipt become durable together. *)
CommitEvent(w) ==
  /\ pc[w] = "staged"
  /\ answer[w] = "persisted"
  /\ events' = events \union {frame[w]}
  /\ incidents' = incidents \union opened[w]
  /\ receipts' = Append(receipts, [id |-> frame[w].event.id, source |-> frame[w].source])
  /\ writer' = NoWorker
  /\ pc' = [pc EXCEPT ![w] = "committed"]
  /\ UNCHANGED <<collisions, diagnostics, frame, answer, opened, clash, outputs, crashes>>

(* Mutant: a duplicate is given a receipt as well. *)
ReceiptAgain(w) ==
  /\ pc[w] = "staged"
  /\ answer[w] = "duplicate"
  /\ receipts' = Append(receipts, [id |-> frame[w].event.id, source |-> frame[w].source])
  /\ Len(receipts) < Cardinality(Frames)
  /\ writer' = NoWorker
  /\ pc' = [pc EXCEPT ![w] = "committed"]
  /\ UNCHANGED <<events, incidents, collisions, diagnostics, frame, answer, opened, clash,
                 outputs, crashes>>

CommitDuplicate(w) ==
  /\ pc[w] = "staged"
  /\ answer[w] = "duplicate"
  /\ writer' = NoWorker
  /\ pc' = [pc EXCEPT ![w] = "committed"]
  /\ UNCHANGED <<tables, frame, answer, opened, clash, outputs, crashes>>

CommitCollision(w) ==
  /\ pc[w] = "staged"
  /\ answer[w] = "collision"
  /\ collisions' = collisions \union {[id |-> frame[w].event.id, source |-> frame[w].source]}
  /\ writer' = NoWorker
  /\ pc' = [pc EXCEPT ![w] = "committed"]
  /\ UNCHANGED <<events, receipts, incidents, diagnostics, frame, answer, opened, clash,
                 outputs, crashes>>

(* Mutant: waiting for the lock has no timeout. *)
WaitsForEver == {"inserted", "staged"}

FailingPhases == {"received", "inserted", "staged", "diagnose"}
Released(w) == IF writer = w THEN NoWorker ELSE writer
ErrorVerdict == "retry_later"

(* The store cannot be opened, the lock stays busy past its timeout, or a   *)
(* statement or the commit fails: nothing of the transaction survives.      *)
StorageError(w) ==
  /\ pc[w] \in FailingPhases
  /\ writer' = Released(w)
  /\ pc' = [pc EXCEPT ![w] = "reply"]
  /\ answer' = [answer EXCEPT ![w] = ErrorVerdict]
  /\ opened' = [opened EXCEPT ![w] = {}]
  /\ clash' = [clash EXCEPT ![w] = None]
  /\ UNCHANGED <<tables, frame, outputs, crashes>>

----
(* Mutant: notices are written before the commit. *)
NotifiesEarly(w) == pc[w] \in {"staged", "committed"}

Notifies(w) == pc[w] = "committed"

(* After the commit: one notice line per opened incident, or a failed write. *)
WriteNotice(w) ==
  /\ Notifies(w)
  /\ \E incident \in opened[w] :
       /\ opened' = [opened EXCEPT ![w] = @ \ {incident}]
       /\ \/ notices' = notices \union {incident}
          \/ UNCHANGED notices
  /\ UNCHANGED <<tables, writer, pc, frame, answer, clash, answers, crashes>>

(* Mutant: the answer does not wait for the commit. *)
AnsweredEarly(w) == pc[w] \in {"staged", "reply"} \/ (pc[w] = "committed" /\ opened[w] = {})

Answered(w) == pc[w] = "reply" \/ (pc[w] = "committed" /\ opened[w] = {})

Finish(w) ==
  /\ pc' = [pc EXCEPT ![w] = "idle"]
  /\ frame' = [frame EXCEPT ![w] = NoFrame]
  /\ answer' = [answer EXCEPT ![w] = None]

(* The answer reaches the producer, or the write fails or goes unread. *)
Answer(w) ==
  /\ Answered(w)
  /\ answers' = IF answer[w] \in Terminal
                THEN answers \union {[frame |-> frame[w], verdict |-> answer[w]]}
                ELSE answers
  /\ Finish(w)
  /\ UNCHANGED <<tables, writer, opened, clash, notices, crashes>>

LoseAnswer(w) ==
  /\ Answered(w)
  /\ Finish(w)
  /\ UNCHANGED <<tables, writer, opened, clash, outputs, crashes>>

(* The daemon stops: threads vanish, the open transaction rolls back. *)
Crash ==
  /\ crashes < MaxCrashes
  /\ crashes' = crashes + 1
  /\ writer' = NoWorker
  /\ pc' = [w \in Workers |-> "idle"]
  /\ frame' = [w \in Workers |-> NoFrame]
  /\ answer' = [w \in Workers |-> None]
  /\ opened' = [w \in Workers |-> {}]
  /\ clash' = [w \in Workers |-> None]
  /\ UNCHANGED <<tables, outputs>>

Step(w) ==
  \/ RejectInvalid(w)
  \/ InsertEvent(w)
  \/ Correlate(w)
  \/ IncidentCollision(w)
  \/ RecordIncidentCollision(w)
  \/ CommitEvent(w)
  \/ CommitDuplicate(w)
  \/ CommitCollision(w)
  \/ StorageError(w)
  \/ WriteNotice(w)
  \/ Answer(w)
  \/ LoseAnswer(w)

Next ==
  \/ \E w \in Workers : Step(w) \/ \E f \in Frames : Receive(w, f)
  \/ Crash

Spec == Init /\ [][Next]_vars

(* A thread that has a frame keeps running; nothing obliges a producer to   *)
(* send one, and nothing makes a crash happen.                              *)
FairSpec == Spec /\ \A w \in Workers : WF_vars(Step(w))

----
TypeOK ==
  /\ events \subseteq Frames \union Imported
  /\ receipts \in Seq([id : Nat, source : {f.source : f \in Frames}])
  /\ collisions \subseteq [id : Nat, source : {f.source : f \in Frames}]
  /\ \A d \in diagnostics : d.source \in {f.source : f \in Frames}
  /\ writer \in Workers \union {NoWorker}
  /\ pc \in [Workers -> Phases]
  /\ frame \in [Workers -> Frames \union {NoFrame}]
  /\ answer \in [Workers -> Verdicts \union {None}]
  /\ opened = [w \in Workers |-> opened[w]]
  /\ clash = [w \in Workers |-> clash[w]]
  /\ answers \subseteq [frame : Frames, verdict : Terminal]
  /\ \A w \in Workers :
       /\ pc[w] # "idle" => frame[w] \in Frames
       /\ pc[w] = "inserted" => answer[w] = "persisted"
       /\ pc[w] \in {"staged", "committed"} =>
            answer[w] \in {"persisted", "duplicate", "collision"}
       /\ pc[w] = "reply" => answer[w] \in {"rejected_permanent", "retry_later"}
  /\ crashes \in 0 .. MaxCrashes

(* The write lock belongs to the one thread inside a transaction, which no  *)
(* error path leaves behind it.                                             *)
OneTransaction == \A w \in Workers : writer = w <=> InTransaction(w)

(* What a thread found out stays true until it acts on it: the identifier   *)
(* it found free is free when it commits, the incidents it checked still    *)
(* contradict nothing, and the row it answers from is still the same.       *)
DecisionsHold ==
  \A w \in Workers :
    LET same == {row \in events : row.event.id = frame[w].event.id}
    IN  /\ (InTransaction(w) /\ answer[w] = "persisted") => same = {}
        /\ (pc[w] = "staged" /\ answer[w] = "persisted") =>
             /\ \A incident \in NewIncidents(w) : ~ Contradicts(incidents, incident)
             /\ opened[w] = NewIncidents(w) \ incidents
        /\ (pc[w] = "committed" /\ answer[w] = "persisted") => frame[w] \in events
        /\ (pc[w] \in {"staged", "committed"} /\ answer[w] = "duplicate") =>
             frame[w] \in events
        /\ (pc[w] \in {"staged", "committed"} /\ answer[w] = "collision") =>
             frame[w] \notin events /\ same # {}
        /\ (pc[w] = "committed" /\ answer[w] = "collision") =>
             [id |-> frame[w].event.id, source |-> frame[w].source] \in collisions

(* An event identifier names one row, whichever threads raced to insert it. *)
OneRowPerEvent ==
  \A r1, r2 \in events : r1.event.id = r2.event.id => r1 = r2

(* The event and its receipt are durable together or not at all: exactly    *)
(* the authenticated rows have a receipt, one each, for the same source.    *)
ReceiptsMatchEvents ==
  /\ \A i \in DOMAIN receipts :
       \E row \in events :
         row.event.id = receipts[i].id /\ row.source = receipts[i].source
  /\ \A row \in events :
       row.source # None => \E i \in DOMAIN receipts : receipts[i].id = row.event.id
  /\ \A i, j \in DOMAIN receipts : receipts[i].id = receipts[j].id => i = j

(* A terminal answer is borne out by the tables for ever after, across      *)
(* races, lost answers and crashes: persisted and duplicate mean that very  *)
(* payload of that very source is stored, collision that another one is,    *)
(* with its evidence row.                                                   *)
AnswersDurable ==
  \A a \in answers :
    /\ a.verdict \in {"persisted", "duplicate"} => a.frame \in events
    /\ a.verdict = "collision" =>
         /\ a.frame \notin events
         /\ \E row \in events : row.event.id = a.frame.event.id
         /\ [id |-> a.frame.event.id, source |-> a.frame.source] \in collisions

(* An alert notice is about an incident that is durable, and no thread is   *)
(* about to repeat a notice, whatever is resent, raced or lost.             *)
NoticesFollowCommit ==
  /\ notices \subseteq incidents
  /\ \A w \in Workers : pc[w] = "committed" =>
       /\ opened[w] \subseteq incidents
       /\ opened[w] \intersect notices = {}
       /\ \A v \in Workers \ {w} :
            pc[v] = "committed" => opened[v] \intersect opened[w] = {}

(* Correlation never contradicts itself: an incident identifier is computed *)
(* for one pair of events once, so that only a row written by another path  *)
(* of the program ever stops a transaction.                                 *)
OnlyForeignIncidentsCollide ==
  \A d \in diagnostics : \E foreign \in ForeignIncidents : foreign.id = d.incident

(* A thread never keeps a connection, and never waits for the lock, for     *)
(* ever.                                                                    *)
EveryFrameEnds == \A w \in Workers : pc[w] = "received" ~> pc[w] = "idle"

Ledger == INSTANCE EventLedger WITH OpenedBy <- IncidentsOf

(* Threads, locks, crashes and lost answers are invisible in the tables:    *)
(* ingestion implements the ledger.                                         *)
ImplementsLedger == Ledger!LedgerSpec

====
