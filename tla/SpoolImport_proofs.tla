---- MODULE SpoolImport_proofs ----
(***************************************************************************)
(* Proofs about SpoolImport: however many importers and producers race     *)
(* for an identifier it has one row; as long as the spool is not truncated *)
(* and regrown unseen, no checkpoint passes a line whose event is not      *)
(* stored; as long as the spool names no event of the socket, what         *)
(* continuous ingestion committed keeps its payload; and under both, rows  *)
(* are only added and every sequence a checkpoint has passed is reported.  *)
(***************************************************************************)
EXTENDS SpoolImport, SequenceTheorems, WellFoundedInduction, TLAPS

(* What the step lemmas need of the types; the parts about values that are  *)
(* only looked up are left out.                                            *)
ImportTyped ==
  /\ spool \in Seq(Lines)
  /\ partial \in BOOLEAN /\ (partial => Len(spool) > 0)
  /\ \A row \in rows : row = [source |-> row.source, event |-> row.event]
  /\ checkpoint \in [Importers -> Nat]
  /\ pc \in [Importers -> Phases]
  /\ offset \in [Importers -> Nat]
  /\ held = [p \in Importers |-> held[p]]

(* The events on the first n lines are stored. *)
Stored(n) == \A j \in 1 .. n : spool[j].kind = "event" => Known(spool[j].event.id)

(* A pass has stored what it read; what it is about to insert is its line.  *)
PassesHold ==
  \A p \in Importers :
    /\ pc[p] # "idle" => offset[p] <= Complete /\ Stored(offset[p])
    /\ pc[p] = "insert" => offset[p] < Complete /\ held[p] = NextLine(p).event

(* A checkpoint within the file lies behind complete and stored lines.      *)
CheckpointsHold ==
  \A p \in Importers :
    checkpoint[p] <= Len(spool) => checkpoint[p] <= Complete /\ Stored(checkpoint[p])

ImportInvariant == ImportTyped /\ PassesHold /\ CheckpointsHold

----
(* An upsert forgets no identifier and adds the one it is given. *)
LEMMA UpsertKeepsIdentifiers ==
  ASSUME NEW table, NEW event,
         \A row \in table : row = [source |-> row.source, event |-> row.event]
  PROVE  /\ \A row \in Upserted(table, event) :
              row = [source |-> row.source, event |-> row.event]
         /\ \A row \in table : \E new \in Upserted(table, event) : new.event.id = row.event.id
         /\ \E new \in Upserted(table, event) : new.event.id = event.id
<1>1. CASE \E row \in table : row.event.id = event.id
  <2> DEFINE Changed(row) == [source |-> row.source,
                              event |-> IF row.event.id = event.id THEN event ELSE row.event]
  <2>1. Upserted(table, event) = {Changed(row) : row \in table}
    BY <1>1 DEF Upserted
  <2>2. \A row \in table : /\ Changed(row) = [source |-> Changed(row).source, event |-> Changed(row).event]
                           /\ Changed(row).event.id = row.event.id
    OBVIOUS
  <2> HIDE DEF Changed
  <2>3. \A row \in table : Changed(row) \in Upserted(table, event)
    BY <2>1
  <2>4. \A row \in Upserted(table, event) : row = [source |-> row.source, event |-> row.event]
    BY <2>1, <2>2
  <2>5. \A row \in table : \E new \in Upserted(table, event) : new.event.id = row.event.id
    BY <2>2, <2>3
  <2> QED
    BY <1>1, <2>4, <2>5
<1>2. CASE ~ \E row \in table : row.event.id = event.id
  <2> DEFINE new == [source |-> None, event |-> event]
  <2>1. Upserted(table, event) = table \union {new}
    BY <1>2 DEF Upserted
  <2>2. new = [source |-> new.source, event |-> new.event] /\ new.event.id = event.id
    OBVIOUS
  <2> HIDE DEF new
  <2> QED
    BY <2>1, <2>2
<1> QED
  BY <1>1, <1>2

(* An upsert keeps identifiers unique. *)
LEMMA UpsertKeepsUnique ==
  ASSUME NEW table, NEW event,
         \A row \in table : row = [source |-> row.source, event |-> row.event],
         \A r1, r2 \in table : r1.event.id = r2.event.id => r1 = r2
  PROVE  \A r1, r2 \in Upserted(table, event) : r1.event.id = r2.event.id => r1 = r2
<1>1. CASE \E row \in table : row.event.id = event.id
  <2> DEFINE Changed(row) == [source |-> row.source,
                              event |-> IF row.event.id = event.id THEN event ELSE row.event]
  <2>1. Upserted(table, event) = {Changed(row) : row \in table}
    BY <1>1 DEF Upserted
  <2>2. \A row \in table : Changed(row).event.id = row.event.id
    OBVIOUS
  <2> HIDE DEF Changed
  <2> QED
    BY <2>1, <2>2
<1>2. CASE ~ \E row \in table : row.event.id = event.id
  BY <1>2 DEF Upserted
<1> QED
  BY <1>1, <1>2

----
(* What is known stays known: rows only ever gain identifiers. *)
LEMMA KnownStays ==
  ASSUME ImportTyped, [Next]_vars
  PROVE  /\ \A row \in rows' : row = [source |-> row.source, event |-> row.event]
         /\ \A id : Known(id) => Known(id)'
<1>1. ASSUME UNCHANGED rows PROVE \A id : Known(id) => Known(id)'
  BY <1>1 DEF Known, Row
<1>2. ASSUME NEW f \in Frames, CommitContinuous(f)
      PROVE  /\ \A row \in rows' : row = [source |-> row.source, event |-> row.event]
             /\ \A id : Known(id) => Known(id)'
  BY <1>2 DEF CommitContinuous, Known, Row, ImportTyped
<1>3. ASSUME NEW p \in Importers, InsertEvent(p)
      PROVE  /\ \A row \in rows' : row = [source |-> row.source, event |-> row.event]
             /\ \A id : Known(id) => Known(id)'
  <2>1. rows' = Upserted(rows, held[p])
    BY <1>3 DEF InsertEvent
  <2>2. /\ \A row \in rows' : row = [source |-> row.source, event |-> row.event]
        /\ \A row \in rows : \E new \in rows' : new.event.id = row.event.id
    BY <2>1, UpsertKeepsIdentifiers DEF ImportTyped
  <2> QED
    BY <2>2 DEF Known, Row
<1>4. ASSUME NEW p \in Importers, InsertIncident(p)
      PROVE  /\ \A row \in rows' : row = [source |-> row.source, event |-> row.event]
             /\ \A id : Known(id) => Known(id)'
  <2> DEFINE once == Upserted(rows, held[p].first)
  <2>1. rows' = Upserted(once, held[p].second)
    BY <1>4 DEF InsertIncident
  <2>a. \A row \in rows : row = [source |-> row.source, event |-> row.event]
    BY DEF ImportTyped
  <2>2. /\ \A row \in once : row = [source |-> row.source, event |-> row.event]
        /\ \A row \in rows : \E new \in once : new.event.id = row.event.id
    BY <2>a, UpsertKeepsIdentifiers
  <2> HIDE DEF once
  <2>3. /\ \A row \in rows' : row = [source |-> row.source, event |-> row.event]
        /\ \A row \in once : \E new \in rows' : new.event.id = row.event.id
    BY <2>1, <2>2, UpsertKeepsIdentifiers
  <2>4. \A row \in rows : \E new \in rows' : new.event.id = row.event.id
    BY <2>2, <2>3
  <2> QED
    BY <2>3, <2>4 DEF Known, Row
<1>5. CASE UNCHANGED rows
  BY <1>1, <1>5 DEF ImportTyped
<1>6. [Next]_vars => \/ UNCHANGED rows
                     \/ \E f \in Frames : CommitContinuous(f)
                     \/ \E p \in Importers : InsertEvent(p) \/ InsertIncident(p)
  BY DEF Next, Pass, vars, tables, BeginLine, EndLine, Truncate, Stop, InsertFails, Abandon,
         OpenSpool, SkipLine,
         Duplicate, Missing, EndOfFile, ListEvents, LookUpIncident, EndPass
<1> QED
  BY <1>2, <1>3, <1>4, <1>5, <1>6

(* Every action keeps the types. *)
LEMMA TypedStep == ImportTyped /\ [Next]_vars => ImportTyped'
<1> SUFFICES ASSUME ImportTyped, [Next]_vars PROVE ImportTyped'
  OBVIOUS
<1>1. \A row \in rows' : row = [source |-> row.source, event |-> row.event]
  BY KnownStays
<1> USE <1>1 DEF ImportTyped, Phases, file, tables, pass
<1>2. ASSUME NEW l \in Lines, BeginLine(l) PROVE ImportTyped'
  BY <1>2 DEF BeginLine
<1>3. CASE EndLine
  BY <1>3 DEF EndLine
<1>4. CASE Truncate
  BY <1>4, EmptySeq DEF Truncate
<1>5. ASSUME NEW f \in Frames, CommitContinuous(f) PROVE ImportTyped'
  BY <1>5 DEF CommitContinuous
<1>6. ASSUME NEW p \in Importers, Pass(p) PROVE ImportTyped'
  <2>1. CASE OpenSpool(p)
    BY <2>1 DEF OpenSpool, StartOffset
  <2>2. CASE SkipLine(p)
    BY <2>2 DEF SkipLine, Advance
  <2>3. CASE Duplicate(p)
    BY <2>3 DEF Duplicate, Advance
  <2>4. CASE Missing(p)
    BY <2>4 DEF Missing
  <2>5. CASE InsertEvent(p)
    <3>1. /\ held' = [held EXCEPT ![p] = None]
          /\ offset' = [offset EXCEPT ![p] = @ + 1]
          /\ pc' = [pc EXCEPT ![p] = "read"]
          /\ UNCHANGED <<spool, partial, checkpoint>>
      BY <2>5 DEF InsertEvent, Advance
    <3>2. held' = [q \in Importers |-> held'[q]]
      BY <3>1
    <3>3. pc' \in [Importers -> Phases] /\ offset' \in [Importers -> Nat]
      BY <3>1
    <3> QED
      BY <3>1, <3>2, <3>3
  <2>6. CASE EndOfFile(p)
    BY <2>6 DEF EndOfFile
  <2>7. CASE ListEvents(p)
    BY <2>7 DEF ListEvents
  <2>8. CASE LookUpIncident(p)
    BY <2>8 DEF LookUpIncident
  <2>9. CASE InsertIncident(p)
    BY <2>9 DEF InsertIncident
  <2>10. CASE EndPass(p)
    BY <2>10 DEF EndPass
  <2>11. CASE InsertFails(p)
    BY <2>11 DEF InsertFails, Abandon
  <2> QED
    BY <1>6, <2>1, <2>2, <2>3, <2>4, <2>5, <2>6, <2>7, <2>8, <2>9, <2>10, <2>11 DEF Pass
<1>7. ASSUME NEW p \in Importers, Stop(p) PROVE ImportTyped'
  BY <1>7 DEF Stop, InsertFails, Abandon
<1>8. CASE UNCHANGED vars
  BY <1>8 DEF vars
<1> QED
  BY <1>2, <1>3, <1>4, <1>5, <1>6, <1>7, <1>8 DEF Next

----
(* The lines an action may change: none but by an append or a truncation.   *)
LEMMA SpoolChanges ==
  ASSUME ImportTyped, [Next]_vars, ~ Regrows
  PROVE  \/ spool' = spool /\ Complete <= Complete'
         \/ /\ \A p \in Importers : checkpoint[p] # Len(spool) + 1
            /\ Len(spool') = Len(spool) + 1 /\ Complete' = Len(spool) /\ Complete = Len(spool)
            /\ \A j \in 1 .. Len(spool) : spool'[j] = spool[j]
            /\ UNCHANGED <<tables, checkpoint, pc, pass>>
         \/ /\ \A p \in Importers : pc[p] = "idle"
            /\ spool' = <<>> /\ Complete' = 0
            /\ UNCHANGED <<tables, checkpoint, pc, pass>>
<1> USE DEF ImportTyped
<1>1. ASSUME NEW l \in Lines, BeginLine(l)
      PROVE  /\ \A p \in Importers : checkpoint[p] # Len(spool) + 1
             /\ Len(spool') = Len(spool) + 1 /\ Complete' = Len(spool) /\ Complete = Len(spool)
             /\ \A j \in 1 .. Len(spool) : spool'[j] = spool[j]
             /\ UNCHANGED <<tables, checkpoint, pc, pass>>
  BY <1>1, AppendProperties DEF BeginLine, AboutToMatch, Complete
<1>2. CASE EndLine
  BY <1>2 DEF EndLine, Complete
<1>3. CASE Truncate
  BY <1>3 DEF Truncate, Complete
<1>4. CASE UNCHANGED <<spool, partial>>
  BY <1>4 DEF Complete
<1>5. [Next]_vars => \/ \E l \in Lines : BeginLine(l)
                     \/ EndLine \/ Truncate \/ UNCHANGED <<spool, partial>>
  BY DEF Next, Pass, vars, file, CommitContinuous, Stop, InsertFails, Abandon, OpenSpool,
         SkipLine, Duplicate, Missing,
         InsertEvent, EndOfFile, ListEvents, LookUpIncident, InsertIncident, EndPass
<1> QED
  BY <1>1, <1>2, <1>3, <1>4, <1>5

(* The lines stored before a step are stored after it. *)
LEMMA StoredStays ==
  ASSUME ImportTyped, [Next]_vars, NEW n \in Nat, n <= Len(spool), Stored(n),
         \A j \in 1 .. Len(spool) : spool'[j] = spool[j]
  PROVE  Stored(n)'
<1>1. \A id : Known(id) => Known(id)'
  BY KnownStays
<1>2. \A j \in 1 .. n : j \in 1 .. Len(spool)
  BY DEF ImportTyped
<1>3. \A j \in 1 .. n : spool'[j] = spool[j]
  BY <1>2
<1>4. ASSUME NEW j \in 1 .. n, spool'[j].kind = "event"
      PROVE  \E row \in rows' : row.event.id = spool'[j].event.id
  <2>1. Known(spool[j].event.id)
    BY <1>3, <1>4 DEF Stored
  <2>2. \A i : Known(i) => \E row \in rows' : row.event.id = i
    BY <1>1 DEF Known, Row
  <2> QED
    BY <1>3, <2>1, <2>2
<1> QED
  BY <1>4 DEF Stored, Known, Row

(* An importer's pass is its own. *)
LEMMA OthersStay ==
  ASSUME ImportTyped, NEW p \in Importers, Pass(p) \/ Stop(p), NEW q \in Importers, q # p
  PROVE  pc'[q] = pc[q] /\ offset'[q] = offset[q] /\ held'[q] = held[q] /\ checkpoint'[q] = checkpoint[q]
<1> USE DEF ImportTyped, pass
<1>1. CASE OpenSpool(p)
  BY <1>1 DEF OpenSpool
<1>2. CASE SkipLine(p) \/ Duplicate(p) \/ Missing(p)
  BY <1>2 DEF SkipLine, Duplicate, Missing, Advance
<1>3. CASE InsertEvent(p)
  BY <1>3 DEF InsertEvent, Advance
<1>4. CASE EndOfFile(p) \/ ListEvents(p) \/ EndPass(p)
  BY <1>4 DEF EndOfFile, ListEvents, EndPass
<1>5. CASE LookUpIncident(p)
  BY <1>5 DEF LookUpIncident
<1>6. CASE InsertIncident(p)
  BY <1>6 DEF InsertIncident
<1>7. CASE Stop(p) \/ InsertFails(p)
  BY <1>7 DEF Stop, InsertFails, Abandon
<1> QED
  BY <1>1, <1>2, <1>3, <1>4, <1>5, <1>6, <1>7 DEF Pass

(* A pass that is at a line within the file has it stored, or is about to.  *)
LEMMA OffsetsStep ==
  ASSUME ImportInvariant, [Next]_vars, ~ Regrows, spool' = spool, Complete <= Complete'
  PROVE  PassesHold' /\ CheckpointsHold'
<1> USE DEF ImportInvariant
<1>t. ImportTyped'
  BY TypedStep
<1>n. Complete \in Int /\ Complete' \in Int /\ Complete <= Len(spool) /\ Len(spool) \in Nat
  BY <1>t DEF Complete, ImportTyped
<1>k. \A id : Known(id) => Known(id)'
  BY KnownStays
<1>s. \A n \in Nat : Stored(n) => Stored(n)'
  BY <1>k DEF Stored
<1> DEFINE Good(q) == /\ pc[q] # "idle" => offset[q] <= Complete /\ Stored(offset[q])
                      /\ pc[q] = "insert" => offset[q] < Complete /\ held[q] = NextLine(q).event
                      /\ checkpoint[q] <= Len(spool) => checkpoint[q] <= Complete /\ Stored(checkpoint[q])
<1>g. \A q \in Importers : Good(q)
  BY DEF PassesHold, CheckpointsHold
<1>same. ASSUME NEW q \in Importers,
                pc'[q] = pc[q], offset'[q] = offset[q], held'[q] = held[q], checkpoint'[q] = checkpoint[q]
         PROVE  Good(q)'
  <2>1. offset[q] \in Nat /\ checkpoint[q] \in Nat
    BY DEF ImportTyped
  <2>2. NextLine(q)' = NextLine(q)
    BY <1>same DEF NextLine
  <2> QED
    BY <1>same, <1>g, <1>s, <1>n, <2>1, <2>2
<1>1. ASSUME UNCHANGED <<checkpoint, pc, pass>> PROVE \A q \in Importers : Good(q)'
  <2> SUFFICES ASSUME NEW q \in Importers PROVE Good(q)'
    OBVIOUS
  <2> QED
    BY <1>1, <1>same DEF pass
<1>2. ASSUME NEW p \in Importers, Pass(p) \/ Stop(p), Good(p)' PROVE \A q \in Importers : Good(q)'
  <2> SUFFICES ASSUME NEW q \in Importers, q # p PROVE Good(q)'
    BY <1>2
  <2>1. pc'[q] = pc[q] /\ offset'[q] = offset[q] /\ held'[q] = held[q] /\ checkpoint'[q] = checkpoint[q]
    BY <1>2, OthersStay
  <2> QED
    BY <2>1, <1>same
<1>3. ASSUME NEW p \in Importers, Pass(p) \/ Stop(p) PROVE \A q \in Importers : Good(q)'
  <2> SUFFICES Good(p)'
    BY <1>2, <1>3
  <2> USE DEF ImportTyped
  <2>g. Good(p)
    BY <1>g
  <2>o. offset[p] \in Nat /\ checkpoint[p] \in Nat /\ NextLine(p) = spool[offset[p] + 1]
    BY DEF NextLine
  <2>1. CASE OpenSpool(p)
    <3>1. StartOffset(p) \in Nat /\ StartOffset(p) <= Complete /\ Stored(StartOffset(p))
      BY <2>g, <2>o, <1>n DEF StartOffset, Stored, Complete
    <3>2. pc'[p] = "read" /\ offset'[p] = StartOffset(p) /\ checkpoint'[p] = StartOffset(p)
      BY <2>1 DEF OpenSpool
    <3> QED
      BY <3>1, <3>2, <1>s, <1>n
  <2>2. CASE SkipLine(p) \/ Duplicate(p)
    <3>1. /\ pc'[p] = "read" /\ offset'[p] = offset[p] + 1 /\ checkpoint'[p] = checkpoint[p]
          /\ offset[p] < Complete
      BY <2>2 DEF SkipLine, Duplicate, Advance, Reading
    <3>2. NextLine(p).kind = "event" => Known(NextLine(p).event.id)
      BY <2>2 DEF SkipLine, Duplicate
    <3>3. Stored(offset[p] + 1)
      BY <2>2, <2>g, <2>o, <3>2 DEF SkipLine, Duplicate, Reading, Stored
    <3> QED
      BY <2>g, <2>o, <3>1, <3>3, <1>s, <1>n
  <2>3. CASE Missing(p)
    <3>1. /\ pc'[p] = "insert" /\ offset'[p] = offset[p] /\ checkpoint'[p] = checkpoint[p]
          /\ offset[p] < Complete /\ held'[p] = NextLine(p).event /\ pc[p] = "read"
      BY <2>3 DEF Missing, Reading
    <3>2. NextLine(p)' = NextLine(p)
      BY <3>1 DEF NextLine
    <3> QED
      BY <2>g, <2>o, <3>1, <3>2, <1>s, <1>n
  <2>4. CASE InsertEvent(p)
    <3>1. /\ pc'[p] = "read" /\ offset'[p] = offset[p] + 1 /\ checkpoint'[p] = checkpoint[p]
          /\ pc[p] = "insert" /\ rows' = Upserted(rows, held[p])
      BY <2>4 DEF InsertEvent, Advance
    <3>2. \E new \in rows' : new.event.id = held[p].id
      BY <3>1, UpsertKeepsIdentifiers
    <3>3. \E new \in rows' : new.event.id = spool[offset[p] + 1].event.id
      <4>1. held[p] = spool[offset[p] + 1].event
        BY <3>1, <2>g, <2>o
      <4> QED
        BY <3>2, <4>1
    <3>4. Stored(offset[p])'
      <4>1. \A j \in 1 .. offset[p] + 1 : j = offset[p] + 1 \/ j \in 1 .. offset[p]
        BY <2>o
      <4>2. ASSUME NEW j \in 1 .. offset[p] + 1, spool[j].kind = "event"
            PROVE  \E new \in rows' : new.event.id = spool[j].event.id
        <5>1. CASE j \in 1 .. offset[p]
          <6>1. Known(spool[j].event.id)
            BY <3>1, <2>g, <4>2, <5>1 DEF Stored
          <6>2. \A i : Known(i) => \E new \in rows' : new.event.id = i
            BY <1>k DEF Known, Row
          <6> QED
            BY <6>1, <6>2
        <5> QED
          BY <3>3, <4>1, <5>1
      <4>3. offset'[p] = offset[p] + 1
        BY <3>1
      <4> QED
        BY <4>2, <4>3 DEF Stored, Known, Row
    <3> QED
      BY <2>g, <2>o, <3>1, <3>4, <1>s, <1>n
  <2>5. CASE EndOfFile(p)
    <3>1. /\ pc'[p] \in {"list", "open"} /\ pc[p] = "read"
          /\ offset'[p] = offset[p] /\ checkpoint'[p] = checkpoint[p]
      BY <2>5 DEF EndOfFile, pass
    <3> QED
      BY <2>g, <2>o, <3>1, <1>s, <1>n
  <2>6. CASE ListEvents(p)
    <3>1. /\ pc'[p] = "open" /\ pc[p] = "list"
          /\ offset'[p] = offset[p] /\ checkpoint'[p] = checkpoint[p]
      BY <2>6 DEF ListEvents
    <3> QED
      BY <2>g, <2>o, <3>1, <1>s, <1>n
  <2>7. CASE LookUpIncident(p)
    <3>1. /\ pc'[p] \in {"open", "file"} /\ pc[p] = "open"
          /\ offset'[p] = offset[p] /\ checkpoint'[p] = checkpoint[p]
      BY <2>7 DEF LookUpIncident
    <3> QED
      BY <2>g, <2>o, <3>1, <1>s, <1>n
  <2>8. CASE InsertIncident(p)
    <3>1. /\ pc'[p] = "open" /\ pc[p] = "file"
          /\ offset'[p] = offset[p] /\ checkpoint'[p] = checkpoint[p]
      BY <2>8 DEF InsertIncident
    <3> QED
      BY <2>g, <2>o, <3>1, <1>s, <1>n
  <2>9. CASE EndPass(p)
    <3>1. pc'[p] = "idle" /\ pc[p] = "open" /\ checkpoint'[p] = offset[p]
      BY <2>9 DEF EndPass
    <3> QED
      BY <2>g, <2>o, <3>1, <1>s, <1>n
  <2>10. CASE Stop(p) \/ InsertFails(p)
    <3>1. pc'[p] = "idle" /\ checkpoint'[p] = checkpoint[p]
      BY <2>10 DEF Stop, InsertFails, Abandon
    <3> QED
      BY <2>g, <2>o, <3>1, <1>s, <1>n
  <2> QED
    BY <1>3, <2>1, <2>2, <2>3, <2>4, <2>5, <2>6, <2>7, <2>8, <2>9, <2>10 DEF Pass
<1>4. [Next]_vars => \/ UNCHANGED <<checkpoint, pc, pass>>
                     \/ \E p \in Importers : Pass(p) \/ Stop(p)
  BY DEF Next, vars, pass, BeginLine, EndLine, Truncate, CommitContinuous
<1>5. \A q \in Importers : Good(q)'
  BY <1>1, <1>3, <1>4
<1> QED
  BY <1>5 DEF PassesHold, CheckpointsHold

(* The invariant is inductive. *)
LEMMA ImportStep == ImportInvariant /\ ~ Regrows /\ [Next]_vars => ImportInvariant'
<1> SUFFICES ASSUME ImportInvariant, ~ Regrows, [Next]_vars PROVE ImportInvariant'
  OBVIOUS
<1> USE DEF ImportInvariant
<1>t. ImportTyped'
  BY TypedStep
<1>1. CASE spool' = spool /\ Complete <= Complete'
  BY <1>1, <1>t, OffsetsStep
<1>2. CASE /\ \A p \in Importers : checkpoint[p] # Len(spool) + 1
           /\ Len(spool') = Len(spool) + 1 /\ Complete' = Len(spool) /\ Complete = Len(spool)
           /\ \A j \in 1 .. Len(spool) : spool'[j] = spool[j]
           /\ UNCHANGED <<tables, checkpoint, pc, pass>>
  <2>n. Len(spool) \in Nat
    BY DEF ImportTyped
  <2>1. \A n \in Nat : n <= Len(spool) /\ Stored(n) => Stored(n)'
    BY <1>2, StoredStays
  <2>2. ASSUME NEW p \in Importers
        PROVE  /\ pc'[p] # "idle" => offset'[p] <= Complete' /\ Stored(offset[p])'
               /\ pc'[p] = "insert" => offset'[p] < Complete' /\ held'[p] = NextLine(p)'.event
    <3>1. offset[p] \in Nat
      BY DEF ImportTyped
    <3>2. pc[p] = "insert" => NextLine(p)' = NextLine(p)
      BY <1>2, <2>n, <3>1 DEF PassesHold, NextLine, pass
    <3> QED
      BY <1>2, <2>1, <2>n, <3>1, <3>2 DEF PassesHold, pass
  <2>3. ASSUME NEW p \in Importers, checkpoint'[p] <= Len(spool')
        PROVE  checkpoint'[p] <= Complete' /\ Stored(checkpoint[p])'
    <3>1. checkpoint[p] \in Nat /\ checkpoint[p] <= Len(spool)
      BY <1>2, <2>3, <2>n DEF ImportTyped
    <3> QED
      BY <1>2, <2>1, <2>n, <3>1 DEF CheckpointsHold
  <2> QED
    BY <1>t, <2>2, <2>3 DEF PassesHold, CheckpointsHold
<1>3. CASE /\ \A p \in Importers : pc[p] = "idle"
           /\ spool' = <<>> /\ Complete' = 0
           /\ UNCHANGED <<tables, checkpoint, pc, pass>>
  <2>1. PassesHold'
    BY <1>3 DEF PassesHold
  <2>2. ASSUME NEW p \in Importers, checkpoint'[p] <= Len(spool')
        PROVE  checkpoint'[p] <= Complete' /\ Stored(checkpoint[p])'
    BY <1>3, <2>2 DEF ImportTyped, Stored
  <2> QED
    BY <1>t, <2>1, <2>2 DEF CheckpointsHold
<1> QED
  BY <1>1, <1>2, <1>3, SpoolChanges

LEMMA ImportInit == Init => ImportInvariant
<1> SUFFICES ASSUME Init PROVE ImportInvariant
  OBVIOUS
<1>1. ImportTyped
  BY EmptySeq DEF Init, ImportTyped, Phases
<1>2. PassesHold
  BY DEF Init, PassesHold
<1>3. CheckpointsHold
  BY DEF Init, CheckpointsHold, Complete, Stored
<1> QED
  BY <1>1, <1>2, <1>3 DEF ImportInvariant

(* The invariant implies the property. *)
LEMMA PassedAreStored == ImportInvariant => NoLineIsSkipped
<1> SUFFICES ASSUME ImportInvariant, NEW p \in Importers, NEW id \in PassedIds(p) PROVE Known(id)
  BY DEF NoLineIsSkipped
<1>1. checkpoint[p] \in Nat /\ Len(spool) \in Nat
  BY DEF ImportInvariant, ImportTyped
<1>2. checkpoint[p] <= Len(spool)
  BY <1>1 DEF PassedIds
<1>3. PICK i \in 1 .. checkpoint[p] : spool[i].kind = "event" /\ id = spool[i].event.id
  BY <1>1, <1>2 DEF PassedIds
<1> QED
  BY <1>2, <1>3 DEF ImportInvariant, CheckpointsHold, Stored

(* A checkpoint passes no event that is not stored, for any number of       *)
(* importers, lines and stopped passes, if the spool is truncated between   *)
(* passes only and never regrows to the length of a checkpoint unseen.      *)
THEOREM NothingIsSkipped == ASSUME ~ Regrows PROVE Spec => []NoLineIsSkipped
<1>0. ImportInvariant /\ [Next]_vars => ImportInvariant'
  BY ImportStep
<1> QED
  BY <1>0, PassedAreStored, ImportInit, PTL DEF Spec

----
(* An identifier has one row, whichever importers and producers race for    *)
(* it: get_event and insert_event are separate transactions, and the        *)
(* conflict clause of the upsert keeps a racing commit from a second row.   *)
THEOREM IdentifiersStayUnique == Spec => []OneRowPerEvent
<1>1. Init => ImportTyped /\ OneRowPerEvent
  BY ImportInit DEF Init, OneRowPerEvent, ImportInvariant
<1>2. ImportTyped /\ OneRowPerEvent /\ [Next]_vars => OneRowPerEvent'
  <2> SUFFICES ASSUME ImportTyped, OneRowPerEvent, [Next]_vars PROVE OneRowPerEvent'
    OBVIOUS
  <2>1. CASE UNCHANGED rows
    BY <2>1 DEF OneRowPerEvent
  <2>2. ASSUME NEW f \in Frames, CommitContinuous(f) PROVE OneRowPerEvent'
    <3> DEFINE new == [source |-> f.source, event |-> Projected[f.event]]
    <3>1. rows' = rows \union {new} /\ \A row \in rows : row.event.id # f.event.id
      BY <2>2 DEF CommitContinuous, Known, Row
    <3>2. new.event.id = f.event.id
      BY ImportAssumption
    <3> HIDE DEF new
    <3> QED
      BY <3>1, <3>2 DEF OneRowPerEvent
  <2>3. ASSUME NEW p \in Importers, InsertEvent(p) PROVE OneRowPerEvent'
    <3>1. rows' = Upserted(rows, held[p])
      BY <2>3 DEF InsertEvent
    <3> QED
      BY <3>1, UpsertKeepsUnique DEF OneRowPerEvent, ImportTyped
  <2>4. ASSUME NEW p \in Importers, InsertIncident(p) PROVE OneRowPerEvent'
    <3> DEFINE once == Upserted(rows, held[p].first)
    <3>1. rows' = Upserted(once, held[p].second)
      BY <2>4 DEF InsertIncident
    <3>2. \A row \in once : row = [source |-> row.source, event |-> row.event]
      BY UpsertKeepsIdentifiers DEF ImportTyped
    <3>3. \A r1, r2 \in once : r1.event.id = r2.event.id => r1 = r2
      BY UpsertKeepsUnique DEF OneRowPerEvent, ImportTyped
    <3> HIDE DEF once
    <3> QED
      BY <3>1, <3>2, <3>3, UpsertKeepsUnique DEF OneRowPerEvent
  <2>5. \/ UNCHANGED rows
        \/ \E f \in Frames : CommitContinuous(f)
        \/ \E p \in Importers : InsertEvent(p) \/ InsertIncident(p)
    BY DEF Next, Pass, vars, tables, BeginLine, EndLine, Truncate, Stop, InsertFails, Abandon,
         OpenSpool, SkipLine,
           Duplicate, Missing, EndOfFile, ListEvents, LookUpIncident, EndPass
  <2> QED
    BY <2>1, <2>2, <2>3, <2>4, <2>5
<1> QED
  BY <1>1, <1>2, TypedStep, PTL DEF Spec

----
(* What is committed keeps its payload.  The lines of the spool are of      *)
(* events of their own, and the events of both kinds have a time and a      *)
(* number.                                                                  *)
Numbered(event) == event.id \in Nat /\ event.time \in Nat

SpoolIsApart ==
  /\ \A l \in Lines : l.kind = "event" =>
       Numbered(l.event) /\ \A f \in Frames : l.event.id # f.event.id
  /\ \A e \in DOMAIN Projected : Numbered(Projected[e])

(* To upsert the event changes no committed row: none has its identifier,   *)
(* or with that very payload.                                               *)
Harmless(table, event) ==
  \A row \in table : row.event.id = event.id /\ row.source # None => row.event = event

(* The event has a row, and when that is committed, it is the event's own.  *)
Listed(table, event) ==
  /\ Numbered(event)
  /\ \E row \in table : row.event.id = event.id /\ (row.source # None => row.event = event)

Sound(table) ==
  /\ \A row \in table :
       /\ row = [source |-> row.source, event |-> row.event]
       /\ Numbered(row.event)
       /\ row.source # None => \E f \in Frames : f.event.id = row.event.id
  /\ \A r1, r2 \in table : r1.event.id = r2.event.id => r1 = r2

LEMMA ListedIsHarmless ==
  ASSUME NEW table, Sound(table), NEW event, Listed(table, event)
  PROVE  Harmless(table, event)
BY DEF Sound, Listed, Harmless

(* An upsert that is harmless changes no committed row. *)
LEMMA UpsertKeepsCommitted ==
  ASSUME NEW table, Sound(table), NEW event, Numbered(event), Harmless(table, event)
  PROVE  /\ Sound(Upserted(table, event))
         /\ \A row \in table : row.source # None => row \in Upserted(table, event)
         /\ \A e : Listed(table, e) => Listed(Upserted(table, event), e)
<1>0. /\ \A row \in table : row = [source |-> row.source, event |-> row.event]
      /\ \A r1, r2 \in table : r1.event.id = r2.event.id => r1 = r2
  BY DEF Sound
<1>u. \A r1, r2 \in Upserted(table, event) : r1.event.id = r2.event.id => r1 = r2
  BY <1>0, UpsertKeepsUnique
<1>1. CASE \E row \in table : row.event.id = event.id
  <2> DEFINE Changed(row) == [source |-> row.source,
                              event |-> IF row.event.id = event.id THEN event ELSE row.event]
  <2>1. Upserted(table, event) = {Changed(row) : row \in table}
    BY <1>1 DEF Upserted
  <2>2. \A row \in table :
          /\ Changed(row) = [source |-> Changed(row).source, event |-> Changed(row).event]
          /\ Changed(row).source = row.source
          /\ Changed(row).event.id = row.event.id
          /\ Changed(row).event \in {event, row.event}
    OBVIOUS
  <2>3. \A row \in table : row.source # None => Changed(row) = row
    <3> SUFFICES ASSUME NEW row \in table, row.source # None
                 PROVE  Changed(row) = row
      OBVIOUS
    <3>1. Changed(row) = [source |-> row.source, event |-> row.event]
      BY DEF Harmless
    <3> QED
      BY <1>0, <3>1
  <2> HIDE DEF Changed
  <2>4. Sound(Upserted(table, event))
    <3> SUFFICES ASSUME NEW row \in table
                 PROVE  /\ Changed(row) = [source |-> Changed(row).source, event |-> Changed(row).event]
                        /\ Numbered(Changed(row).event)
                        /\ Changed(row).source # None =>
                             \E f \in Frames : f.event.id = Changed(row).event.id
      BY <1>u, <2>1 DEF Sound
    <3>1. Numbered(row.event) /\ (row.source # None => \E f \in Frames : f.event.id = row.event.id)
      BY DEF Sound
    <3>2. Numbered(Changed(row).event)
      BY <2>2, <3>1
    <3> QED
      BY <2>2, <3>1, <3>2
  <2>5. ASSUME NEW e, Listed(table, e)
        PROVE  Listed(Upserted(table, event), e)
    <3>1. PICK row \in table : row.event.id = e.id /\ (row.source # None => row.event = e)
      BY <2>5 DEF Listed
    <3>2. /\ Changed(row) \in Upserted(table, event)
          /\ Changed(row).event.id = e.id
          /\ Changed(row).source # None => Changed(row).event = e
      BY <2>1, <2>2, <2>3, <3>1
    <3> QED
      BY <2>5, <3>2 DEF Listed
  <2>6. \A row \in table : row.source # None => row \in Upserted(table, event)
    BY <2>1, <2>3
  <2> QED
    BY <2>4, <2>5, <2>6
<1>2. CASE ~ \E row \in table : row.event.id = event.id
  <2> DEFINE new == [source |-> None, event |-> event]
  <2>1. Upserted(table, event) = table \union {new}
    BY <1>2 DEF Upserted
  <2>2. new = [source |-> new.source, event |-> new.event] /\ Numbered(new.event) /\ new.source = None
    OBVIOUS
  <2> HIDE DEF new
  <2>3. Sound(Upserted(table, event))
    BY <1>u, <2>1, <2>2 DEF Sound
  <2> QED
    BY <2>1, <2>3 DEF Listed
<1> QED
  BY <1>1, <1>2

----
(* A set of naturals has a least element. *)
LEMMA HasLeast ==
  ASSUME NEW S, S \subseteq Nat, S # {}
  PROVE  \E x \in S : \A y \in S : x <= y
<1>1. PICK x \in S : \A y \in S : <<y, x>> \notin OpToRel(<, Nat)
  BY NatLessThanWellFounded, WFMin, Zenon
<1>2. ASSUME NEW y \in S PROVE ~ (y < x)
  <2>1. y \in Nat /\ x \in Nat
    OBVIOUS
  <2> QED
    BY <1>1, <2>1, Zenon DEF OpToRel
<1> QED
  BY <1>2, SMT

(* The earliest of some events is one of them. *)
LEMMA EarliestIsOne ==
  ASSUME NEW S, S # {}, \A e \in S : Numbered(e), \A e, o \in S : e.id = o.id => e = o
  PROVE  Earliest(S) \in S
<1> USE DEF Numbered
<1> DEFINE times == {e.time : e \in S}
<1>1. PICK t \in times : \A u \in times : t <= u
  <2>1. times \subseteq Nat /\ times # {}
    OBVIOUS
  <2> HIDE DEF times
  <2> QED
    BY <2>1, HasLeast
<1> DEFINE first == {e \in S : e.time = t}
           ids == {e.id : e \in first}
<1>2. PICK i \in ids : \A j \in ids : i <= j
  <2>1. ids \subseteq Nat /\ ids # {}
    OBVIOUS
  <2> HIDE DEF ids
  <2> QED
    BY <2>1, HasLeast
<1>3. PICK x \in first : x.id = i
  OBVIOUS
<1>4. ASSUME NEW o \in S \ {x}
      PROVE  Before(x, o)
  <2>1. o.time \in times /\ t <= o.time /\ x.time = t /\ o.id # x.id /\ o.id \in Nat /\ x.id \in Nat
        /\ o.time \in Nat /\ t \in Nat
    BY <1>1
  <2>2. o.time = t => x.id <= o.id
    BY <1>2, <1>3
  <2> QED
    BY <2>1, <2>2 DEF Before
<1>5. \E y \in S : \A o \in S \ {y} : Before(y, o)
  BY <1>3, <1>4
<1> HIDE DEF times, first, ids
<1>6. (CHOOSE y \in S : \A o \in S \ {y} : Before(y, o)) \in S
  BY <1>5, Zenon
<1> QED
  BY <1>6, Zenon DEF Earliest

(* The batch engine matches what is stored. *)
LEMMA MatchesAreStored ==
  ASSUME NEW stored, \A e \in stored : Numbered(e), \A e, o \in stored : e.id = o.id => e = o,
         NEW m \in Matches(stored)
  PROVE  m.first \in stored /\ m.second \in stored
<1>1. PICK r \in Rules : \E pair \in BatchMatches(r, stored) :
        m = [rule |-> r, first |-> pair[1], second |-> pair[2]]
  BY DEF Matches
<1>2. PICK pair \in BatchMatches(r, stored) :
        m = [rule |-> r, first |-> pair[1], second |-> pair[2]]
  BY <1>1
<1>3. PICK e \in stored : Successors(r, stored, e) # {}
                          /\ pair = <<e, Earliest(Successors(r, stored, e))>>
  BY <1>2 DEF BatchMatches
<1>4. Successors(r, stored, e) \subseteq stored
  BY DEF Successors
<1>5. Earliest(Successors(r, stored, e)) \in Successors(r, stored, e)
  BY <1>3, <1>4, EarliestIsOne
<1> QED
  BY <1>2, <1>3, <1>4, <1>5

----
(* What an importer is about to write changes no committed row: the event   *)
(* it holds is of a line, and the matches it has still to file are of       *)
(* events that it listed.                                                   *)
PassesAreHarmless ==
  \A p \in Importers :
    /\ pc[p] = "insert" => \E l \in Lines : l.kind = "event" /\ held[p] = l.event
    /\ \A m \in todo[p] : Listed(rows, m.first) /\ Listed(rows, m.second)
    /\ pc[p] = "file" => Listed(rows, held[p].first) /\ Listed(rows, held[p].second)

CommittedInvariant ==
  /\ Sound(rows)
  /\ todo = [p \in Importers |-> todo[p]]
  /\ PassesAreHarmless

(* No step changes a committed row, or takes the row of a listed event. *)
LEMMA CommittedRowsStay ==
  ASSUME SpoolIsApart, ImportTyped, CommittedInvariant, [Next]_vars
  PROVE  /\ Sound(rows')
         /\ \A row \in rows : row.source # None => row \in rows'
         /\ \A e : Listed(rows, e) => Listed(rows', e)
<1> USE DEF CommittedInvariant
<1>1. CASE UNCHANGED rows
  <2>1. rows' = rows
    BY <1>1
  <2> QED
    BY <2>1
<1>2. ASSUME NEW f \in Frames, CommitContinuous(f)
      PROVE  /\ Sound(rows')
             /\ \A row \in rows : row.source # None => row \in rows'
             /\ \A e : Listed(rows, e) => Listed(rows', e)
  <2> DEFINE new == [source |-> f.source, event |-> Projected[f.event]]
  <2>1. rows' = rows \union {new} /\ \A row \in rows : row.event.id # f.event.id
    BY <1>2 DEF CommitContinuous, Known, Row
  <2>2. /\ new = [source |-> new.source, event |-> new.event]
        /\ Numbered(new.event) /\ new.event.id = f.event.id
    BY ImportAssumption DEF SpoolIsApart
  <2> HIDE DEF new
  <2>3. Sound(rows')
    BY <2>1, <2>2 DEF Sound
  <2>4. \A e : Listed(rows, e) => Listed(rows', e)
    BY <2>1 DEF Listed
  <2> QED
    BY <2>1, <2>3, <2>4
<1>3. ASSUME NEW p \in Importers, InsertEvent(p)
      PROVE  /\ Sound(rows')
             /\ \A row \in rows : row.source # None => row \in rows'
             /\ \A e : Listed(rows, e) => Listed(rows', e)
  <2>1. rows' = Upserted(rows, held[p]) /\ pc[p] = "insert"
    BY <1>3 DEF InsertEvent
  <2>2. PICK l \in Lines : l.kind = "event" /\ held[p] = l.event
    BY <2>1 DEF PassesAreHarmless
  <2>3. Numbered(held[p]) /\ \A f \in Frames : held[p].id # f.event.id
    BY <2>2 DEF SpoolIsApart
  <2>4. Harmless(rows, held[p])
    BY <2>3 DEF Harmless, Sound
  <2> QED
    BY <2>1, <2>3, <2>4, UpsertKeepsCommitted
<1>4. ASSUME NEW p \in Importers, InsertIncident(p)
      PROVE  /\ Sound(rows')
             /\ \A row \in rows : row.source # None => row \in rows'
             /\ \A e : Listed(rows, e) => Listed(rows', e)
  <2> DEFINE once == Upserted(rows, held[p].first)
  <2>1. rows' = Upserted(once, held[p].second) /\ pc[p] = "file"
    BY <1>4 DEF InsertIncident
  <2>2. Listed(rows, held[p].first) /\ Listed(rows, held[p].second)
    BY <2>1 DEF PassesAreHarmless
  <2>3. /\ Sound(once)
        /\ \A row \in rows : row.source # None => row \in once
        /\ \A e : Listed(rows, e) => Listed(once, e)
    <3>1. Numbered(held[p].first) /\ Harmless(rows, held[p].first)
      BY <2>2, ListedIsHarmless DEF Listed
    <3> QED
      BY <3>1, UpsertKeepsCommitted
  <2> HIDE DEF once
  <2>4. Numbered(held[p].second) /\ Harmless(once, held[p].second)
    <3>1. Listed(once, held[p].second)
      BY <2>2, <2>3
    <3> QED
      BY <2>3, <3>1, ListedIsHarmless DEF Listed
  <2>5. /\ Sound(rows')
        /\ \A row \in once : row.source # None => row \in rows'
        /\ \A e : Listed(once, e) => Listed(rows', e)
    BY <2>1, <2>3, <2>4, UpsertKeepsCommitted
  <2> QED
    BY <2>3, <2>5
<1>5. \/ UNCHANGED rows
      \/ \E f \in Frames : CommitContinuous(f)
      \/ \E p \in Importers : InsertEvent(p) \/ InsertIncident(p)
  BY DEF Next, Pass, vars, tables, BeginLine, EndLine, Truncate, Stop, InsertFails, Abandon,
         OpenSpool, SkipLine,
         Duplicate, Missing, EndOfFile, ListEvents, LookUpIncident, EndPass
<1> QED
  BY <1>1, <1>2, <1>3, <1>4, <1>5

(* What list_events returns, and the matches among it, are listed. *)
LEMMA MatchesAreListed ==
  ASSUME Sound(rows), NEW m \in Matches(Events(rows))
  PROVE  Listed(rows, m.first) /\ Listed(rows, m.second)
<1>1. /\ \A e \in Events(rows) : Numbered(e)
      /\ \A e, o \in Events(rows) : e.id = o.id => e = o
  BY DEF Events, Sound
<1>2. m.first \in Events(rows) /\ m.second \in Events(rows)
  BY <1>1, MatchesAreStored
<1>3. \A e \in Events(rows) : Listed(rows, e)
  BY DEF Events, Listed, Sound
<1> QED
  BY <1>2, <1>3

(* A pass stays harmless. *)
LEMMA HarmlessStep ==
  ASSUME SpoolIsApart, ImportTyped, ImportTyped', CommittedInvariant, [Next]_vars
  PROVE  CommittedInvariant'
<1> USE DEF CommittedInvariant
<1>r. Sound(rows') /\ \A e : Listed(rows, e) => Listed(rows', e)
  BY CommittedRowsStay
<1> DEFINE Careful(q) ==
      /\ pc[q] = "insert" => \E l \in Lines : l.kind = "event" /\ held[q] = l.event
      /\ \A m \in todo[q] : Listed(rows, m.first) /\ Listed(rows, m.second)
      /\ pc[q] = "file" => Listed(rows, held[q].first) /\ Listed(rows, held[q].second)
<1>c. \A q \in Importers : Careful(q)
  BY DEF PassesAreHarmless
<1>same. ASSUME NEW q \in Importers, pc'[q] = pc[q], held'[q] = held[q], todo'[q] \subseteq todo[q]
         PROVE  Careful(q)'
  BY <1>same, <1>c, <1>r
<1>1. CASE UNCHANGED <<pc, held, todo>>
  <2>1. \A q \in Importers : Careful(q)'
    BY <1>1, <1>same
  <2> QED
    BY <1>1, <1>r, <2>1 DEF PassesAreHarmless
<1>2. ASSUME NEW p \in Importers, Pass(p) \/ Stop(p), ~ UNCHANGED <<pc, held, todo>>
      PROVE  CommittedInvariant'
  <2> USE DEF ImportTyped
  <2>c. Careful(p)
    BY <1>c
  <2>t. /\ todo' = [q \in Importers |-> todo'[q]]
        /\ \A q \in Importers \ {p} : todo'[q] = todo[q]
    <3>1. \/ todo' = todo \/ \E set : todo' = [todo EXCEPT ![p] = set]
      BY <1>2 DEF Pass, pass, OpenSpool, SkipLine, Duplicate, Missing, InsertEvent, EndOfFile,
                  ListEvents, LookUpIncident, InsertIncident, EndPass, Stop, InsertFails, Abandon
    <3> QED
      BY <3>1
  <2>o. ASSUME NEW q \in Importers, q # p PROVE Careful(q)'
    <3>1. pc'[q] = pc[q] /\ held'[q] = held[q]
      BY <1>2, <2>o, OthersStay
    <3> QED
      BY <2>t, <2>o, <3>1, <1>same
  <2>p. Careful(p)'
    <3>1. CASE OpenSpool(p)
      BY <3>1, <1>r, <2>c DEF OpenSpool
    <3>2. CASE SkipLine(p) \/ Duplicate(p)
      BY <3>2, <1>same DEF SkipLine, Duplicate
    <3>3. CASE Missing(p)
      <4>1. /\ Reading(p) /\ NextLine(p).kind = "event" /\ pc'[p] = "insert"
            /\ held'[p] = NextLine(p).event /\ todo' = todo
        BY <3>3 DEF Missing
      <4>2. NextLine(p) \in Lines
        <5>1. offset[p] + 1 \in 1 .. Len(spool)
          BY <4>1 DEF Reading, Complete
        <5> QED
          BY <5>1, ElementOfSeq DEF NextLine
      <4> QED
        BY <4>1, <4>2, <2>c, <1>r
    <3>4. CASE InsertEvent(p)
      BY <3>4, <1>r, <2>c DEF InsertEvent
    <3>5. CASE EndOfFile(p)
      <4>1. pc'[p] \in {"list", "open"} /\ todo' = todo
        BY <3>5 DEF EndOfFile, pass
      <4> QED
        BY <4>1, <1>r, <2>c
    <3>6. CASE ListEvents(p)
      <4>1. pc'[p] = "open" /\ todo'[p] = Matches(Events(rows)) /\ rows' = rows
        BY <3>6 DEF ListEvents, tables
      <4> QED
        BY <4>1, MatchesAreListed
    <3>7. CASE LookUpIncident(p)
      <4>1. PICK m \in todo[p] :
              /\ todo' = [todo EXCEPT ![p] = @ \ {m}]
              /\ IF IncidentOf(m) \in incidents
                 THEN UNCHANGED <<pc, held>>
                 ELSE /\ held' = [held EXCEPT ![p] = m]
                      /\ pc' = [pc EXCEPT ![p] = "file"]
        BY <3>7 DEF LookUpIncident
      <4>2. todo'[p] \subseteq todo[p]
        BY <4>1
      <4>3. CASE IncidentOf(m) \in incidents
        BY <4>1, <4>2, <4>3, <1>same
      <4>4. CASE IncidentOf(m) \notin incidents
        <5>1. held'[p] = m /\ pc'[p] = "file"
          BY <4>1, <4>4
        <5>2. Listed(rows', m.first) /\ Listed(rows', m.second)
          BY <2>c, <1>r
        <5> QED
          BY <4>2, <5>1, <5>2, <2>c, <1>r
      <4> QED
        BY <4>3, <4>4
    <3>8. CASE InsertIncident(p)
      BY <3>8, <1>r, <2>c DEF InsertIncident
    <3>9. CASE EndPass(p)
      BY <3>9, <1>r, <2>c DEF EndPass
    <3>10. CASE Stop(p) \/ InsertFails(p)
      BY <3>10, <1>r DEF Stop, InsertFails, Abandon
    <3> QED
      BY <1>2, <3>1, <3>2, <3>3, <3>4, <3>5, <3>6, <3>7, <3>8, <3>9, <3>10 DEF Pass
  <2> QED
    BY <1>r, <2>t, <2>o, <2>p DEF PassesAreHarmless
<1>3. [Next]_vars => \/ UNCHANGED <<pc, held, todo>>
                     \/ \E p \in Importers : Pass(p) \/ Stop(p)
  BY DEF Next, vars, pass, BeginLine, EndLine, Truncate, CommitContinuous
<1> QED
  BY <1>1, <1>2, <1>3

(* A committed row keeps its payload for ever, for any number of importers, *)
(* as long as the spool names no event that a producer delivers by socket:  *)
(* insert_incident upserts the matched events again as they were listed,    *)
(* and what was listed of a committed event is what was committed.          *)
THEOREM CommittedStays == ASSUME SpoolIsApart PROVE Spec => CommittedPayloadsLast
<1>1. Init => ImportTyped /\ CommittedInvariant
  <2>1. Init => ImportTyped
    BY ImportInit DEF ImportInvariant
  <2>2. Init => CommittedInvariant
    BY DEF Init, CommittedInvariant, Sound, PassesAreHarmless
  <2> QED
    BY <2>1, <2>2
<1>2. ImportTyped /\ CommittedInvariant /\ [Next]_vars => ImportTyped' /\ CommittedInvariant'
  BY TypedStep, HarmlessStep
<1>3. ImportTyped /\ CommittedInvariant /\ [Next]_vars
        => [\A row \in rows : row.source # None => row \in rows']_vars
  BY CommittedRowsStay
<1> QED
  BY <1>1, <1>2, <1>3, PTL DEF Spec, CommittedPayloadsLast

----
(* What the checkpoints have passed is reported.  To correlate, a pass      *)
(* reads rows that other importers and producers go on writing; so the rows *)
(* must not change under it.                                                *)

(* An importer about to insert is at the first line of its event, and       *)
(* whoever stored the event meanwhile stored that very line.                *)
InsertsHold ==
  \A p \in Importers : pc[p] = "insert" =>
    /\ NextLine(p).kind = "event"
    /\ \A j \in 1 .. offset[p] : spool[j].kind = "event" => spool[j].event.id # held[p].id
    /\ \A row \in rows : row.event.id = held[p].id => row.event = held[p]

(* A pass with an event behind it lists the rows of all that it read; one   *)
(* with none has only passed lines that are no events.                      *)
Seen(p) ==
  \A j \in 1 .. offset[p] : spool[j].kind = "event" =>
    \E e \in listed[p] : e.id = spool[j].event.id

Barren(p) ==
  /\ checkpoint[p] <= offset[p]
  /\ \A j \in checkpoint[p] + 1 .. offset[p] : spool[j].kind # "event"

(* What was listed is stored, and every match in it is reported, or to be.  *)
Lists(p) ==
  /\ pc[p] \notin {"open", "file"} => listed[p] = {} /\ todo[p] = {}
  /\ pc[p] = "list" => valid[p]
  /\ pc[p] \in {"open", "file"} /\ valid[p] => Seen(p)
  /\ pc[p] # "idle" /\ ~ valid[p] => Barren(p)
  /\ listed[p] \subseteq Events(rows)
  /\ todo[p] \subseteq Matches(listed[p])
  /\ pc[p] = "file" => held[p] \in Matches(listed[p])
  /\ \A m \in Matches(listed[p]) :
       m \in todo[p] \/ (pc[p] = "file" /\ m = held[p]) \/ IncidentOf(m) \in incidents

ListsHold == \A p \in Importers : Lists(p)

ReportTyped ==
  /\ valid \in [Importers -> BOOLEAN]
  /\ listed = [p \in Importers |-> listed[p]]
  /\ todo = [p \in Importers |-> todo[p]]

ReportInvariant ==
  ReportTyped /\ InsertsHold /\ ListsHold /\ PassedSequencesReported

AllHold == ImportInvariant /\ CommittedInvariant /\ ReportInvariant

----
LEMMA NoMatches == Matches({}) = {}
BY DEF Matches, BatchMatches

(* A match of fewer events is one of more, perhaps with an earlier second.  *)
LEMMA MatchesGrow ==
  ASSUME NEW S, NEW T, S \subseteq T, NEW m \in Matches(S)
  PROVE  \E n \in Matches(T) : n.rule = m.rule /\ n.first = m.first
<1>1. PICK r \in Rules : \E pair \in BatchMatches(r, S) :
        m = [rule |-> r, first |-> pair[1], second |-> pair[2]]
  BY DEF Matches
<1>2. PICK pair \in BatchMatches(r, S) :
        m = [rule |-> r, first |-> pair[1], second |-> pair[2]]
  BY <1>1
<1>3. PICK e \in S : Successors(r, S, e) # {} /\ pair = <<e, Earliest(Successors(r, S, e))>>
  BY <1>2 DEF BatchMatches
<1>4. Successors(r, T, e) # {}
  BY <1>3 DEF Successors
<1> DEFINE longer == <<e, Earliest(Successors(r, T, e))>>
           n == [rule |-> r, first |-> longer[1], second |-> longer[2]]
<1>5. longer \in BatchMatches(r, T)
  BY <1>3, <1>4 DEF BatchMatches
<1>6. n \in Matches(T)
  BY <1>5 DEF Matches
<1>7. n.rule = m.rule /\ n.first = m.first
  BY <1>2, <1>3
<1> QED
  BY <1>6, <1>7

(* An upsert of what the row of its identifier holds already, if there is   *)
(* one, changes no row.                                                     *)
LEMMA UpsertAppends ==
  ASSUME NEW table, NEW event,
         \A row \in table : row = [source |-> row.source, event |-> row.event],
         \A row \in table : row.event.id = event.id => row.event = event
  PROVE  /\ table \subseteq Upserted(table, event)
         /\ \A new \in Upserted(table, event) \ table :
              new.event = event /\ \A row \in table : row.event.id # event.id
<1>1. CASE \E row \in table : row.event.id = event.id
  <2> DEFINE Changed(row) == [source |-> row.source,
                              event |-> IF row.event.id = event.id THEN event ELSE row.event]
  <2>1. Upserted(table, event) = {Changed(row) : row \in table}
    BY <1>1 DEF Upserted
  <2>2. ASSUME NEW row \in table PROVE Changed(row) = row
    <3>1. (IF row.event.id = event.id THEN event ELSE row.event) = row.event
      OBVIOUS
    <3> QED
      BY <3>1
  <2> HIDE DEF Changed
  <2>3. Upserted(table, event) = table
    BY <2>1, <2>2
  <2> QED
    BY <2>3
<1>2. CASE ~ \E row \in table : row.event.id = event.id
  <2> DEFINE new == [source |-> None, event |-> event]
  <2>1. Upserted(table, event) = table \union {new}
    BY <1>2 DEF Upserted
  <2>2. new.event = event
    OBVIOUS
  <2> HIDE DEF new
  <2> QED
    BY <1>2, <2>1, <2>2
<1> QED
  BY <1>1, <1>2

(* Two importers about to insert one identifier are at the same line.       *)
LEMMA InsertersAgree ==
  ASSUME ImportInvariant, InsertsHold, NEW p \in Importers, NEW q \in Importers,
         pc[p] = "insert", pc[q] = "insert", held[p].id = held[q].id
  PROVE  held[p] = held[q]
<1>1. /\ offset[p] \in Nat /\ offset[q] \in Nat
      /\ held[p] = spool[offset[p] + 1].event /\ spool[offset[p] + 1].kind = "event"
      /\ held[q] = spool[offset[q] + 1].event /\ spool[offset[q] + 1].kind = "event"
  BY DEF ImportInvariant, ImportTyped, PassesHold, InsertsHold, NextLine
<1>2. ~ (offset[p] < offset[q])
  <2>1. offset[p] < offset[q] => offset[p] + 1 \in 1 .. offset[q]
    BY <1>1
  <2> QED
    BY <1>1, <2>1 DEF InsertsHold
<1>3. ~ (offset[q] < offset[p])
  <2>1. offset[q] < offset[p] => offset[q] + 1 \in 1 .. offset[p]
    BY <1>1
  <2> QED
    BY <1>1, <2>1 DEF InsertsHold
<1> QED
  BY <1>1, <1>2, <1>3

(* Rows are added, and none is changed.                                     *)
LEMMA RowsGrow ==
  ASSUME SpoolIsApart, AllHold, [Next]_vars
  PROVE  /\ rows \subseteq rows'
         /\ \A new \in rows' \ rows :
              /\ ~ Known(new.event.id)
              /\ \/ \E f \in Frames : new.event.id = f.event.id
                 \/ \E p \in Importers : pc[p] = "insert" /\ new.event = held[p]
<1> USE DEF AllHold, ImportInvariant, CommittedInvariant, ReportInvariant
<1>0. \A row \in rows : row = [source |-> row.source, event |-> row.event]
  BY DEF ImportTyped
<1>1. CASE UNCHANGED rows
  BY <1>1
<1>2. ASSUME NEW f \in Frames, CommitContinuous(f)
      PROVE  /\ rows \subseteq rows'
             /\ \A new \in rows' \ rows : ~ Known(new.event.id) /\ new.event.id = f.event.id
  <2> DEFINE new == [source |-> f.source, event |-> Projected[f.event]]
  <2>1. rows' = rows \union {new} /\ ~ Known(f.event.id)
    BY <1>2 DEF CommitContinuous
  <2>2. new.event.id = f.event.id
    BY ImportAssumption
  <2> HIDE DEF new
  <2> QED
    BY <2>1, <2>2
<1>3. ASSUME NEW p \in Importers, InsertEvent(p)
      PROVE  /\ rows \subseteq rows'
             /\ \A new \in rows' \ rows : ~ Known(new.event.id) /\ pc[p] = "insert" /\ new.event = held[p]
  <2>1. rows' = Upserted(rows, held[p]) /\ pc[p] = "insert"
    BY <1>3 DEF InsertEvent
  <2>2. \A row \in rows : row.event.id = held[p].id => row.event = held[p]
    BY <2>1 DEF InsertsHold
  <2>3. /\ rows \subseteq rows'
        /\ \A new \in rows' \ rows :
             new.event = held[p] /\ \A row \in rows : row.event.id # held[p].id
    BY <1>0, <2>1, <2>2, UpsertAppends
  <2> QED
    BY <2>1, <2>3 DEF Known, Row
<1>4. ASSUME NEW p \in Importers, InsertIncident(p) PROVE rows' = rows
  <2> DEFINE once == Upserted(rows, held[p].first)
  <2>1. rows' = Upserted(once, held[p].second) /\ pc[p] = "file"
    BY <1>4 DEF InsertIncident
  <2>2. held[p] \in Matches(listed[p]) /\ listed[p] \subseteq Events(rows)
    BY <2>1 DEF ListsHold, Lists
  <2>3. /\ \A e \in listed[p] : Numbered(e)
        /\ \A e, o \in listed[p] : e.id = o.id => e = o
    BY <2>2 DEF Events, Sound
  <2>4. held[p].first \in Events(rows) /\ held[p].second \in Events(rows)
    BY <2>2, <2>3, MatchesAreStored
  <2>5. \A e \in Events(rows) : \A row \in rows : row.event.id = e.id => row.event = e
    BY DEF Events, Sound
  <2>6. \A e \in Events(rows) : \E row \in rows : row.event.id = e.id
    BY DEF Events
  <2>7. once = rows
    <3>1. /\ rows \subseteq once
          /\ \A new \in once \ rows : \A row \in rows : row.event.id # held[p].first.id
      BY <1>0, <2>4, <2>5, UpsertAppends
    <3> QED
      BY <2>4, <2>6, <3>1
  <2>8. rows' = Upserted(rows, held[p].second)
    BY <2>1, <2>7
  <2>9. /\ rows \subseteq rows'
        /\ \A new \in rows' \ rows : \A row \in rows : row.event.id # held[p].second.id
    BY <1>0, <2>4, <2>5, <2>8, UpsertAppends
  <2> QED
    BY <2>4, <2>6, <2>9
<1>5. \/ UNCHANGED rows
      \/ \E f \in Frames : CommitContinuous(f)
      \/ \E p \in Importers : InsertEvent(p) \/ InsertIncident(p)
  BY DEF Next, Pass, vars, tables, BeginLine, EndLine, Truncate, Stop, InsertFails, Abandon,
         OpenSpool, SkipLine,
         Duplicate, Missing, EndOfFile, ListEvents, LookUpIncident, EndPass
<1> QED
  BY <1>1, <1>2, <1>3, <1>4, <1>5

(* While a pass runs, the lines before and at its offset stay.              *)
LEMMA LinesStay ==
  ASSUME ~ Regrows, ImportInvariant, [Next]_vars, NEW p \in Importers, pc[p] # "idle"
  PROVE  /\ \A j \in 1 .. offset[p] : spool'[j] = spool[j]
         /\ offset[p] < Complete => spool'[offset[p] + 1] = spool[offset[p] + 1]
<1>1. /\ offset[p] \in Nat /\ offset[p] <= Complete /\ Complete <= Len(spool)
      /\ Len(spool) \in Nat /\ Complete \in Int
  BY DEF ImportInvariant, ImportTyped, PassesHold, Complete
<1>2. \A j \in 1 .. Len(spool) : spool'[j] = spool[j]
  BY SpoolChanges DEF ImportInvariant
<1> QED
  BY <1>1, <1>2

LEMMA InsertsStep ==
  ASSUME SpoolIsApart, ~ Regrows, AllHold, [Next]_vars
  PROVE  InsertsHold'
<1> USE DEF AllHold, ImportInvariant, CommittedInvariant, ReportInvariant
<1> SUFFICES ASSUME NEW p \in Importers, pc'[p] = "insert"
             PROVE  /\ NextLine(p)'.kind = "event"
                    /\ \A j \in 1 .. offset'[p] :
                         spool'[j].kind = "event" => spool'[j].event.id # held'[p].id
                    /\ \A row \in rows' : row.event.id = held'[p].id => row.event = held'[p]
  BY DEF InsertsHold
<1>1. CASE Missing(p)
  <2>1. /\ UNCHANGED <<spool, rows, offset>> /\ held'[p] = NextLine(p).event
        /\ NextLine(p).kind = "event" /\ ~ Known(NextLine(p).event.id) /\ pc[p] = "read"
    BY <1>1 DEF Missing, Reading, file, tables, ImportTyped
  <2>2. Stored(offset[p])
    BY <2>1 DEF PassesHold
  <2>3. NextLine(p)' = NextLine(p)
    BY <2>1 DEF NextLine
  <2> QED
    BY <2>1, <2>2, <2>3 DEF Stored, Known, Row
<1>2. CASE ~ Missing(p)
  <2>1. pc[p] = "insert" /\ offset'[p] = offset[p] /\ held'[p] = held[p]
    <3>1. ASSUME NEW q \in Importers, Pass(q) \/ Stop(q), q # p
          PROVE  pc[p] = "insert" /\ offset'[p] = offset[p] /\ held'[p] = held[p]
      BY <3>1, OthersStay
    <3>2. ~ Stop(p) /\ ~ Pass(p)
      BY <1>2 DEF Stop, InsertFails, Abandon, Pass, OpenSpool, SkipLine, Duplicate, InsertEvent,
                  EndOfFile, ListEvents,
         LookUpIncident, InsertIncident, EndPass, Reading, ImportTyped
    <3>3. ASSUME UNCHANGED <<pc, offset, held>>
          PROVE  pc[p] = "insert" /\ offset'[p] = offset[p] /\ held'[p] = held[p]
      BY <3>3
    <3>4. \/ UNCHANGED <<pc, offset, held>>
          \/ \E q \in Importers : Pass(q) \/ Stop(q)
      BY DEF Next, vars, pass, BeginLine, EndLine, Truncate, CommitContinuous
    <3> QED
      BY <3>1, <3>2, <3>3, <3>4
  <2>2. /\ \A j \in 1 .. offset[p] : spool'[j] = spool[j]
        /\ spool'[offset[p] + 1] = spool[offset[p] + 1]
    BY <2>1, LinesStay DEF PassesHold
  <2>3. \A row \in rows' : row.event.id = held[p].id => row.event = held[p]
    <3> SUFFICES ASSUME NEW row \in rows', row.event.id = held[p].id PROVE row.event = held[p]
      OBVIOUS
    <3>1. CASE row \in rows
      BY <2>1, <3>1 DEF InsertsHold
    <3>2. ASSUME NEW f \in Frames, row.event.id = f.event.id PROVE FALSE
      <4>1. PICK l \in Lines : l.kind = "event" /\ held[p] = l.event
        BY <2>1 DEF PassesAreHarmless
      <4> QED
        BY <3>2, <4>1 DEF SpoolIsApart
    <3>3. ASSUME NEW q \in Importers, pc[q] = "insert", row.event = held[q]
          PROVE  row.event = held[p]
      BY <2>1, <3>3, InsertersAgree
    <3> QED
      BY <3>1, <3>2, <3>3, RowsGrow
  <2>4. /\ spool[offset[p] + 1].kind = "event"
        /\ \A j \in 1 .. offset[p] : spool[j].kind = "event" => spool[j].event.id # held[p].id
    BY <2>1 DEF InsertsHold, NextLine
  <2> QED
    BY <2>1, <2>2, <2>3, <2>4 DEF NextLine
<1> QED
  BY <1>1, <1>2

(* Incidents are added, and none is taken back. *)
LEMMA IncidentsGrow ==
  ASSUME [Next]_vars
  PROVE  incidents \subseteq incidents'
BY DEF Next, Pass, vars, tables, BeginLine, EndLine, Truncate, CommitContinuous, Stop,
       InsertFails, Abandon, OpenSpool,
       SkipLine, Duplicate, Missing, InsertEvent, EndOfFile, ListEvents, LookUpIncident,
       InsertIncident, EndPass

(* A pass is its own: the rest of what an importer has. *)
LEMMA OtherPassesStay ==
  ASSUME ImportTyped, ReportTyped, NEW p \in Importers, Pass(p) \/ Stop(p),
         NEW q \in Importers, q # p
  PROVE  valid'[q] = valid[q] /\ listed'[q] = listed[q] /\ todo'[q] = todo[q]
<1>1. valid' = valid \/ \E b : valid' = [valid EXCEPT ![p] = b]
  BY DEF Pass, pass, OpenSpool, SkipLine, Duplicate, Missing, InsertEvent, EndOfFile, ListEvents,
     LookUpIncident, InsertIncident, EndPass, Stop, InsertFails, Abandon
<1>2. listed' = listed \/ \E b : listed' = [listed EXCEPT ![p] = b]
  BY DEF Pass, pass, OpenSpool, SkipLine, Duplicate, Missing, InsertEvent, EndOfFile, ListEvents,
     LookUpIncident, InsertIncident, EndPass, Stop, InsertFails, Abandon
<1>3. todo' = todo \/ \E b : todo' = [todo EXCEPT ![p] = b]
  BY DEF Pass, pass, OpenSpool, SkipLine, Duplicate, Missing, InsertEvent, EndOfFile, ListEvents,
     LookUpIncident, InsertIncident, EndPass, Stop, InsertFails, Abandon
<1> QED
  BY <1>1, <1>2, <1>3 DEF ReportTyped

LEMMA ReportTypedStep ==
  ASSUME ReportTyped, [Next]_vars
  PROVE  ReportTyped'
<1> USE DEF ReportTyped
<1>1. ASSUME NEW p \in Importers, Pass(p) \/ Stop(p) PROVE ReportTyped'
  <2>1. valid' \in [Importers -> BOOLEAN]
    BY <1>1 DEF Pass, pass, OpenSpool, SkipLine, Duplicate, ValidAfterDuplicate, Missing,
       InsertEvent, EndOfFile, ListEvents, LookUpIncident, InsertIncident, EndPass, Stop,
       InsertFails, Abandon
  <2>2. listed' = listed \/ \E b : listed' = [listed EXCEPT ![p] = b]
    BY <1>1 DEF Pass, pass, OpenSpool, SkipLine, Duplicate, Missing, InsertEvent, EndOfFile,
       ListEvents, LookUpIncident, InsertIncident, EndPass, Stop, InsertFails, Abandon
  <2>3. todo' = todo \/ \E b : todo' = [todo EXCEPT ![p] = b]
    BY <1>1 DEF Pass, pass, OpenSpool, SkipLine, Duplicate, Missing, InsertEvent, EndOfFile,
       ListEvents, LookUpIncident, InsertIncident, EndPass, Stop, InsertFails, Abandon
  <2> QED
    BY <2>1, <2>2, <2>3
<1>2. ASSUME UNCHANGED pass PROVE ReportTyped'
  BY <1>2 DEF pass
<1>3. UNCHANGED pass \/ \E p \in Importers : Pass(p) \/ Stop(p)
  BY DEF Next, vars, pass, BeginLine, EndLine, Truncate, CommitContinuous
<1> QED
  BY <1>1, <1>2, <1>3

(* What an importer listed and reported holds while others go on. *)
LEMMA ListsStay ==
  ASSUME ~ Regrows, SpoolIsApart, AllHold, [Next]_vars, NEW q \in Importers,
         pc'[q] = pc[q], offset'[q] = offset[q], held'[q] = held[q],
         checkpoint'[q] = checkpoint[q], valid'[q] = valid[q], listed'[q] = listed[q],
         todo'[q] = todo[q]
  PROVE  Lists(q)'
<1> USE DEF AllHold, ReportInvariant
<1>1. Lists(q)
  BY DEF ListsHold
<1>2. Events(rows) \subseteq Events(rows') /\ incidents \subseteq incidents'
  BY RowsGrow, IncidentsGrow DEF Events
<1>3. pc[q] # "idle" => \A j \in 1 .. offset[q] : spool'[j] = spool[j]
  BY LinesStay
<1>4. Seen(q) /\ pc[q] # "idle" => Seen(q)'
  BY <1>3 DEF Seen
<1>5. Barren(q) /\ pc[q] # "idle" => Barren(q)'
  <2>1. offset[q] \in Nat /\ checkpoint[q] \in Nat
    BY DEF ImportInvariant, ImportTyped
  <2>2. \A j \in checkpoint[q] + 1 .. offset[q] : j \in 1 .. offset[q]
    BY <2>1
  <2> QED
    BY <1>3, <2>2 DEF Barren
<1> QED
  BY <1>1, <1>2, <1>4, <1>5 DEF Lists

(* Every action of a pass. *)
LEMMA PassLists ==
  ASSUME ~ Regrows, SpoolIsApart, AllHold, [Next]_vars, NEW p \in Importers, Pass(p) \/ Stop(p)
  PROVE  Lists(p)'
<1> USE DEF AllHold, ReportInvariant, ReportTyped, ImportInvariant, ImportTyped
<1>1. Lists(p) /\ offset[p] \in Nat /\ checkpoint[p] \in Nat
  BY DEF ListsHold
<1>2. Events(rows) \subseteq Events(rows') /\ incidents \subseteq incidents'
  BY RowsGrow, IncidentsGrow DEF Events
<1>3. CASE OpenSpool(p)
  <2>1. /\ pc[p] = "idle" /\ pc'[p] = "read" /\ valid'[p] = FALSE
        /\ offset'[p] = StartOffset(p) /\ checkpoint'[p] = StartOffset(p)
        /\ UNCHANGED <<listed, todo>> /\ StartOffset(p) \in Nat
    BY <1>3 DEF OpenSpool, StartOffset
  <2>2. Barren(p)'
    BY <2>1 DEF Barren
  <2> QED
    BY <1>1, <2>1, <2>2, NoMatches DEF Lists
<1>4. CASE SkipLine(p)
  <2>1. /\ pc[p] = "read" /\ pc' = pc /\ offset'[p] = offset[p] + 1
        /\ spool[offset[p] + 1].kind # "event"
        /\ UNCHANGED <<spool, checkpoint, valid, listed, todo>>
    BY <1>4 DEF SkipLine, Reading, Advance, NextLine, file
  <2>2. Barren(p) => Barren(p)'
    <3>1. \A j \in checkpoint[p] + 1 .. offset[p] + 1 :
            j \in checkpoint[p] + 1 .. offset[p] \/ j = offset[p] + 1
      BY <1>1
    <3> QED
      BY <1>1, <2>1, <3>1 DEF Barren
  <2> QED
    BY <1>1, <2>1, <2>2, NoMatches DEF Lists
<1>5. CASE Duplicate(p)
  BY <1>1, <1>5, NoMatches DEF Lists, Duplicate, ValidAfterDuplicate, Reading
<1>6. CASE Missing(p)
  <2>1. /\ pc[p] = "read" /\ pc'[p] = "insert"
        /\ UNCHANGED <<spool, checkpoint, offset, valid, listed, todo>>
    BY <1>6 DEF Missing, Reading, file
  <2>2. Barren(p) => Barren(p)'
    BY <2>1 DEF Barren
  <2> QED
    BY <1>1, <2>1, <2>2, NoMatches DEF Lists
<1>7. CASE InsertEvent(p)
  <2>1. pc[p] = "insert" /\ pc'[p] = "read" /\ valid'[p] = TRUE /\ UNCHANGED <<listed, todo>>
    BY <1>7 DEF InsertEvent
  <2> QED
    BY <1>1, <2>1, NoMatches DEF Lists
<1>8. CASE EndOfFile(p)
  <2>1. /\ pc[p] = "read" /\ pc'[p] = IF valid[p] THEN "list" ELSE "open"
        /\ UNCHANGED <<spool, checkpoint, offset, valid, listed, todo>>
    BY <1>8 DEF EndOfFile, file, pass
  <2>2. Barren(p) => Barren(p)'
    BY <2>1 DEF Barren
  <2> QED
    BY <1>1, <2>1, <2>2, NoMatches DEF Lists
<1>9. CASE ListEvents(p)
  <2>1. /\ pc[p] = "list" /\ pc'[p] = "open" /\ listed'[p] = Events(rows)
        /\ todo'[p] = Matches(Events(rows))
        /\ UNCHANGED <<spool, rows, offset, valid>>
    BY <1>9 DEF ListEvents, file, tables
  <2>2. valid[p]
    BY <1>1, <2>1 DEF Lists
  <2>3. Seen(p)'
    <3>1. Stored(offset[p])
      BY <2>1 DEF PassesHold
    <3>2. \A id : Known(id) => \E e \in Events(rows) : e.id = id
      BY DEF Known, Row, Events
    <3> QED
      BY <2>1, <3>1, <3>2 DEF Seen, Stored
  <2> QED
    BY <2>1, <2>2, <2>3 DEF Lists
<1>10. CASE LookUpIncident(p)
  <2>1. PICK m \in todo[p] :
          /\ todo' = [todo EXCEPT ![p] = @ \ {m}]
          /\ IF IncidentOf(m) \in incidents
             THEN UNCHANGED <<pc, held>>
             ELSE /\ held' = [held EXCEPT ![p] = m]
                  /\ pc' = [pc EXCEPT ![p] = "file"]
    BY <1>10 DEF LookUpIncident
  <2>2. /\ pc[p] = "open" /\ UNCHANGED <<spool, checkpoint, offset, valid, listed, rows, incidents>>
    BY <1>10 DEF LookUpIncident, file, tables
  <2>3. Seen(p) => Seen(p)'
    BY <2>2 DEF Seen
  <2>4. Barren(p) => Barren(p)'
    BY <2>2 DEF Barren
  <2>5. todo'[p] = todo[p] \ {m}
    BY <2>1
  <2>6. CASE IncidentOf(m) \in incidents
    <3>1. pc'[p] = "open"
      BY <2>1, <2>2, <2>6
    <3> QED
      BY <1>1, <2>2, <2>3, <2>4, <2>5, <2>6, <3>1 DEF Lists
  <2>7. CASE IncidentOf(m) \notin incidents
    <3>1. pc'[p] = "file" /\ held'[p] = m
      BY <2>1, <2>7
    <3> QED
      BY <1>1, <2>2, <2>3, <2>4, <2>5, <3>1 DEF Lists
  <2> QED
    BY <2>6, <2>7
<1>11. CASE InsertIncident(p)
  <2>1. /\ pc[p] = "file" /\ pc'[p] = "open" /\ incidents' = incidents \union {IncidentOf(held[p])}
        /\ UNCHANGED <<spool, checkpoint, offset, valid, listed, todo>>
    BY <1>11 DEF InsertIncident, file
  <2>2. Seen(p) => Seen(p)'
    BY <2>1 DEF Seen
  <2>3. Barren(p) => Barren(p)'
    BY <2>1 DEF Barren
  <2> QED
    BY <1>1, <1>2, <2>1, <2>2, <2>3 DEF Lists
<1>12. CASE EndPass(p)
  <2>1. pc[p] = "open" /\ todo[p] = {} /\ pc'[p] = "idle" /\ listed'[p] = {} /\ todo' = todo
    BY <1>12 DEF EndPass
  <2> QED
    BY <2>1, NoMatches DEF Lists
<1>13. CASE Stop(p) \/ InsertFails(p)
  <2>1. pc'[p] = "idle" /\ listed'[p] = {} /\ todo'[p] = {}
    BY <1>13 DEF Stop, InsertFails, Abandon
  <2> QED
    BY <2>1, NoMatches DEF Lists
<1> QED
  BY <1>3, <1>4, <1>5, <1>6, <1>7, <1>8, <1>9, <1>10, <1>11, <1>12, <1>13 DEF Pass

LEMMA ListsStep ==
  ASSUME ~ Regrows, SpoolIsApart, AllHold, [Next]_vars
  PROVE  ListsHold'
<1> SUFFICES ASSUME NEW q \in Importers PROVE Lists(q)'
  BY DEF ListsHold
<1>1. ASSUME UNCHANGED <<checkpoint, pc, pass>> PROVE Lists(q)'
  BY <1>1, ListsStay DEF pass
<1>2. ASSUME NEW p \in Importers, Pass(p) \/ Stop(p) PROVE Lists(q)'
  <2>1. CASE p = q
    BY <1>2, <2>1, PassLists
  <2>2. CASE p # q
    BY <1>2, <2>2, OthersStay, OtherPassesStay, ListsStay
       DEF AllHold, ImportInvariant, ReportInvariant
  <2> QED
    BY <2>1, <2>2
<1>3. UNCHANGED <<checkpoint, pc, pass>> \/ \E p \in Importers : Pass(p) \/ Stop(p)
  BY DEF Next, vars, pass, BeginLine, EndLine, Truncate, CommitContinuous
<1> QED
  BY <1>1, <1>2, <1>3

----
Passed(p) == {row.event : row \in {r \in rows : r.event.id \in PassedIds(p)}}

Reported(p) ==
  \A m \in Matches(Passed(p)) : \E i \in incidents : i[1] = m.rule /\ i[2] = m.first.id

(* Nothing new is passed: what was reported is. *)
LEMMA ReportedStays ==
  ASSUME SpoolIsApart, AllHold, [Next]_vars, NEW p \in Importers,
         PassedIds(p)' \subseteq PassedIds(p)
  PROVE  Reported(p)'
<1>1. \A id \in PassedIds(p) : Known(id)
  BY PassedAreStored DEF AllHold, NoLineIsSkipped
<1>2. Passed(p)' \subseteq Passed(p)
  BY <1>1, RowsGrow DEF Passed
<1>3. Reported(p)
  BY DEF AllHold, ReportInvariant, PassedSequencesReported, Reported, Passed
<1>4. ASSUME NEW m \in Matches(Passed(p)')
      PROVE  \E i \in incidents' : i[1] = m.rule /\ i[2] = m.first.id
  <2>1. PICK n \in Matches(Passed(p)) : n.rule = m.rule /\ n.first = m.first
    BY <1>2, MatchesGrow
  <2> QED
    BY <1>3, <2>1, IncidentsGrow DEF Reported
<1>5. Matches(Passed(p))' = Matches(Passed(p)')
  BY DEF Matches, BatchMatches, Successors, Completes, SameJoin, Before, Within, Earliest
<1> QED
  BY <1>4, <1>5 DEF Reported

(* A pass that lists before it ends: all its matches are reported. *)
LEMMA ReportedAtEnd ==
  ASSUME AllHold, [Next]_vars, NEW p \in Importers, EndPass(p), valid[p]
  PROVE  Reported(p)'
<1> USE DEF AllHold, ReportInvariant
<1>1. /\ pc[p] = "open" /\ todo[p] = {} /\ UNCHANGED <<spool, rows, incidents>>
      /\ checkpoint'[p] = offset[p] /\ offset[p] \in Nat
  BY DEF EndPass, file, tables, ImportInvariant, ImportTyped
<1>2. Seen(p) /\ listed[p] \subseteq Events(rows)
      /\ \A m \in Matches(listed[p]) : IncidentOf(m) \in incidents
  BY <1>1 DEF ListsHold, Lists
<1>3. Passed(p)' \subseteq listed[p]
  <2> SUFFICES ASSUME NEW row \in rows, row.event.id \in PassedIds(p)'
               PROVE  row.event \in listed[p]
    BY <1>1 DEF Passed
  <2>1. PICK j \in 1 .. offset[p] : spool[j].kind = "event" /\ row.event.id = spool[j].event.id
    BY <1>1 DEF PassedIds
  <2>2. PICK e \in listed[p] : e.id = row.event.id
    BY <1>2, <2>1 DEF Seen
  <2>3. PICK r2 \in rows : r2.event = e
    BY <1>2 DEF Events
  <2> QED
    BY <2>2, <2>3 DEF CommittedInvariant, Sound
<1>4. ASSUME NEW m \in Matches(Passed(p)')
      PROVE  \E i \in incidents' : i[1] = m.rule /\ i[2] = m.first.id
  <2>1. PICK n \in Matches(listed[p]) : n.rule = m.rule /\ n.first = m.first
    BY <1>3, MatchesGrow
  <2>2. IncidentOf(n) \in incidents'
    BY <1>1, <1>2
  <2>3. IncidentOf(n)[1] = m.rule /\ IncidentOf(n)[2] = m.first.id
    BY <2>1 DEF IncidentOf
  <2> QED
    BY <2>2, <2>3
<1>5. Matches(Passed(p))' = Matches(Passed(p)')
  BY DEF Matches, BatchMatches, Successors, Completes, SameJoin, Before, Within, Earliest
<1> QED
  BY <1>4, <1>5 DEF Reported

LEMMA PassedStep ==
  ASSUME ~ Regrows, SpoolIsApart, AllHold, [Next]_vars
  PROVE  PassedSequencesReported'
<1> USE DEF AllHold, ReportInvariant, ImportInvariant, ImportTyped
<1> SUFFICES ASSUME NEW q \in Importers PROVE Reported(q)'
  BY DEF PassedSequencesReported, Reported, Passed
<1>0. checkpoint[q] \in Nat /\ Len(spool) \in Nat /\ offset[q] \in Nat
  OBVIOUS
<1>1. CASE checkpoint'[q] = checkpoint[q]
  <2>1. PassedIds(q)' \subseteq PassedIds(q)
    <3>1. CASE spool' = spool
      BY <1>1, <3>1 DEF PassedIds
    <3>2. CASE /\ checkpoint[q] # Len(spool) + 1
               /\ Len(spool') = Len(spool) + 1
               /\ \A j \in 1 .. Len(spool) : spool'[j] = spool[j]
      BY <1>0, <1>1, <3>2 DEF PassedIds
    <3>3. CASE spool' = <<>>
      BY <1>0, <1>1, <3>3 DEF PassedIds
    <3> QED
      BY <3>1, <3>2, <3>3, SpoolChanges
  <2> QED
    BY <2>1, ReportedStays
<1>2. CASE OpenSpool(q)
  <2>1. checkpoint'[q] = StartOffset(q) /\ spool' = spool
    BY <1>2 DEF OpenSpool, file
  <2>2. PassedIds(q)' \subseteq PassedIds(q)
    BY <1>0, <2>1 DEF PassedIds, StartOffset
  <2> QED
    BY <2>2, ReportedStays
<1>3. CASE EndPass(q) /\ valid[q]
  BY <1>3, ReportedAtEnd
<1>4. CASE EndPass(q) /\ ~ valid[q]
  <2>1. checkpoint'[q] = offset[q] /\ spool' = spool /\ pc[q] = "open"
    BY <1>4 DEF EndPass, file
  <2>2. Barren(q) /\ offset[q] <= Len(spool)
    BY <1>4, <2>1 DEF ListsHold, Lists, PassesHold, Complete
  <2>3. PassedIds(q)' \subseteq PassedIds(q)
    <3>1. \A j \in 1 .. offset[q] : j \in 1 .. checkpoint[q] \/ j \in checkpoint[q] + 1 .. offset[q]
      BY <1>0
    <3> QED
      BY <1>0, <2>1, <2>2, <3>1 DEF PassedIds, Barren
  <2> QED
    BY <2>3, ReportedStays
<1>5. \/ checkpoint'[q] = checkpoint[q] \/ OpenSpool(q) \/ EndPass(q)
  <2>1. ASSUME NEW p \in Importers, Pass(p) \/ Stop(p), p # q
        PROVE  checkpoint'[q] = checkpoint[q]
    BY <2>1, OthersStay
  <2>2. ASSUME Pass(q) \/ Stop(q)
        PROVE  checkpoint'[q] = checkpoint[q] \/ OpenSpool(q) \/ EndPass(q)
    BY <2>2 DEF Pass, Stop, InsertFails, Abandon, SkipLine, Duplicate, Missing, InsertEvent,
                EndOfFile, ListEvents,
       LookUpIncident, InsertIncident
  <2>3. UNCHANGED checkpoint \/ \E p \in Importers : Pass(p) \/ Stop(p)
    BY DEF Next, vars, BeginLine, EndLine, Truncate, CommitContinuous
  <2> QED
    BY <2>1, <2>2, <2>3
<1> QED
  BY <1>1, <1>2, <1>3, <1>4, <1>5

LEMMA AllStep ==
  ASSUME ~ Regrows, SpoolIsApart, AllHold, [Next]_vars
  PROVE  AllHold'
<1>1. ImportInvariant'
  BY ImportStep DEF AllHold
<1>2. CommittedInvariant'
  BY <1>1, HarmlessStep DEF AllHold, ImportInvariant
<1> QED
  BY <1>1, <1>2, ReportTypedStep, InsertsStep, ListsStep, PassedStep DEF AllHold, ReportInvariant

LEMMA AllInit == Init => AllHold
<1> SUFFICES ASSUME Init PROVE AllHold
  OBVIOUS
<1>1. ImportInvariant
  BY ImportInit
<1>2. CommittedInvariant
  BY DEF Init, CommittedInvariant, Sound, PassesAreHarmless
<1>3. ReportTyped /\ InsertsHold
  BY DEF Init, ReportTyped, InsertsHold
<1>4. ListsHold
  BY NoMatches DEF Init, ListsHold, Lists
<1>5. PassedSequencesReported
  <2> SUFFICES ASSUME NEW p \in Importers PROVE Passed(p) = {}
    BY NoMatches DEF PassedSequencesReported, Passed
  <2> QED
    BY DEF Init, Passed
<1> QED
  BY <1>1, <1>2, <1>3, <1>4, <1>5 DEF AllHold, ReportInvariant

(* When both events of a rule lie behind a checkpoint, the opening event    *)
(* has an incident of that rule, for any number of importers, producers,    *)
(* lines, truncations and passes cut short anywhere: the daemon's poll loop *)
(* and the command line may insert, list and correlate at once.             *)
THEOREM PassedIsReported ==
  ASSUME ~ Regrows, SpoolIsApart PROVE Spec => []PassedSequencesReported
<1>1. AllHold /\ [Next]_vars => AllHold'
  BY AllStep
<1>2. AllHold => PassedSequencesReported
  BY DEF AllHold, ReportInvariant
<1> QED
  BY <1>1, <1>2, AllInit, PTL DEF Spec

(* The table of events only grows: whoever inserts an event again, alone or *)
(* with an incident, writes what is there.                                  *)
THEOREM RowsAreFinal ==
  ASSUME ~ Regrows, SpoolIsApart PROVE Spec => [][rows \subseteq rows']_vars
<1>1. AllHold /\ [Next]_vars => AllHold'
  BY AllStep
<1>2. AllHold /\ [Next]_vars => [rows \subseteq rows']_vars
  BY RowsGrow
<1> QED
  BY <1>1, <1>2, AllInit, PTL DEF Spec

====
