---- MODULE SpoolImport ----
(***************************************************************************)
(* ingest_canonical_jsonl_spool: the import of a JSONL spool file into the *)
(* local store, run by the daemon every five seconds (and once at startup) *)
(* and by the command line, beside the continuous ingestion that commits   *)
(* into the same tables.                                                   *)
(*                                                                         *)
(* Every importer has a checkpoint file of its own.  Offsets are counted   *)
(* in lines of the spool; its last line may still lack its newline.  Each  *)
(* statement of the importer is a transaction of its own, so that a pass   *)
(* may stop, and another writer commit, between any two of them.           *)
(***************************************************************************)
EXTENDS Correlation, Sequences

CONSTANTS
  Importers,        \* the daemon's poll loop, the command line
  Lines,            \* what lines hold: [kind, event]
  Frames,           \* what producers deliver by socket: [source, event]
  Projected,        \* the payload continuous ingestion stores for an event
  MaxTime,          \* i64::MAX: the latest time a row can hold
  MaxLines,         \* bound on the lines of the spool
  MaxTruncations,   \* bound on truncations of the spool
  Regrows,          \* may it be truncated in a pass, or regrow unseen by an importer?
  MaxStops          \* bound on passes cut short

ASSUME ImportAssumption ==
  /\ \A l \in Lines : l.kind \in {"event", "malformed", "blank"}
  /\ \A f \in Frames : f.source # None /\ f.event \in DOMAIN Projected
  /\ \A e \in DOMAIN Projected : Projected[e].id = e.id
  /\ {MaxTime, MaxLines, MaxTruncations, MaxStops} \subseteq Nat
  /\ Regrows \in BOOLEAN

VARIABLES
  spool,        \* the lines of the spool file
  partial,      \* does the last of them lack its newline?
  rows,         \* table events: [source, event]
  incidents,    \* table incidents: their identifiers, <<rule, first, second>>
  checkpoint,   \* the checkpoint file of each importer
  pc,           \* where each importer is
  offset,       \* last_processed_byte of its pass
  valid,        \* processed_valid_event of its pass
  held,         \* the event or match it looked up and did not find
  listed,       \* the rows its list_events returned
  todo,         \* matches it has still to look up
  truncations, stops

file == <<spool, partial, truncations>>
tables == <<rows, incidents>>
pass == <<offset, valid, held, listed, todo>>
vars == <<spool, partial, rows, incidents, checkpoint, pc, offset, valid, held,
          listed, todo, truncations, stops>>

Phases == {"idle", "read", "insert", "list", "open", "file"}

Complete == Len(spool) - (IF partial THEN 1 ELSE 0)

Row(id) == {row \in rows : row.event.id = id}
Known(id) == Row(id) # {}

(* sqlite_unix_ms: an envelope's time is a u64 that validate leaves alone,  *)
(* a column's is an i64.                                                   *)
Storable(event) == event.time <= MaxTime

Init ==
  /\ spool = <<>>
  /\ partial = FALSE
  /\ rows = {}
  /\ incidents = {}
  /\ checkpoint = [p \in Importers |-> 0]
  /\ pc = [p \in Importers |-> "idle"]
  /\ offset = [p \in Importers |-> 0]
  /\ valid = [p \in Importers |-> FALSE]
  /\ held = [p \in Importers |-> None]
  /\ listed = [p \in Importers |-> {}]
  /\ todo = [p \in Importers |-> {}]
  /\ truncations = 0
  /\ stops = 0

----
(* The spool file and the socket.                                          *)

(* One more line and a truncated file is as long as a checkpoint. *)
AboutToMatch == \E p \in Importers : checkpoint[p] = Len(spool) + 1

(* A writer appends a line, and its newline later. *)
BeginLine(l) ==
  /\ ~ partial
  /\ Len(spool) < MaxLines
  /\ Regrows \/ ~ AboutToMatch
  /\ spool' = Append(spool, l)
  /\ partial' = TRUE
  /\ UNCHANGED <<tables, checkpoint, pc, pass, truncations, stops>>

EndLine ==
  /\ partial
  /\ partial' = FALSE
  /\ UNCHANGED <<spool, tables, checkpoint, pc, pass, truncations, stops>>

(* The file is truncated or replaced; unless Regrows, between passes. *)
Truncate ==
  /\ truncations < MaxTruncations
  /\ Regrows \/ \A p \in Importers : pc[p] = "idle"
  /\ truncations' = truncations + 1
  /\ spool' = <<>>
  /\ partial' = FALSE
  /\ UNCHANGED <<tables, checkpoint, pc, pass, stops>>

(* commit_continuous_event, as its own module shows it to be: one step that *)
(* stores the projected event unless the identifier is taken, or fails.    *)
CommitContinuous(f) ==
  /\ ~ Known(f.event.id)
  /\ Storable(Projected[f.event])
  /\ rows' = rows \union {[source |-> f.source, event |-> Projected[f.event]]}
  /\ UNCHANGED <<file, incidents, checkpoint, pc, pass, stops>>

----
(* One pass of an importer.                                                *)

(* Mutants: a checkpoint behind the end of the file is believed, or moved   *)
(* to the end of the file.                                                 *)
BelievedOffset(p) == checkpoint[p]
EndOffset(p) == IF checkpoint[p] > Len(spool) THEN Complete ELSE checkpoint[p]

StartOffset(p) == IF checkpoint[p] > Len(spool) THEN 0 ELSE checkpoint[p]

(* Open the spool, compare its length with the checkpoint, seek. *)
OpenSpool(p) ==
  /\ pc[p] = "idle"
  /\ offset' = [offset EXCEPT ![p] = StartOffset(p)]
  /\ checkpoint' = [checkpoint EXCEPT ![p] = StartOffset(p)]
  /\ valid' = [valid EXCEPT ![p] = FALSE]
  /\ pc' = [pc EXCEPT ![p] = "read"]
  /\ UNCHANGED <<file, tables, held, listed, todo, stops>>

Reading(p) == pc[p] = "read" /\ offset[p] < Complete
NextLine(p) == spool[offset[p] + 1]
Advance(p) == offset' = [offset EXCEPT ![p] = @ + 1]

(* A blank line is passed over, a malformed one counted as dropped. *)
SkipLine(p) ==
  /\ Reading(p)
  /\ NextLine(p).kind # "event"
  /\ Advance(p)
  /\ UNCHANGED <<file, tables, checkpoint, pc, valid, held, listed, todo, stops>>

(* Mutant: only new events make the pass correlate. *)
NewEventsOnly(p) == valid[p]

(* A duplicate makes the pass correlate as well. *)
ValidAfterDuplicate(p) == TRUE

(* get_event finds the identifier. *)
Duplicate(p) ==
  /\ Reading(p)
  /\ NextLine(p).kind = "event"
  /\ Known(NextLine(p).event.id)
  /\ valid' = [valid EXCEPT ![p] = ValidAfterDuplicate(p)]
  /\ Advance(p)
  /\ UNCHANGED <<file, tables, checkpoint, pc, held, listed, todo, stops>>

(* get_event finds nothing: the pass is going to insert. *)
Missing(p) ==
  /\ Reading(p)
  /\ NextLine(p).kind = "event"
  /\ ~ Known(NextLine(p).event.id)
  /\ held' = [held EXCEPT ![p] = NextLine(p).event]
  /\ pc' = [pc EXCEPT ![p] = "insert"]
  /\ UNCHANGED <<file, tables, checkpoint, offset, valid, listed, todo, stops>>

(* Mutant: the row is replaced as a whole. *)
Replaced(table, event) ==
  {row \in table : row.event.id # event.id} \union {[source |-> None, event |-> event]}

(* insert_event is INSERT ... ON CONFLICT(id) DO UPDATE: a row that appeared *)
(* in between keeps its ingest source and loses its payload.               *)
Upserted(table, event) ==
  IF \E row \in table : row.event.id = event.id
  THEN {[source |-> row.source, event |-> IF row.event.id = event.id THEN event ELSE row.event] :
        row \in table}
  ELSE table \union {[source |-> None, event |-> event]}

InsertEvent(p) ==
  /\ pc[p] = "insert"
  /\ Storable(held[p])
  /\ rows' = Upserted(rows, held[p])
  /\ held' = [held EXCEPT ![p] = None]
  /\ valid' = [valid EXCEPT ![p] = TRUE]
  /\ Advance(p)
  /\ pc' = [pc EXCEPT ![p] = "read"]
  /\ UNCHANGED <<file, incidents, checkpoint, listed, todo, stops>>

(* The pass ends where it is, with its checkpoint as it was. *)
Abandon(p) ==
  /\ pc' = [pc EXCEPT ![p] = "idle"]
  /\ offset' = [offset EXCEPT ![p] = 0]
  /\ valid' = [valid EXCEPT ![p] = FALSE]
  /\ held' = [held EXCEPT ![p] = None]
  /\ listed' = [listed EXCEPT ![p] = {}]
  /\ todo' = [todo EXCEPT ![p] = {}]
  /\ UNCHANGED <<file, tables, checkpoint>>

(* An event that cannot be stored ends the pass and the daemon: the next    *)
(* pass comes to the same line, and so does every one after it.            *)
InsertFails(p) ==
  /\ pc[p] = "insert"
  /\ ~ Storable(held[p])
  /\ Abandon(p)
  /\ UNCHANGED stops

(* No complete line is left: correlate if there was an event at all. *)
EndOfFile(p) ==
  /\ pc[p] = "read"
  /\ offset[p] >= Complete
  /\ pc' = [pc EXCEPT ![p] = IF valid[p] THEN "list" ELSE "open"]
  /\ UNCHANGED <<file, tables, checkpoint, pass, stops>>

Events(table) == {row.event : row \in table}

(* Every match of every rule over the rows of all sources. *)
Matches(stored) ==
  UNION {{[rule |-> r, first |-> pair[1], second |-> pair[2]] : pair \in BatchMatches(r, stored)} :
         r \in Rules}

IncidentOf(m) == <<m.rule, m.first.id, m.second.id>>

ListEvents(p) ==
  /\ pc[p] = "list"
  /\ listed' = [listed EXCEPT ![p] = Events(rows)]
  /\ todo' = [todo EXCEPT ![p] = Matches(Events(rows))]
  /\ pc' = [pc EXCEPT ![p] = "open"]
  /\ UNCHANGED <<file, tables, checkpoint, offset, valid, held, stops>>

(* get_incident for the next match: one already stored is left alone. *)
LookUpIncident(p) ==
  /\ pc[p] = "open"
  /\ \E m \in todo[p] :
       /\ todo' = [todo EXCEPT ![p] = @ \ {m}]
       /\ IF IncidentOf(m) \in incidents
          THEN UNCHANGED <<pc, held>>
          ELSE /\ held' = [held EXCEPT ![p] = m]
               /\ pc' = [pc EXCEPT ![p] = "file"]
  /\ UNCHANGED <<file, tables, checkpoint, offset, valid, listed, stops>>

(* insert_incident: in one transaction the matched events as they were      *)
(* listed, upserted again, and the incident.                                *)
InsertIncident(p) ==
  /\ pc[p] = "file"
  /\ rows' = Upserted(Upserted(rows, held[p].first), held[p].second)
  /\ incidents' = incidents \union {IncidentOf(held[p])}
  /\ held' = [held EXCEPT ![p] = None]
  /\ pc' = [pc EXCEPT ![p] = "open"]
  /\ UNCHANGED <<file, checkpoint, offset, valid, listed, todo, stops>>

(* Write the checkpoint beside the file and rename it over it. *)
EndPass(p) ==
  /\ pc[p] = "open"
  /\ todo[p] = {}
  /\ checkpoint' = [checkpoint EXCEPT ![p] = offset[p]]
  /\ pc' = [pc EXCEPT ![p] = "idle"]
  /\ offset' = [offset EXCEPT ![p] = 0]
  /\ valid' = [valid EXCEPT ![p] = FALSE]
  /\ listed' = [listed EXCEPT ![p] = {}]
  /\ UNCHANGED <<file, tables, held, todo, stops>>

(* An I/O or storage error ends the pass (and the daemon), or the process   *)
(* dies; a later pass begins at the checkpoint.                             *)
Stop(p) ==
  /\ pc[p] # "idle"
  /\ stops < MaxStops
  /\ stops' = stops + 1
  /\ Abandon(p)

Pass(p) ==
  \/ OpenSpool(p)
  \/ SkipLine(p)
  \/ Duplicate(p)
  \/ Missing(p)
  \/ InsertEvent(p)
  \/ InsertFails(p)
  \/ EndOfFile(p)
  \/ ListEvents(p)
  \/ LookUpIncident(p)
  \/ InsertIncident(p)
  \/ EndPass(p)

Next ==
  \/ \E l \in Lines : BeginLine(l)
  \/ EndLine
  \/ Truncate
  \/ \E f \in Frames : CommitContinuous(f)
  \/ \E p \in Importers : Pass(p) \/ Stop(p)

Spec == Init /\ [][Next]_vars

(* The poll loop sleeps five seconds and begins another pass, and systemd   *)
(* restarts the daemon on failure; nothing obliges writers or producers.    *)
FairSpec == Spec /\ \A p \in Importers : WF_vars(Pass(p))

----
(* An identifier has one row, whichever importers and producers raced for   *)
(* it and however often a pass was repeated.                                *)
OneRowPerEvent == \A r1, r2 \in rows : r1.event.id = r2.event.id => r1 = r2

(* The identifiers of the events on the lines a checkpoint has passed; one  *)
(* that lies behind the end of the file has passed none of it.             *)
PassedIds(p) ==
  IF checkpoint[p] > Len(spool) THEN {}
  ELSE {spool[i].event.id : i \in {j \in 1 .. checkpoint[p] : spool[j].kind = "event"}}

(* A checkpoint never passes an event that is not stored: what a pass has   *)
(* not accounted for is read again, after a stop as after a truncation.     *)
NoLineIsSkipped ==
  \A p \in Importers : \A id \in PassedIds(p) : Known(id)

(* A checkpoint never passes a sequence that is not reported: when both     *)
(* events of a rule lie behind it, the opening event has an incident of     *)
(* that rule, also when the pass that stored the events died before it      *)
(* could correlate them.                                                    *)
PassedSequencesReported ==
  \A p \in Importers :
    \A m \in Matches({row.event : row \in {r \in rows : r.event.id \in PassedIds(p)}}) :
      \E i \in incidents : i[1] = m.rule /\ i[2] = m.first.id

(* What continuous ingestion has committed keeps its payload, whatever is   *)
(* imported beside it.                                                      *)
CommittedPayloadsLast ==
  [][\A row \in rows : row.source # None => row \in rows']_vars

(* The complete lines no pass gets over: an event that is not stored and    *)
(* cannot be.                                                              *)
Unstorable ==
  {i \in 1 .. Complete :
     /\ spool[i].kind = "event"
     /\ ~ Storable(spool[i].event)
     /\ ~ Known(spool[i].event.id)}

(* In the end the events of the complete lines are stored and every         *)
(* checkpoint lies behind them, however the passes were cut short.  A line  *)
(* that cannot be stored holds every importer up for ever: of a spool with  *)
(* one, only the events before the first such line come in.                *)
SpoolIsImported ==
  <>[](/\ \A i \in 1 .. Complete :
            \/ \E j \in Unstorable : j <= i
            \/ spool[i].kind = "event" => Known(spool[i].event.id)
       /\ Unstorable = {} => \A p \in Importers : checkpoint[p] = Complete)

====
