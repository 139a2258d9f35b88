---- MODULE EventLedger ----
(***************************************************************************)
(* What continuous ingestion promises, with no threads, locks, crashes or  *)
(* lost answers: an append-only ledger with one row per event identifier,  *)
(* each recorded in one step with the incidents it gives rise to.  What    *)
(* those are is a parameter; ContinuousIngest implements this ledger with  *)
(* the operator of Correlation, and CorrelatedLedger says what it is worth *)
(* with that operator.                                                     *)
(***************************************************************************)
EXTENDS Sequences

CONSTANTS
  Frames,               \* what producers send: records [source, event]
  Imported,             \* rows that predate ingestion, with no ingest source
  ForeignIncidents,     \* incident rows written by another path of the program
  OpenedBy(_, _, _)     \* incidents [id, payload] that an event opens, given
                        \* its source and the recorded events of that source

VARIABLES
  events,     \* the rows recorded so far
  receipts,   \* their identifiers and sources, in the order of recording
  incidents   \* the incidents opened so far

ledgerVars == <<events, receipts, incidents>>

LedgerInit ==
  /\ events = Imported
  /\ receipts = <<>>
  /\ incidents = ForeignIncidents

Recorded(source) == {row.event : row \in {r \in events : r.source = source}}

(* An identifier is recorded once, with its first payload and source, and   *)
(* only if no incident it opens contradicts a stored one.                   *)
Record(frame) ==
  LET new == OpenedBy(frame.source, Recorded(frame.source), frame.event)
  IN  /\ \A row \in events : row.event.id # frame.event.id
      /\ \A incident \in new, stored \in incidents :
           stored.id = incident.id => stored.payload = incident.payload
      /\ events' = events \union {frame}
      /\ receipts' = Append(receipts, [id |-> frame.event.id, source |-> frame.source])
      /\ incidents' = incidents \union new

LedgerNext == \E frame \in Frames : Record(frame)

LedgerSpec == LedgerInit /\ [][LedgerNext]_ledgerVars

====
