---- MODULE CorrelatedLedger ----
(***************************************************************************)
(* The ledger of ingested events with the correlation of the code, and     *)
(* what that correlation guarantees whatever the order of arrival.         *)
(***************************************************************************)
EXTENDS Correlation, Sequences

CONSTANTS
  Frames,            \* what producers send: records [source, event]
  Imported,          \* rows that predate ingestion, with no ingest source
  ForeignIncidents   \* incident rows written by another path of the program

VARIABLES events, receipts, incidents

ASSUME LedgerAssumption ==
  /\ IsFiniteSet(Imported)
  /\ \A row \in Imported : row.source = None
  /\ \A f \in Frames : f.source # None /\ f.event.id \in Nat /\ f.event.time \in Nat

INSTANCE EventLedger WITH OpenedBy <- IncidentsOf

----
(* Of two recorded events, the one recorded last: the trigger that had the  *)
(* other within its candidates' reach.                                      *)
RecordedLast(a, b) ==
  LET at(e) == CHOOSE i \in DOMAIN receipts : receipts[i].id = e.id
  IN  IF at(a) < at(b) THEN b ELSE a

Reported(kind, e) ==
  \E incident \in incidents :
    /\ incident.id.kind \in {kind, "degraded"}
    /\ e \in {incident.payload[i] : i \in DOMAIN incident.payload}

Authenticated(r1, r2) == r1.source # None /\ r1.source = r2.source

(* Whatever the order of arrival, a sensitive read and a later egress that  *)
(* qualify as exfiltration are never both recorded without an incident that *)
(* cites the one recorded last, or the notice that its correlation was cut  *)
(* short.                                                                   *)
ExfiltrationReported ==
  \A r1, r2 \in events :
    (Authenticated(r1, r2) /\ Exfiltrates(r1.event, r2.event))
      => Reported("exfil", RecordedLast(r1.event, r2.event))

(* The same for a sequence rule, except that a closing event looks for      *)
(* opening events only back to the closing event before it.                 *)
SequenceReported ==
  \A r \in Rules, r1, r2 \in events :
    LET last == RecordedLast(r1.event, r2.event)
        between == {row \in events : /\ row.source = r1.source
                                     /\ r \in row.event.closes
                                     /\ SameJoin(row.event, r1.event)
                                     /\ Before(r1.event, row.event)
                                     /\ Before(row.event, r2.event)}
    IN  (/\ Authenticated(r1, r2)
         /\ Completes(r, r1.event, r2.event)
         /\ last = r2.event => between = {})
        => Reported(r, last)

(* When the events of a source arrive in time order and no correlation was  *)
(* cut short, ingestion agrees with the batch engine run afterwards over    *)
(* all of them: it opens only incidents of the batch, and every event that  *)
(* ends a match of the batch ends one that has its incident.                *)
ArrivedInOrder(source) ==
  \A i, j \in DOMAIN receipts :
    (i < j /\ receipts[i].source = source /\ receipts[j].source = source) =>
      \E first, second \in Recorded(source) :
        first.id = receipts[i].id /\ second.id = receipts[j].id /\ Before(first, second)

OpenedPairs(r, source) ==
  {incident.payload : incident \in
     {i \in incidents \ ForeignIncidents :
        i.id.kind = r /\ i.payload[1] \in Recorded(source)}}

AgreesWithBatch ==
  \A r \in Rules, source \in {f.source : f \in Frames} :
    LET batch == BatchMatches(r, Recorded(source))
        pairs == OpenedPairs(r, source)
    IN  (/\ ArrivedInOrder(source)
         /\ \A incident \in incidents : incident.id.kind # "degraded")
        => /\ pairs \subseteq batch
           /\ \A p \in batch : \E q \in batch : q[2] = p[2] /\ Cites(r, q) \in incidents

====
