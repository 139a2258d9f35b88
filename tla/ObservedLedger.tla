---- MODULE ObservedLedger ----
(***************************************************************************)
(* From what the plugin's hooks observe to the incidents the daemon opens: *)
(* the hooks' events, in any order of delivery, through validation and     *)
(* projection, into the ledger with its correlation.  Other producers of   *)
(* the same user send canonical events of their own.                       *)
(*                                                                         *)
(* Delivery itself is HermesTransport, the transaction ContinuousIngest;   *)
(* here an event is pending, recorded or refused.                          *)
(***************************************************************************)
EXTENDS Projection, Sequences

CONSTANTS
  Tenant, Trace,     \* SKYNET_EDR_TENANT, HERMES_SESSION_ID of the plugin
  DottedTools,       \* tool names of the form server.tool
  Observations,      \* what the hooks may observe
  OtherEvents,       \* canonical events of other producers
  Source,            \* the authenticated source all of them come from
  Gaps,              \* times that may pass between two observations
  Counts,            \* where the counter of identifiers may stand at first
  MaxCount,          \* bound on it
  IdentifierOf,      \* the identifier of a count: a number in the order of the texts
  MaxInputs,         \* bound on observations and other events together
  Imported,          \* rows that predate ingestion, with no ingest source
  ForeignIncidents   \* incident rows written by another path of the program

INSTANCE HookEvents

Fields ==
  {"id", "time", "type", "kind", "trust", "severity", "profile", "tenant", "trace", "parent",
   "session", "source_event", "span", "artifact", "title", "details", "attributes", "redacted"}

ASSUME ObservedAssumption ==
  /\ Rules = BuiltInRules
  /\ IsFiniteSet(Imported) /\ \A row \in Imported : row.source = None
  /\ Source # None
  /\ Gaps \subseteq Nat /\ Counts \subseteq Nat /\ MaxCount \in Nat
  /\ IdentifierOf \in [1 .. MaxCount -> Nat]
  /\ \A m, n \in 1 .. MaxCount : IdentifierOf[m] = IdentifierOf[n] => m = n
  /\ Observations \subseteq Observation
  /\ \A event \in OtherEvents : DOMAIN event = Fields /\ event.severity = "other"

(* The plugin runs tools of safe names only. *)
ASSUME ToolsAssumption ==
  /\ \A o \in Observations : o.hook \in {"pre_tool_call", "post_tool_call"} => o.tool \in ToolNames
  /\ "simulation" \in OtherTools
  /\ \A tool \in OtherTools : tool # "secret_text" /\ tool # "local_path"

(* Its tenant and trace are identities; None is no identity and no digest. *)
ASSUME IdentityAssumption ==
  /\ Trace # None /\ Tenant \notin BadIdentities /\ Trace \notin BadIdentities
  /\ BadIdentities \intersect (Nat \union {None}) = {}
  /\ None # "bad"
  /\ \A name \in {Trace} \union UNION {{event.trace, event.session} : event \in OtherEvents} :
       /\ None # [domain |-> "trace", of |-> name]
       /\ None # [domain |-> "session", of |-> name]

VARIABLES
  events,     \* the rows recorded so far
  receipts,   \* their identifiers and sources, in the order of recording
  incidents,  \* the incidents opened so far
  observed,   \* what was observed: [o, at, ids]
  now,        \* observed_at_unix_ms of the last of it
  last,       \* the count of the last identifier that was given to an event
  pending,    \* events not delivered yet
  rows,       \* the projected event behind every recorded one
  raw,        \* history: the event as it was delivered
  refused     \* events the daemon refused

(* _write_event gives an event its identifier, and its time. *)
Stamped(event, id, time) ==
  [event EXCEPT !.id = id, !.time = time, !.source_event = id, !.span = id]

(* Another producer's event, under an identifier of its own. *)
Identified(event, id, time) == [event EXCEPT !.id = id, !.time = time]

(* What the daemon commits of an admitted event: its projection, which       *)
(* correlates as what is read back of it.                                    *)
FrameOf(event) == [source |-> Source, event |-> ClassOf(ReadBack(Projected(event)))]

(* Every event that may be delivered, and the frames of the ledger.          *)
Reports == UNION {{EventsOf(o)[i] : i \in DOMAIN EventsOf(o)} : o \in Observations}

Deliverable ==
  {Stamped(event, id, time) : event \in Reports, id \in Nat, time \in Nat}
    \union {Identified(event, id, time) : event \in OtherEvents, id \in Nat, time \in Nat}

Frames == {FrameOf(event) : event \in Deliverable}

INSTANCE EventLedger WITH OpenedBy <- IncidentsOf

vars == <<events, receipts, incidents, observed, now, last, pending, rows, raw, refused>>

Init ==
  /\ LedgerInit
  /\ observed = <<>>
  /\ now = 0
  /\ last \in Counts
  /\ pending = {}
  /\ rows = {}
  /\ raw = {}
  /\ refused = {}

Others == {e \in pending \union raw \union refused : e.severity = "other"}
Inputs == Len(observed) + Cardinality(Others)

Observe(o) ==
  /\ Inputs < MaxInputs
  /\ last + Len(EventsOf(o)) <= MaxCount
  /\ \E gap \in IF observed = <<>> THEN {0} ELSE Gaps :
       LET new == EventsOf(o)
           id == [i \in DOMAIN new |-> IdentifierOf[last + i]]
       IN  /\ now' = now + gap
           /\ last' = last + Len(new)
           /\ observed' = Append(observed, [o |-> o, at |-> now + gap,
                                            ids |-> {id[i] : i \in DOMAIN new}])
           /\ pending' = pending \union {Stamped(new[i], id[i], now + gap) : i \in DOMAIN new}
  /\ UNCHANGED <<events, receipts, incidents, rows, raw, refused>>

SendOther(event) ==
  /\ Inputs < MaxInputs
  /\ last < MaxCount
  /\ last' = last + 1
  /\ pending' = pending \union {Identified(event, IdentifierOf[last + 1], now)}
  /\ UNCHANGED <<events, receipts, incidents, observed, now, rows, raw, refused>>

(* Projection admits the event and commit_continuous_event records it. *)
Deliver(event) ==
  /\ event \in pending
  /\ Admissible(event)
  /\ Record(FrameOf(event))
  /\ rows' = rows \union {Projected(event)}
  /\ raw' = raw \union {event}
  /\ pending' = pending \ {event}
  /\ UNCHANGED <<observed, now, last, refused>>

(* The daemon answers "rejected", which ends the event for its producer. *)
Reject(event) ==
  /\ event \in pending
  /\ ~ Admissible(event)
  /\ refused' = refused \union {event}
  /\ pending' = pending \ {event}
  /\ UNCHANGED <<events, receipts, incidents, observed, now, last, rows, raw>>

Next ==
  \/ \E o \in Observations : Observe(o)
  \/ \E event \in OtherEvents : SendOther(event)
  \/ \E event \in pending : Deliver(event) \/ Reject(event)

Spec == Init /\ [][Next]_vars

----
RowOf(event) == CHOOSE row \in rows : row.id = event.id

(* The plugin and the daemon agree on every event but two kinds: a result   *)
(* for which the plugin declares the redaction of a preview it does not     *)
(* send, and a message list beyond the daemon's bound.                      *)
OnlyKnownRefusals ==
  \A event \in refused :
    event.severity # "other" =>
      \/ \E f \in event.redacted : f.path = "result_preview"
      \/ Has(event.attributes, "message_count", "more")

(* What every post_tool_call of the plugin reports, once it is answered,    *)
(* is recorded.                                                             *)
ToolResultsAreRecorded ==
  \A event \in refused : event.type # "agent.tool.completed" \/ event.profile # "plugin"

(* A pseudonym does not stand for two identities or for one of another      *)
(* domain: two rows join exactly when the events their producers sent would. *)
JoinsSurvive ==
  \A a, b \in raw :
    /\ SameJoin(RowOf(a), RowOf(b)) <=> SameJoin(a, b)
    /\ P1Joined(RowOf(a), RowOf(b)) <=> P1Joined(a, b)

----
(* What the agent did, in terms of what the hooks saw.                      *)

Settled(x) == \A id \in x.ids : id \in {row.id : row \in rows}
ReportedFor(kind, x) ==
  \E incident \in incidents :
    /\ incident.id.kind \in {kind, "degraded"}
    /\ \E i \in DOMAIN incident.payload : incident.payload[i].id \in x.ids

Seen == {observed[i] : i \in DOMAIN observed}

(* What the daemon takes for earlier: the smaller time and, within one       *)
(* millisecond, the smaller identifier.                                     *)
InOrder(x, y) ==
  x.at < y.at \/ (x.at = y.at /\ \A p \in x.ids, q \in y.ids : p < q)

Reads(x) == x.o.hook = "pre_tool_call" /\ x.o.tool \in {"read_file", "search_files"} /\ x.o.sensitive

SendsOut(x) ==
  /\ x.o.hook = "pre_tool_call"
  /\ \/ x.o.tool \in PluginDeliveryTools
     \/ x.o.network /\ x.o.tool \notin FileTools

(* A sensitive read and, within the window, anything that leaves the        *)
(* machine are reported, however their events were ordered on the way.      *)
ExfiltrationObserved ==
  \A x, y \in Seen :
    (/\ Reads(x) /\ SendsOut(y)
     /\ InOrder(x, y) /\ y.at - x.at <= P1Window
     /\ Settled(x) /\ Settled(y))
      => ReportedFor("exfil", x) \/ ReportedFor("exfil", y)

Injected(x) == x.o.hook = "post_tool_call" /\ x.o.injection /\ x.o.tool # "simulation"

(* The rule of DETECTIONS.md that an action falls under. *)
RuleFor(o) ==
  CASE o.hook = "post_tool_call" /\ o.tool = "cronjob" /\ o.scheduled -> {"EDR-CRON-001"}
    [] o.hook = "pre_tool_call" /\ o.tool \in PluginProcessTools /\ o.network /\ o.ip -> {"EDR-NET-001"}
    [] o.hook = "pre_tool_call" /\ o.tool \in PluginDeliveryTools /\ o.sensitive -> {"EDR-MSG-001"}
    [] o.hook = "pre_tool_call" /\ o.network /\ SourceKind(o.tool) = "mcp_tool" -> {"EDR-MCP-001"}
    [] o.hook = "pre_tool_call" /\ o.network /\ o.sensitive
         /\ SourceKind(o.tool) \in {"file", "process"} /\ ~ (o.ip /\ SourceKind(o.tool) = "process") -> {"EDR-PI-001"}
    [] OTHER -> {}

(* A recorded action under the rule, between two observations. *)
Between(rule, row, x, y) ==
  /\ row.source = Source /\ rule \in row.event.closes
  /\ x.at <= row.event.time /\ row.event.time <= y.at

(* An action that follows untrusted instructions within the window is       *)
(* reported under its rule; or an earlier one is, to which a match looks     *)
(* back no further.                                                         *)
InjectionObserved ==
  \A x, y \in Seen, rule \in BuiltInRules :
    (/\ Injected(x) /\ rule \in RuleFor(y.o)
     /\ InOrder(x, y) /\ y.at - x.at <= RuleWindow[rule]
     /\ Settled(x) /\ Settled(y))
      => \/ ReportedFor(rule, x) \/ ReportedFor(rule, y)
         \/ \E row \in events : Between(rule, row, x, y) /\ ReportedFor(rule, [ids |-> {row.event.id}])

====
