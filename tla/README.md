# Skynet-EDR in TLA+

Skynet-EDR observes AI agents: a plugin inside the agent runtime (Hermes) turns
hook calls into canonical events and delivers them over a Unix socket to a local
daemon, which validates and projects them, stores them in SQLite, correlates them and
opens incidents; a dashboard reads these over a local HTTP API.  This directory
specifies that path from hook to screen, the start of the daemon, the import of spool
files and the enrollment that installs the plugin.  Modules are checked with TLC; every
safety property the runs check of a component is also proved with TLAPS, for any number of
threads, processes, events, accounts and sources.

Shorthand for paths below: `core` is `src/crates/skynet-edr-core/src/lib.rs`,
`ingest_unix` is `src/crates/skynet-edr-daemon/src/ingest_unix.rs`, `main.rs` and
`lib.rs` are the daemon's, `plugin` is
`src/integrations/hermes/skynet-edr/__init__.py`, `enroll` is
`src/packaging/scripts/skynet-edr-hermes-enroll.py` and `adapter` is
`src/packaging/scripts/skynet-edr-hermes-enrollment-adapter.py`.

## Inventory

| component | state | operations | interacts with |
|---|---|---|---|
| Hermes plugin, delivery (`plugin` 108-907, 997-1121) | bounded queue, worker thread, spool file, byte checkpoint, flock, counters | submit, deliver, replay, append, compact, health report | hooks (calls), other runtime processes (shared spool), daemon (socket) |
| Hermes plugin, hooks (`plugin` 188-524, 1124-1718) | startup canary flag, process nonce | one event per hook, detection simulation, canary | delivery |
| Event validation and projection (`core` 507-764, 3807-4753, 5938-6039) | none (pure) | validate an envelope, project it to what may be stored, sanitise the row, classify the row read back | transaction, correlation |
| Ingest listener (`ingest_unix` 1326-1817, `main.rs` 133-187) | worker slots, frame deadlines | accept, authenticate the peer, read a frame, route it, answer | plugin (socket), health, transaction |
| Per-source health (`ingest_unix` 38-1180) | bounded map of sources, time of the last trouble | record receipt, result, error, producer report; evict; verdict | listener, transaction, HTTP |
| Ingestion transaction (`core` 4881-5086, 5588-5787; `ingest_unix` 1480-1593) | tables events, ingest_receipts, incidents, ingest_collisions, incident_collision_diagnostics | commit one event with its incidents and receipt, classify duplicates and collisions, write alert notices | listener (calls), other threads (SQLite write lock) |
| Correlation (`core` 36-56, 1076-1189, 2244-2512, 5377-5586, 5681-5739) | none (pure, on rows) | candidate query, sequence rules, P1 rules, incident identities, batch engine | transaction, spool import |
| Spool import (`core` 795-1044, 1221-1259; `main.rs` 189-204) | a checkpoint file per importer | read new lines, upsert events, run the batch engine | daemon, command line; the same tables as the transaction |
| Store schema and migration (`core` 4777-4806, 5221-5375) | schema, user_version | open, create, add columns, rename unroutable identifiers | daemon start, command line |
| Daemon start (`main.rs` 94-236, `ingest_unix` 1196-1319) | socket path, private directories | open the store, publish the socket, start the API | all of the above |
| HTTP API (`lib.rs`, `main.rs` 206-338), MCP server | none; one thread | status, page of risks, single reads | store, dashboard |
| Dashboard (`dashboard/plugin.js`, `plugin_api.py`) | offset, history of offsets, latest request, page on display | poll, receive, next, previous | HTTP API through a proxy |
| CLI, legacy Hermes ingest | none; incident rows | one-shot commands; batch over a JSONL file | store |
| Enrollment (`enroll`) | lock file; per account: trees, metadata, observation, journal, quarantine | apply, unenroll (check and verify only read) | adapter (a child process per action), Hermes home |
| Enrollment adapter (`adapter`) | baseline, managed state, a snapshot per account; edits config.toml, the gateway's drop-in, the ingest group, Hermes's config.yaml | prepare, enable, attest, disable, rollback | systemd, Hermes, the daemon's health report |
| Packaging, release and validation scripts | - | build and release | - |

What makes each modelled part correct, and what is hard about it:

- **Delivery.** What a caller was told is spooled survives crashes, compactions and
  outages; a producer's events arrive in order; the spool is bounded and drains.
  Hard: several processes share the spool, only direct sends happen outside the
  lock, answers are lost after the daemon acted, and any write may be cut short.
- **Transaction.** One row per identifier, event and incidents and receipt together,
  answers that stay true, notices only for durable incidents, no thread that keeps
  the lock.  Hard: threads race on one identifier, a rollback is followed by a second
  transaction, and the daemon may stop anywhere.
- **Correlation.** Whatever the order of arrival, a pair that qualifies is reported, or
  the correlation says it was cut short.  Hard: an event correlates once, when it is
  committed, with only the newest candidates, looking both ways in time.

- **Hooks, validation and projection.**  What the plugin reports is admitted; pseudonyms
  join as the identities did; what an agent did is reported under its rule.  Hard: the
  same tables of tools and attributes in two languages, and a decision made on the
  projected event while the rules later read the stored row.
- **Listener and health.**  Slots come back, deadlines are absolute, "healthy" rests on a
  recent report and trouble shows.  Hard: peers that send nothing, a map that is full,
  producers that restart, entries evicted while a commit runs.
- **Spool import.**  No complete line is passed over, no sequence among passed lines goes
  unreported, committed rows keep their payload.  Hard: each statement is its own
  transaction, a pass may stop anywhere, two importers and the socket share the tables.
- **Start.**  A store that bears a version is complete; whatever crashes left behind, the
  daemon comes up, unless its spool holds a line that ends it.  Hard: two openers at once,
  statements that commit one by one, a pass over the spool before the socket is bound.
- **API and explorer.**  An answer never contradicts itself, a walk over the pages misses
  nothing, an old answer does not replace a newer one, nobody holds the server for ever.
  Hard: writers commit between two reads, offsets shift, polls overlap.
- **Enrollment.**  A transaction that fails fences its account; what was quarantined is
  named by the journal; an account that is enrolled stays so whatever happens to another
  one; a finished unenrollment leaves nothing enrolled.  Hard: a dozen durable writes in
  two programs, each of which may be the last, repeats that resume in the middle, host
  files shared by all accounts, and decisions made before the lock is held.

`PROJECT.json` lists under "hazards" every place we know of where this code could go
wrong in a way a test would hardly reach, with the property that watches it.

## Modules

    Correlation            operators: what one committed event correlates with
    EventLedger            abstract: an append-only ledger, one step per event
    CorrelatedLedger       EventLedger with Correlation, and what the pair guarantees
    CorrelatedLedger_proofs  the theorems about it
    ContinuousIngest       threads, write lock, errors, crashes; implements EventLedger
    ContinuousIngest_proofs  the theorems about ContinuousIngest
    Attributes             operators: the attributes of an event
    HookEvents             operators: the events of one hook call
    Projection             operators: validation, projection, the stored row, its class
    ObservedLedger         hook calls through Projection into the ledger
    ObservedLedger_proofs  the theorems about it, the hooks and the projection
    HermesTransport        plugin processes, their queues and the shared spool
    HermesTransport_proofs  the theorems about it
    SourceHealth           operators: the map of producer identities and its verdict
    IngestListener         accept loop, workers, deadlines, time, over SourceHealth
    SpoolImport            importers with their checkpoints, beside continuous commits
    SpoolImport_proofs     the theorems about it
    DaemonStartup          store opening and socket publication, with crashes
    Daemon_proofs          the theorems about listener, health and start
    RiskApi                the HTTP thread and the committing writers
    RiskExplorer           RiskApi with the dashboard that pages over it
    RiskExplorer_proofs    theorems about it
    EnrollmentAdapter      what the enrollment owns on the host, and each write to it
    Enrollment             the apply and unenroll transactions over those writes
    Enrollment_proofs      the theorems about both
    MCEvents, MCLedger, MCIngest, MCTransport, MCEnrollment, MCImport, MCListener,
    MCStartup, MCObserved, MCRisk   instances for TLC

Correlation and EventLedger are shared: the trigger-time rules serve the ledger,
ContinuousIngest and ObservedLedger, the batch engine SpoolImport; ContinuousIngest
implements EventLedger, and the modules above it use its commit as the one step it was
shown to be.

### Correlation

An event is a record of its identifier and time, its join keys (trace, session), its
P1 class and the sequence rules whose first (`opens`) or second (`closes`) step it
matches: the attribute predicates of the code are abstracted to which of them hold.
`Eligible`, `Newest`, `Truncated` and `Candidates` are the SQL statements and the
truncation; `SequenceMatches` is `continuous_sequence_matches_for_trigger`, with its
search floor (`Preceding`), its two directions and its choice of the smaller pair;
`P1Pairs` is `p1_incidents_for_trigger`.  `BatchMatches` is the batch engine
`correlate_sequence_rules`, the reference the trigger-time engine is compared with.
An incident is an identifier (kind and cited events; the degraded one also its
source) and a payload, as the digests of the code.  All built-in rules join on the
trace, so the session join of a rule is left out.

### EventLedger and CorrelatedLedger

`Record(frame)` records an unused identifier together with the incidents the event
opens.  `CorrelatedLedger` instantiates it with `IncidentsOf` for the incidents and states
the guarantees that make correlation trustworthy:

- `ExfiltrationReported`: a sensitive read and a later egress that qualify are never
  both recorded without an incident citing the one recorded last, or the degraded
  notice for it;
- `SequenceReported`: the same for sequence rules, up to the search floor;
- `AgreesWithBatch`: arrivals in time order give only incidents that the batch engine would
  give, and one for every event that ends a match of the batch.

`ExfiltrationReported` does not say that the incident cites both events: the code cites
only the nearest counterpart, so an older read of the same trace may appear in none.

### ContinuousIngest

Variables are the five tables, the SQLite write lock (`writer`), one program counter
and the locals of each connection thread, and what left the daemon (alert notices,
answers).  A transaction takes the write lock at its first statement, the `INSERT`,
and holds it to the end, so its effects stay in the thread's locals until one of the
three commits puts them in the tables.  One action per stage: `Receive`,
`RejectInvalid`, `InsertEvent`, `Correlate`, `IncidentCollision`,
`RecordIncidentCollision` (a second transaction), `CommitEvent`, `CommitDuplicate`,
`CommitCollision`, `StorageError` (a failed open, a busy lock past its timeout, a
failed statement or commit), `WriteNotice`, `Answer`, `LoseAnswer`, `Crash`.

SQLite itself is the assumption: transactions are atomic and durable, and one writer
at a time.

### HermesTransport

Each process has a hook thread (`Submit`) and a worker.  The worker takes an event,
replays at most `DeliverBurst` lines, looks for pending lines, and then sends the event or
appends it; an idle worker replays `IdleBurst` lines.  Each step inside or between the
flock's critical sections is an action, so a crash or an error falls between any two.
The file is a sequence of pieces, one per write, with a flag for the newline: a write
cut short leaves a piece without one, the next append continues its line, and such a
line is malformed.  `fate` is what the caller was told; `processed` is what the daemon
decided on; `glued` is a history variable, the events appended behind a cut piece.
Sizes and the checkpoint count pieces where the code counts bytes.

Left out: `socket_failures`, `fallback_records` and the health reports (statistics),
the wait of synchronous callers, lines refused for their size, and checkpoints whose
content is damaged.

### HookEvents, Projection and ObservedLedger

An observation is what the plugin's detectors find in one hook call: the tool, whether
the parameters are sensitive or name a network or a direct IP address, whether the result
holds a secret, an injection or a malware marker.  `HookEvents!EventsOf` is the hooks: the
canonical events one observation makes, with their attributes, trust, artifact and
declared redactions.  `Projection!Admissible` is `CanonicalEventEnvelope::validate`
followed by every check of `project_continuous_event`: sources and trust by event type,
the attribute shapes with their value ranges, the agreement of tool, class, access and
source, the artifact.  `Projected` is the event it returns, `ReadBack` the row after
`sanitize_event_for_storage`, `ClassOf` what that row is to the rules.  An attribute value
is a tag for the values the code tells apart; the four producer labels are one profile;
a pseudonym is a record of its domain and what it stands for, the digest's injectivity.

`ObservedLedger` has the plugin observe, other producers send canonical events, and every
event be delivered in any order or refused; `Deliver` is EventLedger's `Record` of the
class of the projected row.  `last` is the plugin's counter and `IdentifierOf` the identifier of a
count, a number in the order of the texts: an identifier (`_event_id`) is compared as a text of time
and counter, so that of two events of one millisecond the later one sorts first when the
counter passes a power of ten between them.  "Earlier" (`InOrder`) is therefore what
`docs/OPERATIONS.md` 191 and `docs/DETECTIONS.md` 47 say: a smaller time and, within one
millisecond, a smaller identifier.  `Frames` is what the ledger may be given, the class of any
event that may be delivered.  `ExfiltrationObserved` and `InjectionObserved`
are stated in terms of what the hooks saw, so that they hold only if plugin, projection, storage
and rules agree.  `InjectionObserved` allows that, instead of the action, an earlier one
under the same rule is reported: a closing event looks for instructions only back to the closing
event before it, and what that one found is reported.

`ToolsAssumption` says that the plugin runs tools of safe names, `IdentityAssumption` that the
plugin's tenant and trace are identities the daemon admits and that the absent identity is
neither an identity nor a digest.  A tag in angle brackets (`"<secret>"`) is a replacement
marker of the code, one without (`"secret_text"`) a text the scanners would replace.

### SourceHealth and IngestListener

Stamps are ages, up to the first one that tells nothing new.  An entry holds the youngest
stamp (eviction), the report with its process, and the age of its last error.  A
connection goes `header`, `body`, `commit`, `answered`; `left` is the time to its deadline.
The accept loop is one thread, so taking a slot is one step.  A commit is its outcome
(`Decided`, `CommitFails`); the transaction itself is ContinuousIngest.  `elapsed`,
`trouble` and `heartbeat` are history variables.  A frame is one of a small set of kinds
with the source it names: `junk`, a report that is good, poor or invalid, an event that
parses or does not.  `ReadPart` is a read that gets some bytes of the header or the body
and not all: how many is not kept, only that every read is under the same deadline
(`OneDeadline`).

### SpoolImport

Offsets count lines, the last of which may lack its newline.  A pass is `OpenSpool`, then
per line `SkipLine`, `Duplicate` or `Missing` and `InsertEvent`, then `EndOfFile`,
`ListEvents`, per match `LookUpIncident` and `InsertIncident`, and `EndPass`, which moves
the checkpoint; `Stop` is an error or a crash at any point between.  `InsertFails` is an
error that comes every time: a valid line whose time is beyond `MaxTime`, the largest an
SQLite integer holds, is not `Storable` and ends every pass that comes to it (`Abandon`).
`SpoolIsImported` says what is true then: the events before the first such line come in, and
the whole spool does once there is none.  The writer of the spool (`BeginLine`, `EndLine`, `Truncate`) is external.  The constant `Regrows` says
whether the file may be truncated during a pass or regrow past a checkpoint unseen, which
the code, comparing lengths, does not notice.

### DaemonStartup

`Ddl` is the list of statements of `migrate`: each `create` commits on its own, each
`column` is a look (`ReadColumns`) and an `AddColumn`; then `Normalize` and `Stamp`.  The
daemon goes on with `FirstPass` over its spool, then `Inspect`, `Remove`, `MakePrivate`,
`Secure`, `Publish`, `RemovePrivate`, `StartHttp`; once it is up, `LaterPass` is a pass of
its poll loop.  Of SpoolImport only what ends the daemon is kept: `unstorable` says that a
line no pass can store lies ahead in the spool, and `SpoolChanges`, which is external, lets one
come and go at any time.  A pass also opens the store again, which changes nothing of a
complete one.  `DaemonComesUp` is about a spool that is not unstorable again and again.  A column that appears between the look and the statement is
an error and ends the process, which systemd starts again.

### RiskApi and RiskExplorer

One thread takes the connections in order: `Accept`, one read of the socket
(`ReadRequest`, which may get only the first segment of the request), `OpenStore`, and
`CountPage`/`ListPage` in one read transaction or `CountFirst`/`CountSecond` in two
statements, `Reply`.  Writers commit beside it under SQLite's rollback journal: a commit
waits for a reader inside, and keeps new readers out (`Busy`).  The explorer's `Poll`,
`Receive`, `GoNext`, `GoPrevious` are `usePollingResource` and the navigation; `GiveUp` is
the proxy's timeout.  `PageOf` gives a row the place of its rank, the number of rows that
come before it in the order of the query.  `asOf`, `known` and `seen` are history.

### EnrollmentAdapter and Enrollment

`EnrollmentAdapter` has the files shared by all accounts (`config`: the allowed uids,
`dropin`), the group, each account's Hermes configuration, and the adapter's records
(`baseline`, `managed`, `snapshot`), with one operator per durable write of `prepare`,
`rollback`, `enable`, `disable` and `attest` and the conditions they check
(`Verified`, `MayRollBack`, `EpochClean`, `Attestable`).

`Enrollment` sequences them.  `disk[t]` is what an account's transaction keeps and
installs; `job[p]` what a process was asked and what it saw before it had the lock;
`pc[p]` names the step it takes next, in the order of the code; both programs are in
it, since the parent waits for the adapter.  `StartApply` to `Acquire` is the lock
protocol, with inodes, because one path can name two locks.  An apply goes `Stage`,
`Aside`, `Publish`, `DesktopAside`, `DesktopPublish`, `MetadataUnsealed`, `Prepare` (the baseline),
`Snapshot`, `ChangeHost`, `Seal`, `Enable`, `Decide`, `Token`, `Attest`, `Record`, `Answer`; an
unenrollment `BeginUnenroll` or `Resume`, `Disable`, `Disabled`, then `RecordObject`,
`MoveObject` and `NextObject` for each object, `PluginsAway`, `Rollback`,
`RollBackHost`, `Restored`, the other two objects, `Quarantined`.  `Fail` is an
adapter call or a write that fails at any of these steps, `Failed` what the code
records then, `Crash` a kill.  A failure has a step of its own where the code undoes or records
something else: `StageFails`, `SnapshotFails` (a new baseline is taken back), `PrepareUndoes`,
`AttestFails`, and `BeginUnenrollFails` (the quarantine directory could not be made, and the
journal is written all the same).

Generations and Hermes configurations are numbers and names where the code has digests;
the 30 s for which an observation counts are left out, because an expired one changes the
answer and not the state.  `prepare` writes the snapshot a second time to add two digests of
the configuration (`adapter` 1523-1526); this is no step of its own, as a snapshot without
them is refused only by steps that come after the seal.  Left out as well: the adapter that a killed parent leaves
running, file identities and formats, the removal of empty plugin directories after a failed
first apply, what systemd and the A2A dispatch do inside attest, and changes by others
(the documentation asks for an exclusive window).  The mode of the lock file that
unenroll creates assumes umask 022.

## Runs

| run | module, configuration | what it asks |
|---|---|---|
| ledger | MCLedger, `MCLedger.cfg` | the guarantees of CorrelatedLedger, over every order of arrival |
| ingest | MCIngest, `MCIngest_protocol.cfg` | the safety of ingestion, `ImplementsLedger`, and `EveryFrameEnds` |
| ingest_foreign | MCIngest, `MCIngest_foreign.cfg` | `OnlyForeignIncidentsCollide`, with imported rows, invalid frames and a taken incident identifier |
| transport | MCTransport, `MCTransport_spool.cfg` | the safety of delivery |
| transport_drains | MCTransport, `MCTransport_drains.cfg` | `SpoolDrains` |
| enrollment | MCEnrollment, `MCEnrollment_lifecycle.cfg` | the safety of both transactions, `RollbackFences`, and `QuarantineEnds` |
| import | MCImport, `MCImport_apart.cfg` | the safety of the spool import, `CommittedPayloadsLast`, and `SpoolIsImported` |
| listener | MCListener, `MCListener_pool.cfg` | slots, deadlines, the verdict on the sources, and `EveryConnectionEnds` |
| startup | MCStartup, `MCStartup_daemon.cfg` | `VersionMeansComplete` and `DaemonComesUp` |
| observed | MCObserved, `MCObserved_hooks.cfg` | what the hooks saw is admitted, joined and reported |
| risk | MCRisk, `MCRisk_explorer.cfg` | the contract of an answer, the walk over the pages, the display, and `ServerComesBack` |
| results | MCObserved, `MCObserved_results.cfg` | violated: the finding below |

Every property of a passing run has a mutant of the code that violates it (a dropped
guard, an off-by-one, a lock that is kept); mutants stand in the modules next to the
definition they change, marked "Mutant".

**Bounds.**  *ledger*: seven events of one source and one of another, five in one
trace with a candidate limit of 4, so that the limit cuts in, times 0 to 3 with windows
of 2, so that pairs fall inside, on and outside the window and tie; two events without
a trace for the session join.  *ingest*: two threads, since every property is about one
thread or a pair; a correlating pair and a second source that reuses an identifier
give duplicates, collisions and incidents; one crash, since a crash resets all threads.
*ingest_foreign*: an imported row that must not correlate, a malware incident whose
identifier is already taken, and a frame whose projection fails; no crash, as that run is
about identifiers.  *transport*: two processes with two events each, a queue of one, a
spool of two pieces and a replay burst of one are the smallest at which the queue
overflows, the cap refuses, the compaction runs and a burst ends with lines pending;
two faults and one crash allow an outage followed by a failed write, or a write cut short
and then a lost answer.  The two processes are symmetric and the safety run uses that;
the liveness run does not, and allows one fault.
*enrollment*: two accounts, since every shared file is decided by "this account" or
"another one"; two generations, the fewest with an upgrade; one kill or failure, which may
fall at each of the steps of each of any number of transactions; one process, whose
transactions follow one another.  That is what the lock is for: where it holds, two
processes interleave only before they have it, which the theorems of Enrollment_proofs cover for
any number; nothing is claimed of two processes where it does not.
*import*: two importers with checkpoints of their own, two lines out of an opening event, a
closing event, a malformed line and one whose time is beyond `MaxTime`, an event that
arrives by socket between them, one truncation and one stop, which may fall at each step of any pass.  *listener*: two
connections and a map with room for one of three sources (the required gateway, a worker
that is not required, the uid's legacy identity), so that it is full at once; a report is
current for one tick and a source is kept for two, the least at which stale and evicted
differ; a read timeout of two, so that header and body may each take one.  `MaxConnections`
is the number of connections, so that `Refuse` needs both.  *startup*: two tables, two
columns and an index, every half-made store of them, three directory names and two
crashes, so that two are left over and one remains, and a spool that gets or loses an
unstorable line at any time.  *observed*: two inputs, since every
property is about one event or a pair; each hook with every tool class, and canonical
events wrong in one place each; gaps of 0, the window, and one more than it; a counter that starts at 0 or at 8, so that two
calls of one tick may have identifiers in reverse.  A third call would be needed for the
last alternative of `InjectionObserved`, the earlier action; the theorem covers it.  *risk*: three
incidents on pages of two, one write at the front and one in the middle, three requests,
so that two polls overlap while a third moves on.

**Deadlock** is checked except where a run may really stop: *ledger*, *observed* and
*results* end when every event is recorded or refused and the bound on inputs is reached;
*startup* ends with the daemon up or refused and the command done; *risk* when its requests
are used up.

**Fairness.**  `ContinuousIngest!FairSpec`: weak fairness of each thread's steps.  A thread with a
connection keeps running, and a busy lock ends in an error after `busy_timeout`, which
is why waiting is never for ever.  Nothing obliges a producer to send or the daemon to
crash.  `HermesTransport!FairSpec`: weak fairness of each worker, a loop that blocks at most 50 ms,
and of the daemon's restart, which systemd does (`Restart=`).  `MaxFaults` bounds
outages and errors, so the claim is: when faults stop, the spool drains.
`Enrollment!FairSpec`: weak fairness of a process that has started, all of whose calls have
deadlines, and strong fairness of the operator's repeating an unenrollment (the operator may
start another command whenever none runs, so the repetition is not continuously possible).
`SpoolImport!FairSpec`: weak fairness of each importer's pass, which the poll loop repeats every
five seconds; writers, producers and stops are not obliged to anything, but stops and
truncations are bounded.  The command line has the same fairness, so the claim for it is
about an operator who repeats it.  `IngestListener!FairSpec`: weak fairness of time and of what a
worker does without its peer (time out, end a commit, return its slot); peers need not send.
`DaemonStartup!FairStartup`: weak fairness of every process's steps, `Start` included:
`packaging/systemd/skynet-edr.service` has `Restart=on-failure`.
`RiskExplorer!FairSpec`: weak fairness of the API thread and of each client's giving up;
`plugin_api.py` has a timeout of two seconds.  Without such a timeout in the client the thread
would wait for it for ever, as it sets none of its own.

## Findings

**The result of a tool that holds a secret is refused** (`results`).  `_post_tool_call`
(`plugin` 410-412) declares the redaction of `attributes.result_preview` whenever the result
holds a secret or a local path, but sends no such attribute.  The daemon's
`validate_redacted_field` (`core` 582-638) requires that a declared path hold its marker, as
`docs/EVENT_SCHEMA.md:144` says, and rejects the event for good: the completed-tool event is
lost for every such result, a malware marker in it included, against
`docs/HERMES_PLUGIN_TELEMETRY.md:73`.  `OnlyKnownRefusals` shows that this and an LLM
call with more than 65536 messages (`plugin` 1170-1190) are the only events of the plugin the
daemon refuses.

### Where the code and its documents differ

These were met while modelling and are in the models; the runs' bounds and constants leave
them out of what the properties claim, where that is said.

- *Spool of the plugin.*  A crash or error in the middle of `_append_fallback` leaves a line
  without its newline; the next append continues it, and the replay refuses the glued line by
  itself and moves the checkpoint past both events (`plugin` 714-715, 889-890), against
  `docs/OPERATIONS.md:179`.  `SpooledSurvives` says what is true: nothing else is lost, and
  `glued` names what is.
- `queue_drops` also counts deliveries that failed (`plugin` 649-651), against
  `docs/OPERATIONS.md:157`.
- A process can overtake the fallback of another between its check for pending lines and its
  send (`plugin` 673, 678), against `docs/OPERATIONS.md:179`; order within one process holds
  (`DeliveredInOrder`).
- *Enrollment.*  A first apply that fails early unlinks the lock file it created, which others
  may wait on (`enroll` 1472): two transactions can run at once, against
  `docs/HERMES_ENROLLMENT.md:37` and `:77`.
- An account that was in the ingest group before cannot be unenrolled: the rollback keeps its
  membership, as `docs/HERMES_ENROLLMENT.md:65` says, and refuses its own result (`adapter` 1776).
- The drop-in survives the last unenrollment: snapshots of unenrolled accounts are kept and
  count as accounts that are still there (`adapter` 1586, 1603), against
  `docs/releases/v0.7.0-alpha.1.md:18`.
- *Spool import.*  `get_event` and the upsert are two transactions (`core` 860-865,
  5789-5817): a continuous commit of the same identifier in between loses its payload, against
  "Duplicate identifiers preserve their original payload." (`core` 4883-4884).  MCImport keeps
  the identifiers of the spool and of the socket apart, which is the documented use, and
  `CommittedPayloadsLast` is about that use.
- A line whose `observed_at_unix_ms` is beyond `i64::MAX` is valid (`validate`, `core` 507-580,
  does not look at it), but `insert_event` fails on it every time (`core` 863, 5793, 5852).  The
  error ends the pass before its checkpoint is written (`core` 880), and the daemon with it, at a
  start (`main.rs` 108) or in the poll loop (119).  So the spool stays at that line: no line
  behind it is ever imported, the pass never correlates what lies before it, and the daemon
  does not come up while the line is there, against `docs/HERMES_EVENT_INGESTION.md:63`
  ("advances a byte checkpoint after each processed line ... instead of aborting the whole
  pass").  `InsertFails`, `FirstPass` and `LaterPass` do this, in both runs; without
  `Unstorable = {} =>` in `SpoolIsImported`, TLC shows the pass that fails for ever.
- A stale checkpoint is reset only when it lies behind the end of the file (`core` 818-823):
  a spool that was replaced and has grown past it is read from the middle, against
  `docs/HERMES_EVENT_INGESTION.md:63`.  `Regrows = FALSE` leaves this out of the run and is
  the hypothesis of `NothingIsSkipped`.
- *Health.*  An entry that `record_result` makes after an eviction has no stamp and is never
  evicted (`ingest_unix` 942-982, 1095-1104), against `docs/OPERATIONS.md:131`.  The listener
  run has such entries; its properties hold with them.
- *Start.*  Between the inspection of a stale socket and its removal (`ingest_unix` 1196-1250)
  another daemon may have published its own, which is then removed, against
  `docs/OPERATIONS.md:121`.  The run has one daemon.  Sixteen crashes between two file
  operations leave sixteen private directories, and no later start gets past them.
- *API.*  A client that connects and sends nothing holds the serial server until it hangs up
  (`main.rs` 253); `docs/LOCAL_HTTP_API.md:44` leaves timeouts to the callers, which is what
  `ServerComesBack` assumes.

Four more behaviours of the enrollment are in the model and contradict no document: an
unenrollment on a clean host creates a lock file that every later apply refuses; a second
package upgrade is refused; `disable` and `rollback` cannot be repeated after they have half
succeeded; an unenrollment that could not make its quarantine directory leaves a journal at
`STARTED` that no repetition can resume (`enroll` 1626-1639, 1741-1749).

## Proofs

Eight modules hold theorems; each is about every value of the constants its module's
assumption admits.

**ContinuousIngest_proofs**, from `IngestAssumption`: `TypeCorrect`, `TransactionsExclude`,
`DecisionsStayTrue`, `RowsAreUnique`, `AnswersAreDurable`, `ReceiptsAreAtomic`,
`NoticesAreDurable`, and `IngestImplementsLedger`, that `Spec => ImplementsLedger`.  The
argument is one inductive invariant, `IngestInvariant`.  None of the properties is inductive
alone: that a row is unique needs that the identifier a thread found free is still free when
it commits (`DecisionsHold`), which needs that no other thread can
commit meanwhile (`OneTransaction`); that an answer is durable needs that rows are unique,
for a collision to exclude the very frame.  The conjunction is inductive, and one lemma per
action shows it.  For the refinement, `CommitEvent` is the ledger's `Record`: `DecisionsHold`
says that what the thread staged is what the ledger would compute from the tables as
they are at the commit; every other step leaves the three ledger variables alone.
`NoticesAreDurable` adds that only a transaction that stores something has opened
incidents (`OpenedHold`), so that what is published was committed.
`CorrelationIsConsistent` is `OnlyForeignIncidentsCollide`: its invariant, `CollisionsHold`,
says that every incident that is not foreign names stored events only; a transaction whose
event is new opens incidents that name that event, so nobody but another path of the program can
have taken their identifiers.

**CorrelatedLedger_proofs**, from `CorrelationAssumption` and `LedgerAssumption`:
`ExfiltrationNeverSilent`, `SequenceNeverSilent` and `AgreementWithBatch`, for any events,
rules, windows, candidate limit and order of arrival.  The invariant they share is small: the
rows are finite, identifiers and receipts match the rows (`RowsMatchReceipts`), and an incident
cites recorded events of one source (`CitesRecorded`).  The work is in Correlation.  A finite set of
events has a nearest one (`HasLast`, `HasGreatest`, `SmallestMatchExists`); unless the notice
is opened, the limit drops no candidate (`NothingIsDropped`), and an event within a window is a candidate
(`NearEventsAreCandidates`); so the event that arrives last finds a counterpart
(`ExfiltrationIsSeen`, `LateOpeningIsSeen`, `LateClosingIsSeen`), the last of these up to the
search floor.  For `AgreesWithBatch`: what lies between two events that arrived in time order was there
when the later one arrived (`OrderWasKept`, `NoClosingBetween`), so a match that the
trigger-time engine found stays a match of the batch, and the batch's grow only by those that
end in the new event (`BatchGrows`, `AgreementGrows`).

The refinement carries these to the daemon: `IngestReportsExfiltration`,
`IngestReportsSequences` and `IngestAgreesWithBatch` state the three guarantees of the tables
that any number of threads, lost answers and crashes leave behind.

**HermesTransport_proofs**, from `TransportAssumption`: `SpoolSurvives`, `SpoolStaysBounded`
and `DeliveryKeepsOrder`, for any number of processes, events, faults and crashes.
`SpooledSurvives` is not inductive: an event may be the second piece of a line that a replay
passes as a whole.  The invariant asks for a line of its own (`OwnLine`: the piece before
it is complete, or it is the first behind the checkpoint), that the checkpoint lies behind a
complete line (`CheckpointHolds`, so that resetting it to 0 exposes no half line), that a line about
to be passed was sent if it could be (`AdvanceHolds`), and that the copy a compaction made has
everything that must survive (`CompactionHolds`), which also keeps the file within its cap.
All of them rest on who is inside the flock (`FlockHolds`).  What a step does to the file is
one of five effects (`StepEffect`), so that an operation that succeeded and one that was
interrupted are argued once.  The order adds that the pieces of a process lie in the order of its
events (`PiecesInOrder`), that what was written is not newer than the event in hand and older
than the queue (`WrittenInOrder`), and that a direct send starts with nothing of the process
outstanding (`SendHolds`), which is `SpoolHolds` at an empty spool.

**SpoolImport_proofs**, from `ImportAssumption`: `NothingIsSkipped` (under `~ Regrows`,
`NoLineIsSkipped` is invariant), `IdentifiersStayUnique`, and `CommittedStays` (under
`SpoolIsApart`, `CommittedPayloadsLast`).  `ImportInvariant` adds to the
types that during a pass every line before its offset is stored, that a line about to be
inserted is the one at the offset (`PassesHold`), and that a checkpoint within the file lies
behind stored and complete lines (`CheckpointsHold`).  It rests on two lemmas about the
upsert: it forgets no identifier, and the file grows at its end only while it is not
truncated.  For `CommittedStays` the invariant is that nothing an importer is about to write
changes a committed row (`PassesAreHarmless`): a line is of an event of its own, and a match is
of events as they were listed, which for a committed row is what was committed; that the
batch engine matches only what was listed needs that the earliest of some events exists
(`EarliestIsOne`).
`PassedIsReported` (under both provisos, `PassedSequencesReported`) and `RowsAreFinal` (no step
changes or loses a row) rest on `ReportInvariant`.  Two processes that are about to insert the
same identifier are at the same first line of it (`InsertsHold`, `InsertersAgree`), so an upsert
only adds rows (`RowsGrow`).  A pass that saw an event lists, when it correlates, every event it
passed (`Seen`); one that saw none passed no event, which is why it may skip the correlation
(`Barren`).  Every match of what was listed is reported or is still to be reported (`Lists`), and
a match of fewer events remains one of more (`MatchesGrow`).

**Daemon_proofs**, from `ListenerAssumption` and `HealthAssumption`: `SlotsStayExact`,
`DeadlineStaysAbsolute`, `TroubleAlwaysShows`, `HealthIsReported`, `ReportsAreOfPeers`.  The
slots need a cardinality argument over the workers that are being served; the deadline, that
what has elapsed and what is left make up the timeout while a worker reads (`TimeAddsUp`);
the verdicts, that every entry of the map is sound (`SoundMap`): a report is of the process
bound to the entry, and a good one is no younger than the last good report of that source.
Each operator of SourceHealth has a lemma that it keeps a map sound.  From `StartupAssumption`:
`VersionIsTruthful` and `NewerStoreIsLeftAlone`, for any list of statements and any number of openers.
`StartupInvariant` adds that a process has executed the statements before the one it has come
to and that nothing executed is undone (`MigrationHolds`), and that nobody works on a newer
store (`NewerIsRefused`).

**RiskExplorer_proofs**, from `ApiAssumption` and `ExplorerAssumption`: `DisplayMovesForward`,
`ContractIsKept` and `WalksMissNothing`, for any limit, any rows, any number of polls in flight
and any commits between them.  For the first (`ShownNeverGoesBack`) the invariant is that
connections are answered in turn (`AnswersInTurn`), what a later one is answered is no
older and was stored (`AnswersDated`), and what is on display answered the latest request or
one before it (`ShownHolds`).  That an answer to a page request is a page rests on the route
the server took for it (`RouteHolds`).  The other two are about `PageOf`: ranks of finitely
many rows are distinct (`RankIsUnique`) and take every value below their number (`RankIsOnto`),
so that a page holds exactly the rows whose ranks it spans, once each (`PageCovers`,
`PageHasNoDuplicates`).  That a page agrees with the total beside it (`PageKeepsContract`) needs that
nothing is committed between the count and the listing (`PagesHold`).  A walk misses nothing
because what it set out with and has not seen lies at or beyond its offset, in the store, in a
page under way and beyond the page on display (`Beyond`): rows that come in only
raise ranks (`RankGrows`, `BeyondGrows`).

**Enrollment_proofs**, from `AdapterAssumption` and `EnrollmentAssumption`, for any accounts,
processes, upgrades, failures and kills.  The run has one process; with several, a first apply
that fails removes the lock that others wait on (see Findings), and then nothing holds of two
transactions in the same files.  So the theorems are about executions in which the lock
excludes (`[]LockExcludes`), and two more say when it does: `LockIsExclusive`, as long as no
step removes the lock file, and `LockLasts`, for ever from any state in order in which the file
is there and nobody runs: an apply that starts with the file there never takes it for its own.
Under `[]LockExcludes`, `QuarantineIsAlwaysNamed`,
`PluginsAlwaysLeaveFirst`, `UnenrollIsAlwaysComplete`, `EnrollmentAlwaysLasts` and
`RollbackAlwaysFences` are the five properties of the run.

None of them is inductive.  That a finished unenrollment left nothing needs what each phase of the journal
has established (`PhaseHolds`) and what a process at each step relies on, since a kill
leaves the phase behind and a repetition starts from it (`UnenrollHolds`, through `ResumeAt`).
That an enrollment lasts needs that sealed metadata imply an admitted account (`DiskHolds`) at
every step of an apply that may be killed (`ApplyHolds`), and that restoring the baseline for the last
account takes nothing from another: an account without a snapshot is authorized as it was at
the baseline (`BaselineHolds`).  That it gets back its own membership needs that a snapshot keeps
what the account was before any apply (`RecordsHold`).  The invariant has one part per account and
one per process; each action is shown to reach only its own (`Sound`), and `SoundStep` carries
the rest over, which is where exclusion enters.  For the lock, `LockInvariant` says that whoever waits
or works has opened the file that is there.

**ObservedLedger_proofs**, from `ObservedAssumption`, `ToolsAssumption`, `IdentityAssumption` and
`CorrelationAssumption`, for any tools, observations, events of other producers, gaps, windows
and orders of delivery: `PluginEventsAreUnderstood` (`OnlyKnownRefusals`), `JoinsAreFaithful`
(`JoinsSurvive`), `ExfiltrationIsReported` (`ExfiltrationObserved`) and `InjectionIsReported`
(`InjectionObserved`).  Most of it is about the operators.  The plugin's events are admitted
shape by shape (`RequestsFit`, `ContentsFit`, `SchedulesFit` and their like): the table of tool
classes in Python against the one in Rust (`ToolsAgree`), the type a request is sent under
against the one its tool and destination call for (`RequestTypes`), the artifact against its
provider.  What the rules ask for survives projection, storage and the reading back
(`RequestIsStored`, `UnclassifiedIsStored`), so that a row closes the rule its action falls
under (`RequestCloses`, `ScheduleCloses`), opens every rule after instructions
(`InstructionsOpen`) and is a read or an egress to P1 (`ReadIsSensitive`, `SendIsEgress`).

The inductive invariant has two parts.  `ObservedInvariant` says that no two events have one
identifier and every identifier is that of a count up to `last` (`Given`), that every event is
one that may be delivered, and that rows and recorded frames are those of the admitted ones.
`History` says that every event of an observation is pending, recorded or refused, under an
identifier and the time of that observation.  With them `OrderIsRecorded`: two observations in order, once
settled, are two rows of one trace in that order.  The ledger behind them is a CorrelatedLedger
(`ObservedIsCorrelatedLedger`), whose theorems say the rest; for the injection,
`FirstClosingIsReported` finds the action that the correlation did report, the first recorded
one after the instructions.

Model-checked only: the liveness properties (`EveryFrameEnds`, `SpoolDrains`,
`QuarantineEnds`, `SpoolIsImported`, `EveryConnectionEnds`, `DaemonComesUp`, `ServerComesBack`), as
liveness under fairness is out of the prover's reach.

## Plan

What is left, in order of importance.

1. `Pipeline`: HermesTransport with ContinuousIngest, for a replay under another process's
   nonce and a retry after a lost answer.  The abstract specification is an at-least-once
   outbox, which HermesTransport implements as long as no append is cut short.
2. What Enrollment leaves out: the adapter that outlives its parent.
3. Two daemons that start at once, as a run of its own.

## Not modelled

The CLI's argument parsing, the legacy Hermes ingest (one batch over a file by one process)
and its heuristic detectors, the scanners that recognise a secret, a path or an instruction in
text, the rendering of alerts, the MCP tools that are single reads, the desktop plugin, and
build and release scripts: they keep no state whose interleavings matter, or are text
processing whose outcome the models take as given (`sensitive`, `network`, `malware` of an
observation).  Counters that are only displayed, socket and file modes beyond the order in
which they are set, and the bytes of a frame are abstracted in the modules that have them.
