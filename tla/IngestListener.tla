---- MODULE IngestListener ----
(***************************************************************************)
(* The Unix socket's accept loop and its workers: the slots of the bounded *)
(* pool, the deadline of a frame, the routing of a frame to the health map *)
(* or to the store, and the status poll that reads what they recorded.     *)
(*                                                                         *)
(* The accept loop is one thread: taking a slot, refusing or authenticating *)
(* a peer and starting its worker is one step, since only this thread      *)
(* reads the counter.  What a commit does to the store is the subject of   *)
(* ContinuousIngest; here a commit is its outcome.                         *)
(***************************************************************************)
EXTENDS SourceHealth

CONSTANTS
  Conns,           \* connections served at one time or another
  Peers,           \* kernel process identities, pid and start ticks
  LegacyKey,       \* the key of v1 frames and of protocol errors: (uid, legacy)
  Frames,          \* complete frame bodies: [type, key]
  MaxConnections,  \* ingest.max_connections
  ReadTimeout      \* ingest.read_timeout

ASSUME ListenerAssumption ==
  /\ LegacyKey \in Keys
  /\ \A f \in Frames : f.type \in {"junk", "bad_health", "health", "poor_health", "bad_event", "event"}
                       /\ f.key \in Keys
  /\ {MaxConnections, ReadTimeout} \subseteq Nat \ {0}
  /\ IsFiniteSet(Conns)
  /\ None \notin Peers

VARIABLES
  active,     \* the counter of taken slots
  pc,         \* where the worker of each connection is
  peer,       \* the process behind it
  left,       \* time to its read deadline, or to the store's busy timeout
  key,        \* the source identity of its event
  sources,    \* the health map
  degraded,   \* age of last_degraded_at, None when it is not current
  elapsed,    \* history: time since the connection was accepted
  trouble,    \* history: age of the last trouble OPERATIONS.md names
  heartbeat   \* history: age of the last good report of each role

conn == <<active, pc, peer, left, key, elapsed>>
vars == <<active, pc, peer, left, key, sources, degraded, elapsed, trouble, heartbeat>>

Serving == {c \in Conns : pc[c] # "idle"}

Init ==
  /\ active = 0
  /\ pc = [c \in Conns |-> "idle"]
  /\ peer = [c \in Conns |-> None]
  /\ left = [c \in Conns |-> 0]
  /\ key = [c \in Conns |-> None]
  /\ sources = [k \in {} |-> Blank]
  /\ degraded = None
  /\ elapsed = [c \in Conns |-> 0]
  /\ trouble = None
  /\ heartbeat = [k \in Keys |-> None]

----
(* The accept loop.                                                        *)

Degrades == degraded' = 0 /\ trouble' = 0
Quiet == UNCHANGED <<degraded, trouble>>

(* Mutant: a peer that fails authentication keeps its slot. *)
KeepsSlot == active' = active + 1

ReturnsSlot == UNCHANGED active

(* accept() failed: nothing was taken. *)
AcceptError ==
  /\ Degrades
  /\ UNCHANGED <<conn, sources, heartbeat>>

Refuse ==
  /\ active >= MaxConnections
  /\ Degrades
  /\ UNCHANGED <<conn, sources, heartbeat>>

(* Its credentials or its /proc entry cannot be read. *)
AuthenticationFails ==
  /\ active < MaxConnections
  /\ ReturnsSlot
  /\ Degrades
  /\ UNCHANGED <<pc, peer, left, key, elapsed, sources, heartbeat>>

Serve(c, p) ==
  /\ active < MaxConnections
  /\ pc[c] = "idle"
  /\ active' = active + 1
  /\ pc' = [pc EXCEPT ![c] = "header"]
  /\ peer' = [peer EXCEPT ![c] = p]
  /\ left' = [left EXCEPT ![c] = ReadTimeout]
  /\ elapsed' = [elapsed EXCEPT ![c] = 0]
  /\ Quiet
  /\ UNCHANGED <<key, sources, heartbeat>>

----
(* A worker.                                                               *)

(* The answer is written, or the connection dropped without one; the slot   *)
(* is still taken.                                                         *)
Answered(c) ==
  /\ pc' = [pc EXCEPT ![c] = "answered"]
  /\ peer' = [peer EXCEPT ![c] = None]
  /\ left' = [left EXCEPT ![c] = 0]
  /\ key' = [key EXCEPT ![c] = None]
  /\ elapsed' = [elapsed EXCEPT ![c] = 0]
  /\ UNCHANGED active

(* Mutant: only an error the map has room for degrades the state. *)
DegradesIfKept(k) ==
  IF Admits(sources, k) THEN Degrades ELSE UNCHANGED degraded /\ trouble' = 0

DegradesAlways(k) == Degrades

(* A uid that is not allowed: the stream is shut down unread. *)
Unauthorized(c) ==
  /\ pc[c] = "header"
  /\ left[c] = ReadTimeout
  /\ Answered(c)
  /\ Quiet
  /\ UNCHANGED <<sources, heartbeat>>

(* Mutant: every read gets a deadline of its own. *)
RenewedDeadline(c) == left' = [left EXCEPT ![c] = ReadTimeout]

OneDeadline(c) == UNCHANGED left

Reading(c) == pc[c] \in {"header", "body"}

(* Some bytes of the header or of the body arrive, and others are missing:   *)
(* how many is not kept, only that the next read has the same deadline.     *)
ReadPart(c) ==
  /\ Reading(c)
  /\ left[c] > 0
  /\ OneDeadline(c)
  /\ Quiet
  /\ UNCHANGED <<active, pc, peer, key, elapsed, sources, heartbeat>>

(* The length is acceptable and the body follows, under one deadline. *)
ReadHeader(c) ==
  /\ pc[c] = "header"
  /\ left[c] > 0
  /\ pc' = [pc EXCEPT ![c] = "body"]
  /\ OneDeadline(c)
  /\ Quiet
  /\ UNCHANGED <<active, peer, key, elapsed, sources, heartbeat>>

(* The declared length is zero or beyond the bound. *)
FrameSize(c) ==
  /\ pc[c] = "header"
  /\ left[c] > 0
  /\ sources' = RecordError(sources, LegacyKey, FALSE, None)
  /\ Answered(c)
  /\ Quiet
  /\ UNCHANGED heartbeat

(* The peer closes before the frame is complete. *)
EndsEarly(c) ==
  /\ Reading(c)
  /\ sources' = RecordError(sources, LegacyKey, FALSE, None)
  /\ Answered(c)
  /\ Quiet
  /\ UNCHANGED heartbeat

(* Mutant: the read of the body has no time limit. *)
HeaderDeadline(c) == pc[c] = "header" /\ left[c] = 0

DeadlineHit(c) == Reading(c) /\ left[c] = 0

TimesOut(c) ==
  /\ DeadlineHit(c)
  /\ sources' = RecordError(sources, LegacyKey, TRUE, None)
  /\ DegradesAlways(LegacyKey)
  /\ Answered(c)
  /\ UNCHANGED heartbeat

FrameIs(c, f) == pc[c] = "body" /\ left[c] > 0 /\ f \in Frames

(* Not UTF-8, not JSON, or no valid envelope. *)
ReadJunk(c, f) ==
  /\ FrameIs(c, f)
  /\ f.type = "junk"
  /\ sources' = RecordError(sources, LegacyKey, FALSE, None)
  /\ Answered(c)
  /\ Quiet
  /\ UNCHANGED heartbeat

(* A health frame that is invalid, or a v3 frame whose peer has gone, is    *)
(* refused and leaves the map alone.                                        *)
RefuseFrame(c, f) ==
  /\ FrameIs(c, f)
  /\ f.type = "bad_health" \/ f.key # LegacyKey
  /\ Answered(c)
  /\ Quiet
  /\ UNCHANGED <<sources, heartbeat>>

(* handle_producer_health_frame: recorded, or refused for capacity. *)
ReadReport(c, f) ==
  /\ FrameIs(c, f)
  /\ f.type \in {"health", "poor_health"}
  /\ sources' = RecordReport(sources, f.key, f.type = "health", peer[c])
  /\ heartbeat' = IF f.type = "health" THEN [heartbeat EXCEPT ![f.key] = 0] ELSE heartbeat
  /\ Answered(c)
  /\ Quiet

(* A v3 envelope around an event that does not parse. *)
ReadBadEvent(c, f) ==
  /\ FrameIs(c, f)
  /\ f.type = "bad_event"
  /\ sources' = RecordError(sources, f.key, FALSE, IF f.key = LegacyKey THEN None ELSE peer[c])
  /\ Answered(c)
  /\ Quiet
  /\ UNCHANGED heartbeat

(* commit_event_and_ack notes the event before it opens the store.  The      *)
(* store's busy timeout ends a commit before a second tick.                 *)
ReceiveEvent(c, f) ==
  /\ FrameIs(c, f)
  /\ f.type = "event"
  /\ sources' = RecordReceived(sources, f.key, peer[c])
  /\ key' = [key EXCEPT ![c] = f.key]
  /\ pc' = [pc EXCEPT ![c] = "commit"]
  /\ left' = [left EXCEPT ![c] = 1]
  /\ elapsed' = [elapsed EXCEPT ![c] = 0]
  /\ Quiet
  /\ UNCHANGED <<active, peer, heartbeat>>

(* The commit decided; a truncated correlation or a notice that could not   *)
(* be written degrades the state, and the answer stands.                    *)
Decided(c, status, clean) ==
  /\ pc[c] = "commit"
  /\ LET kept == RecordResult(sources, key[c], status)
     IN \/ /\ clean
           /\ sources' = kept
           /\ Quiet
        \/ /\ ~ clean /\ status = "persisted"
           /\ sources' \in {kept, RecordError(kept, key[c], TRUE, None)}
           /\ Degrades
  /\ Answered(c)
  /\ UNCHANGED heartbeat

(* The store cannot be opened, the transaction fails, or an incident        *)
(* collides; an event outside the profile does not degrade.                 *)
CommitFails(c, degrades) ==
  /\ pc[c] = "commit"
  /\ sources' = RecordError(sources, key[c], degrades, None)
  /\ IF degrades THEN DegradesAlways(key[c]) ELSE Quiet
  /\ Answered(c)
  /\ UNCHANGED heartbeat

EndWorker(c) ==
  /\ pc[c] = "answered"
  /\ active' = active - 1
  /\ pc' = [pc EXCEPT ![c] = "idle"]
  /\ Quiet
  /\ UNCHANGED <<peer, left, key, elapsed, sources, heartbeat>>

----
(* status_json, from the HTTP thread. *)
Status ==
  /\ sources' = Evicted(sources)
  /\ sources' # sources
  /\ UNCHANGED <<conn, degraded, trouble, heartbeat>>

Current(age) == IF age = None \/ age >= StaleAfter THEN None ELSE age + 1

Tick ==
  /\ \A c \in Conns : pc[c] = "commit" => left[c] > 0
  /\ left' = [c \in Conns |-> IF left[c] > 0 THEN left[c] - 1 ELSE 0]
  /\ elapsed' = [c \in Conns |-> IF Reading(c) /\ elapsed[c] <= ReadTimeout
                                 THEN elapsed[c] + 1 ELSE elapsed[c]]
  /\ sources' = Aged(sources)
  /\ degraded' = Current(degraded)
  /\ trouble' = Current(trouble)
  /\ heartbeat' = [k \in Keys |-> Current(heartbeat[k])]
  /\ UNCHANGED <<active, pc, peer, key>>

Worker(c) ==
  \/ Unauthorized(c)
  \/ ReadPart(c)
  \/ ReadHeader(c)
  \/ FrameSize(c)
  \/ EndsEarly(c)
  \/ TimesOut(c)
  \/ \E f \in Frames : ReadJunk(c, f) \/ RefuseFrame(c, f) \/ ReadReport(c, f)
                       \/ ReadBadEvent(c, f) \/ ReceiveEvent(c, f)
  \/ \E status \in {"persisted", "duplicate", "collision"}, clean \in BOOLEAN : Decided(c, status, clean)
  \/ \E degrades \in BOOLEAN : CommitFails(c, degrades)
  \/ EndWorker(c)

Next ==
  \/ AcceptError
  \/ Refuse
  \/ AuthenticationFails
  \/ \E c \in Conns, p \in Peers : Serve(c, p)
  \/ \E c \in Conns : Worker(c)
  \/ Status
  \/ Tick

Spec == Init /\ [][Next]_vars

(* Time passes and workers are scheduled: a read returns by its deadline,   *)
(* a commit by its busy timeout.  Peers need not send anything.             *)
OwnStep(c) ==
  \/ TimesOut(c)
  \/ \E status \in {"persisted", "duplicate", "collision"}, clean \in BOOLEAN : Decided(c, status, clean)
  \/ \E degrades \in BOOLEAN : CommitFails(c, degrades)
  \/ EndWorker(c)

FairSpec == Spec /\ WF_vars(Tick) /\ \A c \in Conns : WF_vars(OwnStep(c))

----
(* The counter is exact, whatever peers were refused or failed to           *)
(* authenticate: no more than max_connections are served, and a peer is     *)
(* refused only while that many workers have not ended.                     *)
SlotsAreWorkers ==
  /\ active = Cardinality(Serving)
  /\ active <= MaxConnections

(* The deadline is absolute: who drips a frame byte by byte holds a slot no *)
(* longer than read_timeout from its accept on.                             *)
DeadlineIsAbsolute ==
  \A c \in Conns : Reading(c) /\ left[c] > 0 => elapsed[c] < ReadTimeout

(* Trouble of the last 30 seconds shows in the state, also that of a source *)
(* the full map has no room for, and also after evictions.                  *)
TroubleShows == trouble # None => ~ Healthy(Evicted(sources), degraded)

(* The state is healthy only when every required role has reported itself   *)
(* available within 30 seconds: events are no heartbeat, and no eviction,   *)
(* restart or other producer makes an old report new.                       *)
HealthyMeansReported ==
  Healthy(Evicted(sources), degraded) =>
    \A role \in Required : \E k \in Keys : RoleOf[k] = role /\ heartbeat[k] # None

(* A report shown for a source was made by the process shown for it.        *)
ReportIsOfPeer ==
  \A k \in DOMAIN sources :
    sources[k].report # None => sources[k].report.by = sources[k].peer

(* Every connection gives its slot back, whatever its peer does not send.   *)
EveryConnectionEnds == \A c \in Conns : pc[c] # "idle" ~> pc[c] = "idle"

====
