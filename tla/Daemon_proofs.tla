---- MODULE Daemon_proofs ----
(***************************************************************************)
(* Proofs about the daemon's front: how it comes up and how it serves.     *)
(*                                                                         *)
(* IngestListener: the slot counter counts the workers, the deadline of a  *)
(* frame is absolute, trouble shows, and a healthy verdict rests on recent *)
(* reports - for any connections, peers, frames, sources and bounds.       *)
(*                                                                         *)
(* DaemonStartup: whatever openers of one store run beside each other and  *)
(* crash, its version never promises more than its schema holds, and a     *)
(* store of a newer release is left as it is.                              *)
(***************************************************************************)
EXTENDS IngestListener, DaemonStartup, FiniteSetTheorems, SequenceTheorems, TLAPS

----
(* IngestListener.                                                         *)

Phases == {"idle", "header", "body", "commit", "answered"}

WorkersTyped ==
  /\ active \in Int
  /\ pc \in [Conns -> Phases]
  /\ left \in [Conns -> Nat]
  /\ elapsed \in [Conns -> Nat]
  /\ peer \in [Conns -> Peers \union {None}]
  /\ key \in [Conns -> Keys \union {None}]

(* What has elapsed and what is left make up the read timeout. *)
TimeAddsUp ==
  \A c \in Conns : Reading(c) /\ left[c] > 0 => elapsed[c] + left[c] = ReadTimeout

----
LEMMA WorkersInit == Init => WorkersTyped /\ SlotsAreWorkers /\ TimeAddsUp
<1> SUFFICES ASSUME Init PROVE WorkersTyped /\ SlotsAreWorkers /\ TimeAddsUp
  OBVIOUS
<1>1. Serving = {}
  BY DEF Init, Serving
<1>2. active = Cardinality(Serving)
  BY <1>1, FS_EmptySet DEF Init
<1> QED
  BY <1>2, ListenerAssumption DEF Init, WorkersTyped, SlotsAreWorkers, TimeAddsUp, Phases, Reading

(* The steps of a worker that end with an answer are alike to the slots.     *)
LEMMA AnsweringSteps ==
  ASSUME NEW c \in Conns, Worker(c), ~ ReadPart(c), ~ ReadHeader(c), ~ EndWorker(c),
         \A f \in Frames : ~ ReceiveEvent(c, f)
  PROVE  Answered(c) /\ (Unauthorized(c) \/ pc[c] \in {"header", "body", "commit"})
BY DEF Worker, Unauthorized, FrameSize, EndsEarly, TimesOut, DeadlineHit, Reading, ReadJunk,
       RefuseFrame, ReadReport, ReadBadEvent, FrameIs, Decided, CommitFails

LEMMA WorkersStep == WorkersTyped /\ [Next]_vars => WorkersTyped'
<1> SUFFICES ASSUME WorkersTyped, [Next]_vars PROVE WorkersTyped'
  OBVIOUS
<1> USE ListenerAssumption DEF Phases, conn
<1>1. CASE AcceptError
  BY <1>1 DEF WorkersTyped, AcceptError
<1>2. CASE Refuse
  BY <1>2 DEF WorkersTyped, Refuse
<1>3. CASE AuthenticationFails
  BY <1>3 DEF WorkersTyped, AuthenticationFails, ReturnsSlot
<1>4. ASSUME NEW c \in Conns, NEW p \in Peers, Serve(c, p) PROVE WorkersTyped'
  BY <1>4 DEF WorkersTyped, Serve
<1>5. ASSUME NEW c \in Conns, Answered(c) PROVE WorkersTyped'
  BY <1>5 DEF WorkersTyped, Answered
<1>6. ASSUME NEW c \in Conns, ReadPart(c) \/ ReadHeader(c) PROVE WorkersTyped'
  BY <1>6 DEF WorkersTyped, ReadPart, ReadHeader, OneDeadline
<1>7. ASSUME NEW c \in Conns, NEW f \in Frames, ReceiveEvent(c, f) PROVE WorkersTyped'
  BY <1>7 DEF WorkersTyped, ReceiveEvent, FrameIs
<1>8. ASSUME NEW c \in Conns, EndWorker(c) PROVE WorkersTyped'
  BY <1>8 DEF WorkersTyped, EndWorker
<1>9. CASE Status
  BY <1>9 DEF WorkersTyped, Status
<1>10. CASE Tick
  BY <1>10 DEF WorkersTyped, Tick
<1>11. CASE UNCHANGED vars
  BY <1>11 DEF WorkersTyped, vars
<1> QED
  BY <1>1, <1>2, <1>3, <1>4, <1>5, <1>6, <1>7, <1>8, <1>9, <1>10, <1>11, AnsweringSteps DEF Next, Worker

(* A connection that begins to be served takes a slot of its own. *)
LEMMA ServingGrows ==
  ASSUME NEW c \in Conns, c \notin Serving, Serving' = Serving \union {c}
  PROVE  Cardinality(Serving') = Cardinality(Serving) + 1
<1>1. IsFiniteSet(Serving)
  BY FS_Subset, ListenerAssumption DEF Serving
<1> QED
  BY <1>1, FS_AddElement

LEMMA ServingShrinks ==
  ASSUME NEW c \in Conns, c \in Serving, Serving' = Serving \ {c}
  PROVE  Cardinality(Serving') = Cardinality(Serving) - 1
<1>1. IsFiniteSet(Serving)
  BY FS_Subset, ListenerAssumption DEF Serving
<1> QED
  BY <1>1, FS_RemoveElement

LEMMA SlotsStep == WorkersTyped /\ SlotsAreWorkers /\ [Next]_vars => SlotsAreWorkers'
<1> SUFFICES ASSUME WorkersTyped, SlotsAreWorkers, [Next]_vars PROVE SlotsAreWorkers'
  OBVIOUS
<1>1. Serving' = Serving /\ active' = active => SlotsAreWorkers'
  BY DEF SlotsAreWorkers
<1>2. ASSUME NEW c \in Conns, NEW p \in Peers, Serve(c, p) PROVE SlotsAreWorkers'
  <2>1. c \notin Serving /\ Serving' = Serving \union {c}
    BY <1>2 DEF WorkersTyped, Serve, Serving
  <2>2. active < MaxConnections /\ active' = active + 1
    BY <1>2 DEF Serve
  <2>3. Cardinality(Serving') = Cardinality(Serving) + 1
    BY <2>1, ServingGrows
  <2>4. MaxConnections \in Nat
    BY ListenerAssumption
  <2> QED
    BY <2>2, <2>3, <2>4 DEF SlotsAreWorkers, WorkersTyped
<1>3. ASSUME NEW c \in Conns, EndWorker(c) PROVE SlotsAreWorkers'
  <2>1. c \in Serving /\ Serving' = Serving \ {c}
    BY <1>3 DEF WorkersTyped, EndWorker, Serving
  <2>2. active' = active - 1
    BY <1>3 DEF EndWorker
  <2>3. Cardinality(Serving') = Cardinality(Serving) - 1
    BY <2>1, ServingShrinks
  <2>4. MaxConnections \in Nat
    BY ListenerAssumption
  <2> QED
    BY <2>2, <2>3, <2>4 DEF SlotsAreWorkers, WorkersTyped
<1>4. ASSUME NEW c \in Conns, Answered(c), pc[c] # "idle" PROVE Serving' = Serving /\ active' = active
  BY <1>4 DEF WorkersTyped, Answered, Serving
<1>5. ASSUME NEW c \in Conns, ReadPart(c) \/ ReadHeader(c) PROVE Serving' = Serving /\ active' = active
  BY <1>5 DEF WorkersTyped, ReadPart, ReadHeader, Serving
<1>6. ASSUME NEW c \in Conns, NEW f \in Frames, ReceiveEvent(c, f)
      PROVE  Serving' = Serving /\ active' = active
  BY <1>6 DEF WorkersTyped, ReceiveEvent, FrameIs, Serving
<1>7. CASE AcceptError \/ Refuse \/ AuthenticationFails \/ Status \/ Tick \/ UNCHANGED vars
  <2>1. pc' = pc /\ active' = active
    BY <1>7 DEF AcceptError, Refuse, AuthenticationFails, ReturnsSlot, Status, Tick, conn, vars
  <2> QED
    BY <1>1, <2>1 DEF Serving
<1>8. ASSUME NEW c \in Conns, Worker(c) PROVE SlotsAreWorkers'
  <2>1. Unauthorized(c) => pc[c] # "idle"
    BY DEF Unauthorized
  <2> QED
    BY <1>1, <1>3, <1>4, <1>5, <1>6, <1>8, <2>1, AnsweringSteps
<1> QED
  BY <1>2, <1>7, <1>8 DEF Next

LEMMA TimeStep == WorkersTyped /\ TimeAddsUp /\ [Next]_vars => TimeAddsUp'
<1> SUFFICES ASSUME WorkersTyped, TimeAddsUp, [Next]_vars,
                    NEW d \in Conns, Reading(d)', left'[d] > 0
             PROVE  elapsed'[d] + left'[d] = ReadTimeout
  BY DEF TimeAddsUp, Reading
<1>1. pc'[d] = pc[d] /\ left'[d] = left[d] /\ elapsed'[d] = elapsed[d] => elapsed'[d] + left'[d] = ReadTimeout
  BY DEF TimeAddsUp, Reading
<1>2. ASSUME NEW c \in Conns, NEW p \in Peers, Serve(c, p)
      PROVE  elapsed'[d] + left'[d] = ReadTimeout
  <2>1. CASE c = d
    BY <1>2, <2>1, ListenerAssumption DEF WorkersTyped, Serve
  <2>2. CASE c # d
    BY <1>1, <1>2, <2>2 DEF WorkersTyped, Serve
  <2> QED
    BY <2>1, <2>2
<1>3. ASSUME NEW c \in Conns, Answered(c) PROVE elapsed'[d] + left'[d] = ReadTimeout
  <2>1. c # d
    BY <1>3 DEF WorkersTyped, Answered, Reading
  <2> QED
    BY <1>1, <1>3, <2>1 DEF WorkersTyped, Answered
<1>4. ASSUME NEW c \in Conns, ReadPart(c) \/ ReadHeader(c) PROVE elapsed'[d] + left'[d] = ReadTimeout
  BY <1>4 DEF WorkersTyped, TimeAddsUp, ReadPart, ReadHeader, OneDeadline, Reading
<1>5. ASSUME NEW c \in Conns, NEW f \in Frames, ReceiveEvent(c, f)
      PROVE  elapsed'[d] + left'[d] = ReadTimeout
  <2>1. c # d
    BY <1>5 DEF WorkersTyped, ReceiveEvent, Reading
  <2> QED
    BY <1>1, <1>5, <2>1 DEF WorkersTyped, ReceiveEvent
<1>6. ASSUME NEW c \in Conns, EndWorker(c) PROVE elapsed'[d] + left'[d] = ReadTimeout
  <2>1. c # d
    BY <1>6 DEF WorkersTyped, EndWorker, Reading
  <2> QED
    BY <1>1, <1>6, <2>1 DEF WorkersTyped, EndWorker
<1>7. CASE Tick
  <2>1. left[d] > 0 /\ left'[d] = left[d] - 1
    BY <1>7 DEF WorkersTyped, Tick
  <2>2. Reading(d) /\ elapsed[d] + left[d] = ReadTimeout
    BY <1>7, <2>1 DEF TimeAddsUp, Tick, Reading
  <2>3. elapsed'[d] = elapsed[d] + 1
    BY <1>7, <2>1, <2>2, ListenerAssumption DEF WorkersTyped, Tick
  <2> QED
    BY <2>1, <2>2, <2>3, ListenerAssumption DEF WorkersTyped
<1>8. CASE AcceptError \/ Refuse \/ AuthenticationFails \/ Status \/ UNCHANGED vars
  BY <1>1, <1>8 DEF AcceptError, Refuse, AuthenticationFails, Status, conn, vars
<1> QED
  BY <1>2, <1>3, <1>4, <1>5, <1>6, <1>7, <1>8, AnsweringSteps DEF Next

LEMMA WorkersInvariant == Spec => [](WorkersTyped /\ SlotsAreWorkers /\ TimeAddsUp)
BY WorkersInit, WorkersStep, SlotsStep, TimeStep, PTL DEF Spec

(* However peers come, fail to authenticate, stay silent or leave, the       *)
(* counter is the number of workers and stays within max_connections.        *)
THEOREM SlotsStayExact == Spec => []SlotsAreWorkers
BY WorkersInvariant, PTL

(* However a frame is dripped, its worker reads no longer than read_timeout. *)
THEOREM DeadlineStaysAbsolute == Spec => []DeadlineIsAbsolute
<1>1. WorkersTyped /\ TimeAddsUp => DeadlineIsAbsolute
  BY ListenerAssumption DEF WorkersTyped, TimeAddsUp, DeadlineIsAbsolute
<1> QED
  BY <1>1, WorkersInvariant, PTL

----
(* The health map.                                                          *)

Entry ==
  [peer : Peers \union {None},
   report : {None} \union [age : Nat, ok : BOOLEAN, by : Peers],
   error : Nat \union {None},
   seen : Nat \union {None}]

OfPeer(entry) == entry.report # None => entry.report.by = entry.peer

(* A good report that is current has left as recent a heartbeat behind. *)
BackedBy(entry, beat) ==
  (entry.report # None /\ entry.report.ok /\ entry.report.age <= StaleAfter)
    => beat \in Nat /\ beat <= entry.report.age

Sound(entry, beat) == entry \in Entry /\ OfPeer(entry) /\ BackedBy(entry, beat)

SoundMap(map, beats) ==
  /\ DOMAIN map \subseteq Keys
  /\ \A k \in DOMAIN map : Sound(map[k], beats[k])

HealthHolds ==
  /\ SoundMap(sources, heartbeat)
  /\ heartbeat \in [Keys -> Nat \union {None}]
  /\ degraded \in Nat \union {None}
  /\ trouble = degraded

LEMMA BlankIsSound == ASSUME NEW beat PROVE Sound(Blank, beat)
BY DEF Sound, Blank, Entry, OfPeer, BackedBy

LEMMA EntryOfIsSound ==
  ASSUME NEW map, NEW beats, SoundMap(map, beats), NEW k \in Keys
  PROVE  Sound(EntryOf(map, k), beats[k])
BY BlankIsSound DEF SoundMap, EntryOf

LEMMA BoundIsSound ==
  ASSUME NEW entry, NEW beat, Sound(entry, beat), NEW p \in Peers
  PROVE  Sound(Bound(entry, p), beat) /\ Bound(entry, p).peer = p
<1>1. entry.peer = None => entry.report = None
  BY ListenerAssumption DEF Sound, Entry, OfPeer
<1> QED
  BY <1>1 DEF Sound, Entry, OfPeer, BackedBy, Bound

LEMMA PutIsSound ==
  ASSUME NEW map, NEW beats, SoundMap(map, beats), NEW k \in Keys, NEW entry, Sound(entry, beats[k])
  PROVE  SoundMap(Put(map, k, entry), beats)
BY DEF SoundMap, Put

LEMMA EvictedIsSound ==
  ASSUME NEW map, NEW beats, SoundMap(map, beats)
  PROVE  SoundMap(Evicted(map), beats)
BY DEF SoundMap, Evicted

LEMMA ErrorIsSound ==
  ASSUME NEW map, NEW beats, SoundMap(map, beats), NEW k \in Keys, NEW degrades \in BOOLEAN,
         NEW p \in Peers \union {None}
  PROVE  SoundMap(RecordError(map, k, degrades, p), beats)
<1> DEFINE entry == IF p = None THEN EntryOf(map, k) ELSE Bound(EntryOf(map, k), p)
           kept == [entry EXCEPT !.error = IF degrades THEN 0 ELSE None, !.seen = 0]
<1>1. Sound(entry, beats[k])
  BY EntryOfIsSound, BoundIsSound
<1>2. Sound(kept, beats[k])
  BY <1>1 DEF Sound, Entry, OfPeer, BackedBy
<1>3. SoundMap(Put(map, k, kept), beats)
  BY <1>2, PutIsSound
<1> QED
  BY <1>3 DEF RecordError

LEMMA ReceivedIsSound ==
  ASSUME NEW map, NEW beats, SoundMap(map, beats), NEW k \in Keys, NEW p \in Peers
  PROVE  SoundMap(RecordReceived(map, k, p), beats)
<1> DEFINE entry == Bound(EntryOf(map, k), p)
           kept == [entry EXCEPT !.seen = 0]
<1>1. Sound(entry, beats[k])
  BY EntryOfIsSound, BoundIsSound
<1>2. Sound(kept, beats[k])
  BY <1>1 DEF Sound, Entry, OfPeer, BackedBy
<1>3. SoundMap(Put(map, k, kept), beats)
  BY <1>2, PutIsSound
<1> QED
  BY <1>3 DEF RecordReceived

LEMMA ResultIsSound ==
  ASSUME NEW map, NEW beats, SoundMap(map, beats), NEW k \in Keys, NEW status
  PROVE  SoundMap(RecordResult(map, k, status), beats)
<1> DEFINE entry == EntryOf(map, k)
           kept == IF status = "persisted" THEN [entry EXCEPT !.seen = 0] ELSE entry
<1>1. Sound(entry, beats[k])
  BY EntryOfIsSound
<1>2. Sound(kept, beats[k])
  BY <1>1 DEF Sound, Entry, OfPeer, BackedBy
<1>3. SoundMap(Put(map, k, kept), beats)
  BY <1>2, PutIsSound
<1> QED
  BY <1>3 DEF RecordResult

LEMMA NewReportIsSound ==
  ASSUME NEW entry, NEW beat, Sound(entry, beat), NEW ok \in BOOLEAN, NEW p \in Peers,
         entry.peer = p, NEW after, ok => after = 0
  PROVE  Sound([entry EXCEPT !.report = [age |-> 0, ok |-> ok, by |-> p], !.seen = 0], after)
<1> DEFINE report == [age |-> 0, ok |-> ok, by |-> p]
           kept == [entry EXCEPT !.report = report, !.seen = 0]
<1>1. report \in [age : Nat, ok : BOOLEAN, by : Peers] /\ report.by = p /\ report.age = 0 /\ report.ok = ok
  OBVIOUS
<1> HIDE DEF report
<1>2. kept \in Entry /\ kept.peer = p /\ kept.report = report
  BY <1>1 DEF Sound, Entry
<1>3. OfPeer(kept)
  BY <1>1, <1>2 DEF OfPeer
<1>4. BackedBy(kept, after)
  BY <1>1, <1>2 DEF BackedBy
<1> QED
  BY <1>2, <1>3, <1>4 DEF Sound, report

(* A good report is backed because it sets the heartbeat, a poor one needs   *)
(* none.                                                                     *)
LEMMA ReportIsSound ==
  ASSUME NEW map, NEW beats \in [Keys -> Nat \union {None}], SoundMap(map, beats), NEW k \in Keys,
         NEW ok \in BOOLEAN, NEW p \in Peers
  PROVE  SoundMap(RecordReport(map, k, ok, p), IF ok THEN [beats EXCEPT ![k] = 0] ELSE beats)
<1> DEFINE after == IF ok THEN [beats EXCEPT ![k] = 0] ELSE beats
           old == Evicted(map)
           entry == Bound(EntryOf(old, k), p)
           kept == [entry EXCEPT !.report = [age |-> 0, ok |-> ok, by |-> p], !.seen = 0]
<1>1. SoundMap(old, beats)
  BY EvictedIsSound
<1>2. SoundMap(old, after)
  BY <1>1 DEF SoundMap, Sound, BackedBy, Entry
<1>3. Sound(entry, beats[k]) /\ entry.peer = p
  BY <1>1, EntryOfIsSound, BoundIsSound
<1>4. Sound(kept, after[k])
  <2>1. ok => after[k] = 0
    OBVIOUS
  <2> QED
    BY <1>3, <2>1, NewReportIsSound
<1>5. SoundMap(Put(old, k, kept), after)
  BY <1>2, <1>4, PutIsSound
<1> QED
  BY <1>2, <1>5 DEF RecordReport

LEMMA AgedIsSound ==
  ASSUME NEW map, NEW beats \in [Keys -> Nat \union {None}], SoundMap(map, beats)
  PROVE  SoundMap(Aged(map), [k \in Keys |-> Current(beats[k])])
<1> SUFFICES ASSUME NEW k \in DOMAIN map
             PROVE  Sound(AgedEntry(map[k]), Current(beats[k]))
  BY DEF SoundMap, Aged
<1>1. Sound(map[k], beats[k]) /\ k \in Keys
  BY DEF SoundMap
<1> DEFINE old == map[k]
           report == AgedReport(old.report)
           error == IF old.error = StaleAfter THEN None ELSE Older(old.error)
<1>2. AgedEntry(old) = [peer |-> old.peer, report |-> report, error |-> error, seen |-> Older(old.seen)]
  BY DEF AgedEntry
<1>3. \A age \in Nat \union {None} : Older(age) \in Nat \union {None}
  BY DEF Older
<1>4. Older(old.seen) \in Nat \union {None} /\ error \in Nat \union {None}
  BY <1>1, <1>3 DEF Sound, Entry
<1> DEFINE Report == [age : Nat, ok : BOOLEAN, by : Peers]
<1>9. old.report # None => old.report \in Report
  BY <1>1 DEF Sound, Entry
<1>5. /\ report \in {None} \union Report
      /\ report # None => old.report # None /\ report.by = old.report.by /\ report.ok = old.report.ok
      /\ (report # None /\ report.age <= StaleAfter)
           => old.report.age < StaleAfter /\ report.age = old.report.age + 1
  <2>1. CASE old.report = None
    BY <2>1 DEF AgedReport
  <2>2. CASE old.report # None /\ old.report.age > StaleAfter
    BY <1>9, <2>2, HealthAssumption DEF AgedReport
  <2>3. CASE old.report # None /\ ~ old.report.age > StaleAfter
    <3>1. report = [old.report EXCEPT !.age = @ + 1]
      BY <2>3 DEF AgedReport
    <3>2. old.report.age \in Nat
      BY <1>9, <2>3
    <3>3. report \in Report /\ report.age = old.report.age + 1 /\ report.by = old.report.by
          /\ report.ok = old.report.ok
      BY <1>9, <2>3, <3>1, <3>2
    <3> QED
      BY <2>3, <3>2, <3>3, HealthAssumption
  <2> QED
    BY <2>1, <2>2, <2>3
<1> HIDE DEF report, error
<1>6. AgedEntry(old) \in Entry /\ AgedEntry(old).peer = old.peer /\ AgedEntry(old).report = report
  BY <1>1, <1>2, <1>4, <1>5 DEF Sound, Entry
<1>7. OfPeer(AgedEntry(old))
  BY <1>1, <1>5, <1>6 DEF Sound, OfPeer
<1>8. BackedBy(AgedEntry(old), Current(beats[k]))
  <2> SUFFICES ASSUME report # None, report.ok, report.age <= StaleAfter
               PROVE  Current(beats[k]) \in Nat /\ Current(beats[k]) <= report.age
    BY <1>6 DEF BackedBy
  <2>1. /\ beats[k] \in Nat /\ beats[k] <= old.report.age /\ old.report.age \in Nat
        /\ old.report.age < StaleAfter /\ report.age = old.report.age + 1
    <3>1. old.report # None /\ old.report.ok /\ old.report.age < StaleAfter
          /\ report.age = old.report.age + 1
      BY <1>5
    <3>2. old.report.age \in Nat
      BY <1>9, <3>1
    <3> QED
      BY <1>1, <3>1, <3>2, HealthAssumption DEF Sound, BackedBy
  <2> QED
    BY <2>1, HealthAssumption DEF Current
<1> QED
  BY <1>6, <1>7, <1>8 DEF Sound

----
(* A worker that reads or commits has a peer, one that commits has a source. *)
WorkersKnow ==
  \A c \in Conns : /\ pc[c] \in {"header", "body", "commit"} => peer[c] \in Peers
                   /\ pc[c] = "commit" => key[c] \in Keys

LEMMA KnowingStep == WorkersTyped /\ WorkersKnow /\ [Next]_vars => WorkersKnow'
<1> SUFFICES ASSUME WorkersTyped, WorkersKnow, [Next]_vars PROVE WorkersKnow'
  OBVIOUS
<1>1. ASSUME NEW c \in Conns, NEW p \in Peers, Serve(c, p) PROVE WorkersKnow'
  BY <1>1 DEF WorkersTyped, WorkersKnow, Serve
<1>2. ASSUME NEW c \in Conns, Answered(c) PROVE WorkersKnow'
  BY <1>2 DEF WorkersTyped, WorkersKnow, Answered
<1>3. ASSUME NEW c \in Conns, ReadPart(c) \/ ReadHeader(c) PROVE WorkersKnow'
  BY <1>3 DEF WorkersTyped, WorkersKnow, ReadPart, ReadHeader
<1>4. ASSUME NEW c \in Conns, NEW f \in Frames, ReceiveEvent(c, f) PROVE WorkersKnow'
  BY <1>4, ListenerAssumption DEF WorkersTyped, WorkersKnow, ReceiveEvent, FrameIs
<1>5. ASSUME NEW c \in Conns, EndWorker(c) PROVE WorkersKnow'
  BY <1>5 DEF WorkersTyped, WorkersKnow, EndWorker
<1>6. CASE AcceptError \/ Refuse \/ AuthenticationFails \/ Status \/ Tick \/ UNCHANGED vars
  BY <1>6 DEF WorkersKnow, AcceptError, Refuse, AuthenticationFails, Status, Tick, conn, vars
<1> QED
  BY <1>1, <1>2, <1>3, <1>4, <1>5, <1>6, AnsweringSteps DEF Next

LEMMA HealthStep == WorkersTyped /\ WorkersKnow /\ HealthHolds /\ [Next]_vars => HealthHolds'
<1> SUFFICES ASSUME WorkersTyped, WorkersKnow, HealthHolds, [Next]_vars PROVE HealthHolds'
  OBVIOUS
<1> USE ListenerAssumption, HealthAssumption DEF Quiet, Degrades, DegradesAlways
<1>1. CASE AcceptError \/ Refuse \/ AuthenticationFails \/ UNCHANGED vars
  BY <1>1 DEF HealthHolds, AcceptError, Refuse, AuthenticationFails, conn, vars
<1>2. ASSUME NEW c \in Conns, NEW p \in Peers, Serve(c, p) PROVE HealthHolds'
  BY <1>2 DEF HealthHolds, Serve
<1>3. ASSUME NEW c \in Conns, Unauthorized(c) \/ ReadPart(c) \/ ReadHeader(c) \/ EndWorker(c)
      PROVE  HealthHolds'
  BY <1>3 DEF HealthHolds, Unauthorized, ReadPart, ReadHeader, EndWorker
<1>4. ASSUME NEW c \in Conns, FrameSize(c) \/ EndsEarly(c) \/ TimesOut(c) PROVE HealthHolds'
  <2>1. \A degrades \in BOOLEAN : SoundMap(RecordError(sources, LegacyKey, degrades, None), heartbeat)
    BY ErrorIsSound DEF HealthHolds
  <2>2. SoundMap(sources', heartbeat) /\ heartbeat' = heartbeat
    BY <1>4, <2>1 DEF FrameSize, EndsEarly, TimesOut
  <2>3. (degraded' = 0 /\ trouble' = 0) \/ UNCHANGED <<degraded, trouble>>
    BY <1>4 DEF FrameSize, EndsEarly, TimesOut
  <2> QED
    BY <2>2, <2>3 DEF HealthHolds
<1>5. ASSUME NEW c \in Conns, NEW f \in Frames, ReadJunk(c, f) \/ RefuseFrame(c, f) PROVE HealthHolds'
  <2>1. SoundMap(RecordError(sources, LegacyKey, FALSE, None), heartbeat)
    BY ErrorIsSound DEF HealthHolds
  <2> QED
    BY <1>5, <2>1 DEF HealthHolds, ReadJunk, RefuseFrame
<1>6. ASSUME NEW c \in Conns, NEW f \in Frames, ReadReport(c, f) PROVE HealthHolds'
  <2>1. peer[c] \in Peers /\ f.key \in Keys
    BY <1>6 DEF ReadReport, FrameIs, WorkersKnow
  <2>2. SoundMap(sources, heartbeat) /\ heartbeat \in [Keys -> Nat \union {None}]
    BY DEF HealthHolds
  <2>3. SoundMap(sources', heartbeat')
    <3>1. CASE f.type = "health"
      BY <1>6, <2>1, <2>2, <3>1, ReportIsSound DEF ReadReport
    <3>2. CASE f.type # "health"
      BY <1>6, <2>1, <2>2, <3>2, ReportIsSound DEF ReadReport
    <3> QED
      BY <3>1, <3>2
  <2> QED
    BY <1>6, <2>1, <2>3 DEF HealthHolds, ReadReport
<1>7. ASSUME NEW c \in Conns, NEW f \in Frames, ReadBadEvent(c, f) PROVE HealthHolds'
  <2>1. peer[c] \in Peers /\ f.key \in Keys
    BY <1>7 DEF ReadBadEvent, FrameIs, WorkersKnow
  <2>2. SoundMap(sources', heartbeat)
    BY <1>7, <2>1, ErrorIsSound DEF HealthHolds, ReadBadEvent
  <2> QED
    BY <1>7, <2>2 DEF HealthHolds, ReadBadEvent
<1>8. ASSUME NEW c \in Conns, NEW f \in Frames, ReceiveEvent(c, f) PROVE HealthHolds'
  <2>1. peer[c] \in Peers /\ f.key \in Keys
    BY <1>8 DEF ReceiveEvent, FrameIs, WorkersKnow
  <2>2. SoundMap(sources', heartbeat)
    BY <1>8, <2>1, ReceivedIsSound DEF HealthHolds, ReceiveEvent
  <2> QED
    BY <1>8, <2>2 DEF HealthHolds, ReceiveEvent
<1>9. ASSUME NEW c \in Conns, NEW status, NEW clean \in BOOLEAN, Decided(c, status, clean) PROVE HealthHolds'
  <2>1. key[c] \in Keys
    BY <1>9 DEF Decided, WorkersKnow
  <2> DEFINE kept == RecordResult(sources, key[c], status)
  <2>2. SoundMap(kept, heartbeat)
    BY <2>1, ResultIsSound DEF HealthHolds
  <2>3. SoundMap(RecordError(kept, key[c], TRUE, None), heartbeat)
    BY <2>1, <2>2, ErrorIsSound
  <2>4. sources' \in {kept, RecordError(kept, key[c], TRUE, None)} /\ heartbeat' = heartbeat
    BY <1>9 DEF Decided
  <2>5. (degraded' = 0 /\ trouble' = 0) \/ UNCHANGED <<degraded, trouble>>
    BY <1>9 DEF Decided
  <2> HIDE DEF kept
  <2>6. SoundMap(sources', heartbeat')
    BY <2>2, <2>3, <2>4
  <2> QED
    BY <2>4, <2>5, <2>6 DEF HealthHolds
<1>10. ASSUME NEW c \in Conns, NEW degrades \in BOOLEAN, CommitFails(c, degrades) PROVE HealthHolds'
  <2>1. key[c] \in Keys
    BY <1>10 DEF CommitFails, WorkersKnow
  <2>2. SoundMap(RecordError(sources, key[c], degrades, None), heartbeat)
    BY <2>1, ErrorIsSound DEF HealthHolds
  <2> QED
    <3>1. sources' = RecordError(sources, key[c], degrades, None) /\ heartbeat' = heartbeat
      BY <1>10 DEF CommitFails
    <3>2. (degraded' = 0 /\ trouble' = 0) \/ UNCHANGED <<degraded, trouble>>
      <4>1. CASE degrades
        BY <1>10, <4>1 DEF CommitFails
      <4>2. CASE ~ degrades
        BY <1>10, <4>2 DEF CommitFails
      <4> QED
        BY <4>1, <4>2
    <3> QED
      BY <2>2, <3>1, <3>2 DEF HealthHolds
<1>11. CASE Status
  BY <1>11, EvictedIsSound DEF HealthHolds, Status
<1>12. CASE Tick
  <2>1. SoundMap(sources', heartbeat')
    BY <1>12, AgedIsSound DEF HealthHolds, Tick
  <2> QED
    BY <1>12, <2>1 DEF HealthHolds, Tick, Current
<1> QED
  BY <1>1, <1>2, <1>3, <1>4, <1>5, <1>6, <1>7, <1>8, <1>9, <1>10, <1>11, <1>12 DEF Next, Worker

LEMMA HealthInvariant == Spec => [](WorkersTyped /\ WorkersKnow /\ HealthHolds)
<1>1. Init => WorkersKnow /\ HealthHolds
  BY HealthAssumption DEF Init, WorkersKnow, HealthHolds, SoundMap
<1> QED
  BY <1>1, WorkersInit, WorkersStep, KnowingStep, HealthStep, PTL DEF Spec

(* No full map and no eviction hides trouble of the last 30 seconds. *)
THEOREM TroubleAlwaysShows == Spec => []TroubleShows
<1>1. HealthHolds => TroubleShows
  BY DEF HealthHolds, TroubleShows, Healthy
<1> QED
  BY <1>1, HealthInvariant, PTL

(* A healthy verdict rests on a recent report of every required role.       *)
THEOREM HealthIsReported == Spec => []HealthyMeansReported
<1>1. HealthHolds => HealthyMeansReported
  <2> SUFFICES ASSUME HealthHolds, Healthy(Evicted(sources), degraded), NEW role \in Required
               PROVE  \E k \in Keys : RoleOf[k] = role /\ heartbeat[k] # None
    BY DEF HealthyMeansReported
  <2>1. SoundMap(Evicted(sources), heartbeat)
    BY EvictedIsSound DEF HealthHolds
  <2>2. PICK k \in DOMAIN Evicted(sources) :
          RoleOf[k] = role /\ Fresh(Evicted(sources)[k]) /\ Evicted(sources)[k].report.ok
    BY DEF Healthy, RoleIsFresh
  <2>3. k \in Keys /\ heartbeat[k] \in Nat
    BY <2>1, <2>2 DEF SoundMap, Sound, BackedBy, Fresh
  <2> QED
    BY <2>2, <2>3, HealthAssumption
<1> QED
  BY <1>1, HealthInvariant, PTL

(* A report is never shown for another process than the one that made it.   *)
THEOREM ReportsAreOfPeers == Spec => []ReportIsOfPeer
<1>1. HealthHolds => ReportIsOfPeer
  BY DEF HealthHolds, SoundMap, Sound, OfPeer, ReportIsOfPeer
<1> QED
  BY <1>1, HealthInvariant, PTL

----
(* DaemonStartup.  Its phases are a process's, not those of a worker.       *)

(* The names of the statements before the one a process has come to. *)
Executed(p) == {Ddl[i].name : i \in {j \in DOMAIN Ddl : j < at[p]}}

AllNames == Names("create") \union Names("column")

(* What a process has executed stays; who stamps has seen all of it done.   *)
MigrationHolds ==
  \A p \in Processes :
    /\ phase[p] = "version" => at[p] = 1
    /\ phase[p] \in {"migrate", "column"} => Executed(p) \subseteq schema
    /\ phase[p] = "column" => at[p] <= Len(Ddl)
    /\ phase[p] = "stamp" => Complete

(* Nobody works on a store of a newer release. *)
NewerIsRefused ==
  version > SchemaVersion => \A p \in Processes : phase[p] \in {"down", "version", "refused"}

StartupInvariant == TypeOK /\ MigrationHolds /\ NewerIsRefused /\ VersionMeansComplete

----
(* Every statement has a name of one of the two kinds. *)
LEMMA NamesOfStatements ==
  ASSUME NEW i \in DOMAIN Ddl PROVE Ddl[i].name \in AllNames
<1>1. i \in 1 .. Len(Ddl)
  BY StartupAssumption
<1>2. Ddl[i] \in [kind : {"create", "column"}, name : STRING]
  BY <1>1, ElementOfSeq, StartupAssumption
<1> QED
  BY <1>2 DEF AllNames, Names

(* Who has come past the last statement has executed all of them. *)
LEMMA AllExecuted ==
  ASSUME NEW p \in Processes, at[p] \in Nat, at[p] > Len(Ddl)
  PROVE  AllNames \subseteq Executed(p)
<1>1. \A i \in DOMAIN Ddl : i < at[p]
  BY StartupAssumption
<1> QED
  BY <1>1 DEF AllNames, Names, Executed

(* One more statement executed. *)
LEMMA OneMoreExecuted ==
  ASSUME NEW p \in Processes, TypeOK, at[p] <= Len(Ddl),
         at' = [at EXCEPT ![p] = @ + 1],
         Executed(p) \subseteq schema,
         schema' = schema \union {Ddl[at[p]].name}
  PROVE  Executed(p)' \subseteq schema'
<1>1. \A j \in DOMAIN Ddl : j < at[p] + 1 => j < at[p] \/ j = at[p]
  BY StartupAssumption DEF TypeOK
<1>2. at'[p] = at[p] + 1
  BY DEF TypeOK
<1> QED
  BY <1>1, <1>2 DEF Executed

----
(* Every variable stays within its type. *)
LEMMA StartupTypeInit == StartupInit => TypeOK
<1> SUFFICES ASSUME StartupInit PROVE TypeOK
  OBVIOUS
<1>1. version \in 0 .. (SchemaVersion + 1) /\ legacy \in {"none", "some", "clash"}
  BY StartupAssumption DEF StartupInit, InitialStore, Complete
<1>2. schema \subseteq Names("create") \union Names("column")
  BY DEF StartupInit, InitialStore, Complete
<1>3. 1 \in 1 .. (Len(Ddl) + 1) /\ 0 \in 0 .. Attempts
  BY StartupAssumption
<1> QED
  BY <1>1, <1>2, <1>3 DEF StartupInit, TypeOK

LEMMA StartupTypeStep == TypeOK /\ MigrationHolds /\ [StartupNext]_startupVars => TypeOK'
<1> SUFFICES ASSUME TypeOK, MigrationHolds, [StartupNext]_startupVars PROVE TypeOK'
  OBVIOUS
<1> USE StartupAssumption DEF store, socket, local, Goto
<1>1. ASSUME NEW p \in Processes, Start(p) PROVE TypeOK'
  BY <1>1 DEF TypeOK, Start
<1>2. ASSUME NEW p \in Processes, CheckVersion(p) PROVE TypeOK'
  BY <1>2 DEF TypeOK, CheckVersion
<1>3. ASSUME NEW p \in Processes, Create(p) PROVE TypeOK'
  <2>1. at[p] \in DOMAIN Ddl
    BY <1>3 DEF TypeOK, Create, Migrating
  <2>2. schema' \subseteq AllNames
    BY <1>3, <2>1, NamesOfStatements DEF TypeOK, Create, Statement, AllNames
  <2> QED
    BY <1>3, <2>2 DEF TypeOK, Create, NextStatement, Migrating, AllNames
<1>4. ASSUME NEW p \in Processes, ReadColumns(p) PROVE TypeOK'
  BY <1>4 DEF TypeOK, ReadColumns
<1>5. ASSUME NEW p \in Processes, AddColumn(p) PROVE TypeOK'
  <2>1. at[p] \in DOMAIN Ddl /\ at[p] <= Len(Ddl)
    BY <1>5 DEF TypeOK, AddColumn, MigrationHolds
  <2>2. schema' \subseteq AllNames
    BY <1>5, <2>1, NamesOfStatements DEF TypeOK, AddColumn, Statement,
                                         AllNames
  <2>3. at' \in [Processes -> 1 .. (Len(Ddl) + 1)]
    <3>1. at' = at \/ at' = [at EXCEPT ![p] = @ + 1]
      BY <1>5 DEF AddColumn, NextStatement
    <3>2. at \in [Processes -> 1 .. (Len(Ddl) + 1)] /\ at[p] + 1 \in 1 .. (Len(Ddl) + 1)
      BY <2>1 DEF TypeOK
    <3> QED
      BY <3>1, <3>2
  <2>4. phase' = [phase EXCEPT ![p] = "down"] \/ phase' = [phase EXCEPT ![p] = "migrate"]
    BY <1>5 DEF AddColumn
  <2>5. UNCHANGED <<version, legacy, final, private, nonce, unstorable>>
    BY <1>5 DEF AddColumn
  <2>6. phase' \in [Processes -> {"down", "version", "migrate", "column", "stamp", "import", "bind",
                                 "remove", "private", "secure", "publish", "rmdir", "http", "up",
                                 "refused", "done"}]
    BY <2>4 DEF TypeOK
  <2> QED
    BY <2>2, <2>3, <2>5, <2>6 DEF TypeOK, AllNames
<1>6. ASSUME NEW p \in Processes, Normalize(p) PROVE TypeOK'
  BY <1>6 DEF TypeOK, Normalize
<1>7. ASSUME NEW p \in Processes, Stamp(p) PROVE TypeOK'
  BY <1>7 DEF TypeOK, Stamp
<1>8. ASSUME NEW p \in Processes, Crash(p) PROVE TypeOK'
  BY <1>8 DEF TypeOK, Crash
<1>9. ASSUME NEW d \in Daemons, Inspect(d) PROVE TypeOK'
  BY <1>9 DEF TypeOK, Inspect, Processes
<1>10. ASSUME NEW d \in Daemons, Remove(d) PROVE TypeOK'
  BY <1>10 DEF TypeOK, Remove, Processes
<1>11. ASSUME NEW d \in Daemons, MakePrivate(d) PROVE TypeOK'
  <2>1. CASE GivesUp(d)
    BY <1>11, <2>1 DEF TypeOK, MakePrivate, Processes
  <2>2. CASE ~ GivesUp(d)
    <3>1. nonce[d] \in 0 .. (Attempts - 1)
      BY <2>2 DEF TypeOK, GivesUp, Processes
    <3>2. nonce' \in [Processes -> 0 .. Attempts] /\ private' \subseteq 0 .. (Attempts - 1)
      <4>1. nonce' = [nonce EXCEPT ![d] = @ + 1]
        BY <1>11, <2>2 DEF MakePrivate
      <4>2. private' \subseteq private \union {nonce[d]}
        <5>1. CASE NameTaken(d)
          BY <1>11, <2>2, <5>1 DEF MakePrivate
        <5>2. CASE ~ NameTaken(d)
          BY <1>11, <2>2, <5>2 DEF MakePrivate
        <5> QED
          BY <5>1, <5>2
      <4> QED
        BY <3>1, <4>1, <4>2 DEF TypeOK, Processes
    <3>3. phase' = phase \/ phase' = [phase EXCEPT ![d] = "secure"]
      <4>1. CASE NameTaken(d)
        BY <1>11, <2>2, <4>1 DEF MakePrivate
      <4>2. CASE ~ NameTaken(d)
        BY <1>11, <2>2, <4>2 DEF MakePrivate
      <4> QED
        BY <4>1, <4>2
    <3> QED
      BY <1>11, <3>2, <3>3 DEF TypeOK, MakePrivate, Processes
  <2> QED
    BY <2>1, <2>2
<1>12. ASSUME NEW d \in Daemons, Secure(d) PROVE TypeOK'
  BY <1>12 DEF TypeOK, Secure, Processes
<1>13. ASSUME NEW d \in Daemons, Publish(d) PROVE TypeOK'
  <2>1. final' \in Daemons \union {None}
    BY <1>13 DEF TypeOK, Publish
  <2>2. phase' = [phase EXCEPT ![d] = "down"] \/ phase' = [phase EXCEPT ![d] = "rmdir"]
    BY <1>13 DEF Publish
  <2>3. private' \subseteq private
    BY <1>13 DEF Publish
  <2> QED
    BY <1>13, <2>1, <2>2, <2>3 DEF TypeOK, Publish, Processes
<1>14. ASSUME NEW d \in Daemons, RemovePrivate(d) PROVE TypeOK'
  BY <1>14 DEF TypeOK, RemovePrivate, Processes
<1>15. ASSUME NEW d \in Daemons, StartHttp(d) PROVE TypeOK'
  BY <1>15 DEF TypeOK, StartHttp, Processes
<1>16. CASE UNCHANGED startupVars
  BY <1>16 DEF TypeOK, startupVars
<1>17. ASSUME NEW d \in Daemons, FirstPass(d) \/ LaterPass(d) PROVE TypeOK'
  BY <1>17 DEF TypeOK, FirstPass, LaterPass, PassEnds, Processes
<1>18. CASE SpoolChanges
  BY <1>18 DEF TypeOK, SpoolChanges
<1> QED
  BY <1>1, <1>2, <1>3, <1>4, <1>5, <1>6, <1>7, <1>8, <1>9, <1>10, <1>11, <1>12,
     <1>13, <1>14, <1>15, <1>16, <1>17, <1>18 DEF StartupNext, Step, DaemonStep

----
(* What the migration rests on holds in every state. *)
LEMMA MigrationInit == StartupInit => MigrationHolds /\ NewerIsRefused /\ VersionMeansComplete
BY StartupAssumption DEF StartupInit, InitialStore, MigrationHolds,
       NewerIsRefused, VersionMeansComplete

(* A complete store stays complete: no step drops a name or brings back an  *)
(* identifier that cannot be routed.                                        *)
LEMMA CompleteStays ==
  ASSUME TypeOK, TypeOK', schema \subseteq schema',
         legacy = "none" => legacy' = "none", Complete
  PROVE  Complete'
BY DEF TypeOK, Complete, Names

LEMMA StoreGrows ==
  ASSUME TypeOK, MigrationHolds, [StartupNext]_startupVars
  PROVE  schema \subseteq schema' /\ (legacy = "none" => legacy' = "none")
BY DEF StartupNext, SpoolChanges, FirstPass, LaterPass, PassEnds, Step,
       DaemonStep, Start, CheckVersion,
       Create, ReadColumns, AddColumn, Normalize, Stamp,
       Crash, Inspect, Remove, MakePrivate, Secure,
       Publish, RemovePrivate, StartHttp, store, socket,
       local, startupVars

(* Only a process that creates or adds moves on, by one statement, whose     *)
(* name it has put into the schema.                                          *)
LEMMA MigrationStep ==
  TypeOK /\ TypeOK' /\ MigrationHolds /\ [StartupNext]_startupVars
         => MigrationHolds'
<1> SUFFICES ASSUME TypeOK, TypeOK', MigrationHolds, [StartupNext]_startupVars,
                    NEW q \in Processes
             PROVE  /\ phase'[q] = "version" => at'[q] = 1
                    /\ phase'[q] \in {"migrate", "column"} => Executed(q)' \subseteq schema'
                    /\ phase'[q] = "column" => at'[q] <= Len(Ddl)
                    /\ phase'[q] = "stamp" => Complete'
  BY DEF MigrationHolds
<1>1. schema \subseteq schema' /\ (Complete => Complete')
  BY StoreGrows, CompleteStays
<1>2. (at'[q] = at[q] /\ Executed(q) \subseteq schema) => Executed(q)' \subseteq schema'
  BY <1>1 DEF Executed
<1>3. CASE phase'[q] = phase[q] /\ at'[q] = at[q]
  BY <1>1, <1>2, <1>3 DEF MigrationHolds
<1>4. CASE phase'[q] \notin {"version", "migrate", "column", "stamp"}
  BY <1>4
<1> USE StartupAssumption DEF store, socket, local, Goto
<1>5. ASSUME NEW p \in Processes, p # q, Step(p) \/ Crash(p)
      PROVE  phase'[q] = phase[q] /\ at'[q] = at[q]
  BY <1>5 DEF TypeOK, Step, Start, CheckVersion, Create,
              ReadColumns, AddColumn, Normalize, Stamp,
              Crash, NextStatement
<1>6. ASSUME NEW d \in Daemons, DaemonStep(d)
      PROVE  /\ at' = at
             /\ phase'[q] = phase[q] \/ phase'[q] \notin {"version", "migrate", "column", "stamp"}
  BY <1>6 DEF TypeOK, DaemonStep, FirstPass, LaterPass, PassEnds, Inspect, Remove,
              MakePrivate, Secure, Publish, RemovePrivate,
              StartHttp, Processes
<1>7. CASE Start(q)
  BY <1>7 DEF TypeOK, Start
<1>8. CASE CheckVersion(q)
  <2>1. at'[q] = 1 /\ at[q] = 1 /\ phase'[q] \in {"refused", "migrate"}
    BY <1>8 DEF TypeOK, CheckVersion, MigrationHolds
  <2>2. Executed(q) = {}
    BY <2>1 DEF Executed
  <2> QED
    BY <1>2, <2>1, <2>2
<1>9. CASE Create(q)
  <2>1. Executed(q)' \subseteq schema'
    BY <1>9, OneMoreExecuted DEF Create, Migrating, Statement,
                                 NextStatement, MigrationHolds
  <2> QED
    BY <1>9, <2>1 DEF Create, Migrating
<1>10. CASE ReadColumns(q)
  BY <1>2, <1>10 DEF TypeOK, ReadColumns, Migrating, MigrationHolds
<1>11. CASE AddColumn(q)
  <2>1. CASE missing[q] /\ Statement(q).name \in schema
    BY <1>4, <1>11, <2>1 DEF TypeOK, AddColumn
  <2>2. CASE ~ (missing[q] /\ Statement(q).name \in schema)
    <3>1. Executed(q)' \subseteq schema'
      BY <1>11, <2>2, OneMoreExecuted DEF AddColumn, Statement,
                                          NextStatement, MigrationHolds
    <3> QED
      BY <1>11, <2>2, <3>1 DEF TypeOK, AddColumn
  <2> QED
    BY <2>1, <2>2
<1>12. CASE Normalize(q)
  <2>1. CASE legacy = "clash"
    BY <1>4, <1>12, <2>1 DEF TypeOK, Normalize
  <2>2. CASE legacy # "clash"
    <3>1. AllNames \subseteq schema
      BY <1>12, AllExecuted DEF TypeOK, Normalize, MigrationHolds
    <3>2. Complete'
      BY <1>12, <2>2, <3>1 DEF TypeOK, Normalize, Complete, AllNames,
                               Names
    <3> QED
      BY <1>12, <2>2, <3>2 DEF TypeOK, Normalize
  <2> QED
    BY <2>1, <2>2
<1>13. CASE Stamp(q)
  BY <1>4, <1>13 DEF TypeOK, Stamp
<1>14. CASE Crash(q)
  BY <1>4, <1>14 DEF TypeOK, Crash
<1>15. CASE UNCHANGED startupVars
  BY <1>3, <1>15 DEF startupVars
<1>16. CASE SpoolChanges
  BY <1>3, <1>16 DEF SpoolChanges
<1> QED
  BY <1>3, <1>4, <1>5, <1>6, <1>7, <1>8, <1>9, <1>10, <1>11, <1>12, <1>13, <1>14, <1>15,
     <1>16, <1>2 DEF StartupNext, Step, MigrationHolds

(* Only who found a complete store writes the version. *)
LEMMA VersionStep ==
  TypeOK /\ TypeOK' /\ MigrationHolds /\ VersionMeansComplete
         /\ [StartupNext]_startupVars => VersionMeansComplete'
<1> SUFFICES ASSUME TypeOK, TypeOK', MigrationHolds, VersionMeansComplete,
                    [StartupNext]_startupVars
             PROVE  VersionMeansComplete'
  OBVIOUS
<1>1. Complete => Complete'
  BY StoreGrows, CompleteStays
<1>2. version' = version \/ \E p \in Processes : Stamp(p)
  BY DEF StartupNext, SpoolChanges, FirstPass, LaterPass, PassEnds, Step,
       DaemonStep, Start, CheckVersion,
         Create, ReadColumns, AddColumn, Normalize, Crash,
         Inspect, Remove, MakePrivate, Secure, Publish,
         RemovePrivate, StartHttp, store, socket, local,
         startupVars
<1>3. ASSUME NEW p \in Processes, Stamp(p) PROVE Complete
  BY <1>3 DEF Stamp, StampsLast, MigrationHolds
<1> QED
  BY <1>1, <1>2, <1>3 DEF VersionMeansComplete

(* A newer store stays newer and nobody passes the check of its version. *)
LEMMA NewerStep ==
  TypeOK /\ NewerIsRefused /\ [StartupNext]_startupVars
         => NewerIsRefused' /\ (version > SchemaVersion => UNCHANGED store)
<1> SUFFICES ASSUME TypeOK, NewerIsRefused, [StartupNext]_startupVars
             PROVE  NewerIsRefused' /\ (version > SchemaVersion => UNCHANGED store)
  OBVIOUS
<1> USE StartupAssumption DEF store, socket, local, Goto,
            Processes
<1>1. CASE version > SchemaVersion
  BY <1>1 DEF NewerIsRefused, TypeOK, StartupNext, SpoolChanges, FirstPass, LaterPass, PassEnds, Step, DaemonStep,
              Start, CheckVersion, Create, ReadColumns,
              AddColumn, Normalize, Stamp, StampsLast,
              Migrating, Crash, Inspect, Remove,
              MakePrivate, Secure, Publish, RemovePrivate,
              StartHttp, startupVars
<1>2. CASE ~ version > SchemaVersion
  <2>1. version' = version \/ version' = SchemaVersion
    BY DEF StartupNext, SpoolChanges, FirstPass, LaterPass, PassEnds, Step,
       DaemonStep, Start, CheckVersion,
           Create, ReadColumns, AddColumn, Normalize,
           Stamp, Crash, Inspect, Remove, MakePrivate,
           Secure, Publish, RemovePrivate, StartHttp,
           startupVars
  <2> QED
    BY <1>2, <2>1 DEF NewerIsRefused, TypeOK
<1> QED
  BY <1>1, <1>2

LEMMA StartupInvariantHolds == StartupSpec => []StartupInvariant
<1>1. StartupInit => StartupInvariant
  BY StartupTypeInit, MigrationInit DEF StartupInvariant
<1>2. StartupInvariant /\ [StartupNext]_startupVars => StartupInvariant'
  BY StartupTypeStep, MigrationStep, NewerStep, VersionStep DEF StartupInvariant
<1> QED
  BY <1>1, <1>2, PTL DEF StartupSpec

----
(* A store that bears this release's version is complete, for any statements *)
(* of the migration and any number of openers that crash and run beside each *)
(* other.                                                                    *)
THEOREM VersionIsTruthful == StartupSpec => []VersionMeansComplete
BY StartupInvariantHolds, PTL DEF StartupInvariant

(* A store of a newer release is not touched by any of them. *)
THEOREM NewerStoreIsLeftAlone == StartupSpec => NewerStoreUntouched
<1>1. StartupInvariant /\ [StartupNext]_startupVars
        => [version > SchemaVersion => UNCHANGED store]_startupVars
  BY NewerStep DEF StartupInvariant
<1> QED
  BY <1>1, StartupInvariantHolds, PTL DEF StartupSpec, NewerStoreUntouched

====
