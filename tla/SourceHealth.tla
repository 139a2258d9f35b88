---- MODULE SourceHealth ----
(***************************************************************************)
(* The map of producer identities behind /api/status: what each handler    *)
(* records of a source, when a source leaves the map, and the verdict      *)
(* "healthy" or "degraded" that status_json draws from it.                 *)
(*                                                                         *)
(* A time stamp is kept as its age, up to the first age that tells nothing *)
(* new.  The stamps of a source enter the code in three ways: through the  *)
(* youngest of them (eviction), through the age of its report and through  *)
(* the age of its last error; an entry holds these three.                  *)
(***************************************************************************)
EXTENDS Integers, FiniteSets

CONSTANTS
  Keys,          \* source identities: uid, role, generation, nonce
  RoleOf,        \* the role each of them reports
  Required,      \* required_reported_roles
  MaxSources,    \* MAX_HEALTH_SOURCES
  StaleAfter,    \* age up to which a report or a failure is current
  Retention,     \* age up to which a silent source is kept
  None

ASSUME HealthAssumption ==
  /\ MaxSources \in Nat \ {0}
  /\ {StaleAfter, Retention} \subseteq Nat /\ StaleAfter < Retention
  /\ IsFiniteSet(Keys)
  /\ None \notin Nat

Blank == [peer |-> None, report |-> None, error |-> None, seen |-> None]

(* A stamp ages until it lies beyond the retention. *)
Older(age) == IF age = None \/ age > Retention THEN age ELSE age + 1

AgedReport(report) ==
  IF report = None \/ report.age > StaleAfter THEN report ELSE [report EXCEPT !.age = @ + 1]

AgedEntry(entry) ==
  [peer |-> entry.peer,
   report |-> AgedReport(entry.report),
   error |-> IF entry.error = StaleAfter THEN None ELSE Older(entry.error),
   seen |-> Older(entry.seen)]

Aged(sources) == [k \in DOMAIN sources |-> AgedEntry(sources[k])]

(* A full map takes no new identity. *)
Admits(sources, k) == k \in DOMAIN sources \/ Cardinality(DOMAIN sources) < MaxSources

EntryOf(sources, k) == IF k \in DOMAIN sources THEN sources[k] ELSE Blank

Put(sources, k, entry) ==
  [j \in DOMAIN sources \union {k} |-> IF j = k THEN entry ELSE sources[j]]

(* bind_kernel_peer: the report of an earlier process is dropped. *)
Bound(entry, p) ==
  IF entry.peer \in {None, p} THEN [entry EXCEPT !.peer = p]
  ELSE [entry EXCEPT !.peer = p, !.report = None]

(* record_source_error_for_peer; the protocol errors, filed under the uid, *)
(* bind no peer.                                                           *)
RecordError(sources, k, degrades, p) ==
  IF ~ Admits(sources, k) THEN sources
  ELSE LET entry == EntryOf(sources, k)
       IN Put(sources, k,
              [IF p = None THEN entry ELSE Bound(entry, p)
               EXCEPT !.error = IF degrades THEN 0 ELSE None, !.seen = 0])

RecordReceived(sources, k, p) ==
  IF ~ Admits(sources, k) THEN sources
  ELSE Put(sources, k, [Bound(EntryOf(sources, k), p) EXCEPT !.seen = 0])

(* record_result: only a persisted event leaves a stamp; a duplicate or a   *)
(* collision counts, and makes the entry when there is none.                *)
RecordResult(sources, k, status) ==
  IF ~ Admits(sources, k) THEN sources
  ELSE Put(sources, k,
           IF status = "persisted" THEN [EntryOf(sources, k) EXCEPT !.seen = 0]
           ELSE EntryOf(sources, k))

(* An entry without a stamp stays. *)
Stays(entry) == entry.seen = None \/ entry.seen <= Retention

(* evict_stale_sources *)
Evicted(sources) == [k \in {j \in DOMAIN sources : Stays(sources[j])} |-> sources[k]]

(* record_producer_health *)
RecordReport(sources, k, ok, p) ==
  LET kept == Evicted(sources)
  IN IF ~ Admits(kept, k) THEN kept
     ELSE Put(kept, k,
              [Bound(EntryOf(kept, k), p) EXCEPT
                 !.report = [age |-> 0, ok |-> ok, by |-> p], !.seen = 0])

(* Mutant: any sign of life of a producer counts as a report. *)
SeenIsFresh(entry) == entry.report # None /\ entry.seen <= StaleAfter

Fresh(entry) == entry.report # None /\ entry.report.age <= StaleAfter

PoorProducer(entry) == Fresh(entry) /\ (~ entry.report.ok \/ entry.error # None)

RoleIsFresh(sources, role) ==
  \E k \in DOMAIN sources : RoleOf[k] = role /\ Fresh(sources[k]) /\ sources[k].report.ok

(* The verdict of status_json; `degraded` is the age of the last trouble.  *)
Healthy(sources, degraded) ==
  /\ \E k \in DOMAIN sources : Fresh(sources[k])
  /\ ~ \E k \in DOMAIN sources : PoorProducer(sources[k])
  /\ \A role \in Required : RoleIsFresh(sources, role)
  /\ degraded = None

====
