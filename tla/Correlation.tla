---- MODULE Correlation ----
(***************************************************************************)
(* What one committed event correlates with: the candidate query, the      *)
(* two-step sequence rules and the P1 (exfiltration, malware) rules of     *)
(* LocalStore::commit_continuous_event, as operators on sets of events.    *)
(*                                                                         *)
(* An event is a record: its identifier and observation time, its join     *)
(* keys (trace, session; None when absent), its P1 class and the sequence  *)
(* rules whose first step (opens) or second step (closes) it matches.      *)
(* Identifiers are numbers because the code breaks ties on their order.    *)
(***************************************************************************)
EXTENDS Integers, FiniteSets, FiniteSetsExt

CONSTANTS
  Rules,           \* identifiers of the two-step sequence rules
  RuleWindow,      \* window_ms of each rule
  P1Window,        \* the 60 000 ms of the P1 rules
  CandidateLimit,  \* config.candidate_limit
  None             \* an absent trace, session or ingest source

(* The names of the incidents that no sequence rule opens. *)
OtherKinds == {"exfil", "malware", "degraded"}

ASSUME CorrelationAssumption ==
  /\ IsFiniteSet(Rules)
  /\ Rules \intersect OtherKinds = {}
  /\ RuleWindow \in [Rules -> Nat]
  /\ P1Window \in Nat
  /\ CandidateLimit \in Nat \ {0}

(* Events compare by observation time, then identifier. *)
Before(a, b) == a.time < b.time \/ (a.time = b.time /\ a.id < b.id)

Within(a, b, window) == a.time - b.time \in -window .. window

Earliest(S) == CHOOSE e \in S : \A o \in S \ {e} : Before(e, o)
Latest(S)   == CHOOSE e \in S : \A o \in S \ {e} : Before(o, e)

----
(* The candidate query: same trace when the trigger has one, otherwise the *)
(* same session; the widest window; newest first, at most CandidateLimit.  *)

MaxRuleWindow == Max({RuleWindow[r] : r \in Rules} \union {P1Window})

Eligible(stored, trigger) ==
  {e \in stored :
     /\ e.id # trigger.id
     /\ Within(e, trigger, MaxRuleWindow)
     /\ \/ trigger.trace # None /\ e.trace = trigger.trace
        \/ /\ trigger.trace = None
           /\ trigger.session # None
           /\ e.session = trigger.session}

Newest(S, n) == {e \in S : Cardinality({o \in S : Before(e, o)}) < n}

(* Mutant: the limit does not count the trigger, which the candidates hold. *)
TruncatedLate(stored, trigger) == Cardinality(Eligible(stored, trigger)) > CandidateLimit

(* The trigger comes first, then at most CandidateLimit rows: more than     *)
(* CandidateLimit events in all means the bound cut the candidates short.   *)
Truncated(stored, trigger) == Cardinality(Eligible(stored, trigger)) >= CandidateLimit

Candidates(stored, trigger) ==
  {trigger} \union Newest(Eligible(stored, trigger), CandidateLimit - 1)

----
(* Two-step sequence rules (every built-in rule joins on the trace).  A     *)
(* trigger that opens the rule takes the first later event that closes it;  *)
(* one that closes it takes an opening event no older than the closing      *)
(* event before it, smallest identifier first.                              *)

SameJoin(a, b) == a.trace # None /\ a.trace = b.trace

Completes(r, first, second) ==
  /\ r \in first.opens
  /\ r \in second.closes
  /\ SameJoin(first, second)
  /\ Before(first, second)
  /\ Within(first, second, RuleWindow[r])

Successors(r, cands, trigger) == {c \in cands : Completes(r, trigger, c)}

(* Mutants: the search starts after the closing event before the trigger,   *)
(* or always from the beginning.                                            *)
PrecedingPastFloor(r, cands, trigger) ==
  {c \in cands : /\ Before(c, trigger)
                 /\ ~ \E o \in cands : /\ r \in o.closes /\ SameJoin(o, trigger)
                                       /\ Before(o, trigger) /\ ~ Before(o, c)}

PrecedingWithoutFloor(r, cands, trigger) == {c \in cands : Before(c, trigger)}

(* Where the search for an opening event starts: the closing event before   *)
(* the trigger, or the beginning.                                           *)
Preceding(r, cands, trigger) ==
  LET before == {c \in cands : Before(c, trigger)}
      closing == {c \in before : r \in c.closes /\ SameJoin(c, trigger)}
  IN  IF closing = {} THEN before
      ELSE {c \in before : ~ Before(c, Latest(closing))}

Predecessors(r, cands, trigger) ==
  {c \in Preceding(r, cands, trigger) : Completes(r, c, trigger)}

(* The ordered pairs that start or end at the trigger: at most two. *)
MatchesOf(r, cands, trigger) ==
  LET later == Successors(r, cands, trigger)
      earlier == Predecessors(r, cands, trigger)
      asFirst == IF later = {} THEN {} ELSE {<<trigger, Earliest(later)>>}
      asSecond == IF earlier = {} THEN {}
                  ELSE {<<CHOOSE e \in earlier : \A o \in earlier : e.id <= o.id, trigger>>}
  IN  asFirst \union asSecond

PairLeq(p, q) == p[1].id < q[1].id \/ (p[1].id = q[1].id /\ p[2].id <= q[2].id)

(* One match per rule: the smaller pair of identifiers. *)
SequenceMatches(cands, trigger) ==
  {<<r, CHOOSE p \in MatchesOf(r, cands, trigger) :
           \A q \in MatchesOf(r, cands, trigger) : PairLeq(p, q)>> :
     r \in {r \in Rules : MatchesOf(r, cands, trigger) # {}}}

(* The batch engine over a whole set of events: every opening event with    *)
(* the first later event that closes it.                                    *)
BatchMatches(r, stored) ==
  {<<first, Earliest(Successors(r, stored, first))>> :
     first \in {e \in stored : Successors(r, stored, e) # {}}}

----
(* P1: a sensitive read and a later egress of the same trace (or, when      *)
(* neither has one, the same session), whichever of the two arrives last.   *)

P1Joined(a, b) ==
  \/ a.trace # None /\ a.trace = b.trace
  \/ /\ a.trace = None /\ b.trace = None
     /\ a.session # None /\ a.session = b.session

Exfiltrates(read, egress) ==
  /\ read.p1 = "sensitive"
  /\ egress.p1 = "egress"
  /\ Within(read, egress, P1Window)
  /\ P1Joined(read, egress)
  /\ Before(read, egress)

(* The nearest counterpart in time, as an ordered pair; none or one. *)
P1Pairs(cands, trigger) ==
  LET egresses == {c \in cands : Exfiltrates(trigger, c)}
      reads == {c \in cands : Exfiltrates(c, trigger)}
  IN  (IF egresses = {} THEN {} ELSE {<<trigger, Earliest(egresses)>>})
      \union (IF reads = {} THEN {} ELSE {<<Latest(reads), trigger>>})

----
(* Incidents.  The identifier of an incident is a digest of its rule and    *)
(* the events it cites; the degraded one also of its source.                *)

(* Mutant: the identifier of a pair depends on its first event only. *)
CitesFirst(kind, events) ==
  [id |-> [kind |-> kind, source |-> None, cites |-> <<events[1].id>>], payload |-> events]

Cites(kind, events) ==
  [id |-> [kind |-> kind, source |-> None, cites |-> [i \in DOMAIN events |-> events[i].id]],
   payload |-> events]

DegradedIncident(source, trigger) ==
  [id |-> [kind |-> "degraded", source |-> source, cites |-> <<trigger.id>>],
   payload |-> <<trigger>>]

P1Incidents(cands, trigger) ==
  IF trigger.p1 = "malware"
  THEN {Cites("malware", <<trigger>>)}
  ELSE {Cites("exfil", pair) : pair \in P1Pairs(cands, trigger)}

(* Every incident the commit of trigger opens, given the rows of its source. *)
IncidentsOf(source, stored, trigger) ==
  LET cands == Candidates(stored, trigger)
  IN  (IF Truncated(stored, trigger) THEN {DegradedIncident(source, trigger)} ELSE {})
      \union {Cites(m[1], m[2]) : m \in SequenceMatches(cands, trigger)}
      \union P1Incidents(cands, trigger)

====
