---- MODULE CorrelatedLedger_proofs ----
(***************************************************************************)
(* Proofs about the correlation of ingested events: what the nearest       *)
(* events, the windows and the candidate limit are worth (lemmas about     *)
(* Correlation), that no order of arrival hides a qualifying pair, and     *)
(* that arrival in time order gives what the batch engine finds.           *)
(***************************************************************************)
EXTENDS CorrelatedLedger, FiniteSetTheorems, WellFoundedInduction, TLAPS

Numbered(e) == e.id \in Nat /\ e.time \in Nat

(* What the candidate query reads: finitely many events, one per identifier. *)
Distinguished(S) ==
  /\ IsFiniteSet(S)
  /\ \A e \in S : Numbered(e)
  /\ \A e, o \in S : e.id = o.id => e = o

(* A set of naturals that is not empty has a least element.                 *)
LEMMA HasLeast ==
  ASSUME NEW S, S \subseteq Nat, S # {}
  PROVE  \E x \in S : \A y \in S : x <= y
<1>1. PICK x \in S : \A y \in S : <<y, x>> \notin OpToRel(<, Nat)
  BY NatLessThanWellFounded, WFMin, Zenon
<1>2. ASSUME NEW y \in S PROVE ~ (y < x)
  <2>1. y \in Nat /\ x \in Nat
    OBVIOUS
  <2> QED
    BY <1>1, <2>1, Zenon DEF OpToRel
<1> QED
  BY <1>2, SMT

(* A finite set that is not empty has an element with nothing after it, in   *)
(* any strict order.                                                        *)
LEMMA HasLast ==
  ASSUME NEW S, IsFiniteSet(S), S # {}, NEW R,
         \A x \in S : <<x, x>> \notin R,
         \A x, y, z \in S : <<x, y>> \in R /\ <<y, z>> \in R => <<x, z>> \in R
  PROVE  \E x \in S : \A y \in S : <<x, y>> \notin R
<1> DEFINE after(x) == {y \in S : <<x, y>> \in R}
<1>1. \A x \in S : IsFiniteSet(after(x)) /\ Cardinality(after(x)) \in Nat
  <2>1. \A x \in S : after(x) \in SUBSET S
    OBVIOUS
  <2>2. \A T \in SUBSET S : IsFiniteSet(T)
    BY FS_Subset
  <2>3. \A T : IsFiniteSet(T) => Cardinality(T) \in Nat
    BY FS_CardinalityType
  <2> HIDE DEF after
  <2> QED
    BY <2>1, <2>2, <2>3, Zenon
<1>2. \A x, y \in S : <<x, y>> \in R => y \in after(x) /\ after(y) \subseteq after(x) \ {y}
  OBVIOUS
<1> HIDE DEF after
<1> DEFINE sizes == {Cardinality(after(x)) : x \in S}
<1>3. PICK n \in sizes : \A m \in sizes : n <= m
  <2>1. sizes \subseteq Nat /\ sizes # {}
    BY <1>1
  <2> HIDE DEF sizes
  <2> QED
    BY <2>1, HasLeast
<1>4. PICK x \in S : n = Cardinality(after(x))
  BY <1>3
<1>5. ASSUME NEW y \in S, <<x, y>> \in R PROVE FALSE
  <2>1. after(y) \subseteq after(x) \ {y} /\ y \in after(x)
    BY <1>2, <1>5
  <2>2. n <= Cardinality(after(y))
    BY <1>3
  <2>3. IsFiniteSet(after(x) \ {y}) /\ Cardinality(after(x) \ {y}) = Cardinality(after(x)) - 1
    BY <1>1, <2>1, FS_RemoveElement
  <2>4. Cardinality(after(y)) <= Cardinality(after(x) \ {y})
    BY <2>1, <2>3, FS_Subset
  <2>5. Cardinality(after(x)) \in Nat /\ Cardinality(after(y)) \in Nat
    BY <1>1
  <2> HIDE DEF sizes
  <2> QED
    BY <1>4, <2>2, <2>3, <2>4, <2>5
<1> QED
  BY <1>5

(* A finite set of naturals that is not empty has a greatest element.       *)
LEMMA HasGreatest ==
  ASSUME NEW S, IsFiniteSet(S), S # {}, S \subseteq Nat
  PROVE  \E x \in S : \A y \in S : x >= y
<1> DEFINE R == {p \in S \X S : p[1] < p[2]}
<1>1. PICK x \in S : \A y \in S : <<x, y>> \notin R
  <2>1. \A y, z \in S : <<y, z>> \in R <=> y < z
    OBVIOUS
  <2>2. /\ \A y \in S : <<y, y>> \notin R
        /\ \A y, z, u \in S : <<y, z>> \in R /\ <<z, u>> \in R => <<y, u>> \in R
    BY <2>1
  <2> HIDE DEF R
  <2> QED
    BY <2>2, HasLast
<1>2. \A y \in S : ~ (x < y) /\ x \in Nat /\ y \in Nat
  BY <1>1
<1> HIDE DEF R
<1>3. \A y \in S : x >= y
  BY <1>2
<1> QED
  BY <1>3

----
(* Events compare strictly, and two of different identifiers do compare.    *)
LEMMA BeforeIsStrict ==
  /\ \A a : Numbered(a) => ~ Before(a, a)
  /\ \A a, b, c : Numbered(a) /\ Numbered(b) /\ Numbered(c) /\ Before(a, b) /\ Before(b, c)
       => Before(a, c)
  /\ \A a, b : Numbered(a) /\ Numbered(b) /\ a.id # b.id => Before(a, b) \/ Before(b, a)
BY DEF Numbered, Before

LEMMA BeforeIsAsymmetric ==
  ASSUME NEW a, NEW b, Numbered(a), Numbered(b), Before(a, b)
  PROVE  ~ Before(b, a)
BY DEF Numbered, Before

(* The latest of some events is one of them, after every other.             *)
LEMMA LatestIsLast ==
  ASSUME NEW S, S # {}, Distinguished(S)
  PROVE  Latest(S) \in S /\ \A o \in S \ {Latest(S)} : Before(o, Latest(S))
<1> DEFINE R == {p \in S \X S : Before(p[1], p[2])}
<1>1. PICK x \in S : \A y \in S : <<x, y>> \notin R
  <2>1. \A y, z \in S : <<y, z>> \in R <=> Before(y, z)
    OBVIOUS
  <2>2. /\ IsFiniteSet(S)
        /\ \A y \in S : <<y, y>> \notin R
        /\ \A y, z, u \in S : <<y, z>> \in R /\ <<z, u>> \in R => <<y, u>> \in R
    BY <2>1, BeforeIsStrict DEF Distinguished
  <2> HIDE DEF R
  <2> QED
    BY <2>2, HasLast
<1>2. \A y \in S \ {x} : Before(y, x)
  BY <1>1, BeforeIsStrict DEF Distinguished
<1>3. \E y \in S : \A o \in S \ {y} : Before(o, y)
  BY <1>2
<1> HIDE DEF R
<1>4. LET l == CHOOSE y \in S : \A o \in S \ {y} : Before(o, y)
      IN  l \in S /\ \A o \in S \ {l} : Before(o, l)
  BY <1>3, Zenon
<1> QED
  BY <1>4, Zenon DEF Latest

(* The earliest of some events is one of them, before every other, and the   *)
(* only such one.                                                           *)
LEMMA EarliestIsFirst ==
  ASSUME NEW S, S # {}, Distinguished(S)
  PROVE  Earliest(S) \in S /\ \A o \in S \ {Earliest(S)} : Before(Earliest(S), o)
<1> DEFINE R == {p \in S \X S : Before(p[2], p[1])}
<1>1. PICK x \in S : \A y \in S : <<x, y>> \notin R
  <2>1. \A y, z \in S : <<y, z>> \in R <=> Before(z, y)
    OBVIOUS
  <2>2. /\ IsFiniteSet(S)
        /\ \A y \in S : <<y, y>> \notin R
        /\ \A y, z, u \in S : <<y, z>> \in R /\ <<z, u>> \in R => <<y, u>> \in R
    BY <2>1, BeforeIsStrict DEF Distinguished
  <2> HIDE DEF R
  <2> QED
    BY <2>2, HasLast
<1>2. \A y \in S \ {x} : Before(x, y)
  BY <1>1, BeforeIsStrict DEF Distinguished
<1>3. \E y \in S : \A o \in S \ {y} : Before(y, o)
  BY <1>2
<1> HIDE DEF R
<1>4. LET f == CHOOSE y \in S : \A o \in S \ {y} : Before(y, o)
      IN  f \in S /\ \A o \in S \ {f} : Before(f, o)
  BY <1>3, Zenon
<1> QED
  BY <1>4, Zenon DEF Earliest

LEMMA EarliestIsUnique ==
  ASSUME NEW S, Distinguished(S), NEW x \in S, \A o \in S \ {x} : Before(x, o)
  PROVE  Earliest(S) = x
<1>1. Earliest(S) \in S /\ \A o \in S \ {Earliest(S)} : Before(Earliest(S), o)
  BY EarliestIsFirst
<1>2. Numbered(x) /\ Numbered(Earliest(S))
  BY <1>1 DEF Distinguished
<1> HIDE DEF Distinguished
<1> QED
  BY <1>1, <1>2, BeforeIsAsymmetric

(* Part of some distinguished events is distinguished.                      *)
LEMMA DistinguishedSubset ==
  ASSUME NEW S, Distinguished(S), NEW T, T \subseteq S
  PROVE  Distinguished(T)
<1>1. IsFiniteSet(T)
  BY FS_Subset DEF Distinguished
<1> QED
  BY <1>1 DEF Distinguished

(* The widest window is no narrower than any of them.                       *)
LEMMA WidestWindow ==
  /\ MaxRuleWindow \in Nat
  /\ P1Window <= MaxRuleWindow
  /\ \A r \in Rules : RuleWindow[r] <= MaxRuleWindow
<1> DEFINE ofRules == {RuleWindow[r] : r \in Rules}
           windows == ofRules \union {P1Window}
<1>1. windows \subseteq Nat /\ windows # {}
  BY CorrelationAssumption
<1>2. IsFiniteSet(windows)
  <2>1. RuleWindow \in Surjection(Rules, ofRules)
    BY CorrelationAssumption DEF Surjection
  <2>2. IsFiniteSet(ofRules)
    BY <2>1, FS_Surjection, CorrelationAssumption
  <2> QED
    BY <2>2, FS_AddElement
<1>3. \E x \in windows : \A v \in windows : x >= v
  <2> HIDE DEF windows
  <2> QED
    BY <1>1, <1>2, HasGreatest
<1>4. MaxRuleWindow \in windows /\ \A v \in windows : MaxRuleWindow >= v
  <2>1. MaxRuleWindow = Max(windows)
    BY Zenon DEF MaxRuleWindow
  <2> HIDE DEF windows
  <2> QED
    BY <1>3, <2>1, Zenon DEF Max
<1> QED
  BY <1>1, <1>4

----
(* An event about to be recorded: its identifier is free.                   *)
Arriving(stored, trigger) ==
  /\ Distinguished(stored)
  /\ Numbered(trigger)
  /\ \A e \in stored : e.id # trigger.id

LEMMA ArrivalIsDistinguished ==
  ASSUME NEW stored, NEW trigger, Arriving(stored, trigger),
         NEW S, S \subseteq stored \union {trigger}
  PROVE  Distinguished(S)
<1>1. IsFiniteSet(stored \union {trigger})
  BY FS_AddElement DEF Arriving, Distinguished
<1>2. Distinguished(stored \union {trigger})
  BY <1>1 DEF Arriving, Distinguished
<1> QED
  BY <1>2, DistinguishedSubset

LEMMA CandidatesAreStored ==
  ASSUME NEW stored, NEW trigger
  PROVE  trigger \in Candidates(stored, trigger)
         /\ Candidates(stored, trigger) \subseteq stored \union {trigger}
BY DEF Candidates, Newest, Eligible

(* The bound on the candidates drops none of them unless the correlation is  *)
(* marked as cut short.                                                     *)
LEMMA NothingIsDropped ==
  ASSUME NEW stored, NEW trigger, Arriving(stored, trigger), ~ Truncated(stored, trigger)
  PROVE  Candidates(stored, trigger) = {trigger} \union Eligible(stored, trigger)
<1> DEFINE S == Eligible(stored, trigger)
           after(e) == {o \in S : Before(e, o)}
<1>1. S \in SUBSET stored /\ IsFiniteSet(S) /\ Cardinality(S) \in Nat
  <2>1. S \in SUBSET stored
    BY DEF Eligible
  <2> HIDE DEF S
  <2> QED
    BY <2>1, FS_Subset, FS_CardinalityType DEF Arriving, Distinguished
<1>2. Cardinality(S) < CandidateLimit
  BY <1>1, CorrelationAssumption DEF Truncated
<1> HIDE DEF S
<1>3. ASSUME NEW e \in S PROVE Cardinality(after(e)) < CandidateLimit - 1
  <2>1. Numbered(e)
    BY <1>1 DEF Arriving, Distinguished
  <2>2. after(e) \in SUBSET (S \ {e})
    BY <2>1, BeforeIsStrict
  <2>3. IsFiniteSet(S \ {e}) /\ Cardinality(S \ {e}) = Cardinality(S) - 1
    BY <1>1, FS_RemoveElement
  <2> HIDE DEF after
  <2>4. Cardinality(after(e)) <= Cardinality(S) - 1 /\ Cardinality(after(e)) \in Nat
    BY <2>2, <2>3, FS_Subset, FS_CardinalityType
  <2> QED
    BY <1>1, <1>2, <2>4, CorrelationAssumption
<1>4. Newest(S, CandidateLimit - 1) = S
  BY <1>3, Zenon DEF Newest
<1> QED
  BY <1>4 DEF Candidates, S

(* What is near enough for a rule and shares its join key is a candidate.   *)
LEMMA NearEventsAreCandidates ==
  ASSUME NEW stored, NEW trigger, Arriving(stored, trigger), ~ Truncated(stored, trigger),
         NEW e \in stored, NEW window \in Nat, window <= MaxRuleWindow,
         Within(e, trigger, window),
         \/ trigger.trace # None /\ e.trace = trigger.trace
         \/ trigger.trace = None /\ trigger.session # None /\ e.session = trigger.session
  PROVE  e \in Candidates(stored, trigger)
<1>1. Numbered(e) /\ Numbered(trigger) /\ e.id # trigger.id
  BY DEF Arriving, Distinguished
<1>2. Within(e, trigger, MaxRuleWindow)
  BY <1>1, WidestWindow DEF Within, Numbered
<1>3. e \in Eligible(stored, trigger)
  BY <1>1, <1>2 DEF Eligible
<1> QED
  BY <1>3, NothingIsDropped

----
(* A match of a rule pairs the trigger with an event it may be paired with,  *)
(* and the pair that is reported is one of the matches.                     *)
LEMMA MatchShape ==
  ASSUME NEW cands, Distinguished(cands), NEW trigger, NEW r,
         NEW p \in MatchesOf(r, cands, trigger)
  PROVE  \/ \E c \in Successors(r, cands, trigger) : p = <<trigger, c>>
         \/ \E c \in Predecessors(r, cands, trigger) : p = <<c, trigger>>
<1> DEFINE later == Successors(r, cands, trigger)
           earlier == Predecessors(r, cands, trigger)
           smallest == CHOOSE e \in earlier : \A o \in earlier : e.id <= o.id
<1>1. CASE later # {} /\ p = <<trigger, Earliest(later)>>
  <2>1. later \subseteq cands
    BY DEF Successors
  <2> HIDE DEF later
  <2>2. Earliest(later) \in later
    BY <1>1, <2>1, DistinguishedSubset, EarliestIsFirst
  <2> QED
    BY <1>1, <2>2 DEF later
<1>2. CASE earlier # {} /\ p = <<smallest, trigger>>
  <2>1. \A e \in earlier : e.id \in Nat
    BY DEF Predecessors, Preceding, Distinguished, Numbered
  <2> DEFINE ids == {e.id : e \in earlier}
  <2>2. PICK i \in ids : \A j \in ids : i <= j
    <3>1. ids \subseteq Nat /\ ids # {}
      BY <1>2, <2>1
    <3> HIDE DEF ids
    <3> QED
      BY <3>1, HasLeast
  <2>3. \E e \in earlier : \A o \in earlier : e.id <= o.id
    BY <2>2
  <2> HIDE DEF earlier, ids
  <2>4. smallest \in earlier
    BY <2>3, Zenon
  <2> QED
    BY <1>2, <2>4 DEF earlier
<1> QED
  BY <1>1, <1>2 DEF MatchesOf

LEMMA PartnersAreCandidates ==
  ASSUME NEW cands, NEW trigger, NEW r
  PROVE  Successors(r, cands, trigger) \subseteq cands /\ Predecessors(r, cands, trigger) \subseteq cands
BY DEF Successors, Predecessors, Preceding

LEMMA SmallestMatchExists ==
  ASSUME NEW cands, Distinguished(cands), NEW trigger \in cands, NEW r,
         MatchesOf(r, cands, trigger) # {}
  PROVE  (CHOOSE p \in MatchesOf(r, cands, trigger) :
            \A q \in MatchesOf(r, cands, trigger) : PairLeq(p, q)) \in MatchesOf(r, cands, trigger)
<1> DEFINE matches == MatchesOf(r, cands, trigger)
<1>1. ASSUME NEW p \in matches PROVE Numbered(p[1]) /\ Numbered(p[2])
  <2>1. PICK c \in cands : p = <<trigger, c>> \/ p = <<c, trigger>>
    BY MatchShape, PartnersAreCandidates
  <2> QED
    BY <2>1 DEF Distinguished
<1>2. PICK A, B : matches = A \union B /\ (A = {} \/ \E a : A = {a}) /\ (B = {} \/ \E b : B = {b})
  BY ZenonT(30) DEF MatchesOf
<1>3. matches # {}
  OBVIOUS
<1> HIDE DEF matches
<1>4. \A p, q \in matches : PairLeq(p, p) /\ (PairLeq(p, q) \/ PairLeq(q, p))
  BY <1>1 DEF Numbered, PairLeq
<1>5. PICK a \in matches, b \in matches : matches = {a, b}
  BY <1>2, <1>3
<1>6. \E p \in matches : \A q \in matches : PairLeq(p, q)
  BY <1>4, <1>5
<1>7. (CHOOSE p \in matches : \A q \in matches : PairLeq(p, q)) \in matches
  BY <1>6, Zenon
<1> QED
  BY <1>7, Zenon DEF matches

LEMMA MatchIsReported ==
  ASSUME NEW cands, Distinguished(cands), NEW trigger \in cands, NEW r \in Rules,
         MatchesOf(r, cands, trigger) # {}
  PROVE  \E p \in MatchesOf(r, cands, trigger) : <<r, p>> \in SequenceMatches(cands, trigger)
<1> DEFINE chosen == CHOOSE p \in MatchesOf(r, cands, trigger) :
                       \A q \in MatchesOf(r, cands, trigger) : PairLeq(p, q)
<1>1. chosen \in MatchesOf(r, cands, trigger)
  BY SmallestMatchExists, Zenon
<1>2. <<r, chosen>> \in SequenceMatches(cands, trigger)
  BY Zenon DEF SequenceMatches
<1> QED
  BY <1>1, <1>2, Zenon

LEMMA ReportedIsMatch ==
  ASSUME NEW cands, Distinguished(cands), NEW trigger \in cands,
         NEW m \in SequenceMatches(cands, trigger)
  PROVE  \E r \in Rules : \E p \in MatchesOf(r, cands, trigger) : m = <<r, p>>
<1>1. PICK r \in Rules : /\ MatchesOf(r, cands, trigger) # {}
                        /\ m = <<r, CHOOSE p \in MatchesOf(r, cands, trigger) :
                                   \A q \in MatchesOf(r, cands, trigger) : PairLeq(p, q)>>
  BY Zenon DEF SequenceMatches
<1>2. (CHOOSE p \in MatchesOf(r, cands, trigger) :
         \A q \in MatchesOf(r, cands, trigger) : PairLeq(p, q)) \in MatchesOf(r, cands, trigger)
  BY <1>1, SmallestMatchExists, Zenon
<1> QED
  BY <1>1, <1>2, Zenon

----
(* What an incident of an event cites: its identifier names the events of    *)
(* its payload, which are recorded or the event itself, which is there.     *)
CitesArrival(incident, stored, trigger) ==
  /\ incident.id.cites = [k \in DOMAIN incident.payload |-> incident.payload[k].id]
  /\ \A k \in DOMAIN incident.payload : incident.payload[k] \in stored \union {trigger}
  /\ \E k \in DOMAIN incident.payload : incident.payload[k] = trigger
  /\ 1 \in DOMAIN incident.payload

LEMMA CitedPair ==
  ASSUME NEW kind, NEW a, NEW b, NEW stored, NEW trigger,
         a \in stored \union {trigger}, b \in stored \union {trigger}, a = trigger \/ b = trigger
  PROVE  CitesArrival(Cites(kind, <<a, b>>), stored, trigger)
BY DEF CitesArrival, Cites

LEMMA CitedAlone ==
  ASSUME NEW kind, NEW source, NEW stored, NEW trigger
  PROVE  /\ CitesArrival(Cites(kind, <<trigger>>), stored, trigger)
         /\ CitesArrival(DegradedIncident(source, trigger), stored, trigger)
BY DEF CitesArrival, Cites, DegradedIncident

LEMMA IncidentsCiteTheArrival ==
  ASSUME NEW source, NEW stored, NEW trigger, Arriving(stored, trigger),
         NEW incident \in IncidentsOf(source, stored, trigger)
  PROVE  CitesArrival(incident, stored, trigger)
<1> DEFINE cands == Candidates(stored, trigger)
<1>1. trigger \in cands /\ cands \subseteq stored \union {trigger} /\ Distinguished(cands)
  BY CandidatesAreStored, ArrivalIsDistinguished
<1> HIDE DEF cands
<1>2. CASE Truncated(stored, trigger) /\ incident = DegradedIncident(source, trigger)
  BY <1>2, CitedAlone
<1>3. ASSUME NEW m \in SequenceMatches(cands, trigger), incident = Cites(m[1], m[2])
      PROVE  CitesArrival(incident, stored, trigger)
  <2>1. PICK r \in Rules : \E p \in MatchesOf(r, cands, trigger) : m = <<r, p>>
    BY <1>1, ReportedIsMatch
  <2>2. PICK p \in MatchesOf(r, cands, trigger) : m = <<r, p>>
    BY <2>1
  <2>3. PICK c \in cands : p = <<trigger, c>> \/ p = <<c, trigger>>
    BY <1>1, MatchShape, PartnersAreCandidates
  <2> QED
    BY <1>1, <1>3, <2>2, <2>3, CitedPair
<1>4. CASE incident \in P1Incidents(cands, trigger)
  <2>1. CASE incident = Cites("malware", <<trigger>>)
    BY <2>1, CitedAlone
  <2>2. ASSUME NEW p \in P1Pairs(cands, trigger), incident = Cites("exfil", p)
        PROVE  CitesArrival(incident, stored, trigger)
    <3> DEFINE egresses == {c \in cands : Exfiltrates(trigger, c)}
               reads == {c \in cands : Exfiltrates(c, trigger)}
    <3>1. egresses \subseteq cands /\ reads \subseteq cands
      OBVIOUS
    <3>2. \/ egresses # {} /\ p = <<trigger, Earliest(egresses)>>
          \/ reads # {} /\ p = <<Latest(reads), trigger>>
      BY DEF P1Pairs
    <3> HIDE DEF egresses, reads
    <3>3. PICK c \in cands : p = <<trigger, c>> \/ p = <<c, trigger>>
      BY <1>1, <3>1, <3>2, DistinguishedSubset, EarliestIsFirst, LatestIsLast
    <3> QED
      BY <1>1, <2>2, <3>3, CitedPair
  <2> QED
    BY <1>4, <2>1, <2>2 DEF P1Incidents
<1> QED
  BY <1>2, <1>3, <1>4 DEF IncidentsOf, cands

----
(* The reports of an arrival: among some incidents there is one of the kind, *)
(* or the notice of a correlation cut short, that cites the event.          *)
Mentions(some, kind, e) ==
  \E incident \in some :
    /\ incident.id.kind \in {kind, "degraded"}
    /\ e \in {incident.payload[i] : i \in DOMAIN incident.payload}

LEMMA DegradedIsMentioned ==
  ASSUME NEW source, NEW stored, NEW trigger, Truncated(stored, trigger), NEW kind
  PROVE  Mentions(IncidentsOf(source, stored, trigger), kind, trigger)
<1>1. DegradedIncident(source, trigger) \in IncidentsOf(source, stored, trigger)
  BY DEF IncidentsOf
<1> QED
  BY <1>1 DEF Mentions, DegradedIncident

LEMMA PairIsMentioned ==
  ASSUME NEW some, NEW kind, NEW a, NEW b, Cites(kind, <<a, b>>) \in some
  PROVE  Mentions(some, kind, a) /\ Mentions(some, kind, b)
BY DEF Mentions, Cites

(* An event that completes an exfiltration with a recorded one, in either    *)
(* role, is mentioned by an incident of its own commit.                     *)
LEMMA ExfiltrationIsSeen ==
  ASSUME NEW source, NEW stored, NEW trigger, Arriving(stored, trigger), NEW e \in stored,
         Exfiltrates(e, trigger) \/ Exfiltrates(trigger, e)
  PROVE  Mentions(IncidentsOf(source, stored, trigger), "exfil", trigger)
<1> DEFINE cands == Candidates(stored, trigger)
<1>1. CASE Truncated(stored, trigger)
  BY <1>1, DegradedIsMentioned
<1>2. CASE ~ Truncated(stored, trigger)
  <2>1. Numbered(e) /\ Numbered(trigger)
    BY DEF Arriving, Distinguished
  <2>2. Within(e, trigger, P1Window)
    BY <2>1, CorrelationAssumption DEF Exfiltrates, Within, Numbered
  <2>3. \/ trigger.trace # None /\ e.trace = trigger.trace
        \/ trigger.trace = None /\ trigger.session # None /\ e.session = trigger.session
    BY DEF Exfiltrates, P1Joined
  <2>4. e \in cands
    BY <1>2, <2>2, <2>3, WidestWindow, CorrelationAssumption, NearEventsAreCandidates
  <2> HIDE DEF cands
  <2>5. \E p \in P1Pairs(cands, trigger) : \E c : p = <<trigger, c>> \/ p = <<c, trigger>>
    <3>1. CASE Exfiltrates(e, trigger)
      BY <2>4, <3>1 DEF P1Pairs
    <3>2. CASE Exfiltrates(trigger, e)
      BY <2>4, <3>2 DEF P1Pairs
    <3> QED
      BY <3>1, <3>2
  <2>6. trigger.p1 # "malware"
    BY DEF Exfiltrates
  <2>7. PICK p \in P1Pairs(cands, trigger) : \E c : p = <<trigger, c>> \/ p = <<c, trigger>>
    BY <2>5
  <2>8. Cites("exfil", p) \in IncidentsOf(source, stored, trigger)
    BY <2>6, <2>7 DEF IncidentsOf, P1Incidents, cands
  <2> QED
    BY <2>7, <2>8, PairIsMentioned
<1> QED
  BY <1>1, <1>2

(* A match of a rule makes an incident that mentions the trigger.           *)
LEMMA MatchIsMentioned ==
  ASSUME NEW source, NEW stored, NEW trigger, Arriving(stored, trigger), NEW r \in Rules,
         MatchesOf(r, Candidates(stored, trigger), trigger) # {}
  PROVE  /\ Mentions(IncidentsOf(source, stored, trigger), r, trigger)
         /\ \E p \in MatchesOf(r, Candidates(stored, trigger), trigger) :
              Cites(r, p) \in IncidentsOf(source, stored, trigger)
<1> DEFINE cands == Candidates(stored, trigger)
<1>1. trigger \in cands /\ Distinguished(cands)
  BY CandidatesAreStored, ArrivalIsDistinguished
<1>2. PICK p \in MatchesOf(r, cands, trigger) : <<r, p>> \in SequenceMatches(cands, trigger)
  BY <1>1, MatchIsReported
<1>3. PICK c : p = <<trigger, c>> \/ p = <<c, trigger>>
  BY <1>1, MatchShape
<1> HIDE DEF cands
<1>4. Cites(r, p) \in IncidentsOf(source, stored, trigger)
  <2>1. <<r, p>>[1] = r /\ <<r, p>>[2] = p
    OBVIOUS
  <2> QED
    BY <1>2, <2>1 DEF IncidentsOf, cands
<1> QED
  BY <1>2, <1>3, <1>4, PairIsMentioned DEF cands

(* An opening event that arrives after one that closes it is mentioned.     *)
LEMMA LateOpeningIsSeen ==
  ASSUME NEW source, NEW stored, NEW trigger, Arriving(stored, trigger), NEW r \in Rules,
         NEW e \in stored, Completes(r, trigger, e)
  PROVE  Mentions(IncidentsOf(source, stored, trigger), r, trigger)
<1> DEFINE cands == Candidates(stored, trigger)
<1>1. CASE Truncated(stored, trigger)
  BY <1>1, DegradedIsMentioned
<1>2. CASE ~ Truncated(stored, trigger)
  <2>1. Numbered(e) /\ Numbered(trigger)
    BY DEF Arriving, Distinguished
  <2>2. RuleWindow[r] \in Nat /\ RuleWindow[r] <= MaxRuleWindow
    BY CorrelationAssumption, WidestWindow
  <2>3. Within(e, trigger, RuleWindow[r])
    BY <2>1, <2>2 DEF Completes, Within, Numbered
  <2>4. e \in cands
    BY <1>2, <2>2, <2>3, NearEventsAreCandidates DEF Completes, SameJoin
  <2> HIDE DEF cands
  <2>5. MatchesOf(r, cands, trigger) # {}
    <3>1. Successors(r, cands, trigger) # {}
      BY <2>4 DEF Successors
    <3> QED
      BY <3>1 DEF MatchesOf
  <2> QED
    BY <2>5, MatchIsMentioned DEF cands
<1> QED
  BY <1>1, <1>2

(* An opening event whose closing event arrives later is among those the     *)
(* search considers if no other closing event lies between them.            *)
LEMMA NoClosingBetween ==
  ASSUME NEW stored, NEW trigger, Arriving(stored, trigger), ~ Truncated(stored, trigger),
         NEW r \in Rules, NEW e \in stored, Completes(r, e, trigger),
         \A o \in stored : ~ (/\ r \in o.closes /\ SameJoin(o, e)
                             /\ Before(e, o) /\ Before(o, trigger))
  PROVE  e \in Predecessors(r, Candidates(stored, trigger), trigger)
<1> DEFINE cands == Candidates(stored, trigger)
           before == {c \in cands : Before(c, trigger)}
           closing == {c \in before : r \in c.closes /\ SameJoin(c, trigger)}
<1>1. Numbered(e) /\ Numbered(trigger)
  BY DEF Arriving, Distinguished
<1>2. RuleWindow[r] \in Nat /\ RuleWindow[r] <= MaxRuleWindow
  BY CorrelationAssumption, WidestWindow
<1>3. e \in cands
  BY <1>2, NearEventsAreCandidates DEF Completes, SameJoin
<1>4. cands \subseteq stored \union {trigger} /\ closing \subseteq stored \union {trigger}
  BY CandidatesAreStored
<1> HIDE DEF cands
<1>5. e \in before
  BY <1>3 DEF Completes
<1>6. ASSUME closing # {} PROVE ~ Before(e, Latest(closing))
  <2>1. Latest(closing) \in closing
    <3>1. Distinguished(closing)
      BY <1>4, ArrivalIsDistinguished
    <3> HIDE DEF closing
    <3> QED
      BY <1>6, <3>1, LatestIsLast
  <2> DEFINE last == Latest(closing)
  <2>2. r \in last.closes /\ SameJoin(last, trigger) /\ Before(last, trigger) /\ last \in stored
    <3>1. ~ Before(trigger, trigger)
      BY <1>1, BeforeIsStrict
    <3> QED
      BY <1>4, <2>1, <3>1
  <2>3. SameJoin(last, e)
    BY <2>2 DEF Completes, SameJoin
  <2> QED
    BY <2>2, <2>3
<1>7. e \in Preceding(r, cands, trigger)
  BY <1>5, <1>6 DEF Preceding
<1> QED
  BY <1>7 DEF Predecessors, cands

LEMMA LateClosingIsSeen ==
  ASSUME NEW source, NEW stored, NEW trigger, Arriving(stored, trigger), NEW r \in Rules,
         NEW e \in stored, Completes(r, e, trigger),
         \A o \in stored : ~ (/\ r \in o.closes /\ SameJoin(o, e)
                             /\ Before(e, o) /\ Before(o, trigger))
  PROVE  Mentions(IncidentsOf(source, stored, trigger), r, trigger)
<1>1. CASE Truncated(stored, trigger)
  BY <1>1, DegradedIsMentioned
<1>2. CASE ~ Truncated(stored, trigger)
  <2>1. Predecessors(r, Candidates(stored, trigger), trigger) # {}
    BY <1>2, NoClosingBetween
  <2>2. MatchesOf(r, Candidates(stored, trigger), trigger) # {}
    BY <2>1 DEF MatchesOf
  <2> QED
    BY <2>2, MatchIsMentioned
<1> QED
  BY <1>1, <1>2

----
(* The ledger.  Authenticated rows and receipts correspond one to one.      *)
LedgerTyped ==
  /\ IsFiniteSet(events)
  /\ events \subseteq Imported \union Frames
  /\ receipts \in Seq([id : Nat, source : {f.source : f \in Frames}])

RowsMatchReceipts ==
  /\ \A r1, r2 \in events :
       (r1.source # None /\ r2.source # None /\ r1.event.id = r2.event.id) => r1 = r2
  /\ \A i \in DOMAIN receipts :
       \E row \in events : row.event.id = receipts[i].id /\ row.source = receipts[i].source
  /\ \A row \in events :
       row.source # None => \E i \in DOMAIN receipts : receipts[i].id = row.event.id
  /\ \A i, j \in DOMAIN receipts : receipts[i].id = receipts[j].id => i = j

LedgerInvariant == LedgerTyped /\ RowsMatchReceipts

LEMMA LedgerInvariantInit == LedgerInit => LedgerInvariant
BY LedgerAssumption DEF LedgerInit, LedgerInvariant, LedgerTyped, RowsMatchReceipts

(* What a recording does to the receipts.                                   *)
LEMMA RecordAppends ==
  ASSUME LedgerInvariant, NEW f \in Frames, Record(f)
  PROVE  /\ Len(receipts) \in Nat
         /\ DOMAIN receipts = 1 .. Len(receipts)
         /\ DOMAIN receipts' = 1 .. Len(receipts) + 1
         /\ \A i \in DOMAIN receipts : receipts'[i] = receipts[i]
         /\ receipts'[Len(receipts) + 1] = [id |-> f.event.id, source |-> f.source]
         /\ \A i \in DOMAIN receipts : receipts[i].id # f.event.id
         /\ events' = events \union {f}
         /\ \A row \in events : row.event.id # f.event.id
         /\ f.source # None /\ Numbered(f.event)
         /\ incidents \subseteq incidents'
<1>1. /\ \A row \in events : row.event.id # f.event.id
      /\ events' = events \union {f}
      /\ receipts' = Append(receipts, [id |-> f.event.id, source |-> f.source])
      /\ incidents' = incidents \union IncidentsOf(f.source, Recorded(f.source), f.event)
  BY DEF Record
<1>2. f.source # None /\ Numbered(f.event)
  BY LedgerAssumption DEF Numbered
<1>3. receipts \in Seq([id : Nat, source : {g.source : g \in Frames}])
  BY DEF LedgerInvariant, LedgerTyped
<1>4. \A i \in DOMAIN receipts : receipts[i].id # f.event.id
  BY <1>1 DEF LedgerInvariant, RowsMatchReceipts
<1> QED
  BY <1>1, <1>2, <1>3, <1>4

LEMMA LedgerInvariantStep == LedgerInvariant /\ [LedgerNext]_ledgerVars => LedgerInvariant'
<1> SUFFICES ASSUME LedgerInvariant, [LedgerNext]_ledgerVars PROVE LedgerInvariant'
  OBVIOUS
<1>1. ASSUME NEW f \in Frames, Record(f) PROVE LedgerInvariant'
  <2>1. LedgerTyped'
    <3>1. IsFiniteSet(events \union {f})
      BY FS_AddElement DEF LedgerInvariant, LedgerTyped
    <3>2. [id |-> f.event.id, source |-> f.source] \in [id : Nat, source : {g.source : g \in Frames}]
      BY LedgerAssumption
    <3> QED
      BY <1>1, <3>1, <3>2 DEF Record, LedgerInvariant, LedgerTyped
  <2>2. RowsMatchReceipts'
    <3> DEFINE n == Len(receipts)
               new == [id |-> f.event.id, source |-> f.source]
    <3>1. /\ DOMAIN receipts = 1 .. n /\ n \in Nat
          /\ DOMAIN receipts' = 1 .. n + 1
          /\ \A i \in 1 .. n : receipts'[i] = receipts[i] /\ receipts[i].id # new.id
          /\ receipts'[n + 1] = new
          /\ events' = events \union {f} /\ \A row \in events : row.event.id # f.event.id
      BY <1>1, RecordAppends
    <3> HIDE DEF n
    <3>2. \A r1, r2 \in events' :
            (r1.source # None /\ r2.source # None /\ r1.event.id = r2.event.id) => r1 = r2
      BY <3>1 DEF LedgerInvariant, RowsMatchReceipts
    <3>3. \A i \in DOMAIN receipts' : \E row \in events' :
            row.event.id = receipts'[i].id /\ row.source = receipts'[i].source
      BY <3>1 DEF LedgerInvariant, RowsMatchReceipts
    <3>4. \A row \in events' :
            row.source # None => \E i \in DOMAIN receipts' : receipts'[i].id = row.event.id
      BY <3>1 DEF LedgerInvariant, RowsMatchReceipts
    <3>5. \A i, j \in DOMAIN receipts' : receipts'[i].id = receipts'[j].id => i = j
      BY <3>1 DEF LedgerInvariant, RowsMatchReceipts
    <3> QED
      BY <3>2, <3>3, <3>4, <3>5 DEF RowsMatchReceipts
  <2> QED
    BY <2>1, <2>2 DEF LedgerInvariant
<1>2. CASE UNCHANGED ledgerVars
  BY <1>2 DEF ledgerVars, LedgerInvariant, LedgerTyped, RowsMatchReceipts
<1> QED
  BY <1>1, <1>2 DEF LedgerNext

LEMMA LedgerInvariantHolds == LedgerSpec => []LedgerInvariant
BY LedgerInvariantInit, LedgerInvariantStep, PTL DEF LedgerSpec

(* The recorded events of a source are what the candidate query may read,    *)
(* and an event about to be recorded is new to them.                        *)
LEMMA RecordedAreDistinguished ==
  ASSUME LedgerInvariant, NEW source, source # None
  PROVE  Distinguished(Recorded(source))
<1> DEFINE rows == {row \in events : row.source = source}
           eventOf == [row \in rows |-> row.event]
<1>1. IsFiniteSet(rows)
  <2>1. rows \in SUBSET events /\ IsFiniteSet(events)
    BY DEF LedgerInvariant, LedgerTyped
  <2> HIDE DEF rows
  <2> QED
    BY <2>1, FS_Subset
<1>2. eventOf \in Surjection(rows, Recorded(source))
  BY DEF Surjection, Recorded
<1>3. IsFiniteSet(Recorded(source))
  BY <1>1, <1>2, FS_Surjection
<1>4. \A row \in rows : Numbered(row.event)
  BY LedgerAssumption DEF LedgerInvariant, LedgerTyped, Numbered
<1>5. \A r1, r2 \in rows : r1.event.id = r2.event.id => r1.event = r2.event
  BY DEF LedgerInvariant, RowsMatchReceipts
<1> QED
  BY <1>3, <1>4, <1>5 DEF Distinguished, Recorded

LEMMA RecordArrives ==
  ASSUME LedgerInvariant, NEW f \in Frames, Record(f)
  PROVE  Arriving(Recorded(f.source), f.event)
<1>1. f.source # None /\ Numbered(f.event) /\ \A row \in events : row.event.id # f.event.id
  BY RecordAppends
<1>2. \A e \in Recorded(f.source) : e.id # f.event.id
  BY <1>1 DEF Recorded
<1> QED
  BY <1>1, <1>2, RecordedAreDistinguished DEF Arriving

----
(* Which of two events was recorded last does not change, and an event being *)
(* recorded is the last.                                                    *)
PlaceOf(e, list) == CHOOSE i \in DOMAIN list : list[i].id = e.id

LEMMA PlaceIsUnique ==
  ASSUME NEW list, \A i, j \in DOMAIN list : list[i].id = list[j].id => i = j,
         NEW e, NEW i \in DOMAIN list, list[i].id = e.id
  PROVE  PlaceOf(e, list) = i
BY DEF PlaceOf

LEMMA LastIsStable ==
  ASSUME LedgerInvariant, NEW f \in Frames, Record(f)
  PROVE  /\ \A r1, r2 \in events : (r1.source # None /\ r2.source # None) =>
              RecordedLast(r1.event, r2.event)' = RecordedLast(r1.event, r2.event)
         /\ \A row \in events : row.source # None =>
              /\ RecordedLast(row.event, f.event)' = f.event
              /\ RecordedLast(f.event, row.event)' = f.event
<1> DEFINE n == Len(receipts)
           old(e) == PlaceOf(e, receipts)
           new(e) == PlaceOf(e, receipts')
<1>1. /\ n \in Nat /\ DOMAIN receipts = 1 .. n /\ DOMAIN receipts' = 1 .. n + 1
      /\ \A i \in 1 .. n : receipts'[i] = receipts[i] /\ receipts[i].id # f.event.id
      /\ receipts'[n + 1].id = f.event.id
  <2>1. /\ n \in Nat /\ DOMAIN receipts = 1 .. n /\ DOMAIN receipts' = 1 .. n + 1
        /\ \A i \in DOMAIN receipts : receipts'[i] = receipts[i]
        /\ \A i \in DOMAIN receipts : receipts[i].id # f.event.id
        /\ receipts'[n + 1] = [id |-> f.event.id, source |-> f.source]
    BY RecordAppends, Zenon
  <2> QED
    BY <2>1
<1>2. \A i, j \in DOMAIN receipts : receipts[i].id = receipts[j].id => i = j
  BY DEF LedgerInvariant, RowsMatchReceipts
<1> HIDE DEF n
<1>3. \A i, j \in DOMAIN receipts' : receipts'[i].id = receipts'[j].id => i = j
  BY <1>1, <1>2
<1>4. ASSUME NEW row \in events, row.source # None
      PROVE  old(row.event) \in 1 .. n /\ new(row.event) = old(row.event)
  <2>1. PICK i \in DOMAIN receipts : receipts[i].id = row.event.id
    BY <1>4 DEF LedgerInvariant, RowsMatchReceipts
  <2>2. old(row.event) = i
    BY <1>2, <2>1, PlaceIsUnique
  <2>3. i \in DOMAIN receipts' /\ receipts'[i].id = row.event.id
    BY <1>1, <2>1
  <2>4. new(row.event) = i
    BY <1>3, <2>3, PlaceIsUnique
  <2> QED
    BY <1>1, <2>1, <2>2, <2>4
<1>5. new(f.event) = n + 1
  <2>1. n + 1 \in DOMAIN receipts'
    BY <1>1
  <2> QED
    BY <1>1, <1>3, <2>1, PlaceIsUnique
<1>6. /\ \A a, b : RecordedLast(a, b) = IF old(a) < old(b) THEN b ELSE a
      /\ \A a, b : RecordedLast(a, b)' = IF new(a) < new(b) THEN b ELSE a
  BY DEF RecordedLast, PlaceOf
<1> HIDE DEF old, new
<1> QED
  BY <1>1, <1>4, <1>5, <1>6

(* What was reported stays reported, and what the commit of an event         *)
(* mentions is reported from then on.                                       *)
LEMMA ReportsAccumulate ==
  ASSUME LedgerInvariant, NEW f \in Frames, Record(f), NEW kind
  PROVE  /\ \A e : Reported(kind, e) => Reported(kind, e)'
         /\ Mentions(IncidentsOf(f.source, Recorded(f.source), f.event), kind, f.event)
              => Reported(kind, f.event)'
BY DEF Record, Reported, Mentions

LEMMA IdleReports ==
  ASSUME UNCHANGED ledgerVars
  PROVE  /\ events' = events
         /\ \A a, b : RecordedLast(a, b)' = RecordedLast(a, b)
         /\ \A kind, e : Reported(kind, e) => Reported(kind, e)'
<1>1. events' = events /\ receipts' = receipts /\ incidents' = incidents
  BY DEF ledgerVars
<1>2. /\ \A a, b : RecordedLast(a, b) = IF PlaceOf(a, receipts) < PlaceOf(b, receipts) THEN b ELSE a
      /\ \A a, b : RecordedLast(a, b)' = IF PlaceOf(a, receipts') < PlaceOf(b, receipts') THEN b ELSE a
  BY DEF RecordedLast, PlaceOf
<1>3. \A a, b : RecordedLast(a, b)' = RecordedLast(a, b)
  BY <1>1, <1>2
<1>4. \A kind, e : Reported(kind, e) => Reported(kind, e)'
  BY <1>1 DEF Reported
<1> QED
  BY <1>1, <1>3, <1>4

(* A row of a source is an event of that source.                            *)
LEMMA RowIsRecorded ==
  ASSUME NEW row \in events PROVE row.event \in Recorded(row.source)
BY DEF Recorded

LEMMA ExfiltrationStep ==
  LedgerInvariant /\ ExfiltrationReported /\ [LedgerNext]_ledgerVars => ExfiltrationReported'
<1> SUFFICES ASSUME LedgerInvariant, ExfiltrationReported, [LedgerNext]_ledgerVars
             PROVE  ExfiltrationReported'
  OBVIOUS
<1>1. ASSUME NEW f \in Frames, Record(f) PROVE ExfiltrationReported'
  <2> SUFFICES ASSUME NEW r1 \in events', NEW r2 \in events',
                      Authenticated(r1, r2), Exfiltrates(r1.event, r2.event)
               PROVE  Reported("exfil", RecordedLast(r1.event, r2.event))'
    BY DEF ExfiltrationReported
  <2>1. r1.source # None /\ r2.source = r1.source
    BY DEF Authenticated
  <2>2. events' = events \union {f} /\ Numbered(f.event)
    BY <1>1, RecordAppends
  <2>3. CASE r1 \in events /\ r2 \in events
    <3>1. Reported("exfil", RecordedLast(r1.event, r2.event))
      BY <2>3 DEF ExfiltrationReported
    <3>2. RecordedLast(r1.event, r2.event)' = RecordedLast(r1.event, r2.event)
      BY <1>1, <2>1, <2>3, LastIsStable
    <3>3. \A e : Reported("exfil", e) => Reported("exfil", e)'
      BY <1>1, ReportsAccumulate
    <3> QED
      BY <3>1, <3>2, <3>3 DEF Reported
  <2>4. ASSUME NEW row \in events, row.source = f.source, row.source # None,
               \/ Exfiltrates(row.event, f.event)
               \/ Exfiltrates(f.event, row.event)
        PROVE  Reported("exfil", f.event)'
    <3>1. Mentions(IncidentsOf(f.source, Recorded(f.source), f.event), "exfil", f.event)
      BY <1>1, <2>4, RecordArrives, RowIsRecorded, ExfiltrationIsSeen
    <3> QED
      BY <1>1, <3>1, ReportsAccumulate
  <2>5. CASE r1 = f /\ r2 \in events
    <3>1. RecordedLast(r1.event, r2.event)' = f.event
      BY <1>1, <2>1, <2>5, LastIsStable
    <3>2. Reported("exfil", f.event)'
      BY <2>1, <2>4, <2>5
    <3> QED
      BY <3>1, <3>2 DEF Reported
  <2>6. CASE r1 \in events /\ r2 = f
    <3>1. RecordedLast(r1.event, r2.event)' = f.event
      BY <1>1, <2>1, <2>6, LastIsStable
    <3>2. Reported("exfil", f.event)'
      BY <2>1, <2>4, <2>6
    <3> QED
      BY <3>1, <3>2 DEF Reported
  <2>7. ~ (r1 = f /\ r2 = f)
    BY <2>2, BeforeIsStrict DEF Exfiltrates
  <2> QED
    BY <2>2, <2>3, <2>5, <2>6, <2>7
<1>2. CASE UNCHANGED ledgerVars
  <2> SUFFICES ASSUME NEW r1 \in events', NEW r2 \in events',
                      Authenticated(r1, r2), Exfiltrates(r1.event, r2.event)
               PROVE  Reported("exfil", RecordedLast(r1.event, r2.event))'
    BY DEF ExfiltrationReported
  <2>1. Reported("exfil", RecordedLast(r1.event, r2.event))
    BY <1>2, IdleReports DEF ExfiltrationReported
  <2>2. RecordedLast(r1.event, r2.event)' = RecordedLast(r1.event, r2.event)
    BY <1>2, IdleReports
  <2>3. \A e : Reported("exfil", e) => Reported("exfil", e)'
    BY <1>2, IdleReports
  <2> QED
    BY <2>1, <2>2, <2>3 DEF Reported
<1> QED
  BY <1>1, <1>2 DEF LedgerNext

(* In whatever order the events of a source arrive, no qualifying pair of a  *)
(* sensitive read and a later egress is recorded in silence.                *)
THEOREM ExfiltrationNeverSilent == LedgerSpec => []ExfiltrationReported
<1>1. LedgerInit => ExfiltrationReported
  BY LedgerAssumption DEF LedgerInit, ExfiltrationReported, Authenticated
<1> QED
  BY <1>1, ExfiltrationStep, LedgerInvariantHolds, PTL DEF LedgerSpec

----
(* Between the two events of a sequence, as SequenceReported says it.       *)
Between(r, r1, r2) ==
  {row \in events : /\ row.source = r1.source
                   /\ r \in row.event.closes
                   /\ SameJoin(row.event, r1.event)
                   /\ Before(r1.event, row.event)
                   /\ Before(row.event, r2.event)}

SequenceDue(r, r1, r2) ==
  /\ Authenticated(r1, r2)
  /\ Completes(r, r1.event, r2.event)
  /\ RecordedLast(r1.event, r2.event) = r2.event => Between(r, r1, r2) = {}

LEMMA SequenceReportedSays ==
  SequenceReported <=>
    \A r \in Rules, r1, r2 \in events :
      SequenceDue(r, r1, r2) => Reported(r, RecordedLast(r1.event, r2.event))
BY DEF SequenceReported, SequenceDue, Between

LEMMA SequenceStep ==
  LedgerInvariant /\ SequenceReported /\ [LedgerNext]_ledgerVars => SequenceReported'
<1> SUFFICES ASSUME LedgerInvariant, SequenceReported, [LedgerNext]_ledgerVars
             PROVE  SequenceReported'
  OBVIOUS
<1>1. ASSUME NEW f \in Frames, Record(f) PROVE SequenceReported'
  <2> SUFFICES ASSUME NEW r \in Rules, NEW r1 \in events', NEW r2 \in events',
                      SequenceDue(r, r1, r2)'
               PROVE  Reported(r, RecordedLast(r1.event, r2.event))'
    BY DEF SequenceReported, SequenceDue, Between
  <2>1. r1.source # None /\ r2.source = r1.source /\ Completes(r, r1.event, r2.event)
    BY DEF SequenceDue, Authenticated
  <2>2. /\ events' = events \union {f} /\ Numbered(f.event)
        /\ \A row \in events : row.event.id # f.event.id
    BY <1>1, RecordAppends
  <2>3. CASE r1 \in events /\ r2 \in events
    <3>1. RecordedLast(r1.event, r2.event)' = RecordedLast(r1.event, r2.event)
      BY <1>1, <2>1, <2>3, LastIsStable
    <3>2. Between(r, r1, r2) \subseteq Between(r, r1, r2)'
      BY <2>2 DEF Between
    <3>3. SequenceDue(r, r1, r2)
      BY <3>1, <3>2 DEF SequenceDue
    <3>4. Reported(r, RecordedLast(r1.event, r2.event))
      BY <2>3, <3>3, SequenceReportedSays
    <3>5. \A e : Reported(r, e) => Reported(r, e)'
      BY <1>1, ReportsAccumulate
    <3> QED
      BY <3>1, <3>4, <3>5 DEF Reported
  <2>4. CASE r1 = f /\ r2 \in events
    <3>1. RecordedLast(r1.event, r2.event)' = f.event
      BY <1>1, <2>1, <2>4, LastIsStable
    <3>2. Mentions(IncidentsOf(f.source, Recorded(f.source), f.event), r, f.event)
      BY <1>1, <2>1, <2>4, RecordArrives, RowIsRecorded, LateOpeningIsSeen
    <3>3. Reported(r, f.event)'
      BY <1>1, <3>2, ReportsAccumulate
    <3> QED
      BY <3>1, <3>3 DEF Reported
  <2>5. CASE r1 \in events /\ r2 = f
    <3>1. RecordedLast(r1.event, r2.event)' = f.event
      BY <1>1, <2>1, <2>5, LastIsStable
    <3>2. Between(r, r1, r2)' = {}
      BY <2>5, <3>1 DEF SequenceDue
    <3>3. ASSUME NEW o \in Recorded(f.source),
                 r \in o.closes, SameJoin(o, r1.event), Before(r1.event, o), Before(o, f.event)
          PROVE  FALSE
      <4>1. PICK row \in events : row.source = f.source /\ o = row.event
        BY DEF Recorded
      <4>2. row \in Between(r, r1, r2)'
        BY <2>1, <2>2, <2>5, <3>3, <4>1 DEF Between
      <4> QED
        BY <3>2, <4>2
    <3>4. Mentions(IncidentsOf(f.source, Recorded(f.source), f.event), r, f.event)
      BY <1>1, <2>1, <2>5, <3>3, RecordArrives, RowIsRecorded, LateClosingIsSeen
    <3>5. Reported(r, f.event)'
      BY <1>1, <3>4, ReportsAccumulate
    <3> QED
      BY <3>1, <3>5 DEF Reported
  <2>6. ~ (r1 = f /\ r2 = f)
    BY <2>1, <2>2, BeforeIsStrict DEF Completes
  <2> QED
    BY <2>2, <2>3, <2>4, <2>5, <2>6
<1>2. CASE UNCHANGED ledgerVars
  <2> SUFFICES ASSUME NEW r \in Rules, NEW r1 \in events', NEW r2 \in events',
                      SequenceDue(r, r1, r2)'
               PROVE  Reported(r, RecordedLast(r1.event, r2.event))'
    BY DEF SequenceReported, SequenceDue, Between
  <2>1. SequenceDue(r, r1, r2)
    BY <1>2, IdleReports DEF SequenceDue, Between
  <2>2. Reported(r, RecordedLast(r1.event, r2.event))
    BY <1>2, <2>1, IdleReports, SequenceReportedSays
  <2> QED
    BY <1>2, <2>2, IdleReports DEF Reported
<1> QED
  BY <1>1, <1>2 DEF LedgerNext

(* The same for the two steps of a sequence rule, unless the closing event   *)
(* arrived last and an earlier closing event had ended the search.          *)
THEOREM SequenceNeverSilent == LedgerSpec => []SequenceReported
<1>1. ASSUME LedgerInit PROVE SequenceReported
  <2>1. \A r \in Rules, r1, r2 \in events : ~ SequenceDue(r, r1, r2)
    BY <1>1, LedgerAssumption DEF LedgerInit, SequenceDue, Authenticated
  <2> QED
    BY <2>1, SequenceReportedSays
<1> QED
  BY <1>1, SequenceStep, LedgerInvariantHolds, PTL DEF LedgerSpec

(* So wherever two recorded events complete a rule, the first recorded event *)
(* that closes it after the opening one is reported, the second event or one *)
(* before it.                                                               *)
LEMMA FirstClosingIsReported ==
  ASSUME LedgerInvariant, SequenceReported, NEW r \in Rules,
         NEW r1 \in events, NEW r2 \in events,
         Authenticated(r1, r2), Completes(r, r1.event, r2.event)
  PROVE  \E row \in events :
           /\ row.source = r1.source /\ r \in row.event.closes
           /\ r1.event.time <= row.event.time /\ row.event.time <= r2.event.time
           /\ Reported(r, RecordedLast(r1.event, row.event))
<1> DEFINE all == Recorded(r1.source)
           S == {e \in all : /\ r \in e.closes /\ SameJoin(e, r1.event) /\ Before(r1.event, e)
                             /\ e = r2.event \/ Before(e, r2.event)}
           first == Earliest(S)
<1>1. r1.source # None /\ r2.source = r1.source
  BY DEF Authenticated
<1>2. Distinguished(all)
  BY <1>1, RecordedAreDistinguished
<1>3. r1.event \in all /\ r2.event \in all
  BY <1>1, RowIsRecorded
<1>4. Numbered(r1.event) /\ Numbered(r2.event)
  BY <1>2, <1>3 DEF Distinguished
<1>5. r2.event \in S
  BY <1>3 DEF Completes, SameJoin
<1>6. Distinguished(S)
  BY <1>2, DistinguishedSubset
<1>7. first \in S /\ \A o \in S \ {first} : Before(first, o)
  BY <1>5, <1>6, EarliestIsFirst
<1>8. PICK row \in events : row.source = r1.source /\ row.event = first
  BY <1>7 DEF Recorded
<1>9. Numbered(first)
  BY <1>6, <1>7 DEF Distinguished
<1>10. /\ r \in first.closes /\ SameJoin(r1.event, first) /\ Before(r1.event, first)
       /\ first = r2.event \/ Before(first, r2.event)
  BY <1>7 DEF SameJoin
<1>11. \A e \in S : e = first \/ ~ Before(e, first)
  <2> SUFFICES ASSUME NEW e \in S, e # first PROVE ~ Before(e, first)
    OBVIOUS
  <2>1. Before(first, e) /\ Numbered(e)
    BY <1>6, <1>7 DEF Distinguished
  <2> HIDE DEF S, first
  <2> QED
    BY <1>9, <2>1, BeforeIsAsymmetric
<1>12. first.time <= r2.event.time /\ r1.event.time <= first.time
  BY <1>4, <1>9, <1>10, SMTT(20) DEF Before, Numbered
<1>13. Completes(r, r1.event, first)
  <2>1. Within(r1.event, r2.event, RuleWindow[r]) /\ r \in r1.event.opens
    BY DEF Completes
  <2>2. RuleWindow[r] \in Nat
    BY CorrelationAssumption
  <2>3. Within(r1.event, first, RuleWindow[r])
    BY <1>4, <1>9, <1>12, <2>1, <2>2 DEF Within, Numbered
  <2> QED
    BY <1>10, <2>1, <2>3 DEF Completes
<1>14. Between(r, r1, row) = {}
  <2> SUFFICES ASSUME NEW o \in Between(r, r1, row) PROVE FALSE
    OBVIOUS
  <2>1. /\ o \in events /\ o.source = r1.source /\ r \in o.event.closes
        /\ SameJoin(o.event, r1.event) /\ Before(r1.event, o.event) /\ Before(o.event, first)
    BY <1>8 DEF Between
  <2>2. o.event \in all
    BY <1>1, <2>1, RowIsRecorded
  <2>3. Numbered(o.event)
    BY <1>2, <2>2 DEF Distinguished
  <2>4. o.event = r2.event \/ Before(o.event, r2.event)
    BY <1>4, <1>9, <1>10, <2>1, <2>3, BeforeIsStrict
  <2>5. o.event \in S
    BY <2>1, <2>2, <2>4
  <2>6. o.event # first
    BY <1>9, <2>1, BeforeIsStrict
  <2> QED
    BY <1>11, <2>1, <2>5, <2>6
<1> HIDE DEF first
<1>15. Authenticated(r1, row)
  BY <1>1, <1>8 DEF Authenticated
<1>16. Reported(r, RecordedLast(r1.event, row.event))
  BY <1>8, <1>13, <1>14, <1>15, SequenceReportedSays DEF SequenceDue
<1> QED
  BY <1>8, <1>10, <1>12, <1>16

----
(* Arrival in time order.  The arriving event is the last, so it only ends   *)
(* matches; the batch engine gains those of the opening events that nothing *)
(* had closed, and those are what the trigger-time engine chooses from.     *)
LEMMA InOrderPredecessors ==
  ASSUME NEW stored, NEW trigger, Arriving(stored, trigger), ~ Truncated(stored, trigger),
         \A e \in stored : Before(e, trigger), NEW r \in Rules
  PROVE  \A e : e \in Predecessors(r, Candidates(stored, trigger), trigger) <=>
                 /\ e \in stored
                 /\ Completes(r, e, trigger)
                 /\ Successors(r, stored, e) = {}
<1> DEFINE cands == Candidates(stored, trigger)
<1>1. RuleWindow[r] \in Nat /\ RuleWindow[r] <= MaxRuleWindow
  BY CorrelationAssumption, WidestWindow
<1>2. ASSUME NEW e \in stored, NEW o \in stored, Completes(r, e, trigger), r \in o.closes,
             SameJoin(o, e), Before(e, o)
      PROVE  Completes(r, e, o)
  <2>1. Numbered(e) /\ Numbered(o) /\ Numbered(trigger) /\ Before(o, trigger)
    BY DEF Arriving, Distinguished
  <2>2. Within(e, o, RuleWindow[r])
    BY <1>1, <1>2, <2>1 DEF Completes, Within, Before, Numbered
  <2> QED
    BY <1>2, <2>2 DEF Completes, SameJoin
<1>3. ASSUME NEW e \in stored, Completes(r, e, trigger), Successors(r, stored, e) = {}
      PROVE  e \in Predecessors(r, cands, trigger)
  <2>1. \A o \in stored : ~ Completes(r, e, o)
    BY <1>3 DEF Successors
  <2> QED
    BY <1>2, <1>3, <2>1, NoClosingBetween
<1>4. ASSUME NEW e \in Predecessors(r, cands, trigger)
      PROVE  e \in stored /\ Completes(r, e, trigger) /\ Successors(r, stored, e) = {}
  <2>1. e \in cands /\ Completes(r, e, trigger) /\ Before(e, trigger)
    BY DEF Predecessors, Preceding, Completes
  <2>2. e \in stored /\ Numbered(e) /\ Numbered(trigger)
    BY <2>1, CandidatesAreStored, BeforeIsStrict DEF Arriving, Distinguished
  <2>3. ASSUME NEW o \in stored, Completes(r, e, o) PROVE FALSE
    <3> DEFINE before == {c \in cands : Before(c, trigger)}
               closing == {c \in before : r \in c.closes /\ SameJoin(c, trigger)}
               last == Latest(closing)
    <3>1. Numbered(o) /\ Before(o, trigger) /\ Before(e, o)
      BY <2>3 DEF Arriving, Distinguished, Completes
    <3>2. SameJoin(o, trigger) /\ r \in o.closes
      BY <2>1, <2>3 DEF Completes, SameJoin
    <3>3. Within(o, trigger, RuleWindow[r])
      BY <1>1, <2>1, <2>2, <3>1 DEF Completes, Within, Before, Numbered
    <3>4. o \in cands
      BY <1>1, <3>2, <3>3, NearEventsAreCandidates DEF SameJoin
    <3>5. o \in closing /\ Distinguished(closing)
      BY <3>1, <3>2, <3>4, CandidatesAreStored, ArrivalIsDistinguished
    <3>6. ~ Before(e, last)
      BY <3>5 DEF Predecessors, Preceding
    <3> HIDE DEF closing
    <3>7. last \in closing /\ (o = last \/ Before(o, last))
      BY <3>5, LatestIsLast
    <3>8. Numbered(last)
      BY <3>5, <3>7 DEF Distinguished
    <3> HIDE DEF last
    <3> QED
      BY <2>2, <3>1, <3>6, <3>7, <3>8, BeforeIsStrict
  <2> QED
    BY <2>1, <2>2, <2>3 DEF Successors
<1> QED
  BY <1>3, <1>4

LEMMA InOrderMatches ==
  ASSUME NEW stored, NEW trigger, Arriving(stored, trigger),
         \A e \in stored : Before(e, trigger), NEW r \in Rules,
         NEW p \in MatchesOf(r, Candidates(stored, trigger), trigger)
  PROVE  \E c \in Predecessors(r, Candidates(stored, trigger), trigger) : p = <<c, trigger>>
<1>1. Successors(r, Candidates(stored, trigger), trigger) = {}
  <2>1. \A c \in stored \union {trigger} : ~ Before(trigger, c)
    BY BeforeIsStrict, BeforeIsAsymmetric DEF Arriving, Distinguished
  <2> QED
    BY <2>1, CandidatesAreStored DEF Successors, Completes
<1>2. Distinguished(Candidates(stored, trigger))
  BY CandidatesAreStored, ArrivalIsDistinguished
<1> QED
  BY <1>1, <1>2, MatchShape

LEMMA BatchGrows ==
  ASSUME NEW stored, NEW trigger, Arriving(stored, trigger),
         \A e \in stored : Before(e, trigger), NEW r
  PROVE  BatchMatches(r, stored \union {trigger}) =
           BatchMatches(r, stored) \union
             {<<e, trigger>> : e \in {x \in stored : /\ Completes(r, x, trigger)
                                                   /\ Successors(r, stored, x) = {}}}
<1> DEFINE S == stored \union {trigger}
<1>1. \A c \in S : ~ Before(trigger, c)
  BY BeforeIsStrict, BeforeIsAsymmetric DEF Arriving, Distinguished
<1>2. Successors(r, S, trigger) = {}
  BY <1>1 DEF Successors, Completes
<1>3. ASSUME NEW e \in stored
      PROVE  Successors(r, S, e) =
               Successors(r, stored, e) \union (IF Completes(r, e, trigger) THEN {trigger} ELSE {})
  BY DEF Successors
<1>4. ASSUME NEW e \in stored, Successors(r, stored, e) # {}
      PROVE  Earliest(Successors(r, S, e)) = Earliest(Successors(r, stored, e))
  <2> DEFINE old == Successors(r, stored, e)
             new == Successors(r, S, e)
  <2>1. old \subseteq stored /\ new \subseteq old \union {trigger} /\ old \subseteq new /\ new \subseteq S
    BY <1>3 DEF Successors
  <2>2. Distinguished(old) /\ Distinguished(new)
    BY <2>1, ArrivalIsDistinguished
  <2> HIDE DEF old, new
  <2>3. Earliest(old) \in old /\ \A o \in old \ {Earliest(old)} : Before(Earliest(old), o)
    BY <1>4, <2>2, EarliestIsFirst DEF old
  <2>4. \A o \in new \ {Earliest(old)} : Before(Earliest(old), o)
    BY <2>1, <2>3
  <2>5. Earliest(new) = Earliest(old)
    BY <2>1, <2>2, <2>3, <2>4, EarliestIsUnique
  <2> QED
    BY <2>5 DEF old, new
<1>5. ASSUME NEW e \in stored, Successors(r, stored, e) = {}, Completes(r, e, trigger)
      PROVE  Earliest(Successors(r, S, e)) = trigger
  <2>1. Successors(r, S, e) = {trigger}
    BY <1>3, <1>5
  <2>2. Distinguished({trigger})
    BY ArrivalIsDistinguished
  <2>3. Earliest({trigger}) = trigger
    BY <2>2, EarliestIsUnique
  <2> QED
    BY <2>1, <2>3
<1> DEFINE fresh == {x \in stored : Completes(r, x, trigger) /\ Successors(r, stored, x) = {}}
<1>6. \A e \in stored : Successors(r, S, e) # {} <=> Successors(r, stored, e) # {} \/ e \in fresh
  BY <1>3
<1>7. ASSUME NEW p
      PROVE  p \in BatchMatches(r, S) <=>
               p \in BatchMatches(r, stored) \/ \E e \in fresh : p = <<e, trigger>>
  <2>1. p \in BatchMatches(r, S) <=>
          \E e \in S : Successors(r, S, e) # {} /\ p = <<e, Earliest(Successors(r, S, e))>>
    BY DEF BatchMatches
  <2>2. p \in BatchMatches(r, stored) <=>
          \E e \in stored : /\ Successors(r, stored, e) # {}
                           /\ p = <<e, Earliest(Successors(r, stored, e))>>
    BY DEF BatchMatches
  <2>3. \A e \in fresh : e \in stored /\ Earliest(Successors(r, S, e)) = trigger
    BY <1>5
  <2>4. \A e \in S : Successors(r, S, e) # {} => e \in stored
    BY <1>2
  <2>5. stored \subseteq S
    OBVIOUS
  <2> HIDE DEF fresh, S
  <2> QED
    BY <1>4, <1>6, <2>1, <2>2, <2>3, <2>4, <2>5
<1> HIDE DEF fresh
<1>8. BatchMatches(r, S) = BatchMatches(r, stored) \union {<<e, trigger>> : e \in fresh}
  BY <1>7
<1> QED
  BY <1>8 DEF fresh

(* Agreement with the batch engine, of the incidents among some and the      *)
(* events of one source.                                                    *)
PairsAmong(r, stored, some) ==
  {incident.payload : incident \in
     {i \in some \ ForeignIncidents : i.id.kind = r /\ i.payload[1] \in stored}}

BatchAgrees(r, stored, some) ==
  /\ PairsAmong(r, stored, some) \subseteq BatchMatches(r, stored)
  /\ \A p \in BatchMatches(r, stored) :
       \E q \in BatchMatches(r, stored) : q[2] = p[2] /\ Cites(r, q) \in some

LEMMA OnlyMatchesOfTheRule ==
  ASSUME NEW source, NEW stored, NEW trigger, Arriving(stored, trigger), NEW r \in Rules,
         NEW incident \in IncidentsOf(source, stored, trigger), incident.id.kind = r
  PROVE  \E p \in MatchesOf(r, Candidates(stored, trigger), trigger) : incident.payload = p
<1> DEFINE cands == Candidates(stored, trigger)
<1>1. trigger \in cands /\ Distinguished(cands)
  BY CandidatesAreStored, ArrivalIsDistinguished
<1>2. r \notin OtherKinds
  BY CorrelationAssumption
<1> HIDE DEF cands
<1>3. incident \notin P1Incidents(cands, trigger) /\ incident # DegradedIncident(source, trigger)
  BY <1>2 DEF P1Incidents, DegradedIncident, Cites, OtherKinds
<1>4. PICK m \in SequenceMatches(cands, trigger) : incident = Cites(m[1], m[2])
  BY <1>3 DEF IncidentsOf, cands
<1>5. PICK rule \in Rules : \E p \in MatchesOf(rule, cands, trigger) : m = <<rule, p>>
  BY <1>1, ReportedIsMatch
<1>6. PICK p \in MatchesOf(rule, cands, trigger) : m = <<rule, p>>
  BY <1>5
<1>7. rule = r /\ incident.payload = p
  BY <1>4, <1>6 DEF Cites
<1> QED
  BY <1>6, <1>7 DEF cands

LEMMA AgreementGrows ==
  ASSUME NEW source, NEW stored, NEW trigger, Arriving(stored, trigger),
         ~ Truncated(stored, trigger), \A e \in stored : Before(e, trigger), NEW r \in Rules,
         NEW some, BatchAgrees(r, stored, some),
         \A i \in some \ ForeignIncidents : i.payload[1] # trigger
  PROVE  BatchAgrees(r, stored \union {trigger}, some \union IncidentsOf(source, stored, trigger))
<1> DEFINE S == stored \union {trigger}
           new == IncidentsOf(source, stored, trigger)
           all == some \union new
           earlier == Predecessors(r, Candidates(stored, trigger), trigger)
           fresh == {x \in stored : Completes(r, x, trigger) /\ Successors(r, stored, x) = {}}
           added == {<<e, trigger>> : e \in fresh}
<1>1. BatchMatches(r, S) = BatchMatches(r, stored) \union added
  BY BatchGrows
<1>2. earlier = fresh
  BY InOrderPredecessors
<1>3. \A p \in MatchesOf(r, Candidates(stored, trigger), trigger) : p \in added
  BY <1>2, InOrderMatches
<1>4. ASSUME NEW i \in all \ ForeignIncidents, i.id.kind = r, i.payload[1] \in S
      PROVE  i.payload \in BatchMatches(r, S)
  <2>1. CASE i \in some
    <3>1. i.payload[1] \in stored
      BY <1>4, <2>1
    <3>2. i.payload \in PairsAmong(r, stored, some)
      BY <1>4, <2>1, <3>1 DEF PairsAmong
    <3> QED
      BY <1>1, <3>2 DEF BatchAgrees
  <2>2. CASE i \in new
    <3>1. \E p \in MatchesOf(r, Candidates(stored, trigger), trigger) : i.payload = p
      BY <1>4, <2>2, OnlyMatchesOfTheRule
    <3> QED
      BY <1>1, <1>3, <3>1
  <2> QED
    BY <2>1, <2>2
<1>5. ASSUME NEW p \in BatchMatches(r, S)
      PROVE  \E q \in BatchMatches(r, S) : q[2] = p[2] /\ Cites(r, q) \in all
  <2>1. CASE p \in BatchMatches(r, stored)
    BY <1>1, <2>1 DEF BatchAgrees
  <2>2. CASE p \in added
    <3>1. earlier # {} /\ p[2] = trigger
      BY <1>2, <2>2
    <3>2. MatchesOf(r, Candidates(stored, trigger), trigger) # {}
      BY <3>1 DEF MatchesOf
    <3>3. PICK q \in MatchesOf(r, Candidates(stored, trigger), trigger) : Cites(r, q) \in new
      BY <3>2, MatchIsMentioned
    <3>4. q \in added /\ q[2] = trigger
      BY <1>3, <3>3
    <3> QED
      BY <1>1, <3>1, <3>3, <3>4
  <2> QED
    BY <1>1, <2>1, <2>2
<1> HIDE DEF S, all
<1>6. BatchAgrees(r, S, all)
  BY <1>4, <1>5 DEF BatchAgrees, PairsAmong
<1> QED
  BY <1>6 DEF S, all

(* What ingestion opened cites recorded events of one source.               *)
CitesRecorded ==
  \A i \in incidents \ ForeignIncidents :
    /\ 1 \in DOMAIN i.payload
    /\ \E source \in {f.source : f \in Frames} :
         \A k \in DOMAIN i.payload : i.payload[k] \in Recorded(source)

LEMMA CitesRecordedHolds == LedgerSpec => []CitesRecorded
<1>1. LedgerInit => CitesRecorded
  BY DEF LedgerInit, CitesRecorded
<1>2. LedgerInvariant /\ CitesRecorded /\ [LedgerNext]_ledgerVars => CitesRecorded'
  <2> SUFFICES ASSUME LedgerInvariant, CitesRecorded, [LedgerNext]_ledgerVars
               PROVE  CitesRecorded'
    OBVIOUS
  <2>1. ASSUME NEW f \in Frames, Record(f) PROVE CitesRecorded'
    <3>1. /\ events' = events \union {f}
          /\ incidents' = incidents \union IncidentsOf(f.source, Recorded(f.source), f.event)
      BY <2>1 DEF Record
    <3>2. /\ \A source : Recorded(source) \subseteq Recorded(source)'
          /\ Recorded(f.source) \union {f.event} \subseteq Recorded(f.source)'
      BY <3>1 DEF Recorded
    <3>3. ASSUME NEW i \in IncidentsOf(f.source, Recorded(f.source), f.event)
          PROVE  /\ 1 \in DOMAIN i.payload
                 /\ \A k \in DOMAIN i.payload : i.payload[k] \in Recorded(f.source)'
      <4>1. CitesArrival(i, Recorded(f.source), f.event)
        BY <2>1, RecordArrives, IncidentsCiteTheArrival
      <4> QED
        BY <3>2, <4>1 DEF CitesArrival
    <3>4. ASSUME NEW i \in incidents' \ ForeignIncidents
          PROVE  /\ 1 \in DOMAIN i.payload
                 /\ \E source \in {g.source : g \in Frames} :
                      \A k \in DOMAIN i.payload : i.payload[k] \in Recorded(source)'
      <4>1. CASE i \in incidents
        BY <3>2, <4>1 DEF CitesRecorded
      <4>2. CASE i \in IncidentsOf(f.source, Recorded(f.source), f.event)
        BY <3>3, <4>2
      <4> QED
        BY <3>1, <4>1, <4>2
    <3> QED
      BY <3>4 DEF CitesRecorded
  <2>2. CASE UNCHANGED ledgerVars
    BY <2>2 DEF ledgerVars, CitesRecorded, Recorded
  <2> QED
    BY <2>1, <2>2 DEF LedgerNext
<1> QED
  BY <1>1, <1>2, LedgerInvariantHolds, PTL DEF LedgerSpec

(* Arrivals that are in order after a recording were so before it, and what  *)
(* was just recorded is the last of its source.                             *)
LEMMA ReceiptOfRow ==
  ASSUME LedgerInvariant, NEW row \in events, row.source # None
  PROVE  \E i \in DOMAIN receipts : receipts[i].id = row.event.id /\ receipts[i].source = row.source
<1>1. PICK i \in DOMAIN receipts : receipts[i].id = row.event.id
  BY DEF LedgerInvariant, RowsMatchReceipts
<1>2. PICK other \in events : other.event.id = receipts[i].id /\ other.source = receipts[i].source
  BY DEF LedgerInvariant, RowsMatchReceipts
<1>3. receipts[i].source # None
  <2> DEFINE Receipt == [id : Nat, source : {f.source : f \in Frames}]
  <2>1. receipts \in Seq(Receipt)
    BY DEF LedgerInvariant, LedgerTyped
  <2> HIDE DEF Receipt
  <2>2. receipts[i] \in Receipt
    BY <2>1
  <2> QED
    BY <2>2, LedgerAssumption DEF Receipt
<1>4. other = row
  BY <1>1, <1>2, <1>3 DEF LedgerInvariant, RowsMatchReceipts
<1> QED
  BY <1>1, <1>2, <1>4

LEMMA OrderWasKept ==
  ASSUME LedgerInvariant, NEW f \in Frames, Record(f), NEW source, ArrivedInOrder(source)'
  PROVE  ArrivedInOrder(source)
<1>1. /\ events' = events \union {f}
      /\ DOMAIN receipts \subseteq DOMAIN receipts'
      /\ \A i \in DOMAIN receipts : receipts'[i] = receipts[i] /\ receipts[i].id # f.event.id
  <2>1. /\ events' = events \union {f} /\ Len(receipts) \in Nat
        /\ DOMAIN receipts = 1 .. Len(receipts) /\ DOMAIN receipts' = 1 .. Len(receipts) + 1
        /\ \A i \in DOMAIN receipts : receipts'[i] = receipts[i]
        /\ \A i \in DOMAIN receipts : receipts[i].id # f.event.id
    BY RecordAppends, Zenon
  <2> QED
    BY <2>1
<1>2. \A e \in Recorded(source)' : e \in Recorded(source) \/ e = f.event
  BY <1>1 DEF Recorded
<1>3. ASSUME NEW i \in DOMAIN receipts, NEW j \in DOMAIN receipts, i < j,
             receipts[i].source = source, receipts[j].source = source
      PROVE  \E first, second \in Recorded(source) :
               first.id = receipts[i].id /\ second.id = receipts[j].id /\ Before(first, second)
  <2>1. PICK first \in Recorded(source)', second \in Recorded(source)' :
          first.id = receipts'[i].id /\ second.id = receipts'[j].id /\ Before(first, second)
    BY <1>1, <1>3 DEF ArrivedInOrder
  <2> QED
    BY <1>1, <1>2, <2>1
<1> QED
  BY <1>3 DEF ArrivedInOrder

LEMMA ArrivedLast ==
  ASSUME LedgerInvariant, NEW f \in Frames, Record(f), ArrivedInOrder(f.source)',
         NEW e \in Recorded(f.source)
  PROVE  Before(e, f.event)
<1> DEFINE n == Len(receipts)
<1>1. /\ events' = events \union {f} /\ f.source # None
      /\ \A row \in events : row.event.id # f.event.id
      /\ n \in Nat /\ DOMAIN receipts = 1 .. n /\ DOMAIN receipts' = 1 .. n + 1
      /\ \A i \in DOMAIN receipts : receipts'[i] = receipts[i]
      /\ receipts'[n + 1] = [id |-> f.event.id, source |-> f.source]
  BY RecordAppends, Zenon
<1>2. PICK row \in events : row.source = f.source /\ e = row.event
  BY DEF Recorded
<1>3. PICK i \in DOMAIN receipts : receipts[i].id = e.id /\ receipts[i].source = f.source
  BY <1>1, <1>2, ReceiptOfRow
<1> HIDE DEF n
<1>4. i \in DOMAIN receipts' /\ n + 1 \in DOMAIN receipts' /\ i < n + 1
  BY <1>1
<1>5. PICK first \in Recorded(f.source)', second \in Recorded(f.source)' :
        first.id = e.id /\ second.id = f.event.id /\ Before(first, second)
  BY <1>1, <1>3, <1>4 DEF ArrivedInOrder
<1>6. first = e
  <2>1. PICK other \in events' : other.source = f.source /\ first = other.event
    BY DEF Recorded
  <2>2. other \in events
    BY <1>1, <1>2, <1>5, <2>1
  <2> QED
    BY <1>1, <1>2, <1>5, <2>1, <2>2 DEF LedgerInvariant, RowsMatchReceipts
<1>7. second = f.event
  <2>1. PICK other \in events' : other.source = f.source /\ second = other.event
    BY DEF Recorded
  <2> QED
    BY <1>1, <1>5, <2>1
<1> QED
  BY <1>5, <1>6, <1>7

LEMMA AgreementSays ==
  AgreesWithBatch <=>
    \A r \in Rules, source \in {f.source : f \in Frames} :
      (ArrivedInOrder(source) /\ \A incident \in incidents : incident.id.kind # "degraded")
        => BatchAgrees(r, Recorded(source), incidents)
BY DEF AgreesWithBatch, BatchAgrees, OpenedPairs, PairsAmong

LEMMA AgreementStep ==
  LedgerInvariant /\ CitesRecorded /\ AgreesWithBatch /\ [LedgerNext]_ledgerVars => AgreesWithBatch'
<1> SUFFICES ASSUME LedgerInvariant, CitesRecorded, AgreesWithBatch, [LedgerNext]_ledgerVars
             PROVE  AgreesWithBatch'
  OBVIOUS
<1>1. ASSUME NEW f \in Frames, Record(f) PROVE AgreesWithBatch'
  <2> DEFINE new == IncidentsOf(f.source, Recorded(f.source), f.event)
  <2>1. /\ events' = events \union {f} /\ incidents' = incidents \union new
        /\ \A row \in events : row.event.id # f.event.id
    BY <1>1 DEF Record
  <2>2. ASSUME NEW r \in Rules, NEW source \in {g.source : g \in Frames},
               ArrivedInOrder(source)', \A incident \in incidents' : incident.id.kind # "degraded"
        PROVE  BatchAgrees(r, Recorded(source), incidents)'
    <3>1. BatchAgrees(r, Recorded(source), incidents)
      BY <1>1, <2>1, <2>2, OrderWasKept, AgreementSays
    <3>2. Arriving(Recorded(f.source), f.event)
      BY <1>1, RecordArrives
    <3>3. CASE source = f.source
      <4>1. Recorded(source)' = Recorded(source) \union {f.event}
        BY <2>1, <3>3 DEF Recorded
      <4>2. ~ Truncated(Recorded(source), f.event)
        <5>1. \A i \in new : i.id.kind # "degraded"
          BY <2>1, <2>2
        <5>2. DegradedIncident(f.source, f.event).id.kind = "degraded"
          BY DEF DegradedIncident
        <5>3. Truncated(Recorded(f.source), f.event) => DegradedIncident(f.source, f.event) \in new
          BY DEF IncidentsOf
        <5> HIDE DEF new
        <5> QED
          BY <3>3, <5>1, <5>2, <5>3
      <4>3. \A e \in Recorded(source) : Before(e, f.event)
        BY <1>1, <2>2, <3>3, ArrivedLast
      <4>4. ASSUME NEW i \in incidents \ ForeignIncidents PROVE i.payload[1] # f.event
        <5>1. PICK other : i.payload[1] \in Recorded(other)
          BY DEF CitesRecorded
        <5> QED
          BY <2>1, <5>1 DEF Recorded
      <4> HIDE DEF new
      <4>5. BatchAgrees(r, Recorded(source) \union {f.event}, incidents \union new)
        BY <3>1, <3>2, <3>3, <4>2, <4>3, <4>4, AgreementGrows DEF new
      <4>6. BatchAgrees(r, Recorded(source)', incidents')
        BY <2>1, <4>1, <4>5
      <4> QED
        BY <4>6
    <3>4. CASE source # f.source
      <4>1. Recorded(source)' = Recorded(source)
        BY <2>1, <3>4 DEF Recorded
      <4>2. ASSUME NEW i \in new PROVE i.payload[1] \notin Recorded(source)
        <5>1. i.payload[1] \in Recorded(f.source) \union {f.event}
          BY <3>2, IncidentsCiteTheArrival DEF CitesArrival
        <5>2. f.event \notin Recorded(source)
          BY <2>1 DEF Recorded
        <5>3. \A e \in Recorded(f.source) : e \notin Recorded(source)
          BY <3>4, LedgerAssumption DEF Recorded, LedgerInvariant, RowsMatchReceipts
        <5> QED
          BY <5>1, <5>2, <5>3
      <4> HIDE DEF new
      <4>3. BatchAgrees(r, Recorded(source), incidents \union new)
        BY <3>1, <4>2 DEF BatchAgrees, PairsAmong
      <4>4. BatchAgrees(r, Recorded(source)', incidents')
        BY <2>1, <4>1, <4>3
      <4> QED
        BY <4>4
    <3> QED
      BY <3>3, <3>4
  <2> QED
    BY <2>2, AgreementSays DEF AgreesWithBatch, BatchAgrees, OpenedPairs, PairsAmong
<1>2. CASE UNCHANGED ledgerVars
  <2>1. events' = events /\ receipts' = receipts /\ incidents' = incidents
    BY <1>2 DEF ledgerVars
  <2>2. ASSUME NEW r \in Rules, NEW source \in {g.source : g \in Frames},
               ArrivedInOrder(source)', \A incident \in incidents' : incident.id.kind # "degraded"
        PROVE  BatchAgrees(r, Recorded(source), incidents)'
    <3>1. ArrivedInOrder(source) /\ Recorded(source)' = Recorded(source)
      BY <2>1, <2>2 DEF Recorded, ArrivedInOrder
    <3>2. \A incident \in incidents : incident.id.kind # "degraded"
      BY <2>1, <2>2
    <3>3. BatchAgrees(r, Recorded(source), incidents)
      BY <3>1, <3>2, AgreementSays
    <3>4. BatchAgrees(r, Recorded(source)', incidents')
      BY <2>1, <3>1, <3>3
    <3> QED
      BY <3>4
  <2> QED
    BY <2>2 DEF AgreesWithBatch, BatchAgrees, OpenedPairs, PairsAmong
<1> QED
  BY <1>1, <1>2 DEF LedgerNext

(* Events that arrive in time order, no correlation of theirs cut short, get *)
(* the incidents the batch engine would give them: none that it does not    *)
(* find, and one for every event that ends a match.                         *)
THEOREM AgreementWithBatch == LedgerSpec => []AgreesWithBatch
<1>1. ASSUME LedgerInit PROVE AgreesWithBatch
  <2>1. \A source \in {f.source : f \in Frames} : Recorded(source) = {}
    BY <1>1, LedgerAssumption DEF LedgerInit, Recorded
  <2>2. \A r : BatchAgrees(r, {}, incidents)
    BY DEF BatchAgrees, PairsAmong, BatchMatches
  <2> QED
    BY <2>1, <2>2, AgreementSays
<1> QED
  BY <1>1, AgreementStep, LedgerInvariantHolds, CitesRecordedHolds, PTL DEF LedgerSpec

====
