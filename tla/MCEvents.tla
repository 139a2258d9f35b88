---- MODULE MCEvents ----
(* Events for TLC's instances of CorrelatedLedger and ContinuousIngest: a few    *)
(* events of an agent in one trace or session, from one or two sources.     *)
EXTENDS Correlation

CONSTANTS alpha, beta, tr, se, inject

MCRuleWindow == [r \in Rules |-> 2]

Ev(id, time, trace, session, p1, opens, closes) ==
  [id |-> id, time |-> time, trace |-> trace, session |-> session,
   p1 |-> p1, opens |-> opens, closes |-> closes]

From(source, event) == [source |-> source, event |-> event]

Read1    == Ev(1, 1, tr, se, "sensitive", {}, {})
Egress2  == Ev(2, 2, tr, se, "egress", {}, {inject})
Open3    == Ev(3, 1, tr, se, "benign", {inject}, {})
Egress4  == Ev(4, 3, tr, se, "egress", {}, {inject})
Open5    == Ev(5, 0, tr, se, "benign", {inject}, {})
Malware6 == Ev(6, 2, None, se, "malware", {}, {})
Read7    == Ev(7, 0, None, se, "sensitive", {}, {})
Egress8  == Ev(8, 2, None, se, "egress", {}, {})
Both11   == Ev(11, 2, tr, se, "benign", {inject}, {inject})

====
