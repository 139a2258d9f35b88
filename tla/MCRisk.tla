---- MODULE MCRisk ----
(* An instance of RiskExplorer for TLC: three incidents on pages of one or    *)
(* two, and writers that add one at the front and one in the middle.        *)
EXTENDS RiskExplorer

Incident(id, updated) == [id |-> id, updated |-> updated]

MCInitial ==
  [incidents |-> {Incident(1, 4), Incident(2, 4), Incident(3, 2)},
   events |-> {1, 2, 3}]

MCWrites ==
  {[incidents |-> {Incident(4, 5)}, events |-> {4}],
   [incidents |-> {Incident(5, 3)}, events |-> {5}]}

====
