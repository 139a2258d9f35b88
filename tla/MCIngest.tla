---- MODULE MCIngest ----
(* Instances of ContinuousIngest for TLC. *)
EXTENDS ContinuousIngest, MCEvents, TLC

CONSTANTS w1, w2

(* The threads are alike. *)
Threads == Permutations(Workers)

(* Answers, crashes and lost answers: a pair of events that correlate, and  *)
(* another source that reuses an identifier.                                *)
ProtocolFrames ==
  {From(alpha, Read1), From(alpha, Egress2), From(beta, Egress2)}

(* Rows written by other paths: an imported event, which must not correlate, *)
(* and an incident row that takes the identifier of a malware incident.      *)
MCInvalid == {From(beta, Egress2)}
ForeignFrames ==
  {From(alpha, Open3), From(alpha, Egress2), From(alpha, Egress4), From(alpha, Malware6)}
    \union MCInvalid
MCImported == {From(None, Open5)}
MCForeign == {[id |-> Cites("malware", <<Malware6>>).id, payload |-> <<>>]}

====
