---- MODULE MCLedger ----
(* An instance of CorrelatedLedger for TLC: every order of arrival of the    *)
(* events of one agent, more of them in its trace than the candidate limit,  *)
(* two with no trace, one identifier claimed by another source.              *)
EXTENDS CorrelatedLedger, MCEvents

LedgerFrames ==
  {From(alpha, e) : e \in {Read1, Egress2, Open3, Egress4, Both11, Read7, Egress8}}
    \union {From(beta, Egress2)}

====
