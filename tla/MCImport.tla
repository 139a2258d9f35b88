---- MODULE MCImport ----
(* An instance of SpoolImport for TLC: a spool with a sequence that opens and *)
(* closes, a malformed line, one whose time no row can hold, and a producer  *)
(* that delivers an event by socket, where it is stored as projected.       *)
EXTENDS SpoolImport, MCEvents, TLC

CONSTANTS daemon, cli

OnLine(event) == [kind |-> "event", event |-> event]
Malformed == [kind |-> "malformed", event |-> None]

OpenProjected == [Open5 EXCEPT !.session = None]
MCProjected == (Open5 :> OpenProjected) @@ (Egress2 :> Egress2) @@ (Open3 :> Open3)

(* The socket delivers events of its own: the documented use. *)
Late9 == Ev(9, 10, tr, se, "benign", {}, {})
ApartLines == {OnLine(Open5), OnLine(Egress2), OnLine(Late9), Malformed}
ApartFrames == {From(alpha, Open3)}

====
