---- MODULE MCTransport ----
(* Instances of HermesTransport for TLC. *)
EXTENDS HermesTransport, TLC

CONSTANTS p1, p2

(* The processes are alike. *)
Processes == Permutations(Producers)

====
