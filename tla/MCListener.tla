---- MODULE MCListener ----
(* Instances of IngestListener for TLC: a gateway that must report, and the *)
(* legacy identity of its uid, which takes v1 frames and protocol errors,   *)
(* and a worker that is not required.                                      *)
EXTENDS IngestListener, TLC

CONSTANTS c1, c2, p1, p2, uid, gateway, worker

MCRoleOf == (uid :> "legacy") @@ (gateway :> "gateway") @@ (worker :> "worker")

Frame(type, k) == [type |-> type, key |-> k]
MCFrames ==
  {Frame("junk", uid), Frame("bad_health", uid), Frame("health", gateway),
   Frame("poor_health", gateway), Frame("bad_event", gateway),
   Frame("event", gateway), Frame("event", uid),
   Frame("poor_health", worker)}

====
