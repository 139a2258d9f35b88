---- MODULE EnrollmentAdapter ----
(***************************************************************************)
(* The privileged adapter of the Hermes enrollment: what it owns on the    *)
(* host, and each durable write of its prepare, rollback, enable, disable  *)
(* and attest actions.  Enrollment.tla sequences these writes.             *)
(*                                                                         *)
(* The daemon's config.toml and the gateway's drop-in are shared by every  *)
(* enrolled account; baseline.json keeps what they were, managed.json what *)
(* the adapter last left there.  A snapshot belongs to one account: the    *)
(* supported profile is always "default".                                  *)
(***************************************************************************)
EXTENDS Naturals

CONSTANTS
  Targets,          \* accounts that may be enrolled
  InitialUids,      \* accounts config.toml already authorizes
  InitialMembers,   \* accounts already in the skynet-edr-ingest group
  None

(* The contents of a snapshot, and of the two files baseline.json and        *)
(* managed.json speak of.                                                    *)
Snapshots == [generation : Nat, member : BOOLEAN, hermes : {"plain", "enabled", "disabled"}]
Dropins == [generation : Nat, token : BOOLEAN]
SharedFiles == [config : SUBSET Targets, dropin : Dropins]

ASSUME AdapterAssumption ==
  /\ InitialUids \subseteq Targets
  /\ InitialMembers \subseteq Targets
  /\ None \notin Snapshots \cup SharedFiles

VARIABLES
  config,     \* allowed_uids of /etc/skynet-edr/config.toml
  dropin,     \* 50-skynet-edr.conf: generation 0 when the file is absent
  members,    \* gr_mem of the ingest group
  hermes,     \* each account's Hermes config.yaml, by its plugin entry
  baseline,   \* baseline.json
  managed,    \* managed.json
  snapshot    \* each account's snapshot.json

adapterVars == <<config, dropin, members, hermes, baseline, managed, snapshot>>
records == <<baseline, managed, snapshot>>

AdapterInit ==
  /\ config = InitialUids
  /\ dropin = [generation |-> 0, token |-> FALSE]
  /\ members = InitialMembers
  /\ hermes = [t \in Targets |-> "plain"]
  /\ baseline = None
  /\ managed = None
  /\ snapshot = [t \in Targets |-> None]

(* The bytes _managed_state hashes. *)
Shared == [config |-> config, dropin |-> dropin]

(* _verify_managed: nobody changed the shared files since managed.json. *)
Verified == managed \in {None, Shared}

----
(* prepare: the records of what was there, then the three host changes.     *)

(* The baseline is taken once, and removed again if the first snapshot      *)
(* cannot be written.                                                       *)
TakeBaseline ==
  /\ baseline' = IF baseline = None THEN Shared ELSE baseline
  /\ UNCHANGED <<config, dropin, members, hermes, managed, snapshot>>

DropBaseline(t) ==
  /\ baseline' = IF snapshot[t] = None THEN None ELSE baseline
  /\ UNCHANGED <<config, dropin, members, hermes, managed, snapshot>>

(* A second prepare keeps what the first one saw of the account and only    *)
(* moves to the new generation.                                             *)
TakeSnapshot(t, g) ==
  /\ snapshot' = [snapshot EXCEPT ![t] =
       IF @ = None
       THEN [generation |-> g, member |-> t \in members, hermes |-> hermes[t]]
       ELSE [@ EXCEPT !.generation = g]]
  /\ UNCHANGED <<config, dropin, members, hermes, baseline, managed>>

Authorize(t) ==
  /\ config' = config \cup {t}
  /\ UNCHANGED <<dropin, members, hermes, records>>

Join(t) ==
  /\ members' = members \cup {t}
  /\ UNCHANGED <<config, dropin, hermes, records>>

WriteDropin(g, token) ==
  /\ dropin' = [generation |-> g, token |-> token]
  /\ UNCHANGED <<config, members, hermes, records>>

RecordManaged ==
  /\ managed' = Shared
  /\ UNCHANGED <<config, dropin, members, hermes, baseline, snapshot>>

----
(* rollback                                                                 *)

(* Snapshots of unenrolled accounts stay, and count here. *)
Others(t) == {u \in Targets \ {t} : snapshot[u] # None}

(* What rollback demands before it changes anything: the account's snapshot  *)
(* of this generation, untouched shared files, and the Hermes config that    *)
(* disable left.                                                             *)
MayRollBack(t, g) ==
  /\ Verified
  /\ snapshot[t] # None
  /\ snapshot[t].generation = g
  /\ hermes[t] = "disabled"

(* Mutant: the last account restores the baseline, and so does every other. *)
DeauthorizesAll(t) ==
  /\ config' = baseline.config
  /\ UNCHANGED <<dropin, members, hermes, records>>

Deauthorize(t) ==
  /\ config' = IF Others(t) = {} THEN baseline.config ELSE config \ {t}
  /\ UNCHANGED <<dropin, members, hermes, records>>

RestoreDropin(t) ==
  /\ dropin' = IF Others(t) = {} THEN baseline.dropin ELSE dropin
  /\ UNCHANGED <<config, members, hermes, records>>

Leave(t) ==
  /\ members' = IF snapshot[t].member THEN members ELSE members \ {t}
  /\ UNCHANGED <<config, dropin, hermes, records>>

RestoreHermes(t) ==
  /\ hermes' = [hermes EXCEPT ![t] = snapshot[t].hermes]
  /\ UNCHANGED <<config, dropin, members, records>>

(* _restore_unenrolled_runtime_epoch: after the restarts neither the config  *)
(* nor the groups of the account's processes may still admit it.             *)
EpochClean(t) == t \notin config /\ t \notin members

----
(* enable, disable, and what attest demands of the running gateway.          *)
SetPlugin(t, form) ==
  /\ hermes' = [hermes EXCEPT ![t] = form]
  /\ UNCHANGED <<config, dropin, members, records>>

Attestable(t) == t \in config /\ t \in members /\ hermes[t] = "enabled"
====
