---- MODULE DaemonStartup ----
(***************************************************************************)
(* What has to happen before an event can be taken: LocalStore::open       *)
(* creates and migrates the store, statement by statement, and             *)
(* bind_ingest_listener publishes the socket, file operation by file       *)
(* operation; between them the daemon imports its spool once.  It does all *)
(* of that at every start and is started again after a failure; the        *)
(* command line opens the same store on its own.                           *)
(***************************************************************************)
EXTENDS Integers, Sequences, FiniteSets

CONSTANTS
  Daemons,       \* daemon processes
  Clis,          \* commands that open the store and end
  Ddl,           \* the statements of migrate, in order: [kind, name]
  SchemaVersion, \* LOCAL_STORE_SCHEMA_VERSION
  Attempts,      \* private directory names tried by bind_private_socket
  MaxCrashes,    \* bound on crashes
  NoSocket       \* nothing is at the configured path

Processes == Daemons \union Clis

ASSUME StartupAssumption ==
  /\ Ddl \in Seq([kind : {"create", "column"}, name : STRING])
  /\ SchemaVersion \in Nat \ {0}
  /\ Attempts \in Nat \ {0}
  /\ MaxCrashes \in Nat

VARIABLES
  version,   \* user_version of the database
  schema,    \* its tables, indexes and added columns
  legacy,    \* incident identifiers that cannot be routed: "none", "some", "clash"
  final,     \* whose socket is at the configured path
  private,   \* the private directories .i0, .i1, ... that exist
  phase,     \* where each process is
  at,        \* the statement it has come to
  missing,   \* did table_info lack the column?
  nonce,     \* PRIVATE_SOCKET_NONCE of the process
  unstorable, \* does a line that cannot be stored lie ahead in the spool?
  crashes

store == <<version, schema, legacy>>
socket == <<final, private>>
local == <<at, missing, nonce>>
startupVars == <<version, schema, legacy, final, private, phase, at, missing, nonce, unstorable,
                 crashes>>

Names(kind) == {Ddl[i].name : i \in {j \in DOMAIN Ddl : Ddl[j].kind = kind}}
Complete == schema = Names("create") \union Names("column") /\ legacy = "none"

(* An empty store, one of an earlier release, a current or a newer one. *)
InitialStore ==
  \/ version = 0 /\ schema = {} /\ legacy = "none"
  \/ version = 0 /\ schema \in SUBSET Names("create") /\ Ddl[1].name \in schema
     /\ legacy \in {"none", "some", "clash"}
  \/ version \in {SchemaVersion, SchemaVersion + 1} /\ Complete

StartupInit ==
  /\ InitialStore
  /\ final = NoSocket
  /\ private = {}
  /\ phase = [p \in Processes |-> "down"]
  /\ at = [p \in Processes |-> 1]
  /\ missing = [p \in Processes |-> FALSE]
  /\ nonce = [p \in Processes |-> 0]
  /\ unstorable \in BOOLEAN
  /\ crashes = 0

----
(* LocalStore::open *)

Goto(p, next) == phase' = [phase EXCEPT ![p] = next]

Start(p) ==
  /\ phase[p] = "down"
  /\ at' = [at EXCEPT ![p] = 1]
  /\ missing' = [missing EXCEPT ![p] = FALSE]
  /\ nonce' = [nonce EXCEPT ![p] = 0]
  /\ Goto(p, "version")
  /\ UNCHANGED <<store, socket, unstorable, crashes>>

CheckVersion(p) ==
  /\ phase[p] = "version"
  /\ Goto(p, IF version > SchemaVersion THEN "refused" ELSE "migrate")
  /\ UNCHANGED <<store, socket, local, unstorable, crashes>>

Statement(p) == Ddl[at[p]]
NextStatement(p) == at' = [at EXCEPT ![p] = @ + 1]
Migrating(p, kind) == phase[p] = "migrate" /\ at[p] <= Len(Ddl) /\ Statement(p).kind = kind

(* CREATE ... IF NOT EXISTS: each statement commits on its own. *)
Create(p) ==
  /\ Migrating(p, "create")
  /\ schema' = schema \union {Statement(p).name}
  /\ NextStatement(p)
  /\ UNCHANGED <<version, legacy, socket, phase, missing, nonce, unstorable, crashes>>

(* ensure_nullable_column reads table_info, ... *)
ReadColumns(p) ==
  /\ Migrating(p, "column")
  /\ missing' = [missing EXCEPT ![p] = Statement(p).name \notin schema]
  /\ Goto(p, "column")
  /\ UNCHANGED <<store, socket, at, nonce, unstorable, crashes>>

(* ... and alters the table; a column that appeared meanwhile is an error. *)
AddColumn(p) ==
  /\ phase[p] = "column"
  /\ IF missing[p] /\ Statement(p).name \in schema
     THEN Goto(p, "down") /\ UNCHANGED <<schema, at>>
     ELSE /\ schema' = schema \union {Statement(p).name}
          /\ NextStatement(p)
          /\ Goto(p, "migrate")
  /\ UNCHANGED <<version, legacy, socket, missing, nonce, unstorable, crashes>>

(* normalize_legacy_incident_ids: one transaction renames every identifier  *)
(* that cannot be routed, or fails when a new name is taken.               *)
Normalize(p) ==
  /\ phase[p] = "migrate"
  /\ at[p] > Len(Ddl)
  /\ legacy' = IF legacy = "clash" THEN legacy ELSE "none"
  /\ Goto(p, IF legacy = "clash" THEN "refused" ELSE "stamp")
  /\ UNCHANGED <<version, schema, socket, local, unstorable, crashes>>

(* Mutant: the version is written before the last step. *)
StampsEarly(p) == phase[p] \in {"migrate", "stamp"} /\ at[p] > Len(Ddl)

StampsLast(p) == phase[p] = "stamp"

(* user_version is written; the store is open. *)
Stamp(p) ==
  /\ StampsLast(p)
  /\ version' = SchemaVersion
  /\ Goto(p, IF p \in Daemons THEN "import" ELSE "done")
  /\ UNCHANGED <<schema, legacy, socket, local, unstorable, crashes>>

----
(* The spool: what SpoolImport shows in full is here whether a pass gets to *)
(* its end.  run_spool_ingestion_once opens the store again, which changes  *)
(* nothing of a complete one.                                              *)

PassEnds(d, next) ==
  /\ Goto(d, next)
  /\ UNCHANGED <<store, socket, local, unstorable, crashes>>

(* The pass before the socket is bound: its error ends the start. *)
FirstPass(d) == phase[d] = "import" /\ PassEnds(d, IF unstorable THEN "down" ELSE "bind")

(* A pass of the poll loop: its error ends the daemon. *)
LaterPass(d) == phase[d] = "up" /\ unstorable /\ PassEnds(d, "down")

(* A writer appends a line that cannot be stored, or an operator takes it   *)
(* out of the spool.                                                       *)
SpoolChanges ==
  /\ unstorable' = ~ unstorable
  /\ UNCHANGED <<store, socket, phase, local, crashes>>

----
(* bind_ingest_listener *)

(* A process holds the socket it bound until it goes down. *)
Listening(d) == phase[d] \in {"secure", "publish", "rmdir", "http", "up"}

(* lstat the path; a socket of one's own that answers is not replaced. *)
Inspect(d) ==
  /\ phase[d] = "bind"
  /\ IF final = NoSocket THEN Goto(d, "private")
     ELSE Goto(d, IF Listening(final) THEN "down" ELSE "remove")
  /\ UNCHANGED <<store, socket, local, unstorable, crashes>>

(* The path is removed, whatever is there by now. *)
Remove(d) ==
  /\ phase[d] = "remove"
  /\ final' = NoSocket
  /\ Goto(d, IF final = NoSocket THEN "down" ELSE "private")
  /\ UNCHANGED <<store, private, local, unstorable, crashes>>

(* Mutant: only the first name is tried. *)
GivesUpAtOnce(d) == nonce[d] >= 1

GivesUp(d) == nonce[d] >= Attempts

NameTaken(d) == nonce[d] \in private

(* A directory of mode 0700 under a name of this process's counter. *)
MakePrivate(d) ==
  /\ phase[d] = "private"
  /\ IF GivesUp(d) THEN Goto(d, "down") /\ UNCHANGED <<private, nonce>>
     ELSE /\ nonce' = [nonce EXCEPT ![d] = @ + 1]
          /\ IF NameTaken(d) THEN UNCHANGED <<private, phase>>
             ELSE private' = private \union {nonce[d]} /\ Goto(d, "secure")
  /\ UNCHANGED <<store, final, at, missing, unstorable, crashes>>

(* chown and chmod 0660 while nobody else can reach it. *)
Secure(d) ==
  /\ phase[d] = "secure"
  /\ Goto(d, "publish")
  /\ UNCHANGED <<store, socket, local, unstorable, crashes>>

(* The link fails when the path exists; the private directory is cleared. *)
Publish(d) ==
  /\ phase[d] = "publish"
  /\ IF final # NoSocket
     THEN /\ private' = private \ {nonce[d] - 1}
          /\ Goto(d, "down")
          /\ UNCHANGED final
     ELSE /\ final' = d
          /\ Goto(d, "rmdir")
          /\ UNCHANGED private
  /\ UNCHANGED <<store, local, unstorable, crashes>>

RemovePrivate(d) ==
  /\ phase[d] = "rmdir"
  /\ private' = private \ {nonce[d] - 1}
  /\ Goto(d, "http")
  /\ UNCHANGED <<store, final, local, unstorable, crashes>>

(* The read-only API opens the store and counts both tables. *)
StartHttp(d) ==
  /\ phase[d] = "http"
  /\ Goto(d, IF Names("create") \subseteq schema THEN "up" ELSE "down")
  /\ UNCHANGED <<store, socket, local, unstorable, crashes>>

(* A crash, or an error that ends the process: files stay as they are. *)
Crash(p) ==
  /\ phase[p] \notin {"down", "refused", "done"}
  /\ crashes < MaxCrashes
  /\ crashes' = crashes + 1
  /\ Goto(p, "down")
  /\ UNCHANGED <<store, socket, local, unstorable>>

Step(p) ==
  \/ Start(p)
  \/ CheckVersion(p)
  \/ Create(p)
  \/ ReadColumns(p)
  \/ AddColumn(p)
  \/ Normalize(p)
  \/ Stamp(p)

DaemonStep(d) ==
  \/ FirstPass(d)
  \/ LaterPass(d)
  \/ Inspect(d)
  \/ Remove(d)
  \/ MakePrivate(d)
  \/ Secure(d)
  \/ Publish(d)
  \/ RemovePrivate(d)
  \/ StartHttp(d)

StartupNext ==
  \/ \E p \in Processes : Step(p) \/ Crash(p)
  \/ \E d \in Daemons : DaemonStep(d)
  \/ SpoolChanges

StartupSpec == StartupInit /\ [][StartupNext]_startupVars

(* Restart=on-failure starts the daemon again after five seconds.          *)
FairStartup ==
  /\ StartupSpec
  /\ \A p \in Processes : WF_startupVars(Step(p))
  /\ \A d \in Daemons : WF_startupVars(DaemonStep(d))
----
TypeOK ==
  /\ version \in 0 .. (SchemaVersion + 1)
  /\ schema \subseteq Names("create") \union Names("column")
  /\ legacy \in {"none", "some", "clash"}
  /\ final \in Daemons \union {NoSocket}
  /\ private \subseteq 0 .. (Attempts - 1)
  /\ phase \in [Processes -> {"down", "version", "migrate", "column", "stamp", "import", "bind",
                            "remove", "private", "secure", "publish", "rmdir", "http", "up",
                            "refused", "done"}]
  /\ at \in [Processes -> 1 .. (Len(Ddl) + 1)]
  /\ nonce \in [Processes -> 0 .. Attempts]
  /\ unstorable \in BOOLEAN

(* A store that bears this release's version is complete: the fast opening  *)
(* of every ingestion worker looks at the version alone, whichever opener   *)
(* crashed between two statements or ran beside another.                    *)
VersionMeansComplete == version = SchemaVersion => Complete

(* A store of a newer release is not touched. *)
NewerStoreUntouched == [][version > SchemaVersion => UNCHANGED store]_startupVars

(* Whatever crashes left behind - a half-made schema, a stale socket, up to *)
(* Attempts - 1 private directories - and whatever column another opener    *)
(* added first, the daemon comes up, unless the store refuses it for good   *)
(* or the spool keeps, or gets again and again, a line that cannot be       *)
(* stored: such a line ends every start before the socket is bound.         *)
DaemonComesUp ==
  \A d \in Daemons : []<> unstorable \/ <>[](phase[d] \in {"up", "refused"})

====
