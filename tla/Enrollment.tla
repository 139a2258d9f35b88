---- MODULE Enrollment ----
(***************************************************************************)
(* skynet-edr-hermes-enroll: the apply and unenroll transactions, run by    *)
(* processes that serialize on one lock file, over the private state of     *)
(* each account, the trees installed in its home, and the host state that   *)
(* the adapter owns.  Each durable write is a step, and a process may be    *)
(* killed, or a write or an adapter call fail, between any two.             *)
(*                                                                         *)
(* A process identifier names its stage directory and may be used again.    *)
(* Package generations are numbered from 1; 0 is an absent tree.  Requests  *)
(* are valid, the base directory exists, and nobody else edits the files.   *)
(***************************************************************************)
EXTENDS EnrollmentAdapter, FiniteSets

CONSTANTS
  Procs,          \* process identifiers
  MaxGeneration,  \* bound: package upgrades
  MaxMishaps      \* bound: kills, and calls and writes that fail

Objects == {"backend", "desktop", "metadata", "observation"}
Trees == {"backend", "desktop"}

Phases == {"STARTED", "DISABLED", "PLUGIN_QUARANTINING", "PLUGIN_QUARANTINED",
           "ADAPTER_RESTORED", "QUARANTINING", "QUARANTINED"}
Metadata == [generation : Nat, sealed : BOOLEAN, reload : BOOLEAN]
Journals == [operation : {"unenroll", "rollback"}, phase : Phases, objects : SUBSET Objects,
             result : {None, "QUARANTINED", "MANUAL_RECOVERY_REQUIRED"}, generation : Nat,
             directory : BOOLEAN]
LockFiles == [inode : Nat, private : BOOLEAN]

ASSUME EnrollmentAssumption ==
  /\ Targets # {} /\ Procs # {} /\ IsFiniteSet(Procs)
  /\ MaxGeneration \in Nat \ {0}
  /\ MaxMishaps \in Nat
  /\ None \notin Targets \cup Procs \cup Nat
  /\ None \notin Metadata \cup Journals \cup LockFiles

VARIABLES
  package,   \* the generation under /usr/share
  disk,      \* what each account's transaction keeps and installs
  lockFile,  \* enrollment.lock: an inode and whether its mode is 0600
  fd,        \* the lock inode each process has open
  pc, job,   \* where each process is, and what it was asked and found
  mishaps

processVars == <<fd, pc, job>>
vars == <<adapterVars, package, disk, lockFile, processVars, mishaps>>

Inodes == 1..(Cardinality(Procs) + 1)

(* Steps of the two transactions, named for what the process does next.  The *)
(* rollback chain ends apply's failed prepare as well as unenroll.           *)
RollbackSteps == {"deauthorize", "restore", "leave", "unconfigure", "epoch"}
PrepareSteps == {"authorize", "join", "dropin", "manage"}
ApplySteps == {"stage", "aside", "publish", "desktop aside", "desktop publish",
               "metadata unsealed", "prepare", "first snapshot", "snapshot", "seal", "enable",
               "decide", "token", "attest", "record", "answer"} \cup PrepareSteps
UnenrollSteps == {"disable", "disabled", "plugins away", "rollback", "restored",
                  "quarantined"} \cup Objects
Unlocked == {"idle", "open", "wait"}
Undoing == {"unlink", "clean", "failed"}
Steps == Unlocked \cup {"begin"} \cup ApplySteps \cup UnenrollSteps \cup RollbackSteps
         \cup Undoing

(* Of each account: the trees installed and set aside by generation (0 when  *)
(* there is none), unfinished stages, metadata [generation, sealed, reload], *)
(* the adapter's last observation ("verified": an attestation whose nonce    *)
(* the metadata holds; "attested": one it does not hold yet; "other": the    *)
(* result of another action), the journal [operation, phase, result,         *)
(* objects, generation, whether its quarantine has a directory] and what is  *)
(* in the quarantine.                                                        *)
EmptyDisk == [root |-> FALSE, tree |-> [k \in Trees |-> 0], prior |-> [k \in Trees |-> 0],
              stages |-> {}, metadata |-> None, observation |-> "none",
              journal |-> None, quarantine |-> {}]

Init ==
  /\ AdapterInit
  /\ package = 1
  /\ disk = [t \in Targets |-> EmptyDisk]
  /\ lockFile = None
  /\ fd = [p \in Procs |-> None]
  /\ pc = [p \in Procs |-> "idle"]
  /\ job = [p \in Procs |-> None]
  /\ mishaps = 0

----
(* How a step of a process is put together.                                 *)

Target(p) == job[p].target
Disk(p) == disk[Target(p)]

Go(p, from, to) ==
  /\ pc[p] \in from
  /\ pc' = [pc EXCEPT ![p] = to]
  /\ UNCHANGED <<job, fd, lockFile, package>>

(* The process ends and its descriptors close, which releases the lock.      *)
Finish(p, from) ==
  /\ pc[p] \in from
  /\ pc' = [pc EXCEPT ![p] = "idle"]
  /\ job' = [job EXCEPT ![p] = None]
  /\ fd' = [fd EXCEPT ![p] = None]
  /\ UNCHANGED <<lockFile, package>>

Smoothly == UNCHANGED mishaps

Mishap ==
  /\ mishaps < MaxMishaps
  /\ mishaps' = mishaps + 1

Keep(p, d) ==
  /\ disk' = [disk EXCEPT ![Target(p)] = d]
  /\ UNCHANGED adapterVars

NoWrite == UNCHANGED <<disk, adapterVars>>
DiskKept == UNCHANGED disk

----
(* The lock.                                                                *)

Holds(p) == pc[p] \notin Unlocked

FreshInode ==
  CHOOSE i \in Inodes : /\ \A p \in Procs : fd[p] # i
                        /\ lockFile # None => lockFile.inode # i

(* apply looks at the disk before it has the lock: whether the account is    *)
(* enrolled, and whether the lock and the account's directory will be its own.*)
StartApply(p, t, restart) ==
  LET enrolled == disk[t].metadata # None
  IN /\ pc[p] = "idle"
     /\ pc' = [pc EXCEPT ![p] = "open"]
     /\ job' = [job EXCEPT ![p] =
          [verb |-> "apply", target |-> t, restart |-> restart, generation |-> package,
           existing |-> enrolled, madeLock |-> ~enrolled /\ lockFile = None,
           madeRoot |-> ~disk[t].root, absent |-> FALSE, reattest |-> FALSE]]
     /\ disk' = [disk EXCEPT ![t].root = TRUE]
     /\ Smoothly
     /\ UNCHANGED <<adapterVars, package, lockFile, fd>>

StartUnenroll(p, t) ==
  /\ pc[p] = "idle"
  /\ pc' = [pc EXCEPT ![p] = "open"]
  /\ job' = [job EXCEPT ![p] =
       [verb |-> "unenroll", target |-> t, restart |-> FALSE, generation |-> package,
        existing |-> FALSE, madeLock |-> FALSE, madeRoot |-> FALSE,
        absent |-> FALSE, reattest |-> FALSE]]
  /\ disk' = [disk EXCEPT ![t].root = TRUE]
  /\ Smoothly
  /\ UNCHANGED <<adapterVars, package, lockFile, fd>>

(* Both create a missing lock, except an apply that saw an enrollment.       *)
CreateLock(p) ==
  /\ pc[p] = "open"
  /\ lockFile = None
  /\ ~job[p].existing
  /\ pc' = [pc EXCEPT ![p] = "wait"]
  /\ lockFile' = [inode |-> FreshInode, private |-> job[p].verb = "apply"]
  /\ fd' = [fd EXCEPT ![p] = FreshInode]
  /\ Smoothly /\ NoWrite /\ UNCHANGED <<job, package>>

(* unenroll opens the lock with "a+b" under the usual umask 022, whatever    *)
(* its mode; apply takes only a private one.                                 *)
OpenLock(p) ==
  /\ pc[p] = "open"
  /\ lockFile # None
  /\ lockFile.private \/ job[p].verb = "unenroll"
  /\ pc' = [pc EXCEPT ![p] = "wait"]
  /\ fd' = [fd EXCEPT ![p] = lockFile.inode]
  /\ Smoothly /\ NoWrite /\ UNCHANGED <<job, lockFile, package>>

InvalidLock(p) ==
  /\ pc[p] = "open"
  /\ job[p].verb = "apply"
  /\ IF lockFile = None THEN job[p].existing ELSE ~lockFile.private
  /\ Finish(p, {"open"})
  /\ Smoothly /\ NoWrite

Acquire(p) ==
  /\ \A q \in Procs \ {p} : Holds(q) => fd[q] # fd[p]
  /\ Go(p, {"wait"}, "begin")
  /\ Smoothly /\ NoWrite

----
(* apply, with the lock: what assess found decides.                         *)

Installed(p) ==
  /\ Disk(p).metadata # None
  /\ Disk(p).metadata.sealed
  /\ Disk(p).metadata.generation = job[p].generation
  /\ Disk(p).tree["backend"] = job[p].generation

NeedsReload(p) == Installed(p) /\ Disk(p).metadata.reload
Settled(p) ==
  /\ Installed(p)
  /\ ~Disk(p).metadata.reload
  /\ Disk(p).observation = "verified"

(* Mutant: only an unfinished unenrollment fences. *)
FencedByUnenroll(t) == disk[t].journal # None /\ disk[t].journal.operation = "unenroll"

Fenced(t) == disk[t].journal # None

(* A stage or a prior generation that an earlier apply left.                 *)
Leftover(p) == p \in Disk(p).stages \/ Disk(p).prior["backend"] # 0

Beginning(p, verb) == pc[p] = "begin" /\ job[p].verb = verb

AnswerApply(p) ==
  /\ Beginning(p, "apply")
  /\ Fenced(Target(p)) \/ Settled(p) \/ (NeedsReload(p) /\ ~job[p].restart)
  /\ Finish(p, {"begin"})
  /\ Smoothly /\ NoWrite

BeginApply(p, next) ==
  /\ pc' = [pc EXCEPT ![p] = next]
  /\ job' = [job EXCEPT
       ![p].reattest = NeedsReload(p),
       ![p].absent = Disk(p).metadata = None /\ Disk(p).tree["backend"] = 0]
  /\ Smoothly /\ NoWrite /\ UNCHANGED <<fd, lockFile, package>>

Apply(p) ==
  /\ Beginning(p, "apply")
  /\ ~Fenced(Target(p))
  /\ ~Settled(p)
  /\ NeedsReload(p) => job[p].restart
  /\ BeginApply(p, IF NeedsReload(p) THEN "token"
                   ELSE IF Leftover(p) THEN "failed" ELSE "stage")

----
(* apply: the trees.  Once the target tree moves, nothing is undone.        *)

Stage(p) ==
  /\ Go(p, {"stage"}, "aside")
  /\ Disk(p).root
  /\ Keep(p, [Disk(p) EXCEPT !.stages = @ \cup {p}])
  /\ Smoothly

(* The copy fails, before or after it made the stage directory, or the       *)
(* target tree cannot be moved.  It always fails when another apply of the   *)
(* account has removed the directory meanwhile.                              *)
StageFails(p) ==
  /\ Go(p, {"stage", "aside"}, "unlink")
  /\ IF Disk(p).root THEN Mishap ELSE Smoothly
  /\ \/ NoWrite
     \/ Disk(p).root /\ Keep(p, [Disk(p) EXCEPT !.stages = @ \cup {p}])

(* An apply that found no enrollment removes what it created, the lock first.*)
UnlinkLock(p) ==
  /\ pc[p] = "unlink"
  /\ pc' = [pc EXCEPT ![p] = "clean"]
  /\ lockFile' = IF job[p].absent /\ job[p].madeLock THEN None ELSE lockFile
  /\ Smoothly /\ NoWrite /\ UNCHANGED <<job, fd, package>>

(* rmdir fails on a directory that still holds the stage, which then stays:  *)
(* rmtree of the stage comes last.  What apply did not create is kept.       *)
Clean(p) ==
  LET removes == job[p].absent /\ job[p].madeRoot
      bare == Disk(p) = [EmptyDisk EXCEPT !.root = TRUE]
  IN /\ Finish(p, {"clean"})
     /\ CASE removes /\ bare  -> Keep(p, EmptyDisk)
          [] removes /\ ~bare -> NoWrite
          [] OTHER            -> Keep(p, [Disk(p) EXCEPT !.stages = @ \ {p}])
     /\ Smoothly

SetAside(p, tree) ==
  LET old == Disk(p).tree[tree]
  IN [Disk(p) EXCEPT !.tree[tree] = 0,
                     !.prior[tree] = IF old = 0 THEN @ ELSE old]

Aside(p) ==
  /\ Go(p, {"aside"}, "publish")
  /\ Keep(p, SetAside(p, "backend"))
  /\ Smoothly

Publish(p) ==
  /\ Go(p, {"publish"}, "desktop aside")
  /\ Keep(p, [Disk(p) EXCEPT !.tree["backend"] = job[p].generation, !.stages = @ \ {p}])
  /\ Smoothly

DesktopAside(p) ==
  /\ \/ /\ Go(p, {"desktop aside"}, "desktop publish")
        /\ Disk(p).prior["desktop"] = 0
        /\ Keep(p, SetAside(p, "desktop"))
     \/ /\ Go(p, {"desktop aside"}, "failed")
        /\ Disk(p).prior["desktop"] # 0
        /\ NoWrite
  /\ Smoothly

DesktopPublish(p) ==
  /\ Go(p, {"desktop publish"}, "metadata unsealed")
  /\ Keep(p, [Disk(p) EXCEPT !.tree["desktop"] = job[p].generation])
  /\ Smoothly

WriteMetadata(p, sealed, reload, observation) ==
  Keep(p, [Disk(p) EXCEPT
             !.metadata = [generation |-> job[p].generation, sealed |-> sealed,
                           reload |-> reload],
             !.observation = observation])

MetadataUnsealed(p) ==
  /\ Go(p, {"metadata unsealed"}, "prepare")
  /\ WriteMetadata(p, FALSE, FALSE, Disk(p).observation)
  /\ Smoothly

----
(* apply: the adapter's prepare, enable and attest.                         *)

Prepare(p) ==
  \/ /\ Verified
     /\ Go(p, {"prepare"}, IF baseline = None THEN "first snapshot" ELSE "snapshot")
     /\ TakeBaseline
     /\ DiskKept /\ Smoothly
  \/ /\ ~Verified
     /\ Go(p, {"prepare"}, "failed")
     /\ NoWrite /\ Smoothly

Snapshot(p) ==
  /\ Go(p, {"first snapshot", "snapshot"}, "authorize")
  /\ TakeSnapshot(Target(p), job[p].generation)
  /\ DiskKept /\ Smoothly

(* Without the snapshot, a prepare that has just taken the baseline removes  *)
(* it; with one, nothing is undone, which is Fail.                           *)
SnapshotFails(p) ==
  /\ Mishap
  /\ Go(p, {"first snapshot"}, "failed")
  /\ DropBaseline(Target(p))
  /\ DiskKept

ChangeHost(p) ==
  /\ \/ Go(p, {"authorize"}, "join") /\ Authorize(Target(p))
     \/ Go(p, {"join"}, "dropin") /\ Join(Target(p))
     \/ Go(p, {"dropin"}, "manage") /\ WriteDropin(job[p].generation, FALSE)
     \/ Go(p, {"manage"}, "seal") /\ RecordManaged
  /\ DiskKept /\ Smoothly

(* An exception in those four steps: prepare undoes them itself.             *)
PrepareUndoes(p) ==
  /\ Mishap
  /\ Go(p, PrepareSteps, "deauthorize")
  /\ NoWrite

(* The parent keeps the result of prepare and seals the two configurations   *)
(* that it computed.                                                         *)
Seal(p) ==
  /\ Go(p, {"seal"}, "enable")
  /\ WriteMetadata(p, TRUE, FALSE, "other")
  /\ Smoothly

Enable(p) ==
  /\ Go(p, {"enable"}, "decide")
  /\ SetPlugin(Target(p), "enabled")
  /\ DiskKept /\ Smoothly

Decide(p) ==
  \/ /\ Go(p, {"decide"}, "token")
     /\ job[p].restart
     /\ NoWrite /\ Smoothly
  \/ /\ Go(p, {"decide"}, "answer")
     /\ ~job[p].restart
     /\ WriteMetadata(p, TRUE, TRUE, "other")
     /\ Smoothly

Token(p) ==
  /\ Go(p, {"token"}, "attest")
  /\ WriteDropin(job[p].generation, TRUE)
  /\ DiskKept /\ Smoothly

(* The gateway shows the event of the token; the drop-in loses the token     *)
(* before the observation is kept.                                           *)
Attest(p) ==
  /\ Go(p, {"attest"}, "record")
  /\ Attestable(Target(p))
  /\ WriteDropin(job[p].generation, FALSE)
  /\ disk' = [disk EXCEPT ![Target(p)].observation = "attested"]
  /\ Smoothly

(* Deadlines and failed read-backs; a kill instead of the cleanup is Fail.   *)
AttestFails(p) ==
  /\ Go(p, {"attest"}, "failed")
  /\ IF Attestable(Target(p)) THEN Mishap ELSE Smoothly
  /\ WriteDropin(job[p].generation, FALSE)
  /\ DiskKept

Record(p) ==
  /\ Go(p, {"record"}, "answer")
  /\ WriteMetadata(p, TRUE, FALSE, "verified")
  /\ Smoothly

Answer(p) ==
  /\ Finish(p, {"answer"})
  /\ Smoothly /\ NoWrite

----
(* unenroll: what the lock's owner finds.                                   *)

(* The journal may be resumed only with its own package generation, and,     *)
(* before the plugin is disabled, with the sealed metadata of the enrollment.*)
Contract(p) ==
  /\ Disk(p).metadata # None
  /\ Disk(p).metadata.sealed
  /\ Disk(p).metadata.generation = job[p].generation

MayUnenroll(p) ==
  /\ ~Fenced(Target(p))
  /\ Contract(p)
  /\ Disk(p).tree["backend"] = job[p].generation
  /\ Disk(p).tree["desktop"] \in {0, job[p].generation}

(* A rollback journal names no quarantine, and that of an unenrollment that  *)
(* could not make its directory an absent one: neither is ever resumed.      *)
MayResume(p) ==
  /\ Fenced(Target(p))
  /\ Disk(p).journal.generation = job[p].generation
  /\ Disk(p).journal.operation = "unenroll" /\ Disk(p).journal.directory
  /\ Disk(p).journal.phase = "STARTED" => Contract(p)

(* Mutant: the second quarantine is entered only from its own phase. *)
ResumeAtMisses(phase) ==
  CASE phase = "STARTED"                              -> "disable"
    [] phase \in {"DISABLED", "PLUGIN_QUARANTINING"}  -> "backend"
    [] phase = "PLUGIN_QUARANTINED"                   -> "rollback"
    [] phase = "QUARANTINING"                         -> "metadata"
    [] OTHER                                          -> "answer"

(* Mutant: a repetition takes the rollback of the host for done. *)
ResumeAtSkips(phase) ==
  CASE phase = "STARTED"                              -> "disable"
    [] phase \in {"DISABLED", "PLUGIN_QUARANTINING"}  -> "backend"
    [] phase = "QUARANTINED"                          -> "answer"
    [] OTHER                                          -> "metadata"

ResumeAt(phase) ==
  CASE phase = "STARTED"                              -> "disable"
    [] phase \in {"DISABLED", "PLUGIN_QUARANTINING"}  -> "backend"
    [] phase = "PLUGIN_QUARANTINED"                   -> "rollback"
    [] phase \in {"ADAPTER_RESTORED", "QUARANTINING"} -> "metadata"
    [] phase = "QUARANTINED"                          -> "answer"

AnswerUnenroll(p) ==
  /\ Beginning(p, "unenroll")
  /\ ~MayUnenroll(p) /\ ~MayResume(p)
  /\ Finish(p, {"begin"})
  /\ Smoothly /\ NoWrite

BeginUnenroll(p) ==
  /\ Beginning(p, "unenroll")
  /\ MayUnenroll(p)
  /\ Go(p, {"begin"}, "disable")
  /\ Keep(p, [Disk(p) EXCEPT !.journal =
       [operation |-> "unenroll", phase |-> "STARTED", result |-> None,
        objects |-> {}, generation |-> job[p].generation, directory |-> TRUE]])
  /\ Smoothly

(* The directory cannot be made, and the failure is journaled all the same.  *)
(* Later it is Fail.                                                         *)
BeginUnenrollFails(p) ==
  /\ Mishap
  /\ Beginning(p, "unenroll")
  /\ MayUnenroll(p)
  /\ Finish(p, {"begin"})
  /\ Keep(p, [Disk(p) EXCEPT !.journal =
       [operation |-> "unenroll", phase |-> "STARTED", result |-> "MANUAL_RECOVERY_REQUIRED",
        objects |-> {}, generation |-> job[p].generation, directory |-> FALSE]])

Resume(p) ==
  /\ Beginning(p, "unenroll")
  /\ MayResume(p)
  /\ Go(p, {"begin"}, ResumeAt(Disk(p).journal.phase))
  /\ Smoothly /\ NoWrite

----
(* unenroll: the phases.                                                    *)

Phase(p, phase) == Keep(p, [Disk(p) EXCEPT !.journal.phase = phase])

(* The adapter disables only the configuration that was sealed as enabled.   *)
Disable(p) ==
  /\ \/ /\ Go(p, {"disable"}, "disabled")
        /\ hermes[Target(p)] = "enabled"
        /\ SetPlugin(Target(p), "disabled")
        /\ DiskKept
     \/ /\ Go(p, {"disable"}, "failed")
        /\ hermes[Target(p)] # "enabled"
        /\ NoWrite
  /\ Smoothly

Disabled(p) ==
  /\ Go(p, {"disabled"}, "backend")
  /\ Keep(p, [Disk(p) EXCEPT !.journal.phase = "DISABLED", !.observation = "other"])
  /\ Smoothly

Present(p, object) ==
  CASE object \in Trees         -> Disk(p).tree[object] # 0
    [] object = "metadata"      -> Disk(p).metadata # None
    [] object = "observation"   -> Disk(p).observation # "none"

Detached(p, object) ==
  CASE object \in Trees       -> [Disk(p) EXCEPT !.tree[object] = 0]
    [] object = "metadata"    -> [Disk(p) EXCEPT !.metadata = None]
    [] object = "observation" -> [Disk(p) EXCEPT !.observation = "none"]

(* Mutant: the desktop plugin is forgotten. *)
NextStepForgets(object) ==
  CASE object = "backend"     -> "plugins away"
    [] object = "metadata"    -> "observation"
    [] object = "observation" -> "quarantined"

NextStep(object) ==
  CASE object = "backend"     -> "desktop"
    [] object = "desktop"     -> "plugins away"
    [] object = "metadata"    -> "observation"
    [] object = "observation" -> "quarantined"

Recorded(p, object) == object \in Disk(p).journal.objects

(* The journal names an object before it moves.  An object that is in its    *)
(* place and in the quarantine would be a collision: it takes two lock owners.*)
RecordObject(p) ==
  LET object == pc[p]
  IN /\ object \in Objects
     /\ Present(p, object) /\ ~Recorded(p, object)
     /\ Keep(p, [Disk(p) EXCEPT
                   !.journal.objects = @ \cup {object},
                   !.journal.phase = IF object \in Trees THEN "PLUGIN_QUARANTINING"
                                     ELSE "QUARANTINING"])
     /\ Smoothly
     /\ UNCHANGED <<processVars, lockFile, package>>

(* Mutant: the object moves first and is named afterwards. *)
MoveUnrecorded(p) ==
  LET object == pc[p]
  IN /\ object \in Objects
     /\ Present(p, object)
     /\ disk' = [disk EXCEPT ![Target(p)] =
          [Detached(p, object) EXCEPT !.quarantine = @ \cup {object}]]
     /\ Smoothly
     /\ UNCHANGED <<adapterVars, processVars, lockFile, package>>

MoveObject(p) ==
  LET object == pc[p]
  IN /\ object \in Objects
     /\ Present(p, object) /\ Recorded(p, object)
     /\ disk' = [disk EXCEPT ![Target(p)] =
          [Detached(p, object) EXCEPT !.quarantine = @ \cup {object}]]
     /\ Smoothly
     /\ UNCHANGED <<adapterVars, processVars, lockFile, package>>

NextObject(p) ==
  /\ pc[p] \in Objects
  /\ ~Present(p, pc[p])
  /\ Go(p, Objects, NextStep(pc[p]))
  /\ Smoothly /\ NoWrite

PluginsAway(p) ==
  /\ Go(p, {"plugins away"}, "rollback")
  /\ Phase(p, "PLUGIN_QUARANTINED")
  /\ Smoothly

Rollback(p) ==
  /\ Go(p, {"rollback"}, IF MayRollBack(Target(p), job[p].generation) THEN "deauthorize"
                         ELSE "failed")
  /\ Smoothly /\ NoWrite

RollBackHost(p) ==
  /\ LET t == Target(p)
     IN \/ Go(p, {"deauthorize"}, "restore") /\ Deauthorize(t)
        \/ Go(p, {"restore"}, "leave") /\ RestoreDropin(t)
        \/ Go(p, {"leave"}, "unconfigure") /\ Leave(t)
        \/ Go(p, {"unconfigure"}, "epoch") /\ RestoreHermes(t)
        \/ /\ Go(p, {"epoch"}, IF job[p].verb = "apply" THEN "failed" ELSE "restored")
           /\ EpochClean(t)
           /\ RecordManaged
        \/ /\ Go(p, {"epoch"}, "failed")
           /\ ~EpochClean(t)
           /\ UNCHANGED adapterVars
  /\ DiskKept /\ Smoothly

Restored(p) ==
  /\ Go(p, {"restored"}, "metadata")
  /\ Keep(p, [Disk(p) EXCEPT !.journal.phase = "ADAPTER_RESTORED",
                            !.observation = "other"])
  /\ Smoothly

Quarantined(p) ==
  /\ Go(p, {"quarantined"}, "answer")
  /\ Keep(p, [Disk(p) EXCEPT !.journal.phase = "QUARANTINED",
                            !.journal.result = "QUARANTINED"])
  /\ Smoothly

----
(* Failures.                                                                *)

(* A call or a write fails, or an adapter is killed at its timeout.  Inside  *)
(* attest and prepare that is the kill, or what nothing undoes.              *)
Fail(p) ==
  /\ Mishap
  /\ Go(p, UnenrollSteps \cup RollbackSteps \cup (ApplySteps \ {"stage", "aside"}),
        "failed")
  /\ NoWrite

(* apply records that it gave up; a failed reattestation only says so.       *)
Failed(p) ==
  /\ Finish(p, {"failed"})
  /\ CASE job[p].verb = "unenroll" ->
            Keep(p, [Disk(p) EXCEPT !.journal.result = "MANUAL_RECOVERY_REQUIRED"])
       [] job[p].verb = "apply" /\ job[p].reattest -> NoWrite
       [] OTHER ->
            Keep(p, [Disk(p) EXCEPT !.journal =
              [operation |-> "rollback", phase |-> "STARTED",
               result |-> "MANUAL_RECOVERY_REQUIRED", objects |-> {},
               generation |-> job[p].generation, directory |-> FALSE]])
  /\ Smoothly

(* The process is killed; the journal of a failure that cannot be written    *)
(* ends the same way.                                                        *)
Crash(p) ==
  /\ Mishap
  /\ Finish(p, Steps \ {"idle"})
  /\ NoWrite

(* A package upgrade, between transactions. *)
Upgrade ==
  /\ \A p \in Procs : pc[p] = "idle"
  /\ package < MaxGeneration
  /\ package' = package + 1
  /\ Smoothly /\ NoWrite /\ UNCHANGED <<lockFile, processVars>>

----
Lock(p) == CreateLock(p) \/ OpenLock(p) \/ InvalidLock(p) \/ Acquire(p)

ApplyStep(p) ==
  \/ AnswerApply(p) \/ Apply(p) \/ Stage(p) \/ StageFails(p) \/ UnlinkLock(p)
  \/ Clean(p) \/ Aside(p) \/ Publish(p) \/ DesktopAside(p) \/ DesktopPublish(p)
  \/ MetadataUnsealed(p) \/ Prepare(p) \/ Snapshot(p) \/ ChangeHost(p) \/ Seal(p) \/ Enable(p)
  \/ Decide(p) \/ Token(p) \/ Attest(p) \/ AttestFails(p) \/ Record(p)

UnenrollStep(p) ==
  \/ AnswerUnenroll(p) \/ BeginUnenroll(p) \/ Resume(p) \/ Disable(p) \/ Disabled(p)
  \/ RecordObject(p) \/ MoveObject(p) \/ NextObject(p)
  \/ PluginsAway(p) \/ Rollback(p) \/ Restored(p) \/ Quarantined(p)

Step(p) ==
  \/ Lock(p) \/ ApplyStep(p) \/ UnenrollStep(p) \/ RollBackHost(p)
  \/ Answer(p) \/ Failed(p)

GoesWrong(p) ==
  \/ SnapshotFails(p) \/ PrepareUndoes(p) \/ BeginUnenrollFails(p) \/ Fail(p) \/ Crash(p)

Next ==
  \/ \E p \in Procs :
       \/ Step(p) \/ GoesWrong(p)
       \/ \E t \in Targets : StartUnenroll(p, t)
       \/ \E t \in Targets, restart \in BOOLEAN : StartApply(p, t, restart)
  \/ Upgrade

Spec == Init /\ [][Next]_vars

(* A process that has started runs on, and the operator repeats an           *)
(* unenrollment until it ends.                                               *)
Fairness ==
  /\ \A p \in Procs : WF_vars(Step(p))
  /\ \A t \in Targets : SF_vars(\E p \in Procs : StartUnenroll(p, t))

FairSpec == Spec /\ Fairness

----
(* Properties.                                                              *)

Unenrolling(t) == disk[t].journal # None /\ disk[t].journal.operation = "unenroll"
Enrolled(t) ==
  /\ disk[t].journal = None
  /\ disk[t].metadata # None
  /\ disk[t].metadata.sealed
  /\ disk[t].observation = "verified"

(* After a failed apply wrote its journal, no transaction changes anything   *)
(* of that account: not its trees, records and evidence, nor its Hermes      *)
(* configuration, its group membership or its authorization.                 *)
RollbackFences ==
  [][\A t \in Targets :
       disk[t].journal # None /\ disk[t].journal.operation = "rollback" =>
         /\ disk'[t] = disk[t]
         /\ hermes'[t] = hermes[t] /\ snapshot'[t] = snapshot[t]
         /\ (t \in members' <=> t \in members) /\ (t \in config' <=> t \in config)]_vars

(* Whatever was moved to a quarantine, the journal on disk names it, however *)
(* the process that moved it ended.                                          *)
QuarantineIsNamed ==
  \A t \in Targets : disk[t].quarantine # {} =>
    Unenrolling(t) /\ disk[t].quarantine \subseteq disk[t].journal.objects

(* The plugin's trees are detached before the account loses the              *)
(* authorization that they run under.                                        *)
PluginsLeaveFirst ==
  \A t \in Targets \ InitialUids : Unenrolling(t) /\ t \notin config =>
    \A k \in Trees : disk[t].tree[k] = 0

(* A finished unenrollment left nothing of the account enrolled: no tree, no *)
(* record, no authorization, no membership it was given, no plugin entry.    *)
UnenrollIsComplete ==
  \A t \in Targets : Unenrolling(t) /\ disk[t].journal.phase = "QUARANTINED" =>
    /\ \A k \in Trees : disk[t].tree[k] = 0
    /\ disk[t].metadata = None /\ disk[t].observation = "none"
    /\ t \notin config \ InitialUids
    /\ t \in members <=> t \in InitialMembers
    /\ hermes[t] = "plain"

(* An account that apply reported ENROLLED keeps its authorization, its      *)
(* membership and its plugin, whatever happens to another account.           *)
EnrollmentLasts ==
  \A t \in Targets : Enrolled(t) =>
    t \in config /\ t \in members /\ hermes[t] = "enabled"

(* Once the host is restored, the rest of an unenrollment can be repeated    *)
(* until it ends, unless the package changed meanwhile.                      *)
QuarantineEnds ==
  \A t \in Targets :
    (Unenrolling(t) /\ disk[t].journal.phase \in {"ADAPTER_RESTORED", "QUARANTINING"})
      ~> (Unenrolling(t) /\ \/ disk[t].journal.phase = "QUARANTINED"
                            \/ disk[t].journal.generation # package)

====
