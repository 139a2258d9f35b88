---- MODULE Enrollment_proofs ----
(***************************************************************************)
(* Theorems about Enrollment.  They are about executions in which the lock *)
(* excludes: at most one process is inside a transaction.  It does as long *)
(* as no failed apply unlinks the lock file it created (LockIsExclusive),  *)
(* and for ever once the file is there and nobody runs (LockLasts).        *)
(*                                                                         *)
(* EnrollmentInvariant says of each account what its records, its journal  *)
(* and its trees tell of each other, and of a process inside a transaction *)
(* what the steps it took have established.  A step reaches no account but *)
(* its own and no process but its own (Sound), so each action is proved    *)
(* for one account and one process, and SoundStep does the rest.           *)
(***************************************************************************)
EXTENDS Enrollment, FiniteSetTheorems, TLAPS

(* At most one process is inside a transaction.                             *)
LockExcludes == \A p, q \in Procs : Holds(p) /\ Holds(q) => p = q

----
(* Types.                                                                   *)
Observations == {"none", "other", "attested", "verified"}

Disks ==
  [root : BOOLEAN, tree : [Trees -> Nat], prior : [Trees -> Nat], stages : SUBSET Procs,
   metadata : {None} \cup Metadata, observation : Observations,
   journal : {None} \cup Journals, quarantine : SUBSET Objects]

Jobs ==
  [verb : {"apply", "unenroll"}, target : Targets, restart : BOOLEAN, generation : Nat,
   existing : BOOLEAN, madeLock : BOOLEAN, madeRoot : BOOLEAN, absent : BOOLEAN,
   reattest : BOOLEAN]

AdapterTyped ==
  /\ config \in SUBSET Targets
  /\ dropin \in Dropins
  /\ members \in SUBSET Targets
  /\ hermes \in [Targets -> {"plain", "enabled", "disabled"}]
  /\ baseline \in {None} \cup SharedFiles
  /\ managed \in {None} \cup SharedFiles
  /\ snapshot \in [Targets -> {None} \cup Snapshots]

TypeOK ==
  /\ AdapterTyped
  /\ package \in Nat
  /\ disk \in [Targets -> Disks]
  /\ pc \in [Procs -> Steps]
  /\ \A p \in Procs : pc[p] # "idle" => job[p] \in Jobs
  /\ job \in [Procs -> {None} \cup Jobs]

----
(* The inductive invariant: what holds of an account, of the files that all *)
(* accounts share, and of a process inside a transaction.                   *)

NoTrees(t) == \A k \in Trees : disk[t].tree[k] = 0

Sealed(t) == disk[t].metadata # None /\ disk[t].metadata.sealed

Admitted(t) == t \in config /\ t \in members /\ snapshot[t] # None

(* What the adapter keeps of an account is what the account was before it.  *)
RecordsHold(t) ==
  /\ t \in InitialMembers => t \in members
  /\ snapshot[t] = None =>
       hermes[t] = "plain" /\ (t \in members => t \in InitialMembers)
  /\ snapshot[t] # None =>
       snapshot[t].hermes = "plain" /\ (snapshot[t].member <=> t \in InitialMembers)

(* Without a directory there is nothing; what is sealed was admitted.       *)
DiskHolds(t) ==
  /\ disk[t].root \/ disk[t] = EmptyDisk
  /\ disk[t].quarantine # {} =>
       Unenrolling(t) /\ disk[t].quarantine \subseteq disk[t].journal.objects
  /\ disk[t].journal = None /\ Sealed(t) =>
       /\ Admitted(t)
       /\ disk[t].metadata.reload \/ disk[t].observation = "verified" => hermes[t] = "enabled"

LeftHost(t) == t \notin config /\ t \notin members /\ hermes[t] = "plain"

(* How far an unenrollment has come, by the phase of its journal.           *)
PhaseHolds(t) ==
  Unenrolling(t) =>
    /\ t \in config \/ NoTrees(t)
    /\ disk[t].journal.phase \notin {"STARTED", "DISABLED", "PLUGIN_QUARANTINING"} => NoTrees(t)
    /\ disk[t].journal.phase \in {"ADAPTER_RESTORED", "QUARANTINING", "QUARANTINED"} => LeftHost(t)
    /\ disk[t].journal.phase = "QUARANTINED" =>
         disk[t].metadata = None /\ disk[t].observation = "none"

AccountHolds(t) == RecordsHold(t) /\ DiskHolds(t) /\ PhaseHolds(t)

(* An account without a snapshot is authorized as it was at the baseline.   *)
BaselineHolds ==
  \A t \in Targets :
    IF baseline = None THEN snapshot[t] = None
    ELSE snapshot[t] = None => (t \in config <=> t \in baseline.config)

(* A process inside a transaction, by where it is.                          *)
Rooted(p) == pc[p] \notin {"begin", "stage", "unlink", "clean"} => Disk(p).root

ApplyHolds(p) ==
  LET t == Target(p)
  IN /\ pc[p] \in {"begin"} \cup ApplySteps \cup RollbackSteps \cup Undoing
     /\ pc[p] # "begin" => disk[t].journal = None
     /\ pc[p] \in {"prepare", "first snapshot", "snapshot", "seal"} \cup PrepareSteps
                   \cup RollbackSteps => ~Sealed(t)
     /\ pc[p] \in {"first snapshot", "snapshot"} => baseline # None
     /\ pc[p] = "first snapshot" => \A u \in Targets : snapshot[u] = None
     /\ pc[p] \in PrepareSteps \cup RollbackSteps \cup {"seal"} => snapshot[t] # None
     /\ pc[p] \in {"join", "dropin", "manage", "seal"} => t \in config
     /\ pc[p] \in {"dropin", "manage", "seal"} => t \in members
     /\ pc[p] \in {"enable", "decide", "record"} => Admitted(t)
     /\ pc[p] \in {"decide", "record"} => hermes[t] = "enabled"

UnenrollHolds(p) ==
  LET t == Target(p)
  IN /\ pc[p] \in {"begin", "failed", "answer"} \cup UnenrollSteps \cup RollbackSteps
     /\ pc[p] # "begin" => Unenrolling(t)
     /\ pc[p] = "desktop" => disk[t].tree["backend"] = 0
     /\ pc[p] \in {"plugins away", "rollback", "restored", "metadata", "observation",
                   "quarantined"} \cup RollbackSteps => NoTrees(t)
     /\ pc[p] \in {"rollback"} \cup RollbackSteps => disk[t].journal.phase = "PLUGIN_QUARANTINED"
     /\ pc[p] \in RollbackSteps => snapshot[t] # None
     /\ pc[p] = "epoch" => hermes[t] = "plain"
     /\ pc[p] \in {"restored", "metadata", "observation", "quarantined"} => LeftHost(t)
     /\ pc[p] \in {"observation", "quarantined"} => disk[t].metadata = None
     /\ pc[p] = "quarantined" => disk[t].observation = "none"

ProcessHolds(p) ==
  Holds(p) => /\ Rooted(p)
              /\ IF job[p].verb = "apply" THEN ApplyHolds(p) ELSE UnenrollHolds(p)

EnrollmentInvariant ==
  /\ TypeOK
  /\ BaselineHolds
  /\ \A t \in Targets : AccountHolds(t)
  /\ \A p \in Procs : ProcessHolds(p)

USE EnrollmentAssumption, AdapterAssumption
USE DEF Target, Disk, Smoothly, Mishap, NoWrite, DiskKept, Holds, Unlocked,
        adapterVars, records, processVars

----
(* How a step reaches no further than its process and its account.          *)
OnlyProcess(p) == \A q \in Procs \ {p} : pc'[q] = pc[q] /\ job'[q] = job[q]

OnlyAccount(t) ==
  \A u \in Targets \ {t} :
    /\ disk'[u] = disk[u]
    /\ hermes'[u] = hermes[u] /\ snapshot'[u] = snapshot[u]
    /\ (u \in members' <=> u \in members) /\ (u \in config' <=> u \in config)

(* What the proof of each step shows of it.                                 *)
Sound(p) ==
  /\ TypeOK'
  /\ BaselineHolds'
  /\ OnlyProcess(p)
  /\ OnlyAccount(Target(p))
  /\ \A t \in Targets : t = Target(p) => AccountHolds(t)'
  /\ ProcessHolds(p)'

LEMMA AccountIsItsOwn ==
  ASSUME NEW t \in Targets, AccountHolds(t),
         disk'[t] = disk[t], hermes'[t] = hermes[t], snapshot'[t] = snapshot[t],
         t \in members' <=> t \in members, t \in config' <=> t \in config
  PROVE  AccountHolds(t)'
BY DEF AccountHolds, RecordsHold, DiskHolds, PhaseHolds, Unenrolling, Sealed, Admitted,
       NoTrees, LeftHost

LEMMA SoundStep ==
  ASSUME EnrollmentInvariant, LockExcludes, NEW p \in Procs, Holds(p), Sound(p)
  PROVE  EnrollmentInvariant'
<1>1. \A t \in Targets : AccountHolds(t)'
  BY AccountIsItsOwn DEF EnrollmentInvariant, Sound, OnlyAccount
<1>2. ASSUME NEW q \in Procs \ {p} PROVE ProcessHolds(q)'
  BY <1>2 DEF LockExcludes, ProcessHolds, Sound, OnlyProcess
<1> QED
  BY <1>1, <1>2 DEF EnrollmentInvariant, Sound

(* The ways in which a step can end, and what each leaves as it was.        *)
LEMMA GoLeads ==
  ASSUME TypeOK, NEW p \in Procs, NEW from \in SUBSET Steps, NEW to \in Steps,
         "idle" \notin from, Go(p, from, to)
  PROVE  /\ pc[p] \in from /\ pc'[p] = to /\ job'[p] = job[p]
         /\ job[p] \in Jobs
         /\ OnlyProcess(p)
         /\ pc' \in [Procs -> Steps]
         /\ \A q \in Procs : pc'[q] # "idle" => job'[q] \in Jobs
         /\ job' \in [Procs -> {None} \cup Jobs]
         /\ package' = package
BY DEF TypeOK, Go, OnlyProcess

LEMMA FinishEnds ==
  ASSUME TypeOK, NEW p \in Procs, NEW from \in SUBSET Steps,
         "idle" \notin from, Finish(p, from)
  PROVE  /\ pc[p] \in from
         /\ job[p] \in Jobs
         /\ OnlyProcess(p)
         /\ pc' \in [Procs -> Steps]
         /\ \A q \in Procs : pc'[q] # "idle" => job'[q] \in Jobs
         /\ job' \in [Procs -> {None} \cup Jobs]
         /\ package' = package
         /\ ProcessHolds(p)'
BY DEF TypeOK, Finish, OnlyProcess, ProcessHolds, Steps

LEMMA NoWriteKeeps ==
  ASSUME EnrollmentInvariant, NEW p \in Procs, NoWrite
  PROVE  /\ AdapterTyped'
         /\ disk' \in [Targets -> Disks]
         /\ BaselineHolds'
         /\ OnlyAccount(Target(p))
         /\ \A t \in Targets : AccountHolds(t)'
<1>1. \A t \in Targets : AccountHolds(t)'
  BY AccountIsItsOwn DEF EnrollmentInvariant
<1> QED
  BY <1>1 DEF EnrollmentInvariant, TypeOK, AdapterTyped, BaselineHolds, OnlyAccount

LEMMA KeepWrites ==
  ASSUME EnrollmentInvariant, NEW p \in Procs, Target(p) \in Targets, NEW d \in Disks, Keep(p, d)
  PROVE  /\ AdapterTyped'
         /\ disk' \in [Targets -> Disks]
         /\ disk'[Target(p)] = d
         /\ BaselineHolds'
         /\ OnlyAccount(Target(p))
BY DEF EnrollmentInvariant, TypeOK, AdapterTyped, BaselineHolds, OnlyAccount, Keep

----
(* Steps that end a transaction, and steps that only go on.                 *)
LEMMA EndsSound ==
  ASSUME EnrollmentInvariant, NEW p \in Procs, NEW from \in SUBSET Steps,
         "idle" \notin from, Finish(p, from), NoWrite
  PROVE  Sound(p)
BY FinishEnds, NoWriteKeeps DEF EnrollmentInvariant, TypeOK, Sound

LEMMA GoesOnSound ==
  ASSUME EnrollmentInvariant, NEW p \in Procs, NEW from \in SUBSET Steps, NEW to \in Steps,
         "idle" \notin from, Go(p, from, to), NoWrite, ProcessHolds(p)'
  PROVE  Sound(p)
BY GoLeads, NoWriteKeeps DEF EnrollmentInvariant, TypeOK, Sound

(* Nothing is written, and where the process comes to asks for no more than  *)
(* where it was.                                                            *)
LEMMA FailedSound ==
  ASSUME EnrollmentInvariant, NEW p \in Procs, NEW from \in SUBSET Steps,
         from \intersect (Unlocked \cup {"begin", "stage", "unlink", "clean"}) = {},
         Go(p, from, "failed"), NoWrite
  PROVE  Sound(p)
<1>1. pc[p] \in from /\ pc'[p] = "failed" /\ job'[p] = job[p]
  BY GoLeads DEF EnrollmentInvariant, Steps, Undoing
<1>2. ProcessHolds(p) /\ disk' = disk /\ pc[p] \notin Unlocked
      /\ pc[p] \notin {"begin", "stage", "unlink", "clean"}
  BY <1>1 DEF EnrollmentInvariant
<1>3. Rooted(p)'
  BY <1>1, <1>2 DEF ProcessHolds, Rooted
<1>4. job[p].verb = "apply" => ApplyHolds(p)'
  BY <1>1, <1>2 DEF ProcessHolds, ApplyHolds, ApplySteps, RollbackSteps, PrepareSteps, Undoing
<1>5. job[p].verb # "apply" => UnenrollHolds(p)'
  BY <1>1, <1>2 DEF ProcessHolds, UnenrollHolds, UnenrollSteps, RollbackSteps, Objects, Unenrolling
<1>6. ProcessHolds(p)'
  BY <1>1, <1>3, <1>4, <1>5 DEF ProcessHolds
<1> QED
  BY <1>6, GoesOnSound DEF Steps, Undoing

LEMMA FailSound ==
  ASSUME EnrollmentInvariant, NEW p \in Procs, Fail(p)
  PROVE  Sound(p) /\ Holds(p)
<1> DEFINE from == UnenrollSteps \cup RollbackSteps \cup (ApplySteps \ {"stage", "aside"})
<1>1. /\ from \in SUBSET Steps
      /\ from \intersect (Unlocked \cup {"begin", "stage", "unlink", "clean"}) = {}
  BY DEF Steps, ApplySteps, UnenrollSteps, RollbackSteps, PrepareSteps, Objects
<1>2. Go(p, from, "failed") /\ NoWrite
  BY DEF Fail
<1> QED
  BY <1>1, <1>2, FailedSound DEF Go

LEMMA CrashSound ==
  ASSUME EnrollmentInvariant, NEW p \in Procs, Crash(p)
  PROVE  Sound(p)
BY EndsSound DEF Crash, Steps

LEMMA PrepareUndoesSound ==
  ASSUME EnrollmentInvariant, NEW p \in Procs, PrepareUndoes(p)
  PROVE  Sound(p) /\ Holds(p)
<1>0. PrepareSteps \in SUBSET Steps /\ "deauthorize" \in Steps /\ "idle" \notin PrepareSteps
  BY DEF Steps, ApplySteps, PrepareSteps, RollbackSteps
<1>1. pc[p] \in PrepareSteps /\ pc'[p] = "deauthorize" /\ job'[p] = job[p]
  BY <1>0, GoLeads DEF EnrollmentInvariant, PrepareUndoes
<1>2. ProcessHolds(p) /\ pc[p] \notin Unlocked /\ disk' = disk /\ snapshot' = snapshot
  BY <1>1 DEF EnrollmentInvariant, PrepareUndoes, PrepareSteps
<1>3. Rooted(p)' /\ job[p].verb = "apply" /\ ApplyHolds(p)
  BY <1>1, <1>2 DEF ProcessHolds, UnenrollHolds, Rooted, PrepareSteps, UnenrollSteps,
     RollbackSteps, Objects
<1>4. ApplyHolds(p)'
  BY <1>1, <1>2, <1>3 DEF ApplyHolds, ApplySteps, RollbackSteps, PrepareSteps, Undoing, Sealed
<1> QED
  BY <1>0, <1>1, <1>2, <1>3, <1>4, GoesOnSound DEF PrepareUndoes, ProcessHolds

----
(* apply.                                                                   *)
LEMMA Applying ==
  ASSUME EnrollmentInvariant, NEW p \in Procs,
         pc[p] \in (ApplySteps \cup {"unlink", "clean"}) \ {"answer"}
  PROVE  /\ job[p] \in Jobs /\ job[p].verb = "apply"
         /\ Target(p) \in Targets /\ Disk(p) \in Disks
         /\ Disk(p).journal = None /\ Disk(p).quarantine = {}
         /\ ApplyHolds(p) /\ Rooted(p)
         /\ AccountHolds(Target(p))
<1>1. pc[p] \notin Unlocked \cup {"begin"}
  BY DEF ApplySteps, PrepareSteps
<1>2. ProcessHolds(p) /\ job[p] \in Jobs /\ Target(p) \in Targets /\ Disk(p) \in Disks
      /\ AccountHolds(Target(p))
  BY <1>1 DEF EnrollmentInvariant, TypeOK, Jobs
<1>3. job[p].verb = "apply" /\ ApplyHolds(p) /\ Rooted(p)
  BY <1>1, <1>2 DEF ProcessHolds, UnenrollHolds, ApplySteps, PrepareSteps, UnenrollSteps,
     RollbackSteps, Objects
<1>4. Disk(p).journal = None /\ Disk(p).quarantine = {}
  BY <1>1, <1>2, <1>3 DEF ApplyHolds, AccountHolds, DiskHolds, Unenrolling
<1> QED
  BY <1>2, <1>3, <1>4

(* What an apply may write of its account.                                  *)
LEMMA ApplyWrites ==
  ASSUME EnrollmentInvariant, NEW p \in Procs,
         pc[p] \in (ApplySteps \cup {"unlink", "clean"}) \ {"answer"},
         NEW d \in Disks, Keep(p, d),
         d.root \/ d = EmptyDisk, d.journal = None, d.quarantine = {},
         d.metadata # None /\ d.metadata.sealed =>
           /\ Admitted(Target(p))
           /\ d.metadata.reload \/ d.observation = "verified" => hermes[Target(p)] = "enabled"
  PROVE  /\ \A t \in Targets : t = Target(p) => AccountHolds(t)'
         /\ BaselineHolds' /\ OnlyAccount(Target(p))
         /\ AdapterTyped' /\ disk' \in [Targets -> Disks] /\ disk'[Target(p)] = d
<1>1. Target(p) \in Targets /\ AccountHolds(Target(p))
  BY Applying
<1>2. /\ AdapterTyped' /\ disk' \in [Targets -> Disks] /\ disk'[Target(p)] = d
      /\ BaselineHolds' /\ OnlyAccount(Target(p))
  BY <1>1, KeepWrites
<1>3. ASSUME NEW t \in Targets, t = Target(p) PROVE AccountHolds(t)'
  <2>1. RecordsHold(t)'
    BY <1>1, <1>3 DEF AccountHolds, RecordsHold, Keep
  <2>2. DiskHolds(t)'
    BY <1>2, <1>3 DEF DiskHolds, Sealed, Admitted, Keep
  <2>3. PhaseHolds(t)'
    BY <1>2, <1>3 DEF PhaseHolds, Unenrolling
  <2> QED
    BY <2>1, <2>2, <2>3 DEF AccountHolds
<1> QED
  BY <1>2, <1>3

LEMMA ApplyGoes ==
  ASSUME EnrollmentInvariant, NEW p \in Procs, NEW from \in SUBSET Steps, NEW to \in Steps,
         "idle" \notin from, Go(p, from, to),
         pc[p] \in (ApplySteps \cup {"unlink", "clean"}) \ {"answer"},
         AdapterTyped', disk' \in [Targets -> Disks], BaselineHolds', OnlyAccount(Target(p)),
         \A t \in Targets : t = Target(p) => AccountHolds(t)',
         ApplyHolds(p)', Rooted(p)'
  PROVE  Sound(p)
<1>1. job'[p].verb = "apply"
  BY Applying, GoLeads DEF EnrollmentInvariant
<1> QED
  BY <1>1, GoLeads DEF EnrollmentInvariant, TypeOK, Sound, ProcessHolds

LEMMA SealedIsAdmitted ==
  ASSUME EnrollmentInvariant, NEW p \in Procs,
         pc[p] \in (ApplySteps \cup {"unlink", "clean"}) \ {"answer"}, Sealed(Target(p))
  PROVE  /\ Admitted(Target(p))
         /\ Disk(p).metadata.reload \/ Disk(p).observation = "verified"
              => hermes[Target(p)] = "enabled"
BY Applying DEF AccountHolds, DiskHolds

(* The steps that move trees write nothing else.                            *)
TreeSteps == {"stage", "aside", "publish", "desktop aside", "desktop publish"}

LEMMA TreesMove ==
  ASSUME EnrollmentInvariant, NEW p \in Procs, NEW from \in SUBSET TreeSteps,
         NEW to \in (TreeSteps \ {"stage"}) \cup {"metadata unsealed", "unlink"},
         Go(p, from, to), NEW d \in Disks, Keep(p, d),
         d.root, d.metadata = Disk(p).metadata, d.observation = Disk(p).observation,
         d.journal = Disk(p).journal, d.quarantine = Disk(p).quarantine
  PROVE  Sound(p) /\ Holds(p)
<1>1. /\ from \in SUBSET Steps /\ to \in Steps /\ "idle" \notin from
      /\ \A s \in from : s \in (ApplySteps \cup {"unlink", "clean"}) \ {"answer"}
      /\ \A s \in from : s \notin Unlocked
  BY DEF TreeSteps, Steps, ApplySteps, Undoing
<1>2. pc[p] \in from /\ pc'[p] = to /\ job'[p] = job[p]
  BY <1>1, GoLeads DEF EnrollmentInvariant
<1>3. /\ pc[p] \in (ApplySteps \cup {"unlink", "clean"}) \ {"answer"}
      /\ Disk(p).journal = None /\ Disk(p).quarantine = {}
  BY <1>1, <1>2, Applying
<1>4. d.metadata # None /\ d.metadata.sealed =>
        /\ Admitted(Target(p))
        /\ d.metadata.reload \/ d.observation = "verified" => hermes[Target(p)] = "enabled"
  BY <1>3, SealedIsAdmitted DEF Sealed
<1>5. /\ \A t \in Targets : t = Target(p) => AccountHolds(t)'
      /\ BaselineHolds' /\ OnlyAccount(Target(p))
      /\ AdapterTyped' /\ disk' \in [Targets -> Disks] /\ disk'[Target(p)] = d
  BY <1>3, <1>4, ApplyWrites
<1>6. ApplyHolds(p)' /\ Rooted(p)'
  BY <1>2, <1>3, <1>5 DEF ApplyHolds, Rooted, TreeSteps, ApplySteps, PrepareSteps, RollbackSteps,
     Undoing
<1> QED
  BY <1>1, <1>2, <1>3, <1>5, <1>6, ApplyGoes

LEMMA StageSound ==
  ASSUME EnrollmentInvariant, NEW p \in Procs, Stage(p)
  PROVE  Sound(p) /\ Holds(p)
<1> DEFINE d == [Disk(p) EXCEPT !.stages = @ \cup {p}]
<1>1. Disk(p) \in Disks
  BY Applying DEF Stage, Go, ApplySteps
<1>2. /\ d \in Disks /\ d.root /\ d.metadata = Disk(p).metadata
      /\ d.observation = Disk(p).observation
      /\ d.journal = Disk(p).journal /\ d.quarantine = Disk(p).quarantine
  BY <1>1 DEF Stage, Disks
<1> QED
  BY <1>2, TreesMove DEF Stage, TreeSteps

LEMMA StageFailsSound ==
  ASSUME EnrollmentInvariant, NEW p \in Procs, StageFails(p)
  PROVE  Sound(p) /\ Holds(p)
<1> DEFINE d == [Disk(p) EXCEPT !.stages = @ \cup {p}]
<1>0. /\ {"stage", "aside"} \in SUBSET Steps /\ "unlink" \in Steps
      /\ "idle" \notin {"stage", "aside"}
      /\ Go(p, {"stage", "aside"}, "unlink")
  BY DEF StageFails, Steps, ApplySteps, Undoing
<1>1. pc[p] \in {"stage", "aside"} /\ pc'[p] = "unlink" /\ job'[p] = job[p]
  BY <1>0, GoLeads DEF EnrollmentInvariant
<1>2. /\ Disk(p) \in Disks /\ job[p].verb = "apply" /\ Disk(p).journal = None
  BY <1>1, Applying DEF ApplySteps
<1>3. CASE NoWrite
  <2>1. ProcessHolds(p)'
    BY <1>1, <1>2, <1>3 DEF ProcessHolds, ApplyHolds, Rooted, ApplySteps, PrepareSteps,
       RollbackSteps, Undoing
  <2> QED
    BY <1>0, <1>1, <1>3, <2>1, GoesOnSound
<1>4. CASE Disk(p).root /\ Keep(p, d)
  <2>1. /\ d \in Disks /\ d.root /\ d.metadata = Disk(p).metadata
        /\ d.observation = Disk(p).observation
        /\ d.journal = Disk(p).journal /\ d.quarantine = Disk(p).quarantine
    BY <1>2, <1>4 DEF Disks
  <2> QED
    BY <1>0, <1>4, <2>1, TreesMove DEF TreeSteps
<1> QED
  BY <1>3, <1>4 DEF StageFails

LEMMA UnlinkLockSound ==
  ASSUME EnrollmentInvariant, NEW p \in Procs, UnlinkLock(p)
  PROVE  Sound(p) /\ Holds(p)
<1>1. pc[p] = "unlink" /\ pc'[p] = "clean" /\ job' = job /\ package' = package
  BY DEF UnlinkLock, EnrollmentInvariant, TypeOK
<1>2. job[p].verb = "apply" /\ Disk(p).journal = None
  BY <1>1, Applying
<1>3. ProcessHolds(p)'
  BY <1>1, <1>2 DEF UnlinkLock, ProcessHolds, ApplyHolds, Rooted, ApplySteps, PrepareSteps,
     RollbackSteps, Undoing
<1>4. /\ pc' \in [Procs -> Steps] /\ OnlyProcess(p)
      /\ \A q \in Procs : pc'[q] # "idle" => job'[q] \in Jobs
      /\ job' \in [Procs -> {None} \cup Jobs]
  BY <1>1 DEF UnlinkLock, EnrollmentInvariant, TypeOK, OnlyProcess, Steps, Undoing
<1>5. NoWrite
  BY DEF UnlinkLock
<1> QED
  BY <1>1, <1>3, <1>4, <1>5, NoWriteKeeps DEF Sound, EnrollmentInvariant, TypeOK

LEMMA CleanSound ==
  ASSUME EnrollmentInvariant, NEW p \in Procs, Clean(p)
  PROVE  Sound(p) /\ Holds(p)
<1> DEFINE d == [Disk(p) EXCEPT !.stages = @ \ {p}]
<1>0. {"clean"} \in SUBSET Steps /\ "idle" \notin {"clean"} /\ Finish(p, {"clean"})
  BY DEF Clean, Steps, Undoing
<1>1. pc[p] = "clean"
  BY <1>0, FinishEnds DEF EnrollmentInvariant
<1>2. /\ Disk(p) \in Disks /\ Disk(p).journal = None /\ Disk(p).quarantine = {}
      /\ Disk(p).root \/ Disk(p) = EmptyDisk
  BY <1>1, Applying DEF AccountHolds, DiskHolds
<1>3. ASSUME NEW e \in Disks, Keep(p, e),
             e.root \/ e = EmptyDisk, e.journal = None, e.quarantine = {},
             e.metadata # None =>
               e.metadata = Disk(p).metadata /\ e.observation = Disk(p).observation
      PROVE  Sound(p)
  <2>1. e.metadata # None /\ e.metadata.sealed =>
           /\ Admitted(Target(p))
           /\ e.metadata.reload \/ e.observation = "verified" => hermes[Target(p)] = "enabled"
    BY <1>1, <1>3, SealedIsAdmitted DEF Sealed
  <2>2. /\ \A t \in Targets : t = Target(p) => AccountHolds(t)'
        /\ BaselineHolds' /\ OnlyAccount(Target(p))
        /\ AdapterTyped' /\ disk' \in [Targets -> Disks]
    BY <1>1, <1>3, <2>1, ApplyWrites
  <2> QED
    BY <1>0, <2>2, FinishEnds DEF Sound, EnrollmentInvariant, TypeOK
<1>4. CASE Keep(p, EmptyDisk)
  <2>1. EmptyDisk \in Disks /\ EmptyDisk.journal = None /\ EmptyDisk.quarantine = {}
        /\ EmptyDisk.metadata = None
    BY DEF EmptyDisk, Disks, Observations
  <2> QED
    BY <1>1, <1>3, <1>4, <2>1
<1>5. CASE NoWrite
  BY <1>0, <1>1, <1>5, EndsSound
<1>6. CASE Keep(p, d)
  <2>1. d \in Disks /\ d.metadata = Disk(p).metadata /\ d.observation = Disk(p).observation
        /\ d.journal = None /\ d.quarantine = {} /\ d.root = Disk(p).root
    BY <1>2 DEF Disks
  <2>2. ASSUME Disk(p) = EmptyDisk PROVE d = EmptyDisk
    <3>1. EmptyDisk.stages \ {p} = EmptyDisk.stages
      BY DEF EmptyDisk
    <3>2. [Disk(p) EXCEPT !.stages = Disk(p).stages] = Disk(p)
      BY <1>2 DEF Disks
    <3> QED
      BY <2>2, <3>1, <3>2
  <2>3. d.root \/ d = EmptyDisk
    BY <1>2, <2>1, <2>2
  <2> QED
    BY <1>1, <1>3, <1>6, <2>1, <2>3
<1> QED
  BY <1>4, <1>5, <1>6 DEF Clean

LEMMA SetAsideKeeps ==
  ASSUME NEW p \in Procs, Disk(p) \in Disks, NEW tree \in Trees
  PROVE  /\ SetAside(p, tree) \in Disks
         /\ SetAside(p, tree).root = Disk(p).root
         /\ SetAside(p, tree).metadata = Disk(p).metadata
         /\ SetAside(p, tree).observation = Disk(p).observation
         /\ SetAside(p, tree).journal = Disk(p).journal
         /\ SetAside(p, tree).quarantine = Disk(p).quarantine
BY DEF SetAside, Disks

LEMMA TreeStepIsRooted ==
  ASSUME EnrollmentInvariant, NEW p \in Procs, pc[p] \in TreeSteps \ {"stage"}
  PROVE  Disk(p) \in Disks /\ Disk(p).root /\ job[p].generation \in Nat
BY Applying DEF Rooted, TreeSteps, ApplySteps, Jobs

LEMMA AsideSound ==
  ASSUME EnrollmentInvariant, NEW p \in Procs, Aside(p)
  PROVE  Sound(p) /\ Holds(p)
<1>1. Disk(p) \in Disks /\ Disk(p).root
  BY TreeStepIsRooted DEF Aside, Go, TreeSteps
<1> QED
  BY <1>1, SetAsideKeeps, TreesMove DEF Aside, TreeSteps, Trees

LEMMA PublishSound ==
  ASSUME EnrollmentInvariant, NEW p \in Procs, Publish(p)
  PROVE  Sound(p) /\ Holds(p)
<1> DEFINE d == [Disk(p) EXCEPT !.tree["backend"] = job[p].generation, !.stages = @ \ {p}]
<1>1. Disk(p) \in Disks /\ Disk(p).root /\ job[p].generation \in Nat
  BY TreeStepIsRooted DEF Publish, Go, TreeSteps
<1>2. /\ d \in Disks /\ d.root /\ d.metadata = Disk(p).metadata
      /\ d.observation = Disk(p).observation
      /\ d.journal = Disk(p).journal /\ d.quarantine = Disk(p).quarantine
  BY <1>1 DEF Disks
<1> QED
  BY <1>2, TreesMove DEF Publish, TreeSteps

LEMMA DesktopAsideSound ==
  ASSUME EnrollmentInvariant, NEW p \in Procs, DesktopAside(p)
  PROVE  Sound(p) /\ Holds(p)
<1>1. Disk(p) \in Disks /\ Disk(p).root /\ pc[p] = "desktop aside"
  BY TreeStepIsRooted DEF DesktopAside, Go, TreeSteps
<1>2. CASE Go(p, {"desktop aside"}, "desktop publish") /\ Keep(p, SetAside(p, "desktop"))
  BY <1>1, <1>2, SetAsideKeeps, TreesMove DEF TreeSteps, Trees
<1>3. CASE Go(p, {"desktop aside"}, "failed") /\ NoWrite
  <2>1. /\ {"desktop aside"} \in SUBSET Steps
        /\ {"desktop aside"} \intersect (Unlocked \cup {"begin", "stage", "unlink", "clean"}) = {}
    BY DEF Steps, ApplySteps
  <2> QED
    BY <1>1, <1>3, <2>1, FailedSound
<1> QED
  BY <1>2, <1>3 DEF DesktopAside

LEMMA DesktopPublishSound ==
  ASSUME EnrollmentInvariant, NEW p \in Procs, DesktopPublish(p)
  PROVE  Sound(p) /\ Holds(p)
<1> DEFINE d == [Disk(p) EXCEPT !.tree["desktop"] = job[p].generation]
<1>1. Disk(p) \in Disks /\ Disk(p).root /\ job[p].generation \in Nat
  BY TreeStepIsRooted DEF DesktopPublish, Go, TreeSteps
<1>2. /\ d \in Disks /\ d.root /\ d.metadata = Disk(p).metadata
      /\ d.observation = Disk(p).observation
      /\ d.journal = Disk(p).journal /\ d.quarantine = Disk(p).quarantine
  BY <1>1 DEF Disks
<1> QED
  BY <1>2, TreesMove DEF DesktopPublish, TreeSteps

(* The metadata: unsealed before the host changes, sealed when it has.      *)
LEMMA MetadataSound ==
  ASSUME EnrollmentInvariant, NEW p \in Procs, NEW from \in SUBSET Steps, NEW to \in Steps,
         "idle" \notin from, Go(p, from, to),
         pc[p] \in ApplySteps \ {"stage", "answer"},
         NEW sealed \in BOOLEAN, NEW reload \in BOOLEAN, NEW observation \in Observations,
         WriteMetadata(p, sealed, reload, observation),
         sealed => /\ Admitted(Target(p))
                   /\ reload \/ observation = "verified" => hermes[Target(p)] = "enabled",
         to \in {"enable", "decide"} => Admitted(Target(p)),
         to = "decide" => hermes[Target(p)] = "enabled",
         to \in {"prepare", "enable", "decide", "answer"},
         to = "prepare" => ~sealed
  PROVE  Sound(p)
<1> DEFINE m == [generation |-> job[p].generation, sealed |-> sealed, reload |-> reload]
           d == [Disk(p) EXCEPT !.metadata = m, !.observation = observation]
<1>1. /\ Disk(p) \in Disks /\ Disk(p).root /\ job[p].generation \in Nat
      /\ Disk(p).journal = None /\ Disk(p).quarantine = {}
  BY Applying DEF Rooted, ApplySteps, PrepareSteps, Jobs
<1>2. m \in Metadata
  BY <1>1 DEF Metadata
<1>3. /\ d \in Disks /\ d.root /\ d.journal = None /\ d.quarantine = {}
      /\ d.metadata = m /\ d.observation = observation
  BY <1>1, <1>2 DEF Disks
<1>4. d.metadata.sealed = sealed /\ d.metadata.reload = reload
  BY <1>3
<1>5. Keep(p, d)
  BY DEF WriteMetadata
<1> HIDE DEF d, m
<1>6. /\ \A t \in Targets : t = Target(p) => AccountHolds(t)'
      /\ BaselineHolds' /\ OnlyAccount(Target(p))
      /\ AdapterTyped' /\ disk' \in [Targets -> Disks] /\ disk'[Target(p)] = d
  BY <1>3, <1>4, <1>5, ApplyWrites DEF ApplySteps
<1>7. pc[p] \in from /\ pc'[p] = to /\ job'[p] = job[p]
  BY GoLeads DEF EnrollmentInvariant
<1>8. Rooted(p)'
  BY <1>3, <1>6, <1>7 DEF Rooted
<1>9. ApplyHolds(p)'
  <2>1. Sealed(Target(p))' => sealed
    BY <1>4, <1>6, <1>7 DEF Sealed
  <2>2. Admitted(Target(p)) => Admitted(Target(p))'
    BY <1>5, <1>7 DEF Admitted, Keep
  <2>3. hermes' = hermes
    BY <1>5 DEF Keep
  <2> QED
    BY <1>3, <1>6, <1>7, <2>1, <2>2, <2>3
       DEF ApplyHolds, ApplySteps, PrepareSteps, RollbackSteps, Undoing
<1> QED
  BY <1>6, <1>8, <1>9, ApplyGoes DEF ApplySteps

LEMMA MetadataUnsealedSound ==
  ASSUME EnrollmentInvariant, NEW p \in Procs, MetadataUnsealed(p)
  PROVE  Sound(p) /\ Holds(p)
<1>1. /\ {"metadata unsealed"} \in SUBSET Steps /\ "prepare" \in Steps
      /\ pc[p] = "metadata unsealed"
      /\ pc[p] \in ApplySteps \ {"stage", "answer"}
  BY DEF MetadataUnsealed, Go, Steps, ApplySteps
<1>2. Disk(p).observation \in Observations
  BY <1>1, Applying DEF Disks
<1> QED
  BY <1>1, <1>2, MetadataSound DEF MetadataUnsealed

LEMMA SealSound ==
  ASSUME EnrollmentInvariant, NEW p \in Procs, Seal(p)
  PROVE  Sound(p) /\ Holds(p)
<1>1. /\ {"seal"} \in SUBSET Steps /\ "enable" \in Steps
      /\ pc[p] = "seal" /\ pc[p] \in ApplySteps \ {"stage", "answer"}
  BY DEF Seal, Go, Steps, ApplySteps
<1>2. Admitted(Target(p))
  BY <1>1, Applying DEF ApplyHolds, Admitted
<1> QED
  BY <1>1, <1>2, MetadataSound DEF Seal, Observations

LEMMA RecordSound ==
  ASSUME EnrollmentInvariant, NEW p \in Procs, Record(p)
  PROVE  Sound(p) /\ Holds(p)
<1>1. /\ {"record"} \in SUBSET Steps /\ "answer" \in Steps
      /\ pc[p] = "record" /\ pc[p] \in ApplySteps \ {"stage", "answer"}
  BY DEF Record, Go, Steps, ApplySteps
<1>2. Admitted(Target(p)) /\ hermes[Target(p)] = "enabled"
  BY <1>1, Applying DEF ApplyHolds
<1> QED
  BY <1>1, <1>2, MetadataSound DEF Record, Observations

LEMMA DecideSound ==
  ASSUME EnrollmentInvariant, NEW p \in Procs, Decide(p)
  PROVE  Sound(p) /\ Holds(p)
<1>1. /\ {"decide"} \in SUBSET Steps /\ "answer" \in Steps /\ "token" \in Steps
      /\ pc[p] = "decide" /\ pc[p] \in ApplySteps \ {"stage", "answer"}
  BY DEF Decide, Go, Steps, ApplySteps
<1>2. /\ Admitted(Target(p)) /\ hermes[Target(p)] = "enabled"
      /\ job[p].verb = "apply" /\ Disk(p).journal = None /\ Rooted(p)
  BY <1>1, Applying DEF ApplyHolds
<1>3. CASE Go(p, {"decide"}, "answer") /\ WriteMetadata(p, TRUE, TRUE, "other")
  BY <1>1, <1>2, <1>3, MetadataSound DEF Observations
<1>4. CASE Go(p, {"decide"}, "token") /\ NoWrite
  <2>1. pc'[p] = "token" /\ job'[p] = job[p]
    BY <1>1, <1>4, GoLeads DEF EnrollmentInvariant
  <2>2. ApplyHolds(p)' /\ Rooted(p)'
    BY <1>1, <1>2, <1>4, <2>1 DEF ApplyHolds, Rooted, ApplySteps, PrepareSteps, RollbackSteps,
       Undoing
  <2> QED
    BY <1>1, <1>2, <1>4, <2>1, <2>2, GoesOnSound DEF ProcessHolds
<1> QED
  BY <1>1, <1>3, <1>4 DEF Decide

(* The adapter's writes during an apply.                                    *)
LEMMA HostWritten ==
  ASSUME EnrollmentInvariant, NEW p \in Procs, NEW from \in SUBSET Steps, NEW to \in Steps,
         "idle" \notin from, Go(p, from, to),
         \/ pc[p] \in ApplySteps \ {"stage", "answer"}
         \/ pc[p] \in RollbackSteps /\ job[p].verb = "apply",
         to # "begin", disk' = disk, AdapterTyped', BaselineHolds', OnlyAccount(Target(p)),
         RecordsHold(Target(p)) => \A t \in Targets : t = Target(p) => RecordsHold(t)',
         Sealed(Target(p)) =>
           \A t \in Targets : t = Target(p) =>
             /\ Admitted(t)'
             /\ Disk(p).metadata.reload \/ Disk(p).observation = "verified"
                  => hermes'[t] = "enabled",
         ApplyHolds(p)'
  PROVE  Sound(p)
<1>1. pc[p] \in from /\ pc'[p] = to /\ job'[p] = job[p] /\ job[p] \in Jobs
  BY GoLeads DEF EnrollmentInvariant
<1>2. /\ ProcessHolds(p) /\ Target(p) \in Targets /\ AccountHolds(Target(p))
      /\ pc[p] \notin Unlocked \cup {"begin", "stage", "unlink", "clean"}
  BY <1>1 DEF EnrollmentInvariant, ApplySteps, PrepareSteps, RollbackSteps, Jobs
<1>3. job[p].verb = "apply" /\ ApplyHolds(p) /\ Rooted(p)
  BY <1>2, Applying DEF ProcessHolds
<1>4. Disk(p).journal = None /\ Disk(p).root /\ Disk(p).quarantine = {}
  BY <1>2, <1>3 DEF ApplyHolds, Rooted, AccountHolds, DiskHolds, Unenrolling
<1>5. ASSUME NEW t \in Targets, t = Target(p) PROVE AccountHolds(t)'
  <2>1. RecordsHold(t)'
    BY <1>2, <1>5 DEF AccountHolds
  <2>2. DiskHolds(t)'
    BY <1>4, <1>5 DEF DiskHolds, Sealed
  <2>3. PhaseHolds(t)'
    BY <1>4, <1>5 DEF PhaseHolds, Unenrolling
  <2> QED
    BY <2>1, <2>2, <2>3 DEF AccountHolds
<1>6. ProcessHolds(p)'
  BY <1>1, <1>3, <1>4 DEF ProcessHolds, Rooted
<1>7. disk' \in [Targets -> Disks]
  BY DEF EnrollmentInvariant, TypeOK
<1> QED
  BY <1>5, <1>6, <1>7, GoLeads DEF Sound, EnrollmentInvariant, TypeOK

LEMMA PrepareSound ==
  ASSUME EnrollmentInvariant, NEW p \in Procs, Prepare(p)
  PROVE  Sound(p) /\ Holds(p)
<1> DEFINE to == IF baseline = None THEN "first snapshot" ELSE "snapshot"
<1>1. /\ {"prepare"} \in SUBSET Steps /\ to \in Steps /\ to \in {"first snapshot", "snapshot"}
      /\ pc[p] = "prepare" /\ pc[p] \in ApplySteps \ {"stage", "answer"}
      /\ {"prepare"} \intersect (Unlocked \cup {"begin", "stage", "unlink", "clean"}) = {}
  BY DEF Prepare, Go, Steps, ApplySteps, PrepareSteps
<1>2. CASE Go(p, {"prepare"}, "failed") /\ NoWrite
  BY <1>1, <1>2, FailedSound
<1>3. CASE Go(p, {"prepare"}, to) /\ TakeBaseline /\ DiskKept
  <2>1. /\ Target(p) \in Targets /\ ~Sealed(Target(p)) /\ AdapterTyped /\ BaselineHolds
        /\ Disk(p).journal = None /\ job[p].verb = "apply"
    BY <1>1, Applying DEF ApplyHolds, EnrollmentInvariant, TypeOK
  <2>2. /\ UNCHANGED <<config, dropin, members, hermes, managed, snapshot, disk>>
        /\ baseline' = IF baseline = None THEN Shared ELSE baseline
    BY <1>3 DEF TakeBaseline
  <2>3. Shared \in SharedFiles /\ Shared.config = config /\ Shared # None
    BY <2>1 DEF AdapterTyped, Shared, SharedFiles
  <2>4. AdapterTyped' /\ OnlyAccount(Target(p))
    BY <2>1, <2>2, <2>3 DEF AdapterTyped, OnlyAccount
  <2>5. BaselineHolds'
    BY <2>1, <2>2, <2>3 DEF BaselineHolds
  <2>6. RecordsHold(Target(p)) => \A t \in Targets : t = Target(p) => RecordsHold(t)'
    BY <2>2 DEF RecordsHold
  <2>7. pc'[p] = to /\ job'[p] = job[p]
    BY <1>1, <1>3, GoLeads DEF EnrollmentInvariant
  <2>8. baseline' # None /\ (to = "first snapshot" => \A t \in Targets : snapshot'[t] = None)
    BY <2>1, <2>2, <2>3 DEF BaselineHolds
  <2> HIDE DEF to
  <2>9. ApplyHolds(p)'
    BY <1>1, <2>1, <2>2, <2>7, <2>8
       DEF ApplyHolds, ApplySteps, PrepareSteps, RollbackSteps, Undoing, Sealed
  <2> QED
    BY <1>1, <1>3, <2>1, <2>4, <2>5, <2>6, <2>9, HostWritten
<1> QED
  BY <1>1, <1>2, <1>3 DEF Prepare

LEMMA SnapshotSound ==
  ASSUME EnrollmentInvariant, NEW p \in Procs, Snapshot(p)
  PROVE  Sound(p) /\ Holds(p)
<1> DEFINE from == {"first snapshot", "snapshot"}
           g == job[p].generation
           taken == IF snapshot[Target(p)] = None
                    THEN [generation |-> g, member |-> Target(p) \in members,
                          hermes |-> hermes[Target(p)]]
                    ELSE [snapshot[Target(p)] EXCEPT !.generation = g]
<1>1. /\ from \in SUBSET Steps /\ "authorize" \in Steps /\ "idle" \notin from
      /\ pc[p] \in from /\ pc[p] \in ApplySteps \ {"stage", "answer"}
      /\ Go(p, from, "authorize") /\ TakeSnapshot(Target(p), g) /\ DiskKept
  BY DEF Snapshot, Go, Steps, ApplySteps, PrepareSteps
<1>2. /\ Target(p) \in Targets /\ g \in Nat /\ ~Sealed(Target(p)) /\ AdapterTyped
      /\ BaselineHolds /\ baseline # None
      /\ Disk(p).journal = None /\ job[p].verb = "apply"
  BY <1>1, Applying DEF ApplyHolds, EnrollmentInvariant, TypeOK, Jobs
<1>3. taken \in Snapshots /\ taken # None
  <2>1. ASSUME NEW member \in BOOLEAN
        PROVE  [generation |-> g, member |-> member, hermes |-> hermes[Target(p)]] \in Snapshots
    BY <1>2 DEF AdapterTyped, Snapshots
  <2>2. (Target(p) \in members) \in BOOLEAN
    OBVIOUS
  <2>3. snapshot[Target(p)] # None => [snapshot[Target(p)] EXCEPT !.generation = g] \in Snapshots
    BY <1>2 DEF AdapterTyped, Snapshots
  <2>4. taken \in Snapshots
    BY <2>1, <2>2, <2>3, Zenon
  <2> QED
    BY <2>4
<1>4. /\ snapshot' = [snapshot EXCEPT ![Target(p)] = taken]
      /\ UNCHANGED <<config, dropin, members, hermes, baseline, managed, disk>>
  BY <1>1 DEF TakeSnapshot
<1>5. snapshot'[Target(p)] = taken
  BY <1>2, <1>4 DEF AdapterTyped
<1>6. AdapterTyped'
  BY <1>2, <1>3, <1>4 DEF AdapterTyped
<1>7. OnlyAccount(Target(p))
  BY <1>2, <1>4 DEF OnlyAccount, AdapterTyped
<1>8. BaselineHolds'
  BY <1>2, <1>3, <1>4, <1>5 DEF BaselineHolds, AdapterTyped
<1>9. RecordsHold(Target(p)) => \A t \in Targets : t = Target(p) => RecordsHold(t)'
  <2>1. RecordsHold(Target(p)) =>
           taken.hermes = "plain" /\ (taken.member <=> Target(p) \in InitialMembers)
    <3>1. CASE snapshot[Target(p)] = None
      BY <3>1 DEF RecordsHold
    <3>2. CASE snapshot[Target(p)] # None
      <4>1. snapshot[Target(p)] \in Snapshots
        BY <1>2, <3>2 DEF AdapterTyped
      <4>2. taken.hermes = snapshot[Target(p)].hermes /\ taken.member = snapshot[Target(p)].member
        BY <3>2, <4>1 DEF Snapshots
      <4> QED
        BY <3>2, <4>2 DEF RecordsHold
    <3> QED
      BY <3>1, <3>2
  <2> HIDE DEF taken
  <2> QED
    BY <1>3, <1>4, <1>5, <2>1 DEF RecordsHold
<1>10. pc'[p] = "authorize" /\ job'[p] = job[p]
  BY <1>1, GoLeads DEF EnrollmentInvariant
<1>11. ApplyHolds(p)'
  BY <1>2, <1>3, <1>4, <1>5, <1>10
     DEF ApplyHolds, ApplySteps, PrepareSteps, RollbackSteps, Undoing, Sealed
<1> QED
  BY <1>1, <1>2, <1>6, <1>7, <1>8, <1>9, <1>11, HostWritten

(* Nobody has a snapshot when the baseline goes.                            *)
LEMMA SnapshotFailsSound ==
  ASSUME EnrollmentInvariant, NEW p \in Procs, SnapshotFails(p)
  PROVE  Sound(p) /\ Holds(p)
<1>1. /\ {"first snapshot"} \in SUBSET Steps /\ "failed" \in Steps
      /\ pc[p] = "first snapshot" /\ pc[p] \in ApplySteps \ {"stage", "answer"}
      /\ Go(p, {"first snapshot"}, "failed") /\ DropBaseline(Target(p)) /\ DiskKept
  BY DEF SnapshotFails, Go, Steps, ApplySteps, Undoing
<1>2. /\ Disk(p).journal = None /\ job[p].verb = "apply" /\ AdapterTyped
      /\ Target(p) \in Targets /\ ~Sealed(Target(p))
      /\ \A t \in Targets : snapshot[t] = None
  BY <1>1, Applying DEF ApplyHolds, EnrollmentInvariant, TypeOK
<1>3. baseline' = None /\ UNCHANGED <<config, dropin, members, hermes, managed, snapshot, disk>>
  BY <1>1, <1>2 DEF DropBaseline
<1>4. AdapterTyped' /\ OnlyAccount(Target(p)) /\ BaselineHolds'
  BY <1>2, <1>3 DEF AdapterTyped, OnlyAccount, BaselineHolds
<1>5. RecordsHold(Target(p)) => \A t \in Targets : t = Target(p) => RecordsHold(t)'
  BY <1>3 DEF RecordsHold
<1>6. pc'[p] = "failed" /\ job'[p] = job[p]
  BY <1>1, GoLeads DEF EnrollmentInvariant
<1>7. ApplyHolds(p)'
  BY <1>2, <1>3, <1>6 DEF ApplyHolds, ApplySteps, PrepareSteps, RollbackSteps, Undoing
<1> QED
  BY <1>1, <1>2, <1>4, <1>5, <1>7, HostWritten

LEMMA ChangeHostSound ==
  ASSUME EnrollmentInvariant, NEW p \in Procs, ChangeHost(p)
  PROVE  Sound(p) /\ Holds(p)
<1>1. /\ pc[p] \in PrepareSteps
      /\ \A s \in PrepareSteps : {s} \in SUBSET Steps /\ "idle" # s
      /\ PrepareSteps \subseteq Steps /\ "seal" \in Steps
      /\ pc[p] \in ApplySteps \ {"stage", "answer"}
  BY DEF ChangeHost, Go, Steps, ApplySteps, PrepareSteps
<1>2. /\ Target(p) \in Targets /\ job[p].generation \in Nat /\ AdapterTyped
      /\ BaselineHolds /\ Disk(p).journal = None /\ ~Sealed(Target(p))
      /\ snapshot[Target(p)] # None /\ ApplyHolds(p)
  BY <1>1, Applying DEF ApplyHolds, EnrollmentInvariant, TypeOK, Jobs
<1>3. CASE Go(p, {"authorize"}, "join") /\ Authorize(Target(p))
  <2>1. pc'[p] = "join" /\ job'[p] = job[p]
    BY <1>1, <1>3, GoLeads DEF EnrollmentInvariant, PrepareSteps
  <2>2. AdapterTyped' /\ OnlyAccount(Target(p)) /\ BaselineHolds' /\ disk' = disk
    BY <1>2, <1>3 DEF ChangeHost, Authorize, AdapterTyped, OnlyAccount, BaselineHolds
  <2>3. RecordsHold(Target(p)) => \A t \in Targets : t = Target(p) => RecordsHold(t)'
    BY <1>3 DEF Authorize, RecordsHold
  <2>4. ApplyHolds(p)'
    BY <1>2, <1>3, <2>1, <2>2 DEF Authorize, ApplyHolds, ApplySteps, PrepareSteps, RollbackSteps,
       Undoing, Sealed
  <2> QED
    BY <1>1, <1>2, <1>3, <2>2, <2>3, <2>4, HostWritten DEF PrepareSteps
<1>4. CASE Go(p, {"join"}, "dropin") /\ Join(Target(p))
  <2>1. pc[p] = "join" /\ pc'[p] = "dropin" /\ job'[p] = job[p]
    BY <1>1, <1>4, GoLeads DEF EnrollmentInvariant, PrepareSteps
  <2>2. AdapterTyped' /\ OnlyAccount(Target(p)) /\ BaselineHolds' /\ disk' = disk
    BY <1>2, <1>4 DEF ChangeHost, Join, AdapterTyped, OnlyAccount, BaselineHolds
  <2>3. RecordsHold(Target(p)) => \A t \in Targets : t = Target(p) => RecordsHold(t)'
    BY <1>2, <1>4 DEF Join, RecordsHold
  <2>4. ApplyHolds(p)'
    BY <1>2, <1>4, <2>1, <2>2 DEF Join, ApplyHolds, ApplySteps, PrepareSteps, RollbackSteps,
       Undoing, Sealed
  <2> QED
    BY <1>1, <1>2, <1>4, <2>2, <2>3, <2>4, HostWritten DEF PrepareSteps
<1>5. CASE Go(p, {"dropin"}, "manage") /\ WriteDropin(job[p].generation, FALSE)
  <2>1. pc[p] = "dropin" /\ pc'[p] = "manage" /\ job'[p] = job[p]
    BY <1>1, <1>5, GoLeads DEF EnrollmentInvariant, PrepareSteps
  <2>2. AdapterTyped' /\ OnlyAccount(Target(p)) /\ BaselineHolds' /\ disk' = disk
    BY <1>2, <1>5 DEF ChangeHost, WriteDropin, AdapterTyped, OnlyAccount, BaselineHolds, Dropins
  <2>3. RecordsHold(Target(p)) => \A t \in Targets : t = Target(p) => RecordsHold(t)'
    BY <1>5 DEF WriteDropin, RecordsHold
  <2>4. ApplyHolds(p)'
    BY <1>2, <1>5, <2>1, <2>2 DEF WriteDropin, ApplyHolds, ApplySteps, PrepareSteps,
       RollbackSteps, Undoing, Sealed
  <2> QED
    BY <1>1, <1>2, <1>5, <2>2, <2>3, <2>4, HostWritten DEF PrepareSteps
<1>6. CASE Go(p, {"manage"}, "seal") /\ RecordManaged
  <2>1. pc[p] = "manage" /\ pc'[p] = "seal" /\ job'[p] = job[p]
    BY <1>1, <1>6, GoLeads DEF EnrollmentInvariant, PrepareSteps
  <2>2. AdapterTyped' /\ OnlyAccount(Target(p)) /\ BaselineHolds' /\ disk' = disk
    BY <1>2, <1>6 DEF ChangeHost, RecordManaged, AdapterTyped, OnlyAccount, BaselineHolds, Shared,
       SharedFiles
  <2>3. RecordsHold(Target(p)) => \A t \in Targets : t = Target(p) => RecordsHold(t)'
    BY <1>6 DEF RecordManaged, RecordsHold
  <2>4. ApplyHolds(p)'
    BY <1>2, <1>6, <2>1, <2>2 DEF RecordManaged, ApplyHolds, ApplySteps, PrepareSteps,
       RollbackSteps, Undoing, Sealed
  <2> QED
    BY <1>1, <1>2, <1>6, <2>2, <2>3, <2>4, HostWritten DEF PrepareSteps
<1> QED
  BY <1>1, <1>3, <1>4, <1>5, <1>6 DEF ChangeHost, PrepareSteps

LEMMA EnableSound ==
  ASSUME EnrollmentInvariant, NEW p \in Procs, Enable(p)
  PROVE  Sound(p) /\ Holds(p)
<1>1. /\ {"enable"} \in SUBSET Steps /\ "decide" \in Steps
      /\ pc[p] = "enable" /\ pc[p] \in ApplySteps \ {"stage", "answer"}
      /\ Go(p, {"enable"}, "decide") /\ SetPlugin(Target(p), "enabled") /\ disk' = disk
  BY DEF Enable, Go, Steps, ApplySteps
<1>2. /\ Target(p) \in Targets /\ AdapterTyped /\ BaselineHolds /\ Disk(p).journal = None
      /\ Admitted(Target(p))
  BY <1>1, Applying DEF ApplyHolds, EnrollmentInvariant, TypeOK
<1>3. pc'[p] = "decide" /\ job'[p] = job[p]
  BY <1>1, GoLeads DEF EnrollmentInvariant
<1>4. AdapterTyped' /\ OnlyAccount(Target(p)) /\ BaselineHolds' /\ hermes'[Target(p)] = "enabled"
  BY <1>1, <1>2 DEF SetPlugin, AdapterTyped, OnlyAccount, BaselineHolds
<1>5. Admitted(Target(p))' /\ \A t \in Targets : t = Target(p) => Admitted(t)'
  BY <1>1, <1>2, <1>3 DEF Admitted, SetPlugin
<1>6. RecordsHold(Target(p)) => \A t \in Targets : t = Target(p) => RecordsHold(t)'
  BY <1>1, <1>2 DEF SetPlugin, RecordsHold, Admitted
<1>7. ApplyHolds(p)'
  BY <1>1, <1>2, <1>3, <1>4, <1>5 DEF ApplyHolds, ApplySteps, PrepareSteps, RollbackSteps,
     Undoing
<1> QED
  BY <1>1, <1>4, <1>5, <1>6, <1>7, HostWritten

LEMMA DropinSound ==
  ASSUME EnrollmentInvariant, NEW p \in Procs, Token(p) \/ AttestFails(p)
  PROVE  Sound(p) /\ Holds(p)
<1> DEFINE to == IF pc[p] = "token" THEN "attest" ELSE "failed"
           from == {pc[p]}
<1>1. /\ pc[p] \in {"token", "attest"}
      /\ pc[p] \in ApplySteps \ {"stage", "answer"}
      /\ from \in SUBSET Steps /\ "idle" \notin from /\ to \in Steps
      /\ Go(p, from, to) /\ disk' = disk
      /\ \E token \in BOOLEAN : WriteDropin(job[p].generation, token)
  BY DEF Token, AttestFails, Go, Steps, ApplySteps, Undoing
<1>2. /\ Target(p) \in Targets /\ job[p].generation \in Nat /\ AdapterTyped /\ BaselineHolds
      /\ Disk(p).journal = None
  BY <1>1, Applying DEF EnrollmentInvariant, TypeOK, Jobs
<1>3. pc'[p] = to /\ job'[p] = job[p]
  BY <1>1, GoLeads DEF EnrollmentInvariant
<1>4. AdapterTyped' /\ OnlyAccount(Target(p)) /\ BaselineHolds'
  BY <1>1, <1>2 DEF WriteDropin, AdapterTyped, OnlyAccount, BaselineHolds, Dropins
<1>5. /\ RecordsHold(Target(p)) => \A t \in Targets : t = Target(p) => RecordsHold(t)'
      /\ \A t \in Targets : Admitted(t) => Admitted(t)'
      /\ hermes' = hermes
  BY <1>1 DEF WriteDropin, RecordsHold, Admitted
<1>6. ApplyHolds(p)'
  BY <1>1, <1>2, <1>3 DEF ApplyHolds, ApplySteps, PrepareSteps, RollbackSteps, Undoing
<1> QED
  BY <1>1, <1>2, <1>4, <1>5, <1>6, HostWritten, SealedIsAdmitted

LEMMA AttestSound ==
  ASSUME EnrollmentInvariant, NEW p \in Procs, Attest(p)
  PROVE  Sound(p) /\ Holds(p)
<1> DEFINE d == [Disk(p) EXCEPT !.observation = "attested"]
<1>1. /\ {"attest"} \in SUBSET Steps /\ "record" \in Steps
      /\ pc[p] = "attest" /\ pc[p] \in ApplySteps \ {"stage", "answer"}
      /\ Go(p, {"attest"}, "record") /\ WriteDropin(job[p].generation, FALSE)
      /\ Attestable(Target(p))
      /\ disk' = [disk EXCEPT ![Target(p)].observation = "attested"]
  BY DEF Attest, Go, Steps, ApplySteps
<1>2. /\ Target(p) \in Targets /\ job[p].generation \in Nat /\ AdapterTyped /\ BaselineHolds
      /\ Disk(p) \in Disks /\ Disk(p).journal = None /\ Disk(p).quarantine = {} /\ Disk(p).root
      /\ AccountHolds(Target(p)) /\ disk \in [Targets -> Disks]
  BY <1>1, Applying DEF EnrollmentInvariant, TypeOK, Jobs, Rooted
<1>3. pc'[p] = "record" /\ job'[p] = job[p]
  BY <1>1, GoLeads DEF EnrollmentInvariant
<1>4. AdapterTyped' /\ BaselineHolds'
  BY <1>1, <1>2 DEF WriteDropin, AdapterTyped, BaselineHolds, Dropins
<1>5. /\ d \in Disks /\ d.journal = None /\ d.quarantine = {} /\ d.root
      /\ d.metadata = Disk(p).metadata /\ d.observation = "attested"
  BY <1>2 DEF Disks, Observations
<1>6. disk' = [disk EXCEPT ![Target(p)] = d]
  BY <1>1
<1> HIDE DEF d
<1>7. disk' \in [Targets -> Disks] /\ disk'[Target(p)] = d /\ OnlyAccount(Target(p))
  BY <1>1, <1>2, <1>5, <1>6 DEF OnlyAccount, WriteDropin
<1>8. Admitted(Target(p)) /\ hermes[Target(p)] = "enabled"
  BY <1>1, <1>2 DEF Attestable, Admitted, AccountHolds, RecordsHold
<1>9. ASSUME NEW t \in Targets, t = Target(p) PROVE AccountHolds(t)'
  <2>1. RecordsHold(t)'
    BY <1>1, <1>2, <1>9 DEF AccountHolds, RecordsHold, WriteDropin
  <2>2. DiskHolds(t)'
    BY <1>1, <1>5, <1>7, <1>8, <1>9 DEF DiskHolds, Sealed, Admitted, WriteDropin
  <2>3. PhaseHolds(t)'
    BY <1>5, <1>7, <1>9 DEF PhaseHolds, Unenrolling
  <2> QED
    BY <2>1, <2>2, <2>3 DEF AccountHolds
<1>10. ApplyHolds(p)'
  <2>1. Admitted(Target(p))' /\ hermes'[Target(p)] = "enabled"
    BY <1>1, <1>3, <1>8 DEF Admitted, WriteDropin
  <2> QED
    BY <1>3, <1>5, <1>7, <2>1 DEF ApplyHolds, ApplySteps, PrepareSteps, RollbackSteps, Undoing
<1>11. Rooted(p)'
  BY <1>3, <1>5, <1>7 DEF Rooted
<1> QED
  BY <1>1, <1>4, <1>7, <1>9, <1>10, <1>11, ApplyGoes

LEMMA AnswersSound ==
  ASSUME EnrollmentInvariant, NEW p \in Procs,
         AnswerApply(p) \/ Answer(p) \/ AnswerUnenroll(p)
  PROVE  Sound(p) /\ Holds(p)
<1>1. {"begin"} \in SUBSET Steps /\ {"answer"} \in SUBSET Steps
  BY DEF Steps, ApplySteps
<1> QED
  BY <1>1, EndsSound DEF AnswerApply, Answer, AnswerUnenroll, Finish

LEMMA ApplySound ==
  ASSUME EnrollmentInvariant, NEW p \in Procs, Apply(p)
  PROVE  Sound(p) /\ Holds(p)
<1> DEFINE t == Target(p)
<1>1. /\ pc[p] = "begin" /\ job[p] \in Jobs /\ job[p].verb = "apply" /\ t \in Targets
      /\ disk[t].journal = None
      /\ disk[t].root \/ disk[t] = EmptyDisk
  BY DEF Apply, Beginning, Fenced, EnrollmentInvariant, TypeOK, Jobs, AccountHolds, DiskHolds
<1> DEFINE reattest == NeedsReload(p)
           absent == Disk(p).metadata = None /\ Disk(p).tree["backend"] = 0
           j == [job[p] EXCEPT !.reattest = reattest, !.absent = absent]
<1>2. ASSUME NEW a \in BOOLEAN, NEW b \in BOOLEAN
      PROVE  [job[p] EXCEPT !.reattest = a, !.absent = b] \in Jobs
  BY <1>1 DEF Jobs
<1>3. reattest \in BOOLEAN /\ absent \in BOOLEAN
  BY DEF NeedsReload
<1>4. j \in Jobs /\ j.verb = "apply" /\ j.target = t
  <2>1. j \in Jobs
    BY <1>2, <1>3, Zenon
  <2> QED
    BY <1>1, <2>1 DEF Jobs
<1>5. /\ pc' = [pc EXCEPT ![p] = IF NeedsReload(p) THEN "token"
                                 ELSE IF Leftover(p) THEN "failed" ELSE "stage"]
      /\ job' = [job EXCEPT ![p] = j] /\ NoWrite /\ package' = package
  BY DEF Apply, BeginApply
<1> HIDE DEF reattest, absent
<1>6. /\ job'[p] = j /\ pc'[p] \in {"token", "failed", "stage"}
      /\ pc' \in [Procs -> Steps] /\ OnlyProcess(p)
      /\ \A q \in Procs : pc'[q] # "idle" => job'[q] \in Jobs
      /\ job' \in [Procs -> {None} \cup Jobs]
  BY <1>4, <1>5 DEF EnrollmentInvariant, TypeOK, OnlyProcess, Steps, ApplySteps, Undoing
<1>7. Rooted(p)'
  <2>1. NeedsReload(p) \/ Leftover(p) => disk[t].root
    BY <1>1 DEF NeedsReload, Installed, Leftover, EmptyDisk, Trees
  <2>2. pc'[p] # "stage" => NeedsReload(p) \/ Leftover(p)
    BY <1>5 DEF EnrollmentInvariant, TypeOK
  <2> QED
    BY <1>4, <1>5, <1>6, <2>1, <2>2 DEF Rooted
<1>8. ApplyHolds(p)'
  <2>1. disk'[job'[p].target].journal = None
    BY <1>1, <1>4, <1>5, <1>6
  <2> QED
    BY <1>6, <2>1 DEF ApplyHolds, ApplySteps, PrepareSteps, RollbackSteps, Undoing
<1>9. ProcessHolds(p)'
  BY <1>4, <1>6, <1>7, <1>8 DEF ProcessHolds
<1> QED
  BY <1>1, <1>5, <1>6, <1>9, NoWriteKeeps DEF Sound, EnrollmentInvariant, TypeOK

----
(* unenroll.                                                                *)
LEMMA Unenroller ==
  ASSUME EnrollmentInvariant, NEW p \in Procs, pc[p] \in UnenrollSteps
  PROVE  /\ job[p] \in Jobs /\ job[p].verb # "apply"
         /\ Target(p) \in Targets /\ Disk(p) \in Disks
         /\ Disk(p).journal \in Journals /\ Unenrolling(Target(p)) /\ Disk(p).root
         /\ UnenrollHolds(p) /\ AccountHolds(Target(p))
<1>1. pc[p] \notin Unlocked \cup {"begin", "stage", "unlink", "clean"}
  BY DEF UnenrollSteps, Objects
<1>2. ProcessHolds(p) /\ job[p] \in Jobs /\ Target(p) \in Targets /\ Disk(p) \in Disks
      /\ AccountHolds(Target(p))
  BY <1>1 DEF EnrollmentInvariant, TypeOK, Jobs
<1>3. job[p].verb # "apply" /\ UnenrollHolds(p) /\ Rooted(p)
  BY <1>1, <1>2 DEF ProcessHolds, ApplyHolds, ApplySteps, PrepareSteps, UnenrollSteps,
     RollbackSteps, Objects, Undoing
<1>4. Unenrolling(Target(p)) /\ Disk(p).journal \in Journals /\ Disk(p).root
  BY <1>1, <1>2, <1>3 DEF UnenrollHolds, Unenrolling, Rooted, Disks
<1> QED
  BY <1>2, <1>3, <1>4

LEMMA UnenrollGoes ==
  ASSUME EnrollmentInvariant, NEW p \in Procs, NEW from \in SUBSET Steps, NEW to \in Steps,
         "idle" \notin from, Go(p, from, to), pc[p] \in UnenrollSteps,
         AdapterTyped', disk' \in [Targets -> Disks], BaselineHolds', OnlyAccount(Target(p)),
         \A t \in Targets : t = Target(p) => AccountHolds(t)',
         UnenrollHolds(p)', Rooted(p)'
  PROVE  Sound(p)
<1>1. job'[p].verb # "apply"
  BY Unenroller, GoLeads DEF EnrollmentInvariant
<1> QED
  BY <1>1, GoLeads DEF EnrollmentInvariant, TypeOK, Sound, ProcessHolds

(* What an unenrollment may write of its account.                           *)
LEMMA UnenrollWrites ==
  ASSUME EnrollmentInvariant, NEW p \in Procs, Target(p) \in Targets,
         NEW d \in Disks, Keep(p, d), d.root,
         d.journal \in Journals, d.journal.operation = "unenroll",
         d.quarantine \subseteq d.journal.objects,
         Target(p) \in config \/ \A k \in Trees : d.tree[k] = 0,
         d.journal.phase \notin {"STARTED", "DISABLED", "PLUGIN_QUARANTINING"}
           => \A k \in Trees : d.tree[k] = 0,
         d.journal.phase \in {"ADAPTER_RESTORED", "QUARANTINING", "QUARANTINED"}
           => LeftHost(Target(p)),
         d.journal.phase = "QUARANTINED" => d.metadata = None /\ d.observation = "none"
  PROVE  /\ \A t \in Targets : t = Target(p) => AccountHolds(t)'
         /\ BaselineHolds' /\ OnlyAccount(Target(p))
         /\ AdapterTyped' /\ disk' \in [Targets -> Disks] /\ disk'[Target(p)] = d
         /\ UNCHANGED <<config, members, hermes, snapshot>>
<1>1. AccountHolds(Target(p))
  BY DEF EnrollmentInvariant
<1>2. /\ AdapterTyped' /\ disk' \in [Targets -> Disks] /\ disk'[Target(p)] = d
      /\ BaselineHolds' /\ OnlyAccount(Target(p))
  BY KeepWrites
<1>3. UNCHANGED <<config, members, hermes, snapshot>>
  BY DEF Keep
<1>4. ASSUME NEW t \in Targets, t = Target(p) PROVE AccountHolds(t)'
  <2>1. RecordsHold(t)'
    BY <1>1, <1>3, <1>4 DEF AccountHolds, RecordsHold
  <2>2. DiskHolds(t)'
    BY <1>2, <1>4 DEF DiskHolds, Unenrolling
  <2>3. PhaseHolds(t)'
    BY <1>2, <1>3, <1>4 DEF PhaseHolds, Unenrolling, NoTrees, LeftHost
  <2> QED
    BY <2>1, <2>2, <2>3 DEF AccountHolds
<1> QED
  BY <1>2, <1>3, <1>4

LEMMA BeginUnenrollSound ==
  ASSUME EnrollmentInvariant, NEW p \in Procs, BeginUnenroll(p)
  PROVE  Sound(p) /\ Holds(p)
<1> DEFINE t == Target(p)
           j == [operation |-> "unenroll", phase |-> "STARTED", result |-> None,
                 objects |-> {}, generation |-> job[p].generation, directory |-> TRUE]
           d == [Disk(p) EXCEPT !.journal = j]
<1>1. /\ pc[p] = "begin" /\ job[p] \in Jobs /\ job[p].verb = "unenroll" /\ t \in Targets
      /\ disk[t].journal = None /\ Sealed(t) /\ disk[t] \in Disks /\ AccountHolds(t)
      /\ Go(p, {"begin"}, "disable") /\ Keep(p, d)
      /\ {"begin"} \in SUBSET Steps /\ "disable" \in Steps
  BY DEF BeginUnenroll, Beginning, MayUnenroll, Fenced, Contract, EnrollmentInvariant, TypeOK, Jobs,
     Sealed, Steps, UnenrollSteps
<1>2. disk[t].root /\ disk[t].quarantine = {} /\ t \in config
  BY <1>1 DEF AccountHolds, DiskHolds, EmptyDisk, Unenrolling, Sealed, Admitted
<1>3. j \in Journals /\ j.operation = "unenroll" /\ j.phase = "STARTED"
  BY <1>1 DEF Journals, Phases, Jobs
<1> HIDE DEF j
<1>4. d \in Disks /\ d.root /\ d.journal = j /\ d.quarantine = {}
  BY <1>1, <1>2, <1>3 DEF Disks
<1> HIDE DEF d
<1>5. /\ \A u \in Targets : u = Target(p) => AccountHolds(u)'
      /\ BaselineHolds' /\ OnlyAccount(Target(p))
      /\ AdapterTyped' /\ disk' \in [Targets -> Disks] /\ disk'[Target(p)] = d
  BY <1>1, <1>2, <1>3, <1>4, UnenrollWrites
<1>6. pc'[p] = "disable" /\ job'[p] = job[p]
  BY <1>1, GoLeads DEF EnrollmentInvariant
<1>7. ProcessHolds(p)'
  <2>1. Unenrolling(Target(p))'
    BY <1>3, <1>4, <1>5, <1>6 DEF Unenrolling
  <2>2. UnenrollHolds(p)'
    BY <1>6, <2>1 DEF UnenrollHolds, UnenrollSteps, RollbackSteps
  <2> QED
    BY <1>1, <1>4, <1>5, <1>6, <2>2 DEF ProcessHolds, Rooted
<1> QED
  BY <1>1, <1>5, <1>7, GoLeads DEF Sound, EnrollmentInvariant, TypeOK

LEMMA BeginUnenrollFailsSound ==
  ASSUME EnrollmentInvariant, NEW p \in Procs, BeginUnenrollFails(p)
  PROVE  Sound(p) /\ Holds(p)
<1> DEFINE t == Target(p)
           j == [operation |-> "unenroll", phase |-> "STARTED",
                 result |-> "MANUAL_RECOVERY_REQUIRED",
                 objects |-> {}, generation |-> job[p].generation, directory |-> FALSE]
           d == [Disk(p) EXCEPT !.journal = j]
<1>1. /\ pc[p] = "begin" /\ job[p] \in Jobs /\ t \in Targets
      /\ disk[t].journal = None /\ Sealed(t) /\ disk[t] \in Disks /\ AccountHolds(t)
      /\ Finish(p, {"begin"}) /\ Keep(p, d) /\ {"begin"} \in SUBSET Steps
  BY DEF BeginUnenrollFails, Beginning, MayUnenroll, Fenced, Contract, EnrollmentInvariant, TypeOK,
     Jobs, Sealed, Steps
<1>2. disk[t].root /\ disk[t].quarantine = {} /\ t \in config
  BY <1>1 DEF AccountHolds, DiskHolds, EmptyDisk, Unenrolling, Sealed, Admitted
<1>3. j \in Journals /\ j.operation = "unenroll" /\ j.phase = "STARTED"
  BY <1>1 DEF Journals, Phases, Jobs
<1> HIDE DEF j
<1>4. d \in Disks /\ d.root /\ d.journal = j /\ d.quarantine = {}
  BY <1>1, <1>2, <1>3 DEF Disks
<1> HIDE DEF d
<1>5. /\ \A u \in Targets : u = Target(p) => AccountHolds(u)'
      /\ BaselineHolds' /\ OnlyAccount(Target(p))
      /\ AdapterTyped' /\ disk' \in [Targets -> Disks]
  BY <1>1, <1>2, <1>3, <1>4, UnenrollWrites
<1> QED
  BY <1>1, <1>5, FinishEnds DEF Sound, EnrollmentInvariant, TypeOK

LEMMA ResumeSound ==
  ASSUME EnrollmentInvariant, NEW p \in Procs, Resume(p)
  PROVE  Sound(p) /\ Holds(p)
<1> DEFINE t == Target(p)
           to == ResumeAt(disk[t].journal.phase)
<1>1. /\ pc[p] = "begin" /\ job[p] \in Jobs /\ job[p].verb = "unenroll" /\ t \in Targets
      /\ Unenrolling(t) /\ disk[t] \in Disks /\ AccountHolds(t)
      /\ Go(p, {"begin"}, to) /\ NoWrite /\ {"begin"} \in SUBSET Steps
  BY DEF Resume, Beginning, MayResume, Fenced, EnrollmentInvariant, TypeOK, Jobs, Unenrolling, Steps
<1>2. disk[t].root /\ disk[t].journal.phase \in Phases
  BY <1>1 DEF AccountHolds, DiskHolds, EmptyDisk, Unenrolling, Disks, Journals
<1>3. /\ to \in {"disable", "backend", "rollback", "metadata", "answer"}
      /\ to = "rollback" => disk[t].journal.phase = "PLUGIN_QUARANTINED" /\ NoTrees(t)
      /\ to = "metadata" => NoTrees(t) /\ LeftHost(t)
  BY <1>1, <1>2 DEF ResumeAt, Phases, AccountHolds, PhaseHolds
<1> HIDE DEF to
<1>4. to \in Steps
  BY <1>3 DEF Steps, UnenrollSteps, ApplySteps, Objects
<1>5. pc'[p] = to /\ job'[p] = job[p]
  BY <1>1, <1>4, GoLeads DEF EnrollmentInvariant
<1>6. UnenrollHolds(p)'
  <2>1. /\ Unenrolling(t)' /\ disk' = disk
        /\ NoTrees(t) => NoTrees(t)'
        /\ LeftHost(t) => LeftHost(t)'
    BY <1>1, <1>5 DEF Unenrolling, NoTrees, LeftHost
  <2> QED
    BY <1>3, <1>5, <2>1 DEF UnenrollHolds, UnenrollSteps, RollbackSteps, Objects
<1>7. ProcessHolds(p)'
  BY <1>1, <1>2, <1>5, <1>6 DEF ProcessHolds, Rooted
<1> QED
  BY <1>1, <1>4, <1>7, GoesOnSound

LEMMA DisableSound ==
  ASSUME EnrollmentInvariant, NEW p \in Procs, Disable(p)
  PROVE  Sound(p) /\ Holds(p)
<1> DEFINE t == Target(p)
<1>1. /\ {"disable"} \in SUBSET Steps /\ "disabled" \in Steps
      /\ pc[p] = "disable" /\ pc[p] \in UnenrollSteps
      /\ {"disable"} \intersect (Unlocked \cup {"begin", "stage", "unlink", "clean"}) = {}
  BY DEF Disable, Go, Steps, UnenrollSteps
<1>2. CASE Go(p, {"disable"}, "failed") /\ NoWrite
  BY <1>1, <1>2, FailedSound
<1>3. CASE /\ Go(p, {"disable"}, "disabled") /\ hermes[t] = "enabled"
           /\ SetPlugin(t, "disabled") /\ DiskKept
  <2>1. /\ t \in Targets /\ Unenrolling(t) /\ Disk(p).root /\ AccountHolds(t)
        /\ AdapterTyped /\ BaselineHolds /\ disk \in [Targets -> Disks]
    BY <1>1, Unenroller DEF EnrollmentInvariant, TypeOK
  <2>2. /\ hermes' = [hermes EXCEPT ![t] = "disabled"]
        /\ UNCHANGED <<config, dropin, members, records, disk>>
    BY <1>3 DEF SetPlugin
  <2>3. AdapterTyped' /\ OnlyAccount(Target(p)) /\ BaselineHolds' /\ disk' \in [Targets -> Disks]
    BY <2>1, <2>2 DEF AdapterTyped, OnlyAccount, BaselineHolds
  <2>4. pc'[p] = "disabled" /\ job'[p] = job[p]
    BY <1>1, <1>3, GoLeads DEF EnrollmentInvariant
  <2>5. ASSUME NEW u \in Targets, u = Target(p) PROVE AccountHolds(u)'
    <3>1. RecordsHold(u)'
      BY <1>3, <2>1, <2>2, <2>5 DEF AccountHolds, RecordsHold
    <3>2. DiskHolds(u)'
      BY <2>1, <2>2, <2>5 DEF AccountHolds, DiskHolds, Unenrolling
    <3>3. PhaseHolds(u)'
      BY <1>3, <2>1, <2>2, <2>5 DEF AccountHolds, PhaseHolds, Unenrolling, NoTrees, LeftHost
    <3> QED
      BY <3>1, <3>2, <3>3 DEF AccountHolds
  <2>6. UnenrollHolds(p)' /\ Rooted(p)'
    BY <2>1, <2>2, <2>4
       DEF UnenrollHolds, Rooted, Unenrolling, UnenrollSteps, RollbackSteps, Objects
  <2> QED
    BY <1>1, <1>3, <2>3, <2>5, <2>6, UnenrollGoes
<1> QED
  BY <1>1, <1>2, <1>3 DEF Disable

(* A phase of the journal is written when what it says has been done.       *)
LEMMA PhaseWritten ==
  ASSUME EnrollmentInvariant, NEW p \in Procs, NEW from \in SUBSET UnenrollSteps,
         NEW to \in UnenrollSteps \cup {"answer"}, Go(p, from, to),
         NEW phase \in Phases, NEW result \in {None, "QUARANTINED", "MANUAL_RECOVERY_REQUIRED"},
         NEW observation \in Observations,
         Keep(p, [Disk(p) EXCEPT !.journal.phase = phase, !.journal.result = result,
                                 !.observation = observation]),
         phase \in {"DISABLED", "PLUGIN_QUARANTINED", "ADAPTER_RESTORED", "QUARANTINED"},
         phase # "DISABLED" => NoTrees(Target(p)),
         phase \in {"ADAPTER_RESTORED", "QUARANTINED"} => LeftHost(Target(p)),
         phase = "QUARANTINED" => Disk(p).metadata = None /\ observation = "none",
         to = CASE phase = "DISABLED" -> "backend"
                [] phase = "PLUGIN_QUARANTINED" -> "rollback"
                [] phase = "ADAPTER_RESTORED" -> "metadata"
                [] phase = "QUARANTINED" -> "answer"
  PROVE  Sound(p) /\ Holds(p)
<1> DEFINE j == [Disk(p).journal EXCEPT !.phase = phase, !.result = result]
           d == [Disk(p) EXCEPT !.journal = j, !.observation = observation]
<1>1. /\ from \in SUBSET Steps /\ to \in Steps /\ "idle" \notin from
      /\ \A s \in from : s \notin Unlocked
  BY DEF Steps, UnenrollSteps, ApplySteps, Objects
<1>2. pc[p] \in from /\ pc'[p] = to /\ job'[p] = job[p]
  BY <1>1, GoLeads DEF EnrollmentInvariant
<1>3. /\ Disk(p) \in Disks /\ Disk(p).journal \in Journals /\ Disk(p).journal.operation = "unenroll"
      /\ Disk(p).root /\ AccountHolds(Target(p)) /\ Target(p) \in Targets
      /\ Disk(p).quarantine \subseteq Disk(p).journal.objects
  BY <1>2, Unenroller DEF Unenrolling, AccountHolds, DiskHolds
<1>4. /\ j \in Journals /\ j.operation = "unenroll" /\ j.phase = phase
      /\ j.objects = Disk(p).journal.objects
  BY <1>3 DEF Journals
<1>5. Keep(p, d)
  BY <1>3 DEF Disks
<1> HIDE DEF j
<1>6. /\ d \in Disks /\ d.root /\ d.journal = j /\ d.quarantine = Disk(p).quarantine
      /\ d.tree = Disk(p).tree /\ d.metadata = Disk(p).metadata /\ d.observation = observation
  BY <1>3, <1>4 DEF Disks
<1> HIDE DEF d
<1>7. /\ Target(p) \in config \/ NoTrees(Target(p))
      /\ NoTrees(Target(p)) <=> \A k \in Trees : d.tree[k] = 0
  BY <1>2, <1>3, <1>6, Unenroller DEF AccountHolds, PhaseHolds, NoTrees
<1>8. /\ \A u \in Targets : u = Target(p) => AccountHolds(u)'
      /\ BaselineHolds' /\ OnlyAccount(Target(p))
      /\ AdapterTyped' /\ disk' \in [Targets -> Disks] /\ disk'[Target(p)] = d
      /\ UNCHANGED <<config, members, hermes, snapshot>>
  BY <1>3, <1>4, <1>5, <1>6, <1>7, UnenrollWrites
<1>9. UnenrollHolds(p)' /\ Rooted(p)'
  <2>1. /\ Unenrolling(Target(p))'
        /\ NoTrees(Target(p)) => NoTrees(Target(p))'
        /\ LeftHost(Target(p)) => LeftHost(Target(p))'
        /\ disk'[job'[p].target].journal.phase = phase
        /\ disk'[job'[p].target].root
    BY <1>2, <1>4, <1>6, <1>7, <1>8 DEF Unenrolling, NoTrees, LeftHost
  <2> QED
    BY <1>2, <2>1 DEF UnenrollHolds, Rooted, UnenrollSteps, RollbackSteps, Objects
<1> QED
  BY <1>1, <1>2, <1>8, <1>9, UnenrollGoes

LEMMA PhasesSound ==
  ASSUME EnrollmentInvariant, NEW p \in Procs,
         Disabled(p) \/ PluginsAway(p) \/ Restored(p) \/ Quarantined(p)
  PROVE  Sound(p) /\ Holds(p)
<1> DEFINE j == Disk(p).journal
           Written(phase, result, observation) ==
             [Disk(p) EXCEPT !.journal.phase = phase, !.journal.result = result,
                             !.observation = observation]
<1>1. pc[p] \in {"disabled", "plugins away", "restored", "quarantined"}
  BY DEF Disabled, PluginsAway, Restored, Quarantined, Go
<1>2. /\ Disk(p) \in Disks /\ j \in Journals /\ UnenrollHolds(p)
      /\ Disk(p).observation \in Observations
      /\ j.result \in {None, "QUARANTINED", "MANUAL_RECOVERY_REQUIRED"}
  BY <1>1, Unenroller DEF UnenrollSteps, Disks, Journals
<1>3. CASE Disabled(p)
  <2>1. [Disk(p) EXCEPT !.journal.phase = "DISABLED", !.observation = "other"]
          = Written("DISABLED", j.result, "other")
    BY <1>2 DEF Disks, Journals
  <2> QED
    BY <1>2, <1>3, <2>1, PhaseWritten DEF Disabled, UnenrollSteps, Objects, Phases, Observations
<1>4. CASE PluginsAway(p)
  <2>1. [Disk(p) EXCEPT !.journal.phase = "PLUGIN_QUARANTINED"]
          = Written("PLUGIN_QUARANTINED", j.result, Disk(p).observation)
    BY <1>2 DEF Disks, Journals
  <2>2. NoTrees(Target(p))
    BY <1>2, <1>4 DEF PluginsAway, Go, UnenrollHolds
  <2> QED
    BY <1>2, <1>4, <2>1, <2>2, PhaseWritten DEF PluginsAway, Phase, UnenrollSteps, Phases
<1>5. CASE Restored(p)
  <2>1. [Disk(p) EXCEPT !.journal.phase = "ADAPTER_RESTORED", !.observation = "other"]
          = Written("ADAPTER_RESTORED", j.result, "other")
    BY <1>2 DEF Disks, Journals
  <2>2. NoTrees(Target(p)) /\ LeftHost(Target(p))
    BY <1>2, <1>5 DEF Restored, Go, UnenrollHolds
  <2> QED
    BY <1>2, <1>5, <2>1, <2>2, PhaseWritten
       DEF Restored, UnenrollSteps, Objects, Phases, Observations
<1>6. CASE Quarantined(p)
  <2>1. [Disk(p) EXCEPT !.journal.phase = "QUARANTINED", !.journal.result = "QUARANTINED"]
          = Written("QUARANTINED", "QUARANTINED", Disk(p).observation)
    BY <1>2 DEF Disks, Journals
  <2>2. /\ NoTrees(Target(p)) /\ LeftHost(Target(p))
        /\ Disk(p).metadata = None /\ Disk(p).observation = "none"
    BY <1>2, <1>6 DEF Quarantined, Go, UnenrollHolds
  <2> QED
    BY <1>2, <1>6, <2>1, <2>2, PhaseWritten DEF Quarantined, UnenrollSteps, Phases
<1> QED
  BY <1>3, <1>4, <1>5, <1>6

(* An object is named by the journal, and moved.                            *)
LEMMA RecordObjectSound ==
  ASSUME EnrollmentInvariant, NEW p \in Procs, RecordObject(p)
  PROVE  Sound(p) /\ Holds(p)
<1> DEFINE t == Target(p)
           object == pc[p]
           phase == IF object \in Trees THEN "PLUGIN_QUARANTINING" ELSE "QUARANTINING"
           j == [Disk(p).journal EXCEPT !.objects = @ \cup {object}, !.phase = phase]
           d == [Disk(p) EXCEPT !.journal = j]
<1>1. /\ object \in Objects /\ object \in UnenrollSteps /\ object \notin Unlocked
      /\ UNCHANGED <<pc, job, package, adapterVars>>
  BY DEF RecordObject, Keep, UnenrollSteps, Objects
<1>2. /\ Disk(p) \in Disks /\ Disk(p).journal \in Journals /\ Disk(p).journal.operation = "unenroll"
      /\ Disk(p).root /\ AccountHolds(t) /\ t \in Targets /\ UnenrollHolds(p)
      /\ Disk(p).quarantine \subseteq Disk(p).journal.objects /\ job[p] \in Jobs
      /\ job[p].verb # "apply"
  BY <1>1, Unenroller DEF Unenrolling, AccountHolds, DiskHolds
<1>3. Keep(p, d)
  BY <1>1, <1>2 DEF RecordObject, Disks, Journals
<1>4. /\ j \in Journals /\ j.operation = "unenroll" /\ j.phase = phase
      /\ j.objects = Disk(p).journal.objects \cup {object}
  BY <1>1, <1>2 DEF Journals, Phases
<1> HIDE DEF j
<1>5. /\ d \in Disks /\ d.root /\ d.journal = j /\ d.quarantine = Disk(p).quarantine
      /\ d.tree = Disk(p).tree /\ d.metadata = Disk(p).metadata
      /\ d.observation = Disk(p).observation
  BY <1>2, <1>4 DEF Disks
<1> HIDE DEF d
<1>6. /\ t \in config \/ NoTrees(t)
      /\ NoTrees(t) <=> \A k \in Trees : d.tree[k] = 0
      /\ phase = "QUARANTINING" => NoTrees(t) /\ LeftHost(t)
  BY <1>1, <1>2, <1>5, Unenroller
     DEF AccountHolds, PhaseHolds, NoTrees, UnenrollHolds, Objects, Trees
<1>7. d.quarantine \subseteq d.journal.objects
  BY <1>2, <1>4, <1>5
<1>8. /\ \A u \in Targets : u = Target(p) => AccountHolds(u)'
      /\ BaselineHolds' /\ OnlyAccount(Target(p))
      /\ AdapterTyped' /\ disk' \in [Targets -> Disks] /\ disk'[Target(p)] = d
      /\ UNCHANGED <<config, members, hermes, snapshot>>
  BY <1>2, <1>3, <1>4, <1>5, <1>6, <1>7, UnenrollWrites
<1>9. ProcessHolds(p)'
  <2>1. /\ Unenrolling(Target(p))'
        /\ NoTrees(Target(p)) => NoTrees(Target(p))'
        /\ LeftHost(Target(p)) => LeftHost(Target(p))'
        /\ disk'[job'[p].target] = d /\ job' = job /\ pc' = pc
    BY <1>1, <1>2, <1>4, <1>5, <1>6, <1>8 DEF Unenrolling, NoTrees, LeftHost
  <2>2. UnenrollHolds(p)'
    BY <1>1, <1>2, <1>5, <2>1 DEF UnenrollHolds, UnenrollSteps, RollbackSteps, Objects
  <2> QED
    BY <1>2, <1>5, <2>1, <2>2 DEF ProcessHolds, Rooted
<1>10. OnlyProcess(p)
  BY <1>1 DEF OnlyProcess
<1> QED
  BY <1>1, <1>8, <1>9, <1>10 DEF Sound, EnrollmentInvariant, TypeOK

LEMMA DetachedKeeps ==
  ASSUME NEW p \in Procs, Disk(p) \in Disks, NEW object \in Objects
  PROVE  /\ Detached(p, object) \in Disks
         /\ Detached(p, object).root = Disk(p).root
         /\ Detached(p, object).journal = Disk(p).journal
         /\ Detached(p, object).quarantine = Disk(p).quarantine
         /\ \A k \in Trees : Detached(p, object).tree[k] \in {0, Disk(p).tree[k]}
         /\ Detached(p, object).metadata \in {None, Disk(p).metadata}
         /\ Detached(p, object).observation \in {"none", Disk(p).observation}
<1>1. CASE object \in Trees
  BY <1>1 DEF Detached, Disks, Trees
<1>2. CASE object = "metadata"
  BY <1>2 DEF Detached, Disks, Trees
<1>3. CASE object = "observation"
  BY <1>3 DEF Detached, Disks, Trees, Observations
<1> QED
  BY <1>1, <1>2, <1>3 DEF Objects, Trees

LEMMA MoveObjectSound ==
  ASSUME EnrollmentInvariant, NEW p \in Procs, MoveObject(p)
  PROVE  Sound(p) /\ Holds(p)
<1> DEFINE t == Target(p)
           object == pc[p]
           e == Detached(p, object)
           d == [e EXCEPT !.quarantine = @ \cup {object}]
<1>1. /\ object \in Objects /\ object \in UnenrollSteps /\ object \notin Unlocked
      /\ object \in Disk(p).journal.objects
      /\ UNCHANGED <<pc, job, package, adapterVars>>
      /\ Keep(p, d)
  BY DEF MoveObject, Recorded, Keep, UnenrollSteps, Objects
<1>2. /\ Disk(p) \in Disks /\ Disk(p).journal \in Journals /\ Disk(p).journal.operation = "unenroll"
      /\ Disk(p).root /\ AccountHolds(t) /\ t \in Targets /\ UnenrollHolds(p)
      /\ Disk(p).quarantine \subseteq Disk(p).journal.objects /\ job[p] \in Jobs
      /\ job[p].verb # "apply"
  BY <1>1, Unenroller DEF Unenrolling, AccountHolds, DiskHolds
<1>3. /\ e \in Disks /\ e.root = Disk(p).root /\ e.journal = Disk(p).journal
      /\ e.quarantine = Disk(p).quarantine
      /\ \A k \in Trees : e.tree[k] \in {0, Disk(p).tree[k]}
      /\ e.metadata \in {None, Disk(p).metadata}
      /\ e.observation \in {"none", Disk(p).observation}
  BY <1>1, <1>2, DetachedKeeps
<1> HIDE DEF e
<1>4. /\ d \in Disks /\ d.root /\ d.journal = Disk(p).journal
      /\ d.quarantine \subseteq d.journal.objects
      /\ \A k \in Trees : d.tree[k] \in {0, Disk(p).tree[k]}
      /\ d.metadata \in {None, Disk(p).metadata}
      /\ d.observation \in {"none", Disk(p).observation}
  BY <1>1, <1>2, <1>3 DEF Disks
<1> HIDE DEF d
<1>5. NoTrees(t) => \A k \in Trees : d.tree[k] = 0
  BY <1>4 DEF NoTrees
<1>6. /\ \A u \in Targets : u = Target(p) => AccountHolds(u)'
      /\ BaselineHolds' /\ OnlyAccount(Target(p))
      /\ AdapterTyped' /\ disk' \in [Targets -> Disks] /\ disk'[Target(p)] = d
      /\ UNCHANGED <<config, members, hermes, snapshot>>
  <2>1. PhaseHolds(t) /\ Unenrolling(t)
    BY <1>1, <1>2, Unenroller DEF AccountHolds
  <2> QED
    BY <1>1, <1>2, <1>4, <1>5, <2>1, UnenrollWrites DEF PhaseHolds
<1>7. ProcessHolds(p)'
  <2>1. /\ Unenrolling(Target(p))'
        /\ NoTrees(Target(p)) => NoTrees(Target(p))'
        /\ LeftHost(Target(p)) => LeftHost(Target(p))'
        /\ disk'[job'[p].target] = d /\ job' = job /\ pc' = pc
    BY <1>1, <1>2, <1>4, <1>5, <1>6 DEF Unenrolling, NoTrees, LeftHost
  <2>2. pc[p] = "desktop" => d.tree["backend"] = 0
    BY <1>2, <1>4 DEF UnenrollHolds, Trees
  <2>3. UnenrollHolds(p)'
    BY <1>1, <1>2, <1>4, <2>1, <2>2 DEF UnenrollHolds, UnenrollSteps, RollbackSteps, Objects
  <2> QED
    BY <1>2, <1>4, <2>1, <2>3 DEF ProcessHolds, Rooted
<1>8. OnlyProcess(p)
  BY <1>1 DEF OnlyProcess
<1> QED
  BY <1>1, <1>6, <1>7, <1>8 DEF Sound, EnrollmentInvariant, TypeOK

LEMMA NextObjectSound ==
  ASSUME EnrollmentInvariant, NEW p \in Procs, NextObject(p)
  PROVE  Sound(p) /\ Holds(p)
<1> DEFINE t == Target(p)
           to == NextStep(pc[p])
<1>1. /\ pc[p] \in Objects /\ pc[p] \in UnenrollSteps /\ pc[p] \notin Unlocked
      /\ ~Present(p, pc[p]) /\ Go(p, Objects, to) /\ NoWrite
      /\ Objects \in SUBSET Steps /\ "idle" \notin Objects
  BY DEF NextObject, UnenrollSteps, Objects, Steps
<1>2. /\ UnenrollHolds(p) /\ Unenrolling(t) /\ Disk(p).root /\ job[p].verb # "apply"
  BY <1>1, Unenroller
<1>3. /\ to \in {"desktop", "plugins away", "observation", "quarantined"}
      /\ to = "desktop" => Disk(p).tree["backend"] = 0
      /\ to = "plugins away" => NoTrees(t)
      /\ to \in {"observation", "quarantined"} =>
           NoTrees(t) /\ LeftHost(t) /\ Disk(p).metadata = None
      /\ to = "quarantined" => Disk(p).observation = "none"
  BY <1>1, <1>2 DEF NextStep, Present, UnenrollHolds, NoTrees, Objects, Trees
<1> HIDE DEF to
<1>4. to \in Steps
  BY <1>3 DEF Steps, UnenrollSteps, Objects
<1>5. pc'[p] = to /\ job'[p] = job[p]
  BY <1>1, <1>4, GoLeads DEF EnrollmentInvariant
<1>6. /\ Unenrolling(t)' /\ disk' = disk
      /\ NoTrees(t) => NoTrees(t)'
      /\ LeftHost(t) => LeftHost(t)'
  BY <1>1, <1>2, <1>5 DEF Unenrolling, NoTrees, LeftHost
<1>7. UnenrollHolds(p)'
  BY <1>3, <1>5, <1>6 DEF UnenrollHolds, UnenrollSteps, RollbackSteps, Objects
<1>8. ProcessHolds(p)'
  BY <1>2, <1>5, <1>6, <1>7 DEF ProcessHolds, Rooted
<1> QED
  BY <1>1, <1>4, <1>8, GoesOnSound

----
(* The rollback of the host, which both transactions end in.                *)
LEMMA RollbackSound ==
  ASSUME EnrollmentInvariant, NEW p \in Procs, Rollback(p)
  PROVE  Sound(p) /\ Holds(p)
<1>1. /\ {"rollback"} \in SUBSET Steps /\ "deauthorize" \in Steps
      /\ pc[p] = "rollback" /\ pc[p] \in UnenrollSteps /\ NoWrite
      /\ {"rollback"} \intersect (Unlocked \cup {"begin", "stage", "unlink", "clean"}) = {}
  BY DEF Rollback, Go, Steps, UnenrollSteps, RollbackSteps
<1>2. CASE ~MayRollBack(Target(p), job[p].generation)
  BY <1>1, <1>2, FailedSound DEF Rollback
<1>3. CASE MayRollBack(Target(p), job[p].generation)
  <2>1. Go(p, {"rollback"}, "deauthorize") /\ snapshot[Target(p)] # None
    BY <1>3 DEF Rollback, MayRollBack
  <2>2. /\ UnenrollHolds(p) /\ Unenrolling(Target(p)) /\ Disk(p).root /\ job[p].verb # "apply"
    BY <1>1, Unenroller
  <2>3. pc'[p] = "deauthorize" /\ job'[p] = job[p]
    BY <1>1, <2>1, GoLeads DEF EnrollmentInvariant
  <2>4. UnenrollHolds(p)'
    BY <1>1, <2>1, <2>2, <2>3 DEF UnenrollHolds, Unenrolling, NoTrees, UnenrollSteps,
       RollbackSteps, Objects
  <2>5. ProcessHolds(p)'
    BY <1>1, <2>2, <2>3, <2>4 DEF ProcessHolds, Rooted
  <2> QED
    BY <1>1, <2>1, <2>5, GoesOnSound
<1> QED
  BY <1>2, <1>3

LEMMA RollingBack ==
  ASSUME EnrollmentInvariant, NEW p \in Procs, pc[p] \in RollbackSteps
  PROVE  /\ Target(p) \in Targets /\ AccountHolds(Target(p)) /\ Disk(p).root
         /\ snapshot[Target(p)] \in Snapshots /\ AdapterTyped /\ BaselineHolds
         /\ job[p].verb = "apply" => Disk(p).journal = None /\ ~Sealed(Target(p))
         /\ job[p].verb # "apply" => UnenrollHolds(p)
<1>1. pc[p] \notin Unlocked \cup {"begin", "stage", "unlink", "clean"}
  BY DEF RollbackSteps
<1>2. ProcessHolds(p) /\ Target(p) \in Targets /\ AccountHolds(Target(p)) /\ TypeOK /\ BaselineHolds
  BY <1>1 DEF EnrollmentInvariant, TypeOK, Jobs
<1>3. snapshot[Target(p)] # None
  BY <1>1, <1>2 DEF ProcessHolds, ApplyHolds, UnenrollHolds
<1> QED
  BY <1>1, <1>2, <1>3 DEF ProcessHolds, ApplyHolds, Rooted, TypeOK, AdapterTyped

LEMMA HostRolledBack ==
  ASSUME EnrollmentInvariant, NEW p \in Procs, NEW from \in SUBSET RollbackSteps,
         NEW to \in RollbackSteps \cup {"failed", "restored"}, Go(p, from, to),
         disk' = disk, AdapterTyped', BaselineHolds', OnlyAccount(Target(p)), snapshot' = snapshot,
         RecordsHold(Target(p)) => \A t \in Targets : t = Target(p) => RecordsHold(t)',
         to = "epoch" => hermes'[Target(p)] = "plain",
         to = "restored" =>
           job[p].verb # "apply" /\ \A t \in Targets : t = Target(p) => LeftHost(t)'
  PROVE  Sound(p) /\ Holds(p)
<1>0. from \in SUBSET Steps /\ to \in Steps /\ "idle" \notin from
  BY DEF Steps, UnenrollSteps, RollbackSteps, Undoing
<1>1. pc[p] \in RollbackSteps /\ pc'[p] = to /\ job'[p] = job[p]
  BY <1>0, GoLeads DEF EnrollmentInvariant
<1>2. /\ Target(p) \in Targets /\ AccountHolds(Target(p)) /\ Disk(p).root
      /\ snapshot[Target(p)] # None
      /\ job[p].verb = "apply" => Disk(p).journal = None /\ ~Sealed(Target(p))
      /\ job[p].verb # "apply" => UnenrollHolds(p)
  BY <1>1, RollingBack
<1>3. job[p].verb # "apply" =>
        /\ Unenrolling(Target(p)) /\ NoTrees(Target(p))
        /\ Disk(p).journal.phase = "PLUGIN_QUARANTINED"
  BY <1>1, <1>2 DEF UnenrollHolds, RollbackSteps
<1>4. ASSUME NEW t \in Targets, t = Target(p) PROVE AccountHolds(t)'
  <2>1. RecordsHold(t)'
    BY <1>2, <1>4 DEF AccountHolds
  <2>2. DiskHolds(t)'
    BY <1>2, <1>3, <1>4 DEF AccountHolds, DiskHolds, Unenrolling, Sealed
  <2>3. PhaseHolds(t)'
    BY <1>2, <1>3, <1>4 DEF PhaseHolds, Unenrolling, NoTrees
  <2> QED
    BY <2>1, <2>2, <2>3 DEF AccountHolds
<1>5. job[p].verb = "apply" => ApplyHolds(p)'
  BY <1>1, <1>2 DEF ApplyHolds, Sealed, ApplySteps, PrepareSteps, RollbackSteps, Undoing
<1>6. job[p].verb # "apply" => UnenrollHolds(p)'
  <2>1. Unenrolling(Target(p)) => Unenrolling(Target(p))'
    BY <1>1 DEF Unenrolling
  <2>2. NoTrees(Target(p)) => NoTrees(Target(p))'
    BY <1>1 DEF NoTrees
  <2>3. to = "restored" => LeftHost(Target(p))'
    BY <1>1, <1>2 DEF LeftHost
  <2> QED
    BY <1>1, <1>2, <1>3, <2>1, <2>2, <2>3 DEF UnenrollHolds, UnenrollSteps, RollbackSteps, Objects
<1>7. ProcessHolds(p)'
  BY <1>1, <1>2, <1>5, <1>6 DEF ProcessHolds, Rooted
<1>8. disk' \in [Targets -> Disks]
  BY DEF EnrollmentInvariant, TypeOK
<1>9. Holds(p)
  BY <1>1 DEF RollbackSteps
<1> QED
  BY <1>0, <1>4, <1>7, <1>8, <1>9, GoLeads DEF Sound, EnrollmentInvariant, TypeOK

LEMMA RollBackHostSound ==
  ASSUME EnrollmentInvariant, NEW p \in Procs, RollBackHost(p)
  PROVE  Sound(p) /\ Holds(p)
<1> DEFINE t == Target(p)
<1>1. pc[p] \in RollbackSteps /\ disk' = disk
  BY DEF RollBackHost, Go, RollbackSteps
<1>2. /\ t \in Targets /\ AccountHolds(t) /\ snapshot[t] # None /\ snapshot[t] \in Snapshots
      /\ AdapterTyped /\ BaselineHolds
      /\ job[p].verb # "apply" => UnenrollHolds(p)
  BY <1>1, RollingBack
<1>3. CASE Go(p, {"deauthorize"}, "restore") /\ Deauthorize(t)
  <2>1. baseline # None /\ baseline \in SharedFiles
    BY <1>2 DEF BaselineHolds, AdapterTyped
  <2>2. /\ config' = IF Others(t) = {} THEN baseline.config ELSE config \ {t}
        /\ UNCHANGED <<dropin, members, hermes, records>>
    BY <1>3 DEF Deauthorize
  <2>3. AdapterTyped'
    BY <1>2, <2>1, <2>2 DEF AdapterTyped, SharedFiles
  <2>4. \A u \in Targets \ {t} : u \in config' <=> u \in config
    BY <1>2, <2>1, <2>2 DEF Others, BaselineHolds
  <2>5. OnlyAccount(Target(p)) /\ BaselineHolds'
    BY <1>1, <1>2, <2>2, <2>4 DEF OnlyAccount, BaselineHolds
  <2>6. RecordsHold(Target(p)) => \A u \in Targets : u = Target(p) => RecordsHold(u)'
    BY <2>2 DEF RecordsHold
  <2> QED
    BY <1>1, <1>3, <2>2, <2>3, <2>5, <2>6, HostRolledBack DEF RollbackSteps
<1>4. CASE Go(p, {"restore"}, "leave") /\ RestoreDropin(t)
  <2>1. AdapterTyped' /\ OnlyAccount(Target(p)) /\ BaselineHolds' /\ snapshot' = snapshot
    BY <1>1, <1>2, <1>4 DEF RestoreDropin, AdapterTyped, SharedFiles, OnlyAccount, BaselineHolds
  <2>2. RecordsHold(Target(p)) => \A u \in Targets : u = Target(p) => RecordsHold(u)'
    BY <1>4 DEF RecordsHold, RestoreDropin
  <2> QED
    BY <1>1, <1>4, <2>1, <2>2, HostRolledBack DEF RollbackSteps
<1>5. CASE Go(p, {"leave"}, "unconfigure") /\ Leave(t)
  <2>1. AdapterTyped' /\ OnlyAccount(Target(p)) /\ BaselineHolds' /\ snapshot' = snapshot
    BY <1>1, <1>2, <1>5 DEF Leave, AdapterTyped, OnlyAccount, BaselineHolds
  <2>2. RecordsHold(Target(p)) => \A u \in Targets : u = Target(p) => RecordsHold(u)'
    BY <1>2, <1>5 DEF RecordsHold, Leave
  <2> QED
    BY <1>1, <1>5, <2>1, <2>2, HostRolledBack DEF RollbackSteps
<1>6. CASE Go(p, {"unconfigure"}, "epoch") /\ RestoreHermes(t)
  <2>1. AdapterTyped' /\ OnlyAccount(Target(p)) /\ BaselineHolds' /\ snapshot' = snapshot
    BY <1>1, <1>2, <1>6 DEF RestoreHermes, AdapterTyped, Snapshots, OnlyAccount, BaselineHolds
  <2>2. hermes'[t] = "plain"
    BY <1>2, <1>6 DEF RestoreHermes, AdapterTyped, AccountHolds, RecordsHold
  <2>3. RecordsHold(Target(p)) => \A u \in Targets : u = Target(p) => RecordsHold(u)'
    BY <1>2, <1>6 DEF RecordsHold, RestoreHermes
  <2> QED
    BY <1>1, <1>6, <2>1, <2>2, <2>3, HostRolledBack DEF RollbackSteps
<1>7. CASE /\ Go(p, {"epoch"}, IF job[p].verb = "apply" THEN "failed" ELSE "restored")
           /\ EpochClean(t) /\ RecordManaged
  <2>1. AdapterTyped' /\ OnlyAccount(Target(p)) /\ BaselineHolds' /\ snapshot' = snapshot
    BY <1>1, <1>2, <1>7 DEF RecordManaged, Shared, SharedFiles, AdapterTyped, OnlyAccount,
       BaselineHolds
  <2>2. RecordsHold(Target(p)) => \A u \in Targets : u = Target(p) => RecordsHold(u)'
    BY <1>7 DEF RecordsHold, RecordManaged
  <2>3. job[p].verb # "apply" => \A u \in Targets : u = Target(p) => LeftHost(u)'
    BY <1>2, <1>7 DEF LeftHost, UnenrollHolds, EpochClean, RecordManaged, Go
  <2> DEFINE to == IF job[p].verb = "apply" THEN "failed" ELSE "restored"
  <2>4. /\ to \in RollbackSteps \cup {"failed", "restored"} /\ to # "epoch"
        /\ to = "restored" => job[p].verb # "apply"
        /\ {"epoch"} \in SUBSET RollbackSteps
    BY DEF RollbackSteps
  <2> HIDE DEF to
  <2>5. Go(p, {"epoch"}, to)
    BY <1>7 DEF to
  <2> QED
    BY <1>1, <2>1, <2>2, <2>3, <2>4, <2>5, HostRolledBack
<1>8. CASE Go(p, {"epoch"}, "failed") /\ UNCHANGED adapterVars
  <2>1. {"epoch"} \in SUBSET Steps
        /\ {"epoch"} \intersect (Unlocked \cup {"begin", "stage", "unlink", "clean"}) = {}
    BY DEF Steps, RollbackSteps
  <2> QED
    BY <1>1, <1>8, <2>1, FailedSound DEF RollbackSteps
<1> QED
  BY <1>3, <1>4, <1>5, <1>6, <1>7, <1>8 DEF RollBackHost

LEMMA GiveUpSound ==
  ASSUME EnrollmentInvariant, NEW p \in Procs, Failed(p)
  PROVE  Sound(p) /\ Holds(p)
<1> DEFINE t == Target(p)
           undone == [operation |-> "rollback", phase |-> "STARTED",
                      result |-> "MANUAL_RECOVERY_REQUIRED", objects |-> {},
                      generation |-> job[p].generation, directory |-> FALSE]
           kept == [Disk(p).journal EXCEPT !.result = "MANUAL_RECOVERY_REQUIRED"]
<1>1. /\ Finish(p, {"failed"}) /\ {"failed"} \in SUBSET Steps /\ "idle" \notin {"failed"}
      /\ pc[p] = "failed"
  BY DEF Failed, Finish, Steps, Undoing
<1>2. /\ job[p] \in Jobs /\ t \in Targets /\ Disk(p) \in Disks /\ ProcessHolds(p)
      /\ AccountHolds(t) /\ Disk(p).root
  BY <1>1 DEF EnrollmentInvariant, TypeOK, Jobs, ProcessHolds, Rooted
<1>3. ASSUME NEW d \in Disks, Keep(p, d), \A u \in Targets : u = Target(p) => AccountHolds(u)'
      PROVE  Sound(p)
  <2>1. /\ AdapterTyped' /\ disk' \in [Targets -> Disks] /\ BaselineHolds'
        /\ OnlyAccount(Target(p))
    BY <1>2, <1>3, KeepWrites
  <2> QED
    BY <1>1, <1>3, <2>1, FinishEnds DEF Sound, EnrollmentInvariant, TypeOK
<1>4. CASE job[p].verb = "unenroll" /\ Keep(p, [Disk(p) EXCEPT !.journal.result =
                                                  "MANUAL_RECOVERY_REQUIRED"])
  <2> DEFINE d == [Disk(p) EXCEPT !.journal = kept]
  <2>1. Unenrolling(t) /\ Disk(p).journal \in Journals
    BY <1>1, <1>2, <1>4 DEF ProcessHolds, UnenrollHolds, Unenrolling, Disks
  <2>2. /\ kept \in Journals /\ kept.operation = "unenroll"
        /\ kept.phase = Disk(p).journal.phase /\ kept.objects = Disk(p).journal.objects
    BY <2>1 DEF Journals, Unenrolling
  <2>3. Keep(p, d)
    BY <1>2, <1>4, <2>1 DEF Disks
  <2> HIDE DEF kept
  <2>4. /\ d \in Disks /\ d.root /\ d.journal = kept /\ d.quarantine = Disk(p).quarantine
        /\ d.tree = Disk(p).tree /\ d.metadata = Disk(p).metadata
        /\ d.observation = Disk(p).observation
    BY <1>2, <2>2 DEF Disks
  <2> HIDE DEF d
  <2>5. /\ d.quarantine \subseteq d.journal.objects
        /\ PhaseHolds(t)
    BY <1>2, <2>1, <2>2, <2>4 DEF AccountHolds, DiskHolds
  <2>6. \A u \in Targets : u = Target(p) => AccountHolds(u)'
    BY <1>2, <2>1, <2>2, <2>3, <2>4, <2>5, UnenrollWrites DEF PhaseHolds, NoTrees
  <2> QED
    BY <1>1, <1>3, <2>3, <2>4, <2>6
<1>5. CASE NoWrite
  BY <1>1, <1>5, EndsSound
<1>6. CASE job[p].verb # "unenroll" /\ Keep(p, [Disk(p) EXCEPT !.journal = undone])
  <2> DEFINE d == [Disk(p) EXCEPT !.journal = undone]
  <2>1. undone \in Journals /\ undone.operation = "rollback"
    BY <1>2 DEF Journals, Phases, Jobs
  <2>2. Disk(p).quarantine = {}
    BY <1>1, <1>2, <1>6 DEF ProcessHolds, ApplyHolds, AccountHolds, DiskHolds, Unenrolling, Jobs
  <2> HIDE DEF undone
  <2>3. /\ d \in Disks /\ d.root /\ d.journal = undone /\ d.quarantine = {}
    BY <1>2, <2>1, <2>2 DEF Disks
  <2>4. Keep(p, d)
    BY <1>6
  <2> HIDE DEF d
  <2>5. disk'[Target(p)] = d /\ UNCHANGED <<config, members, hermes, snapshot>>
    BY <1>2, <2>3, <2>4, KeepWrites DEF Keep
  <2>6. undone # None
    BY <2>1
  <2>7. ASSUME NEW u \in Targets, u = Target(p) PROVE AccountHolds(u)'
    BY <1>2, <2>1, <2>3, <2>5, <2>6, <2>7
       DEF AccountHolds, RecordsHold, DiskHolds, PhaseHolds, Unenrolling
  <2> QED
    BY <1>1, <1>3, <2>3, <2>4, <2>7
<1> QED
  BY <1>2, <1>4, <1>5, <1>6 DEF Failed, Jobs

----
(* Before the lock is held, and between transactions.                       *)
LEMMA StartSound ==
  ASSUME EnrollmentInvariant, NEW p \in Procs, NEW t \in Targets,
         StartUnenroll(p, t) \/ \E restart \in BOOLEAN : StartApply(p, t, restart)
  PROVE  EnrollmentInvariant'
<1>1. /\ pc[p] = "idle" /\ pc' = [pc EXCEPT ![p] = "open"]
      /\ disk' = [disk EXCEPT ![t].root = TRUE]
      /\ UNCHANGED <<adapterVars, package>>
      /\ \E j : job' = [job EXCEPT ![p] = j]
  BY DEF StartUnenroll, StartApply
<1>2. job' \in [Procs -> {None} \cup Jobs] /\ job'[p] \in Jobs
  <2>1. package \in Nat /\ job \in [Procs -> {None} \cup Jobs]
    BY DEF EnrollmentInvariant, TypeOK
  <2>2. ASSUME StartUnenroll(p, t) PROVE \E j \in Jobs : job' = [job EXCEPT ![p] = j]
    BY <2>1, <2>2 DEF StartUnenroll, Jobs
  <2>3. ASSUME NEW restart \in BOOLEAN, StartApply(p, t, restart)
        PROVE  \E j \in Jobs : job' = [job EXCEPT ![p] = j]
    <3>1. ASSUME NEW a \in BOOLEAN, NEW b \in BOOLEAN, NEW c \in BOOLEAN
          PROVE  [verb |-> "apply", target |-> t, restart |-> restart, generation |-> package,
                  existing |-> a, madeLock |-> b, madeRoot |-> c,
                  absent |-> FALSE, reattest |-> FALSE] \in Jobs
      BY <2>1 DEF Jobs
    <3>2. (disk[t].metadata # None) \in BOOLEAN /\ (~disk[t].root) \in BOOLEAN
          /\ (~(disk[t].metadata # None) /\ lockFile = None) \in BOOLEAN
      OBVIOUS
    <3>3. [verb |-> "apply", target |-> t, restart |-> restart, generation |-> package,
           existing |-> disk[t].metadata # None,
           madeLock |-> ~(disk[t].metadata # None) /\ lockFile = None,
           madeRoot |-> ~disk[t].root, absent |-> FALSE, reattest |-> FALSE] \in Jobs
      BY <3>1, <3>2, Zenon
    <3> QED
      BY <2>3, <3>3, Zenon DEF StartApply
  <2> QED
    BY <2>1, <2>2, <2>3
<1> DEFINE d == [disk[t] EXCEPT !.root = TRUE]
<1>3. /\ d \in Disks /\ d.root
      /\ d.tree = disk[t].tree /\ d.metadata = disk[t].metadata
      /\ d.observation = disk[t].observation
      /\ d.journal = disk[t].journal /\ d.quarantine = disk[t].quarantine
  <2>1. disk[t] \in Disks
    BY DEF EnrollmentInvariant, TypeOK
  <2>2. d \in Disks
    BY <2>1 DEF Disks
  <2> QED
    BY <2>1, <2>2 DEF Disks
<1>4. disk' = [disk EXCEPT ![t] = d]
  BY <1>1
<1> HIDE DEF d
<1>5. TypeOK'
  <2>1. disk' \in [Targets -> Disks]
    BY <1>3, <1>4 DEF EnrollmentInvariant, TypeOK
  <2>2. pc' \in [Procs -> Steps] /\ \A q \in Procs : pc'[q] # "idle" => job'[q] \in Jobs
    BY <1>1, <1>2 DEF EnrollmentInvariant, TypeOK, Steps
  <2> QED
    BY <1>1, <1>2, <2>1, <2>2 DEF EnrollmentInvariant, TypeOK, AdapterTyped
<1>6. ASSUME NEW u \in Targets
      PROVE  /\ disk'[u].tree = disk[u].tree /\ disk'[u].metadata = disk[u].metadata
             /\ disk'[u].observation = disk[u].observation
             /\ disk'[u].journal = disk[u].journal /\ disk'[u].quarantine = disk[u].quarantine
             /\ disk[u].root => disk'[u].root
             /\ disk'[u].root \/ disk'[u] = disk[u]
  BY <1>3, <1>4 DEF EnrollmentInvariant, TypeOK
<1>7. UNCHANGED <<config, members, hermes, snapshot, baseline>>
  BY <1>1
<1>8. BaselineHolds'
  BY <1>7 DEF EnrollmentInvariant, BaselineHolds
<1>9. ASSUME NEW u \in Targets PROVE AccountHolds(u)'
  <2>1. RecordsHold(u)'
    BY <1>7 DEF EnrollmentInvariant, AccountHolds, RecordsHold
  <2>2. DiskHolds(u)'
    BY <1>6, <1>7 DEF EnrollmentInvariant, AccountHolds, DiskHolds, Unenrolling, Sealed, Admitted
  <2>3. PhaseHolds(u)'
    BY <1>6, <1>7 DEF EnrollmentInvariant, AccountHolds, PhaseHolds, Unenrolling, NoTrees, LeftHost
  <2> QED
    BY <2>1, <2>2, <2>3 DEF AccountHolds
<1>10. ASSUME NEW q \in Procs PROVE ProcessHolds(q)'
  <2>1. CASE q = p
    BY <1>1, <2>1 DEF EnrollmentInvariant, TypeOK, ProcessHolds
  <2>2. CASE q # p /\ Holds(q)
    <3>1. pc'[q] = pc[q] /\ job'[q] = job[q] /\ Target(q) \in Targets /\ ProcessHolds(q)
      BY <1>1, <2>2 DEF EnrollmentInvariant, TypeOK, Jobs
    <3>2. /\ Unenrolling(Target(q)) => Unenrolling(Target(q))'
          /\ Sealed(Target(q))' => Sealed(Target(q))
          /\ NoTrees(Target(q)) => NoTrees(Target(q))'
          /\ LeftHost(Target(q)) => LeftHost(Target(q))'
          /\ Admitted(Target(q)) => Admitted(Target(q))'
      BY <1>6, <1>7, <3>1 DEF Unenrolling, Sealed, NoTrees, LeftHost, Admitted
    <3>3. ApplyHolds(q) => ApplyHolds(q)'
      BY <1>6, <1>7, <3>1, <3>2 DEF ApplyHolds
    <3>4. UnenrollHolds(q) => UnenrollHolds(q)'
      <4> DEFINE t2 == Target(q)
      <4>1. /\ disk'[t2].tree = disk[t2].tree /\ disk'[t2].metadata = disk[t2].metadata
            /\ disk'[t2].observation = disk[t2].observation
            /\ disk'[t2].journal = disk[t2].journal
        BY <1>6, <3>1
      <4>2. t2' = t2
        BY <3>1
      <4>3. hermes' = hermes /\ snapshot' = snapshot
        BY <1>7
      <4> QED
        BY <3>1, <3>2, <4>1, <4>2, <4>3 DEF UnenrollHolds
    <3>5. Rooted(q) => Rooted(q)'
      <4>1. disk[Target(q)].root => disk'[Target(q)].root
        BY <1>6, <3>1
      <4> QED
        BY <3>1, <4>1 DEF Rooted
    <3> QED
      BY <2>2, <3>1, <3>3, <3>4, <3>5 DEF ProcessHolds
  <2>3. CASE q # p /\ ~Holds(q)
    BY <1>1, <2>3 DEF EnrollmentInvariant, TypeOK, ProcessHolds
  <2> QED
    BY <2>1, <2>2, <2>3
<1> QED
  BY <1>5, <1>8, <1>9, <1>10 DEF EnrollmentInvariant

LEMMA LockSound ==
  ASSUME EnrollmentInvariant, NEW p \in Procs, Lock(p) \/ (Crash(p) /\ ~Holds(p))
  PROVE  EnrollmentInvariant'
<1>1. NoWrite /\ package' = package /\ pc[p] \in Unlocked \ {"idle"}
  BY DEF Lock, CreateLock, OpenLock, InvalidLock, Acquire, Go, Finish, Crash
<1>2. /\ \/ pc' = [pc EXCEPT ![p] = "wait"] /\ job' = job
         \/ pc' = [pc EXCEPT ![p] = "begin"] /\ job' = job
         \/ pc' = [pc EXCEPT ![p] = "idle"] /\ job' = [job EXCEPT ![p] = None]
  BY DEF Lock, CreateLock, OpenLock, InvalidLock, Acquire, Go, Finish, Crash
<1>3. /\ AdapterTyped' /\ disk' \in [Targets -> Disks] /\ BaselineHolds'
      /\ \A t \in Targets : AccountHolds(t)'
  BY <1>1, NoWriteKeeps
<1>4. TypeOK'
  BY <1>1, <1>2, <1>3 DEF EnrollmentInvariant, TypeOK, Steps
<1>5. ASSUME NEW q \in Procs PROVE ProcessHolds(q)'
  <2>1. CASE q # p
    <3>1. pc'[q] = pc[q] /\ job'[q] = job[q] /\ ProcessHolds(q)
      BY <1>2, <2>1 DEF EnrollmentInvariant, TypeOK
    <3>2. UNCHANGED <<disk, config, members, hermes, baseline, snapshot>>
      BY <1>1
    <3> QED
      BY <3>1, <3>2, ZenonT(30) DEF ProcessHolds, Rooted, ApplyHolds, UnenrollHolds, Sealed, Admitted,
         Unenrolling, NoTrees, LeftHost
  <2>2. CASE q = p
    <3>1. pc'[p] \in {"idle", "wait"} \/ (pc'[p] = "begin" /\ job'[p] = job[p])
      BY <1>2 DEF EnrollmentInvariant, TypeOK
    <3>2. pc'[p] = "begin" => ApplyHolds(p)' /\ UnenrollHolds(p)' /\ Rooted(p)'
      BY DEF Rooted, ApplyHolds, UnenrollHolds, PrepareSteps, RollbackSteps, UnenrollSteps, Objects
    <3> QED
      BY <2>2, <3>1, <3>2 DEF ProcessHolds
  <2> QED
    BY <2>1, <2>2
<1> QED
  BY <1>3, <1>4, <1>5 DEF EnrollmentInvariant

LEMMA UpgradeSound ==
  ASSUME EnrollmentInvariant, Upgrade
  PROVE  EnrollmentInvariant'
<1>1. NoWrite /\ package' = package + 1 /\ UNCHANGED <<pc, job>>
      /\ \A p \in Procs : pc[p] = "idle"
  BY DEF Upgrade
<1>2. /\ AdapterTyped' /\ disk' \in [Targets -> Disks] /\ BaselineHolds'
      /\ \A t \in Targets : AccountHolds(t)'
  BY <1>1, NoWriteKeeps
<1>3. TypeOK'
  BY <1>1, <1>2 DEF EnrollmentInvariant, TypeOK
<1> QED
  BY <1>1, <1>2, <1>3 DEF EnrollmentInvariant, ProcessHolds

LEMMA InitSound ==
  Init => EnrollmentInvariant
<1> SUFFICES ASSUME Init PROVE EnrollmentInvariant
  OBVIOUS
<1>1. AdapterTyped
  BY DEF Init, AdapterInit, AdapterTyped, Dropins
<1>2. EmptyDisk \in Disks
  BY DEF EmptyDisk, Disks, Observations
<1>3. TypeOK
  BY <1>1, <1>2 DEF Init, TypeOK, Steps
<1>4. BaselineHolds
  BY DEF Init, AdapterInit, BaselineHolds
<1>5. ASSUME NEW t \in Targets PROVE AccountHolds(t)
  <2>1. /\ disk[t].journal = None /\ disk[t].quarantine = {} /\ disk[t].metadata = None
        /\ disk[t] = EmptyDisk
    BY DEF Init, EmptyDisk
  <2> QED
    BY <2>1 DEF Init, AdapterInit, AccountHolds, RecordsHold, DiskHolds, PhaseHolds,
       Unenrolling, Sealed
<1> QED
  BY <1>3, <1>4, <1>5 DEF Init, EnrollmentInvariant, ProcessHolds

LEMMA StepSound ==
  ASSUME EnrollmentInvariant, NEW p \in Procs, Step(p) \/ GoesWrong(p)
  PROVE  \/ Sound(p) /\ Holds(p)
         \/ Lock(p)
         \/ Crash(p) /\ ~Holds(p)
<1>1. ASSUME ApplyStep(p) PROVE Sound(p) /\ Holds(p)
  BY <1>1, AnswersSound, ApplySound, StageSound, StageFailsSound, UnlinkLockSound, CleanSound,
     AsideSound, PublishSound, DesktopAsideSound, DesktopPublishSound, MetadataUnsealedSound,
     PrepareSound, SnapshotSound, ChangeHostSound, SealSound, EnableSound, DecideSound, DropinSound,
     AttestSound, RecordSound
  DEF ApplyStep
<1>2. ASSUME UnenrollStep(p) PROVE Sound(p) /\ Holds(p)
  BY <1>2, AnswersSound, BeginUnenrollSound, ResumeSound, DisableSound, PhasesSound,
     RecordObjectSound, MoveObjectSound, NextObjectSound, RollbackSound
  DEF UnenrollStep
<1>3. ASSUME SnapshotFails(p) \/ PrepareUndoes(p) \/ BeginUnenrollFails(p) \/ Fail(p)
      PROVE  Sound(p) /\ Holds(p)
  BY <1>3, SnapshotFailsSound, PrepareUndoesSound, BeginUnenrollFailsSound, FailSound
<1>4. ASSUME Crash(p), Holds(p) PROVE Sound(p)
  BY <1>4, CrashSound
<1>5. ASSUME RollBackHost(p) \/ Answer(p) \/ Failed(p) PROVE Sound(p) /\ Holds(p)
  BY <1>5, RollBackHostSound, AnswersSound, GiveUpSound
<1> QED
  BY <1>1, <1>2, <1>3, <1>4, <1>5 DEF Step, GoesWrong

LEMMA NextSound ==
  ASSUME EnrollmentInvariant, LockExcludes, [Next]_vars
  PROVE  EnrollmentInvariant'
<1>1. ASSUME NEW p \in Procs, Step(p) \/ GoesWrong(p) PROVE EnrollmentInvariant'
  BY <1>1, StepSound, SoundStep, LockSound
<1>2. ASSUME NEW p \in Procs, NEW t \in Targets, StartUnenroll(p, t)
      PROVE  EnrollmentInvariant'
  BY <1>2, StartSound
<1>3. ASSUME NEW p \in Procs, NEW t \in Targets, NEW restart \in BOOLEAN,
             StartApply(p, t, restart)
      PROVE  EnrollmentInvariant'
  BY <1>3, StartSound
<1>4. CASE UNCHANGED vars
  <2>1. NoWrite /\ UNCHANGED <<package, pc, job>>
    BY <1>4 DEF vars
  <2>2. PICK p \in Procs : TRUE
    OBVIOUS
  <2>3. /\ AdapterTyped' /\ disk' \in [Targets -> Disks] /\ BaselineHolds'
        /\ \A t \in Targets : AccountHolds(t)'
    BY <2>1, NoWriteKeeps
  <2>4. \A q \in Procs : ProcessHolds(q)'
    BY <2>1, ZenonT(30) DEF EnrollmentInvariant, ProcessHolds, Rooted, ApplyHolds, UnenrollHolds, Sealed,
       Admitted, Unenrolling, NoTrees, LeftHost
  <2> QED
    BY <2>1, <2>3, <2>4 DEF EnrollmentInvariant, TypeOK
<1> QED
  BY <1>1, <1>2, <1>3, <1>4, UpgradeSound DEF Next

----
(***************************************************************************)
(* The lock.                                                               *)
(***************************************************************************)

(* Whoever waits for the lock or has it opened the file that is there.      *)
LockInvariant ==
  /\ pc \in [Procs -> Steps]
  /\ DOMAIN fd = Procs
  /\ LockExcludes
  /\ \A p \in Procs :
       IF pc[p] \in {"idle", "open"} THEN fd[p] = None
       ELSE lockFile # None /\ fd[p] = lockFile.inode

(* No step removes the lock file.                                           *)
LockKept == lockFile # None => lockFile' # None

LEMMA InodeIsFresh ==
  ASSUME LockInvariant, lockFile = None
  PROVE  FreshInode \in Inodes
<1>1. Cardinality(Procs) \in Nat
  BY FS_CardinalityType
<1>2. 1 \in Inodes /\ None \notin Inodes
  BY <1>1 DEF Inodes
<1>3. \A p \in Procs : fd[p] # 1
  BY <1>2 DEF LockInvariant
<1> QED
  BY <1>2, <1>3 DEF FreshInode

(* What a process inside a transaction does to the lock: nothing, unless it *)
(* ends or undoes a failed apply.                                           *)
Inside(p) ==
  /\ Holds(p) /\ UNCHANGED <<fd, lockFile>>
  /\ \E s \in Steps \ Unlocked : pc' = [pc EXCEPT ![p] = s]
  /\ job'[p].madeLock = job[p].madeLock
  /\ \A q \in Procs \ {p} : job'[q] = job[q]

Ends(p) ==
  /\ pc' = [pc EXCEPT ![p] = "idle"] /\ job' = [job EXCEPT ![p] = None]
  /\ fd' = [fd EXCEPT ![p] = None] /\ UNCHANGED lockFile

LEMMA GoesInside ==
  ASSUME EnrollmentInvariant, NEW p \in Procs, Holds(p), NEW from, NEW to \in Steps \ Unlocked,
         Go(p, from, to)
  PROVE  Inside(p)
BY DEF Inside, Go

LEMMA ApplyIsInside ==
  ASSUME EnrollmentInvariant, NEW p \in Procs, ApplyStep(p)
  PROVE  Inside(p) \/ Ends(p) \/ UnlinkLock(p)
<1>1. {"stage", "aside", "publish", "desktop aside", "desktop publish", "metadata unsealed",
       "prepare", "first snapshot", "snapshot", "seal", "enable", "decide", "token", "attest",
       "record", "answer", "authorize", "join", "dropin", "manage", "unlink", "failed"} \subseteq Steps \ Unlocked
  BY DEF Steps, ApplySteps, PrepareSteps, Undoing
<1>2. ASSUME Stage(p) \/ StageFails(p) \/ Aside(p) \/ Publish(p) \/ DesktopAside(p)
             \/ DesktopPublish(p) \/ MetadataUnsealed(p)
      PROVE  Inside(p)
  BY <1>1, <1>2, GoesInside DEF Stage, StageFails, Aside, Publish, DesktopAside, DesktopPublish,
     MetadataUnsealed, Go
<1>3. ASSUME Prepare(p) \/ Snapshot(p) \/ ChangeHost(p) \/ Seal(p) \/ Enable(p) \/ Decide(p) \/ Token(p)
             \/ Attest(p) \/ AttestFails(p) \/ Record(p)
      PROVE  Inside(p)
  BY <1>1, <1>3, GoesInside DEF Prepare, Snapshot, ChangeHost, Seal, Enable, Decide, Token, Attest,
     AttestFails, Record, Go
<1>4. ASSUME AnswerApply(p) \/ Clean(p) PROVE Ends(p)
  BY <1>4 DEF AnswerApply, Clean, Finish, Ends
<1>5. ASSUME Apply(p) PROVE Inside(p)
  <2>1. pc[p] = "begin" /\ job[p] \in Jobs
    BY <1>5 DEF Apply, Beginning, EnrollmentInvariant, TypeOK
  <2>2. \E s \in Steps \ Unlocked : pc' = [pc EXCEPT ![p] = s]
    BY <1>1, <1>5 DEF Apply, BeginApply
  <2>3. job'[p].madeLock = job[p].madeLock /\ \A q \in Procs \ {p} : job'[q] = job[q]
    BY <1>5, <2>1 DEF Apply, BeginApply, EnrollmentInvariant, TypeOK, Jobs
  <2> QED
    BY <1>5, <2>1, <2>2, <2>3 DEF Inside, Apply, BeginApply
<1> QED
  BY <1>2, <1>3, <1>4, <1>5 DEF ApplyStep

LEMMA UnenrollIsInside ==
  ASSUME EnrollmentInvariant, NEW p \in Procs, UnenrollStep(p)
  PROVE  Inside(p) \/ Ends(p)
<1>1. {"disable", "disabled", "plugins away", "rollback", "restored", "quarantined", "backend",
       "desktop", "metadata", "observation", "failed", "answer", "deauthorize"}
        \subseteq Steps \ Unlocked
  BY DEF Steps, ApplySteps, UnenrollSteps, RollbackSteps, Objects, Undoing
<1>2. ASSUME BeginUnenroll(p) \/ Disable(p) \/ Disabled(p) \/ PluginsAway(p) \/ Rollback(p)
             \/ Restored(p) \/ Quarantined(p)
      PROVE  Inside(p)
  BY <1>1, <1>2, GoesInside DEF BeginUnenroll, Disable, Disabled, PluginsAway, Rollback, Restored,
     Quarantined, Go
<1>3. ASSUME Resume(p) PROVE Inside(p)
  <2>1. pc[p] = "begin" /\ Target(p) \in Targets
    BY <1>3 DEF Resume, Beginning, EnrollmentInvariant, TypeOK, Jobs
  <2>2. Disk(p).journal.phase \in Phases
    BY <1>3, <2>1 DEF Resume, MayResume, Fenced, EnrollmentInvariant, TypeOK, Disks, Journals
  <2>3. ResumeAt(Disk(p).journal.phase) \in Steps \ Unlocked
    BY <1>1, <2>2 DEF Phases, ResumeAt
  <2> QED
    BY <1>3, <2>1, <2>3, GoesInside DEF Resume
<1>4. ASSUME NextObject(p) PROVE Inside(p)
  <2>1. pc[p] \in Objects /\ NextStep(pc[p]) \in Steps \ Unlocked
    BY <1>1, <1>4 DEF NextObject, NextStep, Objects
  <2> QED
    BY <1>4, <2>1, GoesInside DEF NextObject, Objects
<1>5. ASSUME RecordObject(p) \/ MoveObject(p) PROVE Inside(p)
  <2>1. pc[p] \in Objects /\ UNCHANGED <<pc, job, fd, lockFile>>
    BY <1>5 DEF RecordObject, MoveObject
  <2>2. pc' = [pc EXCEPT ![p] = pc[p]]
    BY <2>1 DEF EnrollmentInvariant, TypeOK
  <2> QED
    BY <1>1, <2>1, <2>2 DEF Inside, Objects
<1>6. ASSUME AnswerUnenroll(p) PROVE Ends(p)
  BY <1>6 DEF AnswerUnenroll, Finish, Ends
<1> QED
  BY <1>2, <1>3, <1>4, <1>5, <1>6 DEF UnenrollStep

LEMMA StepAndLock ==
  ASSUME EnrollmentInvariant, NEW p \in Procs, Step(p) \/ GoesWrong(p)
  PROVE  Inside(p) \/ Ends(p) \/ UnlinkLock(p) \/ CreateLock(p) \/ OpenLock(p) \/ Acquire(p)
<1>1. {"failed", "deauthorize", "restore", "leave", "unconfigure", "epoch", "restored"}
        \subseteq Steps \ Unlocked
  BY DEF Steps, UnenrollSteps, RollbackSteps, Undoing
<1>2. ASSUME RollBackHost(p) \/ PrepareUndoes(p) \/ SnapshotFails(p) PROVE Inside(p)
  BY <1>1, <1>2, GoesInside DEF RollBackHost, PrepareUndoes, SnapshotFails, Go, PrepareSteps
<1>3. ASSUME Fail(p) PROVE Inside(p)
  <2>1. Holds(p)
    BY <1>3, FailSound
  <2> QED
    BY <1>1, <1>3, <2>1, GoesInside DEF Fail
<1>4. ASSUME InvalidLock(p) \/ Answer(p) \/ Failed(p) \/ BeginUnenrollFails(p) \/ Crash(p)
      PROVE  Ends(p)
  BY <1>4 DEF InvalidLock, Answer, Failed, BeginUnenrollFails, Crash, Finish, Ends
<1> QED
  BY <1>2, <1>3, <1>4, ApplyIsInside, UnenrollIsInside DEF Step, GoesWrong, Lock

LEMMA LockStep ==
  ASSUME EnrollmentInvariant, LockInvariant, [Next]_vars, LockKept
  PROVE  LockInvariant'
<1>1. ASSUME NEW p \in Procs, Inside(p) PROVE LockInvariant'
  BY <1>1 DEF Inside, LockInvariant, LockExcludes
<1>2. ASSUME NEW p \in Procs, Ends(p) PROVE LockInvariant'
  BY <1>2 DEF Ends, LockInvariant, LockExcludes, Steps
<1>3. ASSUME NEW p \in Procs, UnlinkLock(p) PROVE LockInvariant'
  <2>1. lockFile' = lockFile
    BY <1>3 DEF UnlinkLock, LockInvariant, LockKept
  <2>2. "clean" \in Steps
    BY DEF Steps, Undoing
  <2> QED
    BY <1>3, <2>1, <2>2 DEF UnlinkLock, LockInvariant, LockExcludes
<1>4. ASSUME NEW p \in Procs, CreateLock(p) PROVE LockInvariant'
  <2>1. /\ FreshInode \in Inodes /\ \A q \in Procs : pc[q] \in {"idle", "open"}
        /\ pc[p] = "open" /\ pc' = [pc EXCEPT ![p] = "wait"]
        /\ fd' = [fd EXCEPT ![p] = FreshInode]
    BY <1>4, InodeIsFresh DEF CreateLock, LockInvariant
  <2>2. lockFile' # None /\ lockFile'.inode = FreshInode
    <3>1. FreshInode \in Nat /\ (job[p].verb = "apply") \in BOOLEAN
      BY <2>1 DEF Inodes
    <3>2. lockFile' = [inode |-> FreshInode, private |-> job[p].verb = "apply"]
      BY <1>4 DEF CreateLock
    <3>3. \A i \in Nat, b \in BOOLEAN : [inode |-> i, private |-> b] \in LockFiles
      BY DEF LockFiles
    <3>4. lockFile' \in LockFiles
      BY <3>1, <3>2, <3>3, Zenon
    <3>5. None \notin LockFiles
      OBVIOUS
    <3> QED
      BY <3>2, <3>4, <3>5
  <2> QED
    BY <2>1, <2>2 DEF LockInvariant, LockExcludes, Steps
<1>5. ASSUME NEW p \in Procs, OpenLock(p) PROVE LockInvariant'
  BY <1>5 DEF OpenLock, LockInvariant, LockExcludes, Steps
<1>6. ASSUME NEW p \in Procs, Acquire(p) PROVE LockInvariant'
  <2>1. /\ pc[p] = "wait" /\ pc' = [pc EXCEPT ![p] = "begin"] /\ UNCHANGED <<fd, lockFile>>
        /\ \A q \in Procs \ {p} : Holds(q) => fd[q] # fd[p]
    BY <1>6 DEF Acquire, Go
  <2>2. \A q \in Procs \ {p} : ~Holds(q)
    BY <2>1 DEF LockInvariant
  <2> QED
    BY <2>1, <2>2 DEF LockInvariant, LockExcludes, Steps
<1>7. ASSUME NEW p \in Procs, NEW t \in Targets,
             StartUnenroll(p, t) \/ \E restart \in BOOLEAN : StartApply(p, t, restart)
      PROVE  LockInvariant'
  <2>1. pc[p] = "idle" /\ pc' = [pc EXCEPT ![p] = "open"] /\ UNCHANGED <<fd, lockFile>>
    BY <1>7 DEF StartUnenroll, StartApply
  <2> QED
    BY <2>1 DEF LockInvariant, LockExcludes, Steps
<1>8. ASSUME UNCHANGED <<pc, fd, lockFile>> PROVE LockInvariant'
  BY <1>8 DEF LockInvariant, LockExcludes
<1>9. ASSUME NEW p \in Procs, Step(p) \/ GoesWrong(p) PROVE LockInvariant'
  BY <1>1, <1>2, <1>3, <1>4, <1>5, <1>6, <1>9, StepAndLock
<1>10. ASSUME Upgrade \/ UNCHANGED vars PROVE UNCHANGED <<pc, fd, lockFile>>
  BY <1>10 DEF Upgrade, vars
<1> QED
  BY <1>7, <1>8, <1>9, <1>10 DEF Next

LEMMA InitLock ==
  Init => LockInvariant
BY DEF Init, LockInvariant, LockExcludes, Steps

(* At most one process is ever inside a transaction, and all that is above  *)
(* holds, as long as no apply that undoes itself removes the lock file that *)
(* it created.                                                              *)
THEOREM LockIsExclusive ==
  Spec /\ [][LockKept]_vars => [](EnrollmentInvariant /\ LockExcludes)
<1>1. Init => EnrollmentInvariant /\ LockInvariant
  BY InitSound, InitLock
<1>2. EnrollmentInvariant /\ LockInvariant /\ [Next]_vars /\ [LockKept]_vars
        => EnrollmentInvariant' /\ LockInvariant'
  <2> SUFFICES ASSUME EnrollmentInvariant, LockInvariant, [Next]_vars, [LockKept]_vars
               PROVE  EnrollmentInvariant' /\ LockInvariant'
    OBVIOUS
  <2>1. LockKept
    BY DEF LockKept, vars
  <2> QED
    BY <2>1, LockStep, NextSound DEF LockInvariant
<1>3. LockInvariant => LockExcludes
  BY DEF LockInvariant
<1> QED
  BY <1>1, <1>2, <1>3, PTL DEF Spec

(* Nobody runs, and the lock file is there.                                 *)
Quiet ==
  /\ lockFile # None
  /\ \A p \in Procs : pc[p] = "idle"
  /\ fd = [p \in Procs |-> None]

(* The lock file is there, and nobody who runs believes to have made it.    *)
LockStays ==
  /\ LockInvariant
  /\ lockFile # None
  /\ \A p \in Procs : pc[p] # "idle" => ~job[p].madeLock

LEMMA LockStaysStep ==
  ASSUME EnrollmentInvariant, LockStays, [Next]_vars
  PROVE  LockKept /\ LockStays'
<1>1. ASSUME NEW p \in Procs, Step(p) \/ GoesWrong(p)
      PROVE  /\ lockFile' # None
             /\ \A q \in Procs : pc'[q] # "idle" => ~job'[q].madeLock
  <2>1. CASE Inside(p)
    BY <2>1 DEF Inside, LockStays, LockInvariant
  <2>2. CASE Ends(p)
    BY <2>2 DEF Ends, LockStays, LockInvariant, EnrollmentInvariant, TypeOK
  <2>3. CASE UnlinkLock(p)
    BY <2>3 DEF UnlinkLock, LockStays, LockInvariant
  <2>4. CASE CreateLock(p) \/ OpenLock(p) \/ Acquire(p)
    <3>1. pc[p] # "idle" /\ job' = job /\ lockFile' = lockFile
          /\ \E s : pc' = [pc EXCEPT ![p] = s]
      BY <2>4 DEF CreateLock, OpenLock, Acquire, Go, LockStays
    <3> QED
      BY <3>1 DEF LockStays, LockInvariant
  <2> QED
    BY <1>1, <2>1, <2>2, <2>3, <2>4, StepAndLock
<1>2. ASSUME NEW p \in Procs, NEW t \in Targets,
             StartUnenroll(p, t) \/ \E restart \in BOOLEAN : StartApply(p, t, restart)
      PROVE  /\ lockFile' # None
             /\ \A q \in Procs : pc'[q] # "idle" => ~job'[q].madeLock
  <2>1. /\ lockFile' = lockFile /\ pc' = [pc EXCEPT ![p] = "open"]
        /\ \E j : job' = [job EXCEPT ![p] = j] /\ ~j.madeLock
    <3>1. ASSUME StartUnenroll(p, t) PROVE \E j : job' = [job EXCEPT ![p] = j] /\ ~j.madeLock
      <4> DEFINE asked == [verb |-> "unenroll", target |-> t, restart |-> FALSE,
             generation |-> package, existing |-> FALSE, madeLock |-> FALSE, madeRoot |-> FALSE,
             absent |-> FALSE, reattest |-> FALSE]
      <4>1. ~asked.madeLock
        OBVIOUS
      <4>2. job' = [job EXCEPT ![p] = asked]
        BY <3>1, Zenon DEF StartUnenroll
      <4> HIDE DEF asked
      <4> QED
        BY <4>1, <4>2
    <3>2. ASSUME NEW restart \in BOOLEAN, StartApply(p, t, restart)
          PROVE  \E j : job' = [job EXCEPT ![p] = j] /\ ~j.madeLock
      <4> DEFINE asked == [verb |-> "apply", target |-> t, restart |-> restart,
             generation |-> package, existing |-> disk[t].metadata # None,
             madeLock |-> ~(disk[t].metadata # None) /\ lockFile = None,
             madeRoot |-> ~disk[t].root, absent |-> FALSE, reattest |-> FALSE]
      <4>1. ~asked.madeLock
        BY DEF LockStays
      <4>2. job' = [job EXCEPT ![p] = asked]
        BY <3>2, Zenon DEF StartApply
      <4> HIDE DEF asked
      <4> QED
        BY <4>1, <4>2
    <3> QED
      BY <1>2, <3>1, <3>2 DEF StartUnenroll, StartApply
  <2> QED
    BY <2>1 DEF LockStays, LockInvariant, EnrollmentInvariant, TypeOK
<1>3. ASSUME Upgrade \/ UNCHANGED vars
      PROVE  /\ lockFile' # None
             /\ \A q \in Procs : pc'[q] # "idle" => ~job'[q].madeLock
  BY <1>3 DEF Upgrade, vars, LockStays
<1>4. /\ lockFile' # None
      /\ \A q \in Procs : pc'[q] # "idle" => ~job'[q].madeLock
  BY <1>1, <1>2, <1>3 DEF Next
<1> QED
  BY <1>4, LockStep DEF LockKept, LockStays

(* A host that is in order, with a lock file and nobody running, stays in   *)
(* order for ever: from there on no apply removes the lock, and at most one *)
(* process is inside a transaction.                                         *)
THEOREM LockLasts ==
  Spec => [](EnrollmentInvariant /\ Quiet => [](EnrollmentInvariant /\ LockExcludes))
<1>1. EnrollmentInvariant /\ Quiet => LockStays
  <2> SUFFICES ASSUME EnrollmentInvariant, Quiet PROVE LockStays
    OBVIOUS
  <2>1. pc \in [Procs -> Steps]
    BY DEF EnrollmentInvariant, TypeOK
  <2> QED
    BY <2>1 DEF Quiet, LockStays, LockInvariant, LockExcludes
<1>2. EnrollmentInvariant /\ LockStays /\ [Next]_vars => EnrollmentInvariant' /\ LockStays'
  BY LockStaysStep, NextSound DEF LockStays, LockInvariant
<1>3. LockStays => LockExcludes
  BY DEF LockStays, LockInvariant
<1> QED
  BY <1>1, <1>2, <1>3, PTL DEF Spec

(* While the lock excludes, the invariant holds, whatever removes the lock. *)
THEOREM EnrollmentHolds ==
  Spec /\ []LockExcludes => []EnrollmentInvariant
BY InitSound, NextSound, PTL DEF Spec

----
(* The properties.                                                          *)

LEMMA InvariantGives ==
  EnrollmentInvariant =>
    QuarantineIsNamed /\ PluginsLeaveFirst /\ UnenrollIsComplete /\ EnrollmentLasts
<1> SUFFICES ASSUME EnrollmentInvariant
             PROVE  QuarantineIsNamed /\ PluginsLeaveFirst /\ UnenrollIsComplete /\ EnrollmentLasts
  OBVIOUS
<1>1. QuarantineIsNamed
  BY DEF EnrollmentInvariant, AccountHolds, DiskHolds, QuarantineIsNamed
<1>2. PluginsLeaveFirst
  BY DEF EnrollmentInvariant, AccountHolds, PhaseHolds, NoTrees, PluginsLeaveFirst
<1>3. UnenrollIsComplete
  <2> SUFFICES ASSUME NEW t \in Targets, Unenrolling(t), disk[t].journal.phase = "QUARANTINED"
               PROVE  /\ \A k \in Trees : disk[t].tree[k] = 0
                      /\ disk[t].metadata = None /\ disk[t].observation = "none"
                      /\ t \notin config \ InitialUids
                      /\ t \in members <=> t \in InitialMembers
                      /\ hermes[t] = "plain"
    BY DEF UnenrollIsComplete
  <2>1. /\ NoTrees(t) /\ LeftHost(t)
        /\ disk[t].metadata = None /\ disk[t].observation = "none"
    BY DEF EnrollmentInvariant, AccountHolds, PhaseHolds
  <2>2. t \in InitialMembers => t \in members
    BY DEF EnrollmentInvariant, AccountHolds, RecordsHold
  <2> QED
    BY <2>1, <2>2 DEF NoTrees, LeftHost
<1>4. EnrollmentLasts
  <2> SUFFICES ASSUME NEW t \in Targets, Enrolled(t)
               PROVE  t \in config /\ t \in members /\ hermes[t] = "enabled"
    BY DEF EnrollmentLasts
  <2>1. disk[t].journal = None /\ Sealed(t) /\ disk[t].observation = "verified"
    BY DEF Enrolled, Sealed
  <2> QED
    BY <2>1 DEF EnrollmentInvariant, AccountHolds, DiskHolds, Admitted
<1> QED
  BY <1>1, <1>2, <1>3, <1>4

(* Whatever was moved to a quarantine, the journal on disk names it.        *)
THEOREM QuarantineIsAlwaysNamed ==
  Spec /\ []LockExcludes => []QuarantineIsNamed
BY EnrollmentHolds, InvariantGives, PTL

(* The plugin's trees are detached before the account loses the             *)
(* authorization that they run under.                                       *)
THEOREM PluginsAlwaysLeaveFirst ==
  Spec /\ []LockExcludes => []PluginsLeaveFirst
BY EnrollmentHolds, InvariantGives, PTL

(* A finished unenrollment left nothing of the account enrolled.            *)
THEOREM UnenrollIsAlwaysComplete ==
  Spec /\ []LockExcludes => []UnenrollIsComplete
BY EnrollmentHolds, InvariantGives, PTL

(* An account that apply reported ENROLLED keeps its authorization, its     *)
(* membership and its plugin, whatever happens to another account.          *)
THEOREM EnrollmentAlwaysLasts ==
  Spec /\ []LockExcludes => []EnrollmentLasts
BY EnrollmentHolds, InvariantGives, PTL

(* The journal of a failed apply.                                           *)
GaveUp(t) == disk[t].journal # None /\ disk[t].journal.operation = "rollback"

Untouched(t) ==
  /\ disk'[t] = disk[t]
  /\ hermes'[t] = hermes[t] /\ snapshot'[t] = snapshot[t]
  /\ (t \in members' <=> t \in members) /\ (t \in config' <=> t \in config)

LEMMA BeginsNothing ==
  ASSUME EnrollmentInvariant, NEW p \in Procs, pc[p] = "begin", GaveUp(Target(p)),
         Step(p) \/ GoesWrong(p)
  PROVE  NoWrite
<1>1. ASSUME ApplyStep(p) PROVE NoWrite
  <2>1. AnswerApply(p) \/ Apply(p)
    BY <1>1 DEF ApplyStep, Stage, StageFails, UnlinkLock, Clean, Aside, Publish, DesktopAside,
       DesktopPublish, MetadataUnsealed, Prepare, Snapshot, ChangeHost, Seal, Enable, Decide, Token,
       Attest, AttestFails, Record, Go, Finish
  <2> QED
    BY <2>1 DEF AnswerApply, Apply, Fenced, GaveUp
<1>2. ASSUME UnenrollStep(p) PROVE NoWrite
  <2>1. AnswerUnenroll(p) \/ BeginUnenroll(p) \/ Resume(p)
    BY <1>2 DEF UnenrollStep, Disable, Disabled, RecordObject, MoveObject, NextObject, PluginsAway,
       Rollback, Restored, Quarantined, Go, Objects
  <2> QED
    BY <2>1 DEF AnswerUnenroll, BeginUnenroll, MayUnenroll, Fenced, Resume, GaveUp
<1>3. ASSUME Lock(p) \/ Answer(p) \/ GoesWrong(p) PROVE NoWrite
  BY <1>3 DEF Lock, CreateLock, OpenLock, InvalidLock, Acquire, Answer, GoesWrong, SnapshotFails,
     PrepareUndoes, BeginUnenrollFails, MayUnenroll, Fenced, GaveUp, Go, Fail, Crash
<1>4. ~RollBackHost(p) /\ ~Failed(p)
  BY DEF RollBackHost, Failed, Go, Finish
<1> QED
  BY <1>1, <1>2, <1>3, <1>4 DEF Step

LEMMA StepFences ==
  ASSUME EnrollmentInvariant, [Next]_vars, NEW t \in Targets, GaveUp(t)
  PROVE  Untouched(t)
<1>1. ASSUME NEW p \in Procs, Step(p) \/ GoesWrong(p) PROVE Untouched(t)
  <2>1. CASE Sound(p) /\ Holds(p) /\ t # Target(p)
    BY <2>1 DEF Sound, OnlyAccount, Untouched
  <2>2. CASE Sound(p) /\ Holds(p) /\ t = Target(p)
    <3>1. pc[p] = "begin"
      BY <2>2 DEF EnrollmentInvariant, ProcessHolds, ApplyHolds, UnenrollHolds, Unenrolling, GaveUp
    <3> QED
      BY <1>1, <2>2, <3>1, BeginsNothing DEF Untouched
  <2>3. CASE Lock(p) \/ Crash(p)
    BY <2>3 DEF Lock, CreateLock, OpenLock, InvalidLock, Acquire, Crash, Untouched
  <2> QED
    BY <1>1, <2>1, <2>2, <2>3, StepSound
<1>2. ASSUME NEW p \in Procs, NEW u \in Targets,
             StartUnenroll(p, u) \/ \E restart \in BOOLEAN : StartApply(p, u, restart)
      PROVE  Untouched(t)
  <2>1. UNCHANGED adapterVars /\ disk' = [disk EXCEPT ![u].root = TRUE]
    BY <1>2 DEF StartUnenroll, StartApply
  <2>2. disk[t] \in Disks /\ disk[t].root
    BY DEF EnrollmentInvariant, TypeOK, AccountHolds, DiskHolds, GaveUp, EmptyDisk
  <2>3. [disk[t] EXCEPT !.root = TRUE] = disk[t]
    BY <2>2 DEF Disks
  <2>4. disk'[t] = disk[t]
    BY <2>1, <2>3 DEF EnrollmentInvariant, TypeOK
  <2> QED
    BY <2>1, <2>4 DEF Untouched
<1>3. ASSUME Upgrade \/ UNCHANGED vars PROVE Untouched(t)
  BY <1>3 DEF Upgrade, vars, Untouched
<1> QED
  BY <1>1, <1>2, <1>3 DEF Next

(* After a failed apply wrote its journal, no transaction changes anything  *)
(* of that account.                                                         *)
THEOREM RollbackAlwaysFences ==
  Spec /\ []LockExcludes => RollbackFences
<1>1. EnrollmentInvariant /\ [Next]_vars =>
        [\A t \in Targets :
           disk[t].journal # None /\ disk[t].journal.operation = "rollback" =>
             /\ disk'[t] = disk[t]
             /\ hermes'[t] = hermes[t] /\ snapshot'[t] = snapshot[t]
             /\ (t \in members' <=> t \in members) /\ (t \in config' <=> t \in config)]_vars
  BY StepFences DEF GaveUp, Untouched
<1> QED
  BY <1>1, EnrollmentHolds, PTL DEF Spec, RollbackFences

====
