---- MODULE HermesTransport ----
(***************************************************************************)
(* The delivery half of the Hermes plugin: in each runtime process a hook  *)
(* queues events and a worker thread delivers them in order, falling back  *)
(* to a spool file with a byte checkpoint.  The processes share the file,  *)
(* the checkpoint and a flock; only direct sends happen outside the flock. *)
(*                                                                         *)
(* The file is a sequence of pieces, one per write: a piece that was cut   *)
(* short has no newline, so a line runs up to the first piece that has     *)
(* one.  Sizes and the checkpoint count pieces, the code's count bytes.    *)
(***************************************************************************)
EXTENDS Naturals, Sequences, FiniteSets, FiniteSetsExt, SequencesExt

CONSTANTS
  Producers,     \* Hermes runtime processes of one state directory
  MaxEvents,     \* bound on the events each one observes
  QueueSize,     \* SKYNET_EDR_EVENT_QUEUE_SIZE
  Cap,           \* SKYNET_EDR_FALLBACK_MAX_BYTES, in pieces
  DeliverBurst,  \* max_records of the replay before a delivery (4)
  IdleBurst,     \* max_records of the replay of an idle worker (16)
  MaxFaults,     \* bound on outages, lost answers and failed file operations
  MaxCrashes,    \* bound on process crashes
  Nobody,        \* nobody holds the flock
  NoEvent        \* the worker delivers nothing

ASSUME TransportAssumption ==
  /\ {MaxEvents, QueueSize, Cap, DeliverBurst, IdleBurst} \subseteq Nat \ {0}
  /\ {MaxFaults, MaxCrashes} \subseteq Nat
  /\ Nobody \notin Producers
  /\ NoEvent \notin Producers \X (1 .. MaxEvents)

VARIABLES
  file,          \* the spool: pieces [event, ended]
  checkpoint,    \* how many of its pieces are done with
  holder,        \* the process that holds the flock
  queue,         \* each process's event queue
  pc,            \* where each worker is
  item,          \* the event each worker delivers
  budget,        \* lines each worker may still replay
  kept,          \* the temporary file of a compaction
  drops,         \* the queue_drops counter of each process
  fallbackFull,  \* the fallback_full counter of each process
  fate,          \* what became of each event, as its producer saw it
  processed,     \* events the daemon reached a terminal decision on
  reachable,     \* the daemon answers on its socket
  glued,         \* events whose line begins with a piece cut short (history)
  faults,        \* faults so far
  crashes        \* crashes so far

spool == <<file, checkpoint, holder>>
work == <<queue, item, budget, kept>>
counters == <<drops, fallbackFull>>
bounds == <<reachable, faults, crashes>>
vars == <<file, checkpoint, holder, queue, pc, item, budget, kept, drops,
          fallbackFull, fate, processed, reachable, glued, faults, crashes>>

Events == Producers \X (1 .. MaxEvents)

Phases == {"idle", "start", "replay", "advance", "check", "send", "append",
           "compact", "replace", "write"}

(* Phases inside the flock. *)
Locked == {"replay", "advance", "compact", "replace", "write"}

Init ==
  /\ file = <<>>
  /\ checkpoint = 0
  /\ holder = Nobody
  /\ queue = [p \in Producers |-> <<>>]
  /\ pc = [p \in Producers |-> "idle"]
  /\ item = [p \in Producers |-> NoEvent]
  /\ budget = [p \in Producers |-> 0]
  /\ kept = [p \in Producers |-> <<>>]
  /\ drops = [p \in Producers |-> 0]
  /\ fallbackFull = [p \in Producers |-> 0]
  /\ fate = [e \in Events |-> "unborn"]
  /\ processed = {}
  /\ reachable = TRUE
  /\ glued = {}
  /\ faults = 0
  /\ crashes = 0

Goto(p, phase) == pc' = [pc EXCEPT ![p] = phase]

----
(* The hook thread: put_nowait, and the newest event is dropped when the    *)
(* queue is full.                                                           *)

Admits(p) == Len(queue[p]) < QueueSize

Submit(p, n) ==
  /\ fate[<<p, n>>] = "unborn"
  /\ \A m \in 1 .. n - 1 : fate[<<p, m>>] # "unborn"
  /\ \/ /\ Admits(p)
        /\ queue' = [queue EXCEPT ![p] = Append(@, <<p, n>>)]
        /\ fate' = [fate EXCEPT ![<<p, n>>] = "queued"]
        /\ UNCHANGED drops
     \/ /\ ~ Admits(p)
        /\ fate' = [fate EXCEPT ![<<p, n>>] = "queue_full"]
        /\ drops' = [drops EXCEPT ![p] = @ + 1]
        /\ UNCHANGED queue
  /\ UNCHANGED <<spool, pc, item, budget, kept, fallbackFull, processed, glued, bounds>>

----
(* The worker takes an event, or replays when it has been idle. *)
Take(p) ==
  /\ pc[p] = "idle"
  /\ queue[p] # <<>>
  /\ item' = [item EXCEPT ![p] = Head(queue[p])]
  /\ queue' = [queue EXCEPT ![p] = Tail(@)]
  /\ budget' = [budget EXCEPT ![p] = DeliverBurst]
  /\ Goto(p, "start")
  /\ UNCHANGED <<spool, kept, counters, fate, processed, glued, bounds>>

(* Mutant: an idle worker does not replay. *)
NeverReplaysIdle(p) == FALSE

IdleReplay(p) ==
  /\ pc[p] = "idle"
  /\ queue[p] = <<>>
  /\ budget' = [budget EXCEPT ![p] = IdleBurst]
  /\ Goto(p, "start")
  /\ UNCHANGED <<spool, queue, item, kept, counters, fate, processed, glued, bounds>>

(* The end of _deliver_line: any failure counts as a queue drop. *)
Done(p, status) ==
  /\ Goto(p, "idle")
  /\ item' = [item EXCEPT ![p] = NoEvent]
  /\ fate' = [fate EXCEPT ![item[p]] = status]
  /\ drops' = IF status = "delivery_failed" THEN [drops EXCEPT ![p] = @ + 1] ELSE drops

----
(* _replay_fallback: under the flock, send the lines after the checkpoint   *)
(* one by one, and move the checkpoint past each that is done with.         *)
StartReplay(p) ==
  /\ pc[p] = "start"
  /\ holder = Nobody
  /\ holder' = p
  /\ checkpoint' = IF checkpoint > Len(file) THEN 0 ELSE checkpoint
  /\ Goto(p, "replay")
  /\ UNCHANGED <<file, work, counters, fate, processed, glued, bounds>>

(* Where the pieces of the next line end; none while it has no newline. *)
LineEnds == {i \in DOMAIN file : i > checkpoint /\ file[i].ended}
LineEnd == Min(LineEnds)

HasLine(p) == budget[p] > 0 /\ LineEnds # {}

(* A line of several pieces is not JSON. *)
WellFormed == LineEnd = checkpoint + 1

(* The replay is over; with an event in hand the delivery goes on. *)
LeaveReplay(p) ==
  /\ holder' = Nobody
  /\ Goto(p, IF item[p] = NoEvent THEN "idle" ELSE "check")

ReplaySent(p) ==
  /\ pc[p] = "replay"
  /\ HasLine(p)
  /\ WellFormed
  /\ reachable
  /\ processed' = processed \union {file[LineEnd].event}
  /\ Goto(p, "advance")
  /\ UNCHANGED <<spool, work, counters, fate, glued, bounds>>

(* _send_frame refuses a malformed line as rejected_permanent by itself. *)
ReplayRefused(p) ==
  /\ pc[p] = "replay"
  /\ HasLine(p)
  /\ ~ WellFormed
  /\ Goto(p, "advance")
  /\ UNCHANGED <<spool, work, counters, fate, processed, glued, bounds>>

(* A frame goes unanswered: no daemon, or its answer is retry_later or is   *)
(* lost after the daemon decided.                                           *)
Unanswered(e) ==
  \/ /\ ~ reachable
     /\ UNCHANGED <<processed, faults>>
  \/ /\ reachable
     /\ faults < MaxFaults
     /\ faults' = faults + 1
     /\ processed' \in {processed, processed \union {e}}

ReplayUnanswered(p) ==
  /\ pc[p] = "replay"
  /\ HasLine(p)
  /\ WellFormed
  /\ Unanswered(file[LineEnd].event)
  /\ LeaveReplay(p)
  /\ UNCHANGED <<file, checkpoint, work, counters, fate, reachable, glued, crashes>>

Advance(p) ==
  /\ pc[p] = "advance"
  /\ checkpoint' = LineEnd
  /\ budget' = [budget EXCEPT ![p] = @ - 1]
  /\ Goto(p, "replay")
  /\ UNCHANGED <<file, holder, queue, item, kept, counters, fate, processed, glued, bounds>>

EndReplay(p) ==
  /\ pc[p] = "replay"
  /\ ~ HasLine(p)
  /\ LeaveReplay(p)
  /\ UNCHANGED <<file, checkpoint, work, counters, fate, processed, glued, bounds>>

----
(* _deliver_line after the replay: behind pending lines the event is        *)
(* appended, otherwise it is sent, and appended when that is unanswered.    *)

(* Mutant: pending lines are not looked for. *)
NeverPending == FALSE

HasPending == checkpoint < Len(file)

CheckPending(p) ==
  /\ pc[p] = "check"
  /\ holder = Nobody
  /\ Goto(p, IF HasPending THEN "append" ELSE "send")
  /\ UNCHANGED <<spool, work, counters, fate, processed, glued, bounds>>

SendAnswered(p) ==
  /\ pc[p] = "send"
  /\ reachable
  /\ processed' = processed \union {item[p]}
  /\ Done(p, "answered")
  /\ UNCHANGED <<spool, queue, budget, kept, fallbackFull, glued, bounds>>

SendUnanswered(p) ==
  /\ pc[p] = "send"
  /\ Unanswered(item[p])
  /\ Goto(p, "append")
  /\ UNCHANGED <<spool, work, counters, fate, reachable, glued, crashes>>

----
(* _append_fallback, under the flock; a checkpoint that cannot be read      *)
(* counts as 0 here.                                                        *)
ReadsCheckpoint(offset) ==
  \/ /\ offset = Min({checkpoint, Len(file)})
     /\ UNCHANGED faults
  \/ /\ offset = 0
     /\ faults < MaxFaults
     /\ faults' = faults + 1

Fits(offset) == Len(file) - offset + 1 <= Cap

RefuseAppend(p) ==
  /\ pc[p] = "append"
  /\ holder = Nobody
  /\ \E offset \in 0 .. Len(file) : ReadsCheckpoint(offset) /\ ~ Fits(offset)
  /\ fallbackFull' = [fallbackFull EXCEPT ![p] = @ + 1]
  /\ Done(p, "delivery_failed")
  /\ UNCHANGED <<spool, queue, budget, kept, processed, glued, reachable, crashes>>

(* Mutant: the file is never compacted. *)
NeverCompacts(offset) == FALSE

NeedsCompaction(offset) == offset > 0 /\ Len(file) + 1 > Cap

(* Mutant: the copy starts one piece too late. *)
PendingPastFirst(offset) == SubSeq(file, offset + 2, Len(file))

Pending(offset) == SubSeq(file, offset + 1, Len(file))

StartAppend(p) ==
  /\ pc[p] = "append"
  /\ holder = Nobody
  /\ \E offset \in 0 .. Len(file) :
       /\ ReadsCheckpoint(offset)
       /\ Fits(offset)
       /\ \/ /\ NeedsCompaction(offset)
             /\ kept' = [kept EXCEPT ![p] = Pending(offset)]
             /\ Goto(p, "compact")
          \/ /\ ~ NeedsCompaction(offset)
             /\ Goto(p, "write")
             /\ UNCHANGED kept
  /\ holder' = p
  /\ UNCHANGED <<file, checkpoint, queue, item, budget, counters, fate, processed, glued,
                 reachable, crashes>>

(* Compaction resets the checkpoint first, then replaces the file. *)
ResetCheckpoint(p) ==
  /\ pc[p] = "compact"
  /\ checkpoint' = 0
  /\ Goto(p, "replace")
  /\ UNCHANGED <<file, holder, work, counters, fate, processed, glued, bounds>>

ReplaceFile(p) ==
  /\ pc[p] = "replace"
  /\ file' = kept[p]
  /\ kept' = [kept EXCEPT ![p] = <<>>]
  /\ Goto(p, "write")
  /\ UNCHANGED <<checkpoint, holder, queue, item, budget, counters, fate, processed, glued, bounds>>

(* The file ends without a newline. *)
CutShort == file # <<>> /\ ~ Last(file).ended

Write(p, ended) == file' = Append(file, [event |-> item[p], ended |-> ended])

WriteLine(p) ==
  /\ pc[p] = "write"
  /\ Write(p, TRUE)
  /\ glued' = IF CutShort THEN glued \union {item[p]} ELSE glued
  /\ holder' = Nobody
  /\ Done(p, "spooled")
  /\ UNCHANGED <<checkpoint, queue, budget, kept, fallbackFull, processed, bounds>>

----
(* What an operation on the spool that fails, or is interrupted, leaves: of  *)
(* a write nothing, part of the line or all of it (the fsync failed); of a   *)
(* replacement the old or the new content.                                   *)
Interrupted(p) ==
  CASE pc[p] = "write" ->
         /\ UNCHANGED file \/ Write(p, FALSE) \/ Write(p, TRUE)
         /\ UNCHANGED checkpoint
    [] pc[p] = "replace" -> file' \in {file, kept[p]} /\ UNCHANGED checkpoint
    [] pc[p] = "compact" -> checkpoint' \in {checkpoint, 0} /\ UNCHANGED file
    [] pc[p] = "advance" -> checkpoint' \in {checkpoint, LineEnd} /\ UNCHANGED file
    [] OTHER -> UNCHANGED <<file, checkpoint>>

(* An OSError while the spool is open: the flock is released, an idle       *)
(* replay ends, a delivery fails.                                           *)
SpoolError(p) ==
  /\ faults < MaxFaults
  /\ faults' = faults + 1
  /\ pc[p] \in {"start", "check", "append"} \union Locked
  /\ Interrupted(p)
  /\ holder' = IF holder = p THEN Nobody ELSE holder
  /\ kept' = [kept EXCEPT ![p] = <<>>]
  /\ \/ /\ item[p] = NoEvent
        /\ Goto(p, "idle")
        /\ UNCHANGED <<item, fate, drops>>
     \/ /\ item[p] # NoEvent
        /\ Done(p, "delivery_failed")
  /\ UNCHANGED <<queue, budget, fallbackFull, processed, reachable, glued, crashes>>

(* The process dies and is started again: its queue and counters are gone,  *)
(* its flock is released.                                                   *)
Crash(p) ==
  /\ crashes < MaxCrashes
  /\ crashes' = crashes + 1
  /\ Interrupted(p)
  /\ holder' = IF holder = p THEN Nobody ELSE holder
  /\ Goto(p, "idle")
  /\ queue' = [queue EXCEPT ![p] = <<>>]
  /\ item' = [item EXCEPT ![p] = NoEvent]
  /\ kept' = [kept EXCEPT ![p] = <<>>]
  /\ drops' = [drops EXCEPT ![p] = 0]
  /\ fallbackFull' = [fallbackFull EXCEPT ![p] = 0]
  /\ UNCHANGED <<budget, fate, processed, reachable, glued, faults>>

DaemonDown ==
  /\ reachable
  /\ faults < MaxFaults
  /\ faults' = faults + 1
  /\ reachable' = FALSE
  /\ UNCHANGED <<spool, work, pc, counters, fate, processed, glued, crashes>>

DaemonUp ==
  /\ ~ reachable
  /\ reachable' = TRUE
  /\ UNCHANGED <<spool, work, pc, counters, fate, processed, glued, faults, crashes>>

Worker(p) ==
  \/ Take(p)
  \/ IdleReplay(p)
  \/ StartReplay(p)
  \/ ReplaySent(p)
  \/ ReplayRefused(p)
  \/ ReplayUnanswered(p)
  \/ Advance(p)
  \/ EndReplay(p)
  \/ CheckPending(p)
  \/ SendAnswered(p)
  \/ SendUnanswered(p)
  \/ RefuseAppend(p)
  \/ StartAppend(p)
  \/ ResetCheckpoint(p)
  \/ ReplaceFile(p)
  \/ WriteLine(p)
  \/ SpoolError(p)

Next ==
  \/ \E p \in Producers : Worker(p) \/ Crash(p) \/ \E n \in 1 .. MaxEvents : Submit(p, n)
  \/ DaemonDown
  \/ DaemonUp

Spec == Init /\ [][Next]_vars

(* Workers keep running and a stopped daemon is started again; faults are   *)
(* finitely many (MaxFaults).                                               *)
FairSpec == Spec /\ (\A p \in Producers : WF_vars(Worker(p))) /\ WF_vars(DaemonUp)

----
InSpool(e) == \E i \in DOMAIN file : i > checkpoint /\ file[i] = [event |-> e, ended |-> TRUE]

(* An event its producer was told is spooled is still ahead of the          *)
(* checkpoint or was decided on by the daemon, whatever replays, compactions *)
(* and crashes of the processes followed; the exception is a line glued to  *)
(* one that was cut short.                                                  *)
SpooledSurvives ==
  \A e \in Events : fate[e] = "spooled" => e \in processed \union glued \/ InSpool(e)

(* The daemon never decides on an event of a process while an earlier event *)
(* of that process waits in the spool.                                      *)
DeliveredInOrder ==
  \A p \in Producers : \A n \in 1 .. MaxEvents : \A m \in 1 .. n - 1 :
    (fate[<<p, m>>] = "spooled" /\ <<p, m>> \notin glued /\ <<p, n>> \in processed)
      => <<p, m>> \in processed

(* The file never outgrows its cap, through compactions cut short as well.  *)
FileBounded == Len(file) <= Cap

(* What was spooled reaches the daemon.                                     *)
SpoolDrains ==
  \A e \in Events : fate[e] = "spooled" ~> e \in processed \union glued

----
====
