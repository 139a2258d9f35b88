---- MODULE HermesTransport_proofs ----
(***************************************************************************)
(* Proofs about HermesTransport: what a producer was told is spooled       *)
(* survives, and the spool stays within its cap, for any number of         *)
(* processes, events, faults and crashes and any bounds.                   *)
(***************************************************************************)
EXTENDS HermesTransport, SequenceTheorems, WellFoundedInduction, TLAPS

Pieces == [event : Events, ended : BOOLEAN]

TransportTyped ==
  /\ file \in Seq(Pieces)
  /\ checkpoint \in 0 .. Len(file)
  /\ holder \in Producers \union {Nobody}
  /\ pc \in [Producers -> Phases]
  /\ item \in [Producers -> Events \union {NoEvent}]
  /\ queue \in [Producers -> Seq(Events)]
  /\ kept \in [Producers -> Seq(Pieces)]
  /\ DOMAIN fate = Events

(* Who holds the flock is inside it, and nobody else. *)
FlockHolds == \A p \in Producers : pc[p] \in Locked <=> holder = p

(* Past the replay there is an event in hand. *)
HandsHold ==
  \A p \in Producers : pc[p] \in {"check", "send", "append", "compact", "replace", "write"}
                         => item[p] \in Events

(* The checkpoint lies behind a complete line. *)
CheckpointHolds == checkpoint > 0 => file[checkpoint].ended

(* A line is there for the checkpoint to pass; a file is replaced only with *)
(* the checkpoint at its beginning.                                         *)
PlacesHold ==
  \A p \in Producers :
    /\ pc[p] = "advance" => LineEnds # {}
    /\ pc[p] = "replace" => checkpoint = 0

Base == TransportTyped /\ FlockHolds /\ HandsHold /\ PlacesHold

(* The event has a line of its own behind the first n pieces. *)
OwnLine(pieces, n, e) ==
  \E i \in DOMAIN pieces :
    /\ i > n
    /\ pieces[i] = [event |-> e, ended |-> TRUE]
    /\ i = n + 1 \/ pieces[i - 1].ended

Survives(pieces, n) ==
  \A e \in Events : fate[e] = "spooled" => e \in processed \union glued \/ OwnLine(pieces, n, e)

(* The line the checkpoint is about to pass was sent, if it could be. *)
AdvanceHolds ==
  \A p \in Producers : pc[p] = "advance" =>
    LineEnds # {} /\ (WellFormed => file[LineEnd].event \in processed)

(* The copy of a compaction has everything that has to survive.            *)
CompactionHolds ==
  \A p \in Producers :
    /\ pc[p] \in {"compact", "replace"} => Survives(kept[p], 0) /\ Len(kept[p]) < Cap
    /\ pc[p] = "write" => Len(file) < Cap

SpoolHolds == CheckpointHolds /\ Survives(file, checkpoint) /\ AdvanceHolds /\ CompactionHolds

----
(* A set of naturals has a least element. *)
LEMMA MinIsLeast ==
  ASSUME NEW S, S \subseteq Nat, S # {}
  PROVE  Min(S) \in S /\ \A n \in S : Min(S) <= n
<1>1. PICK x \in S : \A y \in S : <<y, x>> \notin OpToRel(<, Nat)
  BY NatLessThanWellFounded, WFMin, Zenon
<1>2. ASSUME NEW y \in S PROVE ~ (y < x)
  <2>1. y \in Nat /\ x \in Nat
    OBVIOUS
  <2> QED
    BY <1>1, <2>1, Zenon DEF OpToRel
<1>3. \A y \in S : x <= y
  BY <1>2, SMT
<1> QED
  BY <1>3 DEF Min

----
LEMMA LineEndBounds ==
  ASSUME TransportTyped, LineEnds # {}
  PROVE  LineEnd \in DOMAIN file /\ checkpoint < LineEnd /\ file[LineEnd].ended
<1>1. LineEnds \subseteq Nat
  BY DEF LineEnds, TransportTyped
<1>2. LineEnd \in LineEnds
  BY <1>1, MinIsLeast DEF LineEnd
<1> QED
  BY <1>2 DEF LineEnds, TransportTyped

LEMMA PieceTyped ==
  ASSUME NEW e \in Events, NEW b \in BOOLEAN
  PROVE  [event |-> e, ended |-> b] \in Pieces
BY DEF Pieces

(* What an interrupted operation leaves of the file and the checkpoint. *)
LEMMA InterruptedOutcomes ==
  ASSUME NEW p \in Producers, Interrupted(p)
  PROVE  \/ UNCHANGED <<file, checkpoint>>
         \/ pc[p] = "write" /\ checkpoint' = checkpoint /\ \E b \in BOOLEAN : Write(p, b)
         \/ pc[p] = "replace" /\ checkpoint' = checkpoint /\ file' = kept[p]
         \/ pc[p] = "compact" /\ checkpoint' = 0 /\ file' = file
         \/ pc[p] = "advance" /\ checkpoint' = LineEnd /\ file' = file
<1>1. CASE pc[p] = "write"
  BY <1>1 DEF Interrupted
<1>2. CASE pc[p] = "replace"
  BY <1>2 DEF Interrupted
<1>3. CASE pc[p] = "compact"
  BY <1>3 DEF Interrupted
<1>4. CASE pc[p] = "advance"
  BY <1>4 DEF Interrupted
<1>5. CASE pc[p] \notin {"write", "replace", "compact", "advance"}
  BY <1>5 DEF Interrupted
<1> QED
  BY <1>1, <1>2, <1>3, <1>4, <1>5

(* What one step of a process does to the file and the checkpoint. *)
Effect(p) ==
  \/ UNCHANGED <<file, checkpoint>>
  \/ pc[p] = "write" /\ checkpoint' = checkpoint /\ \E b \in BOOLEAN : Write(p, b)
  \/ pc[p] = "replace" /\ checkpoint' = checkpoint /\ file' = kept[p]
  \/ pc[p] = "compact" /\ checkpoint' = 0 /\ file' = file
  \/ pc[p] = "advance" /\ checkpoint' = LineEnd /\ file' = file

LEMMA StepEffect ==
  ASSUME Base, Next
  PROVE  \/ UNCHANGED <<file, checkpoint, pc, item, kept>>
         \/ \E p \in Producers : (Worker(p) \/ Crash(p)) /\ Effect(p)
<1>1. CASE DaemonDown \/ DaemonUp
  BY <1>1 DEF DaemonDown, DaemonUp, spool, work
<1>2. ASSUME NEW p \in Producers, NEW n \in 1 .. MaxEvents, Submit(p, n)
      PROVE  UNCHANGED <<file, checkpoint, pc, item, kept>>
  BY <1>2 DEF Submit, spool
<1>3. ASSUME NEW p \in Producers, Worker(p) PROVE Effect(p)
  <2>1. CASE Take(p) \/ IdleReplay(p) \/ ReplaySent(p) \/ ReplayRefused(p)
             \/ ReplayUnanswered(p) \/ EndReplay(p)
    BY <2>1 DEF Effect, Take, IdleReplay, ReplaySent, ReplayRefused, ReplayUnanswered,
                EndReplay, spool
  <2>2. CASE CheckPending(p) \/ SendAnswered(p) \/ SendUnanswered(p) \/ RefuseAppend(p)
             \/ StartAppend(p)
    BY <2>2 DEF Effect, CheckPending, SendAnswered, SendUnanswered, RefuseAppend, StartAppend, spool
  <2>3. CASE StartReplay(p)
    BY <2>3 DEF Effect, StartReplay, Base, TransportTyped
  <2>4. CASE Advance(p) \/ ResetCheckpoint(p) \/ ReplaceFile(p)
    BY <2>4 DEF Effect, Advance, ResetCheckpoint, ReplaceFile
  <2>5. CASE WriteLine(p)
    BY <2>5 DEF Effect, WriteLine
  <2>6. CASE SpoolError(p)
    BY <2>6, InterruptedOutcomes DEF Effect, SpoolError
  <2> QED
    BY <1>3, <2>1, <2>2, <2>3, <2>4, <2>5, <2>6, Zenon DEF Worker
<1>4. ASSUME NEW p \in Producers, Crash(p) PROVE Effect(p)
  BY <1>4, InterruptedOutcomes DEF Effect, Crash
<1> QED
  BY <1>1, <1>2, <1>3, <1>4, Zenon DEF Next

LEMMA EffectTyped ==
  ASSUME Base, NEW p \in Producers, Effect(p)
  PROVE  file' \in Seq(Pieces) /\ checkpoint' \in 0 .. Len(file')
<1>0. file \in Seq(Pieces) /\ checkpoint \in 0 .. Len(file) /\ kept[p] \in Seq(Pieces)
  BY DEF Base, TransportTyped
<1>1. CASE UNCHANGED <<file, checkpoint>>
  BY <1>0, <1>1
<1>2. CASE pc[p] = "write" /\ checkpoint' = checkpoint /\ \E b \in BOOLEAN : Write(p, b)
  <2>1. PICK b \in BOOLEAN : file' = Append(file, [event |-> item[p], ended |-> b])
    BY <1>2 DEF Write
  <2>2. [event |-> item[p], ended |-> b] \in Pieces
    BY <1>2, PieceTyped DEF Base, HandsHold
  <2>3. file' \in Seq(Pieces) /\ Len(file') = Len(file) + 1
    <3> HIDE DEF Pieces
    <3> DEFINE piece == [event |-> item[p], ended |-> b]
    <3>1. piece \in Pieces /\ file' = Append(file, piece)
      BY <2>1, <2>2
    <3> HIDE DEF piece
    <3> QED
      BY <1>0, <3>1
  <2> QED
    BY <1>0, <1>2, <2>3
<1>3. CASE pc[p] = "replace" /\ checkpoint' = checkpoint /\ file' = kept[p]
  <2>1. checkpoint = 0
    BY <1>3 DEF Base, PlacesHold
  <2> QED
    BY <1>0, <1>3, <2>1
<1>4. CASE pc[p] = "compact" /\ checkpoint' = 0 /\ file' = file
  BY <1>0, <1>4
<1>5. CASE pc[p] = "advance" /\ checkpoint' = LineEnd /\ file' = file
  BY <1>0, <1>5, LineEndBounds DEF Base, PlacesHold
<1> QED
  BY <1>1, <1>2, <1>3, <1>4, <1>5 DEF Effect

(* The parts of the state that are one value per process. *)
LocalTyped ==
  /\ holder \in Producers \union {Nobody}
  /\ pc \in [Producers -> Phases]
  /\ item \in [Producers -> Events \union {NoEvent}]
  /\ queue \in [Producers -> Seq(Events)]
  /\ kept \in [Producers -> Seq(Pieces)]
  /\ DOMAIN fate = Events

LEMMA LocalStep ==
  ASSUME Base, Next
  PROVE  LocalTyped'
<1> USE DEF LocalTyped, Phases
<1>0. LocalTyped
  BY DEF Base, TransportTyped
<1>1. CASE DaemonDown \/ DaemonUp
  BY <1>0, <1>1 DEF DaemonDown, DaemonUp, spool, work
<1>2. ASSUME NEW p \in Producers, NEW n \in 1 .. MaxEvents, Submit(p, n)
      PROVE  LocalTyped'
  <2>1. <<p, n>> \in Events
    BY DEF Events
  <2>2. queue' = [queue EXCEPT ![p] = Append(@, <<p, n>>)] \/ UNCHANGED queue
    BY <1>2 DEF Submit
  <2>3. Append(queue[p], <<p, n>>) \in Seq(Events)
    BY <1>0, <2>1, AppendProperties
  <2>4. queue' \in [Producers -> Seq(Events)]
    BY <1>0, <2>2, <2>3
  <2>5. DOMAIN fate' = Events
    BY <1>0, <1>2 DEF Submit
  <2>6. UNCHANGED <<holder, pc, item, kept>>
    BY <1>2 DEF Submit, spool
  <2> QED
    BY <1>0, <2>4, <2>5, <2>6
<1>3. ASSUME NEW p \in Producers, Worker(p) PROVE LocalTyped'
  <2>1. CASE Take(p)
    BY <1>0, <2>1 DEF Take, spool, counters, Goto
  <2>2. CASE IdleReplay(p) \/ StartReplay(p)
    BY <1>0, <2>2 DEF IdleReplay, StartReplay, spool, work, counters, Goto
  <2>3. CASE ReplaySent(p) \/ ReplayRefused(p) \/ ReplayUnanswered(p) \/ EndReplay(p)
    BY <1>0, <2>3 DEF ReplaySent, ReplayRefused, ReplayUnanswered, EndReplay, LeaveReplay,
                      spool, work, counters, Goto
  <2>4. CASE Advance(p) \/ ResetCheckpoint(p)
    BY <1>0, <2>4 DEF Advance, ResetCheckpoint, work, counters, Goto
  <2>5. CASE CheckPending(p) \/ SendUnanswered(p)
    BY <1>0, <2>5 DEF CheckPending, SendUnanswered, spool, work, counters, Goto
  <2>6. CASE SendAnswered(p)
    BY <1>0, <2>6 DEF SendAnswered, Done, spool, Goto
  <2>7. CASE RefuseAppend(p)
    BY <1>0, <2>7 DEF RefuseAppend, Done, spool, Goto
  <2>8. CASE StartAppend(p)
    <3>1. \A offset \in 0 .. Len(file) : Pending(offset) \in Seq(Pieces)
      BY DEF Pending, Base, TransportTyped
    <3> QED
      BY <1>0, <2>8, <3>1 DEF StartAppend, counters, Goto
  <2>9. CASE ReplaceFile(p)
    <3>1. <<>> \in Seq(Pieces)
      OBVIOUS
    <3> QED
      BY <1>0, <2>9, <3>1 DEF ReplaceFile, counters, Goto
  <2>10. CASE WriteLine(p)
    BY <1>0, <2>10 DEF WriteLine, Done, Goto
  <2>11. CASE SpoolError(p)
    <3>1. <<>> \in Seq(Pieces)
      OBVIOUS
    <3> QED
      BY <1>0, <2>11, <3>1 DEF SpoolError, Done, Goto
  <2> QED
    BY <1>3, <2>1, <2>2, <2>3, <2>4, <2>5, <2>6, <2>7, <2>8, <2>9, <2>10, <2>11, Zenon DEF Worker
<1>4. ASSUME NEW p \in Producers, Crash(p) PROVE LocalTyped'
  <2>1. <<>> \in Seq(Pieces) /\ <<>> \in Seq(Events)
    OBVIOUS
  <2> QED
    BY <1>0, <1>4, <2>1 DEF Crash, Goto
<1> QED
  BY <1>1, <1>2, <1>3, <1>4, Zenon DEF Next

(* What a step does to where the processes are: only one of them moves.   *)
LEMMA FlockStep ==
  ASSUME Base, Next
  PROVE  FlockHolds' /\ HandsHold'
<1> USE TransportAssumption DEF FlockHolds, HandsHold, Locked
<1>0. LocalTyped /\ FlockHolds /\ HandsHold
  BY DEF Base, TransportTyped, LocalTyped
<1>1. CASE DaemonDown \/ DaemonUp
  BY <1>0, <1>1 DEF DaemonDown, DaemonUp, spool, work
<1>2. ASSUME NEW p \in Producers, NEW n \in 1 .. MaxEvents, Submit(p, n)
      PROVE  FlockHolds' /\ HandsHold'
  BY <1>0, <1>2 DEF Submit, spool
<1>3. ASSUME NEW p \in Producers, Worker(p) PROVE FlockHolds' /\ HandsHold'
  <2> USE DEF LocalTyped
  <2>1. CASE Take(p)
    BY <1>0, <2>1 DEF Take, spool, counters, Goto
  <2>2. CASE IdleReplay(p) \/ StartReplay(p)
    BY <1>0, <2>2 DEF IdleReplay, StartReplay, spool, work, counters, Goto
  <2>3. CASE ReplaySent(p) \/ ReplayRefused(p)
    BY <1>0, <2>3 DEF ReplaySent, ReplayRefused, spool, work, counters, Goto
  <2>4. CASE ReplayUnanswered(p) \/ EndReplay(p)
    BY <1>0, <2>4 DEF ReplayUnanswered, EndReplay, LeaveReplay, work, counters, Goto
  <2>5. CASE Advance(p) \/ ResetCheckpoint(p) \/ ReplaceFile(p)
    BY <1>0, <2>5 DEF Advance, ResetCheckpoint, ReplaceFile, work, counters, Goto
  <2>6. CASE CheckPending(p) \/ SendUnanswered(p)
    BY <1>0, <2>6 DEF CheckPending, SendUnanswered, spool, work, counters, Goto
  <2>7. CASE SendAnswered(p) \/ RefuseAppend(p)
    BY <1>0, <2>7, SMTT(20) DEF SendAnswered, RefuseAppend, Done, spool, Goto
  <2>8. CASE StartAppend(p)
    BY <1>0, <2>8 DEF StartAppend, counters, Goto
  <2>9. CASE WriteLine(p)
    BY <1>0, <2>9 DEF WriteLine, Done, Goto
  <2>10. CASE SpoolError(p)
    BY <1>0, <2>10 DEF SpoolError, Done, Goto
  <2> QED
    BY <1>3, <2>1, <2>2, <2>3, <2>4, <2>5, <2>6, <2>7, <2>8, <2>9, <2>10, Zenon DEF Worker
<1>4. ASSUME NEW p \in Producers, Crash(p) PROVE FlockHolds' /\ HandsHold'
  BY <1>0, <1>4 DEF Crash, Goto, LocalTyped
<1> QED
  BY <1>1, <1>2, <1>3, <1>4, Zenon DEF Next

(* While a process holds the flock no other one touches the spool. *)
LEMMA OthersWait ==
  ASSUME Base, NEW p \in Producers, Effect(p), NEW q \in Producers, q # p, pc[q] \in Locked
  PROVE  UNCHANGED <<file, checkpoint>>
BY DEF Base, FlockHolds, Effect, Locked

LEMMA OthersStay ==
  ASSUME Base, NEW p \in Producers, Worker(p) \/ Crash(p), NEW q \in Producers, q # p
  PROVE  pc'[q] = pc[q] /\ kept'[q] = kept[q]
<1>0. LocalTyped
  BY DEF Base, TransportTyped, LocalTyped
<1> USE DEF LocalTyped
<1>1. CASE Take(p) \/ IdleReplay(p) \/ StartReplay(p)
  BY <1>0, <1>1 DEF Take, IdleReplay, StartReplay, work, Goto
<1>2. CASE ReplaySent(p) \/ ReplayRefused(p) \/ ReplayUnanswered(p) \/ EndReplay(p)
  BY <1>0, <1>2 DEF ReplaySent, ReplayRefused, ReplayUnanswered, EndReplay, LeaveReplay, work, Goto
<1>3. CASE Advance(p) \/ ResetCheckpoint(p) \/ ReplaceFile(p) \/ StartAppend(p)
  BY <1>0, <1>3 DEF Advance, ResetCheckpoint, ReplaceFile, StartAppend, work, Goto
<1>4. CASE CheckPending(p) \/ SendUnanswered(p) \/ SendAnswered(p) \/ RefuseAppend(p)
  BY <1>0, <1>4 DEF CheckPending, SendUnanswered, SendAnswered, RefuseAppend, Done, work, Goto
<1>5. CASE WriteLine(p) \/ SpoolError(p) \/ Crash(p)
  BY <1>0, <1>5 DEF WriteLine, SpoolError, Crash, Done, Goto
<1> QED
  BY <1>1, <1>2, <1>3, <1>4, <1>5, Zenon DEF Worker

(* How a process comes to move the checkpoint: its line has been sent, or   *)
(* could not be.                                                            *)
LEMMA ArrivesAtAdvance ==
  ASSUME Base, Next, NEW q \in Producers, pc'[q] = "advance"
  PROVE  /\ UNCHANGED <<file, checkpoint>>
         /\ \/ pc[q] = "advance"
            \/ LineEnds # {} /\ (WellFormed => file[LineEnd].event \in processed')
<1>0. LocalTyped
  BY DEF Base, TransportTyped, LocalTyped
<1>1. CASE UNCHANGED <<file, checkpoint, pc, item, kept>>
  BY <1>1
<1>2. ASSUME NEW p \in Producers, Worker(p) \/ Crash(p), Effect(p), p # q
      PROVE  pc[q] = "advance" /\ UNCHANGED <<file, checkpoint>>
  BY <1>2, OthersStay, OthersWait DEF Locked
<1>3. ASSUME Worker(q) \/ Crash(q)
      PROVE  /\ UNCHANGED <<file, checkpoint>>
             /\ LineEnds # {} /\ (WellFormed => file[LineEnd].event \in processed')
  <2>1. CASE Take(q) \/ IdleReplay(q) \/ StartReplay(q)
    BY <1>0, <2>1 DEF Take, IdleReplay, StartReplay, work, Goto, LocalTyped
  <2>2. CASE ReplaySent(q) \/ ReplayRefused(q)
    BY <1>0, <2>2 DEF ReplaySent, ReplayRefused, HasLine, spool
  <2>3. CASE ReplayUnanswered(q) \/ EndReplay(q)
    BY <1>0, <2>3 DEF ReplayUnanswered, EndReplay, LeaveReplay, Goto, LocalTyped
  <2>4. CASE Advance(q) \/ ResetCheckpoint(q) \/ ReplaceFile(q) \/ StartAppend(q)
    BY <1>0, <2>4 DEF Advance, ResetCheckpoint, ReplaceFile, StartAppend, Goto, LocalTyped
  <2>5. CASE CheckPending(q) \/ SendUnanswered(q) \/ SendAnswered(q) \/ RefuseAppend(q)
    BY <1>0, <2>5 DEF CheckPending, SendUnanswered, SendAnswered, RefuseAppend, Done, Goto, LocalTyped
  <2>6. CASE WriteLine(q) \/ SpoolError(q) \/ Crash(q)
    BY <1>0, <2>6 DEF WriteLine, SpoolError, Crash, Done, Goto, LocalTyped
  <2> QED
    BY <1>3, <2>1, <2>2, <2>3, <2>4, <2>5, <2>6, Zenon DEF Worker
<1> QED
  BY <1>1, <1>2, <1>3, StepEffect

(* How it comes to compact, to replace the file, or to write.               *)
LEMMA ArrivesAtCompact ==
  ASSUME Base, Next, NEW q \in Producers, pc'[q] \in {"compact", "replace"}
  PROVE  /\ file' = file
         /\ \/ pc'[q] = pc[q] /\ kept'[q] = kept[q] /\ checkpoint' = checkpoint
            \/ StartAppend(q)
            \/ ResetCheckpoint(q)
<1>0. LocalTyped
  BY DEF Base, TransportTyped, LocalTyped
<1>1. CASE UNCHANGED <<file, checkpoint, pc, item, kept>>
  BY <1>1
<1>2. ASSUME NEW p \in Producers, Worker(p) \/ Crash(p), Effect(p), p # q
      PROVE  pc'[q] = pc[q] /\ kept'[q] = kept[q] /\ UNCHANGED <<file, checkpoint>>
  BY <1>2, OthersStay, OthersWait DEF Locked
<1>3. ASSUME Worker(q) \/ Crash(q)
      PROVE  file' = file /\ (StartAppend(q) \/ ResetCheckpoint(q))
  <2>1. CASE Take(q) \/ IdleReplay(q) \/ StartReplay(q)
    BY <1>0, <2>1 DEF Take, IdleReplay, StartReplay, work, Goto, LocalTyped
  <2>2. CASE ReplaySent(q) \/ ReplayRefused(q) \/ ReplayUnanswered(q) \/ EndReplay(q)
    BY <1>0, <2>2 DEF ReplaySent, ReplayRefused, ReplayUnanswered, EndReplay, LeaveReplay, Goto, LocalTyped
  <2>3. CASE Advance(q) \/ ReplaceFile(q)
    BY <1>0, <2>3 DEF Advance, ReplaceFile, Goto, LocalTyped
  <2>4. CASE ResetCheckpoint(q) \/ StartAppend(q)
    BY <2>4 DEF ResetCheckpoint, StartAppend
  <2>5. CASE CheckPending(q) \/ SendUnanswered(q) \/ SendAnswered(q) \/ RefuseAppend(q)
    BY <1>0, <2>5 DEF CheckPending, SendUnanswered, SendAnswered, RefuseAppend, Done, Goto, LocalTyped
  <2>6. CASE WriteLine(q) \/ SpoolError(q) \/ Crash(q)
    BY <1>0, <2>6 DEF WriteLine, SpoolError, Crash, Done, Goto, LocalTyped
  <2> QED
    BY <1>3, <2>1, <2>2, <2>3, <2>4, <2>5, <2>6, Zenon DEF Worker
<1> QED
  BY <1>1, <1>2, <1>3, StepEffect

LEMMA ArrivesAtWrite ==
  ASSUME Base, Next, NEW q \in Producers, pc'[q] = "write"
  PROVE  (pc[q] = "write" /\ file' = file) \/ StartAppend(q) \/ ReplaceFile(q)
<1>0. LocalTyped
  BY DEF Base, TransportTyped, LocalTyped
<1>1. CASE UNCHANGED <<file, checkpoint, pc, item, kept>>
  BY <1>1
<1>2. ASSUME NEW p \in Producers, Worker(p) \/ Crash(p), Effect(p), p # q
      PROVE  pc[q] = "write" /\ file' = file
  BY <1>2, OthersStay, OthersWait DEF Locked
<1>3. ASSUME Worker(q) \/ Crash(q)
      PROVE  StartAppend(q) \/ ReplaceFile(q)
  <2>1. CASE Take(q) \/ IdleReplay(q) \/ StartReplay(q)
    BY <1>0, <2>1 DEF Take, IdleReplay, StartReplay, work, Goto, LocalTyped
  <2>2. CASE ReplaySent(q) \/ ReplayRefused(q) \/ ReplayUnanswered(q) \/ EndReplay(q)
    BY <1>0, <2>2 DEF ReplaySent, ReplayRefused, ReplayUnanswered, EndReplay, LeaveReplay, Goto, LocalTyped
  <2>3. CASE Advance(q) \/ ResetCheckpoint(q)
    BY <1>0, <2>3 DEF Advance, ResetCheckpoint, Goto, LocalTyped
  <2>4. CASE ReplaceFile(q) \/ StartAppend(q)
    BY <2>4
  <2>5. CASE CheckPending(q) \/ SendUnanswered(q) \/ SendAnswered(q) \/ RefuseAppend(q)
    BY <1>0, <2>5 DEF CheckPending, SendUnanswered, SendAnswered, RefuseAppend, Done, Goto, LocalTyped
  <2>6. CASE WriteLine(q) \/ SpoolError(q) \/ Crash(q)
    BY <1>0, <2>6 DEF WriteLine, SpoolError, Crash, Done, Goto, LocalTyped
  <2> QED
    BY <1>3, <2>1, <2>2, <2>3, <2>4, <2>5, <2>6, Zenon DEF Worker
<1> QED
  BY <1>1, <1>2, <1>3, StepEffect

LEMMA PlacesStep ==
  ASSUME Base, Next
  PROVE  PlacesHold'
<1>1. ASSUME NEW q \in Producers, pc'[q] = "advance"
      PROVE  LineEnds' # {}
  <2>1. LineEnds # {} /\ UNCHANGED <<file, checkpoint>>
    BY <1>1, ArrivesAtAdvance DEF Base, PlacesHold
  <2> QED
    BY <2>1 DEF LineEnds
<1>2. ASSUME NEW q \in Producers, pc'[q] = "replace"
      PROVE  checkpoint' = 0
  <2>1. LocalTyped
    BY DEF Base, TransportTyped, LocalTyped
  <2>2. CASE StartAppend(q)
    BY <1>2, <2>1, <2>2 DEF StartAppend, Goto, LocalTyped
  <2>3. CASE ResetCheckpoint(q)
    BY <2>3 DEF ResetCheckpoint
  <2> QED
    BY <1>2, <2>2, <2>3, ArrivesAtCompact DEF Base, PlacesHold
<1> QED
  BY <1>1, <1>2 DEF PlacesHold

LEMMA BaseStep ==
  ASSUME Base, Next
  PROVE  Base'
<1>1. file' \in Seq(Pieces) /\ checkpoint' \in 0 .. Len(file')
  <2>1. CASE UNCHANGED <<file, checkpoint, pc, item, kept>>
    BY <2>1 DEF Base, TransportTyped
  <2> QED
    BY <2>1, EffectTyped, StepEffect
<1> QED
  BY <1>1, LocalStep, FlockStep, PlacesStep DEF Base, TransportTyped, LocalTyped

----
(* What each operation on the spool does to a line of its own.              *)
LEMMA OwnLineAppended ==
  ASSUME NEW pieces \in Seq(Pieces), NEW n \in Nat, NEW e \in Events, NEW piece \in Pieces,
         OwnLine(pieces, n, e)
  PROVE  OwnLine(Append(pieces, piece), n, e)
<1>1. PICK i \in DOMAIN pieces :
        /\ i > n
        /\ pieces[i] = [event |-> e, ended |-> TRUE]
        /\ i = n + 1 \/ pieces[i - 1].ended
  BY DEF OwnLine
<1>2. /\ i \in 1 .. Len(pieces) + 1
      /\ Append(pieces, piece)[i] = pieces[i]
      /\ i > 1 => Append(pieces, piece)[i - 1] = pieces[i - 1]
      /\ DOMAIN Append(pieces, piece) = 1 .. Len(pieces) + 1
  BY AppendProperties
<1>3. i = n + 1 \/ i > 1
  BY <1>1
<1> QED
  BY <1>1, <1>2, <1>3 DEF OwnLine

LEMMA OwnLineWritten ==
  ASSUME NEW pieces \in Seq(Pieces), NEW n \in 0 .. Len(pieces), NEW e \in Events,
         pieces = <<>> \/ pieces[Len(pieces)].ended
  PROVE  OwnLine(Append(pieces, [event |-> e, ended |-> TRUE]), n, e)
<1> DEFINE longer == Append(pieces, [event |-> e, ended |-> TRUE])
           i == Len(pieces) + 1
<1>1. [event |-> e, ended |-> TRUE] \in Pieces
  BY PieceTyped
<1>2. /\ DOMAIN longer = 1 .. Len(pieces) + 1
      /\ longer[i] = [event |-> e, ended |-> TRUE]
      /\ Len(pieces) > 0 => longer[i - 1] = pieces[i - 1]
  BY <1>1, AppendProperties
<1>3. i \in DOMAIN longer /\ i > n
  BY <1>2
<1>4. i = n + 1 \/ longer[i - 1].ended
  <2>1. CASE Len(pieces) = 0
    BY <2>1
  <2>2. CASE Len(pieces) > 0
    <3>1. pieces # <<>>
      BY <2>2
    <3> HIDE DEF longer
    <3> QED
      BY <1>2, <2>2, <3>1
  <2> QED
    BY <2>1, <2>2
<1> HIDE DEF longer, i
<1>5. OwnLine(longer, n, e)
  BY <1>2, <1>3, <1>4 DEF OwnLine
<1> QED
  BY <1>5 DEF longer

LEMMA OwnLineReset ==
  ASSUME NEW pieces \in Seq(Pieces), NEW n \in 0 .. Len(pieces), NEW e \in Events,
         n > 0 => pieces[n].ended, OwnLine(pieces, n, e)
  PROVE  OwnLine(pieces, 0, e)
BY DEF OwnLine

LEMMA OwnLineCopied ==
  ASSUME NEW pieces \in Seq(Pieces), NEW n \in 0 .. Len(pieces), NEW e \in Events,
         OwnLine(pieces, n, e)
  PROVE  OwnLine(SubSeq(pieces, n + 1, Len(pieces)), 0, e)
<1> DEFINE rest == SubSeq(pieces, n + 1, Len(pieces))
<1>1. DOMAIN rest = 1 .. Len(pieces) - n /\ \A j \in 1 .. Len(pieces) - n : rest[j] = pieces[n + j]
  OBVIOUS
<1>2. PICK i \in DOMAIN pieces :
        /\ i > n
        /\ pieces[i] = [event |-> e, ended |-> TRUE]
        /\ i = n + 1 \/ pieces[i - 1].ended
  BY DEF OwnLine
<1> HIDE DEF rest
<1>3. i - n \in DOMAIN rest /\ i - n > 0 /\ rest[i - n] = pieces[i]
  <2>1. i \in 1 .. Len(pieces) /\ i > n
    BY <1>2
  <2>2. i - n \in 1 .. Len(pieces) - n /\ n + (i - n) = i
    BY <2>1
  <2> QED
    BY <1>1, <2>2
<1>4. i - n = 0 + 1 \/ rest[i - n - 1].ended
  <2>1. CASE i = n + 1
    BY <2>1
  <2>2. CASE i > n + 1
    <3>1. i - n - 1 \in 1 .. Len(pieces) - n
      BY <2>2
    <3>2. rest[i - n - 1] = pieces[n + (i - n - 1)] /\ n + (i - n - 1) = i - 1
      BY <1>1, <3>1
    <3> QED
      BY <1>2, <2>2, <3>2
  <2> QED
    BY <1>2, <2>1, <2>2
<1>5. OwnLine(rest, 0, e)
  BY <1>2, <1>3, <1>4 DEF OwnLine
<1> QED
  BY <1>5 DEF rest

(* The checkpoint passes a line of its own only when the daemon has it.     *)
LEMMA OwnLinePassed ==
  ASSUME TransportTyped, LineEnds # {}, NEW e \in Events, OwnLine(file, checkpoint, e)
  PROVE  (WellFormed /\ file[LineEnd].event = e) \/ OwnLine(file, LineEnd, e)
<1>1. LineEnd \in LineEnds /\ \A n \in LineEnds : LineEnd <= n
  <2>1. LineEnds \subseteq Nat
    BY DEF LineEnds, TransportTyped
  <2> QED
    BY <2>1, MinIsLeast DEF LineEnd
<1>2. PICK i \in DOMAIN file :
        /\ i > checkpoint
        /\ file[i] = [event |-> e, ended |-> TRUE]
        /\ i = checkpoint + 1 \/ file[i - 1].ended
  BY DEF OwnLine
<1>3. /\ checkpoint \in Nat /\ LineEnd \in Nat /\ i \in Nat /\ DOMAIN file = 1 .. Len(file)
      /\ i \in LineEnds /\ LineEnd > checkpoint
  <2>1. file[i].ended
    BY <1>2
  <2>2. i \in LineEnds
    BY <1>2, <2>1 DEF LineEnds
  <2>3. checkpoint \in Nat /\ DOMAIN file = 1 .. Len(file) /\ Len(file) \in Nat
    BY DEF TransportTyped
  <2>4. LineEnd \in 1 .. Len(file) /\ LineEnd > checkpoint
    BY <1>1, <2>3 DEF LineEnds
  <2> QED
    BY <2>2, <2>3, <2>4
<1>4. i > checkpoint + 1 => i - 1 \in LineEnds
  <2>1. ASSUME i > checkpoint + 1
        PROVE  i - 1 \in DOMAIN file /\ i - 1 > checkpoint /\ file[i - 1].ended
    BY <1>2, <1>3, <2>1
  <2> QED
    BY <2>1 DEF LineEnds
<1>5. CASE i > LineEnd
  <2>1. file[i - 1].ended
    BY <1>2, <1>3, <1>5
  <2> QED
    BY <1>2, <1>5, <2>1 DEF OwnLine
<1>6. CASE i <= LineEnd
  <2>1. i = LineEnd
    BY <1>1, <1>3, <1>6
  <2>2. i = checkpoint + 1
    <3>1. CASE i > checkpoint + 1
      BY <1>1, <1>3, <1>4, <2>1, <3>1
    <3> QED
      BY <1>2, <1>3, <3>1
  <2> QED
    BY <1>2, <2>1, <2>2 DEF WellFormed
<1> QED
  BY <1>3, <1>5, <1>6

----
(* What was processed or glued stays so.                                    *)
LEMMA DecidedGrows ==
  ASSUME Next
  PROVE  processed \subseteq processed' /\ glued \subseteq glued'
<1>1. CASE DaemonDown \/ DaemonUp
  BY <1>1 DEF DaemonDown, DaemonUp
<1>2. ASSUME NEW p \in Producers, NEW n \in 1 .. MaxEvents, Submit(p, n)
      PROVE  processed \subseteq processed' /\ glued \subseteq glued'
  BY <1>2 DEF Submit
<1>3. ASSUME NEW p \in Producers, Worker(p)
      PROVE  processed \subseteq processed' /\ glued \subseteq glued'
  <2>1. CASE Take(p) \/ IdleReplay(p) \/ StartReplay(p) \/ ReplaySent(p) \/ ReplayRefused(p)
    BY <2>1 DEF Take, IdleReplay, StartReplay, ReplaySent, ReplayRefused
  <2>2. CASE ReplayUnanswered(p) \/ SendUnanswered(p) \/ SendAnswered(p)
    BY <2>2 DEF ReplayUnanswered, SendUnanswered, SendAnswered, Unanswered
  <2>3. CASE EndReplay(p) \/ Advance(p) \/ CheckPending(p) \/ RefuseAppend(p) \/ StartAppend(p)
    BY <2>3 DEF EndReplay, Advance, CheckPending, RefuseAppend, StartAppend
  <2>4. CASE ResetCheckpoint(p) \/ ReplaceFile(p) \/ WriteLine(p) \/ SpoolError(p)
    BY <2>4 DEF ResetCheckpoint, ReplaceFile, WriteLine, SpoolError
  <2> QED
    BY <1>3, <2>1, <2>2, <2>3, <2>4, Zenon DEF Worker
<1>4. ASSUME NEW p \in Producers, Crash(p)
      PROVE  processed \subseteq processed' /\ glued \subseteq glued'
  BY <1>4 DEF Crash
<1> QED
  BY <1>1, <1>2, <1>3, <1>4, Zenon DEF Next

(* Only a line that was written makes its event spooled.                    *)
LEMMA NewlySpooled ==
  ASSUME Base, Next, NEW e \in Events, fate'[e] = "spooled"
  PROVE  fate[e] = "spooled" \/ \E p \in Producers : WriteLine(p) /\ item[p] = e
<1>0. DOMAIN fate = Events
  BY DEF Base, TransportTyped
<1>1. CASE DaemonDown \/ DaemonUp
  BY <1>1 DEF DaemonDown, DaemonUp
<1>2. ASSUME NEW p \in Producers, NEW n \in 1 .. MaxEvents, Submit(p, n)
      PROVE  fate[e] = "spooled"
  BY <1>0, <1>2 DEF Submit
<1>3. ASSUME NEW p \in Producers, Worker(p)
      PROVE  fate[e] = "spooled" \/ (WriteLine(p) /\ item[p] = e)
  <2>1. CASE Take(p) \/ IdleReplay(p) \/ StartReplay(p) \/ ReplaySent(p) \/ ReplayRefused(p)
    BY <2>1 DEF Take, IdleReplay, StartReplay, ReplaySent, ReplayRefused
  <2>2. CASE ReplayUnanswered(p) \/ EndReplay(p) \/ Advance(p) \/ CheckPending(p)
             \/ SendUnanswered(p)
    BY <2>2 DEF ReplayUnanswered, EndReplay, Advance, CheckPending, SendUnanswered
  <2>3. CASE SendAnswered(p) \/ RefuseAppend(p)
    BY <1>0, <2>3 DEF SendAnswered, RefuseAppend, Done
  <2>4. CASE StartAppend(p) \/ ResetCheckpoint(p) \/ ReplaceFile(p)
    BY <2>4 DEF StartAppend, ResetCheckpoint, ReplaceFile
  <2>5. CASE WriteLine(p)
    BY <1>0, <2>5 DEF WriteLine, Done
  <2>6. CASE SpoolError(p)
    BY <1>0, <2>6 DEF SpoolError, Done
  <2> QED
    BY <1>3, <2>1, <2>2, <2>3, <2>4, <2>5, <2>6, Zenon DEF Worker
<1>4. ASSUME NEW p \in Producers, Crash(p)
      PROVE  fate[e] = "spooled"
  BY <1>4 DEF Crash
<1> QED
  BY <1>1, <1>2, <1>3, <1>4, Zenon DEF Next

(* The checkpoint stays behind a complete line.                             *)
LEMMA CheckpointStep ==
  ASSUME Base, CheckpointHolds, Next
  PROVE  CheckpointHolds'
<1> USE DEF CheckpointHolds
<1>0. file \in Seq(Pieces) /\ checkpoint \in 0 .. Len(file)
  BY DEF Base, TransportTyped
<1>1. CASE UNCHANGED <<file, checkpoint, pc, item, kept>>
  BY <1>1
<1>2. ASSUME NEW p \in Producers, Effect(p)
      PROVE  CheckpointHolds'
  <2>1. CASE UNCHANGED <<file, checkpoint>>
    BY <2>1
  <2>2. CASE pc[p] = "write" /\ checkpoint' = checkpoint /\ \E b \in BOOLEAN : Write(p, b)
    <3>1. PICK b \in BOOLEAN : file' = Append(file, [event |-> item[p], ended |-> b])
      BY <2>2 DEF Write
    <3>2. [event |-> item[p], ended |-> b] \in Pieces
      BY <2>2, PieceTyped DEF Base, HandsHold
    <3>3. checkpoint > 0 => file'[checkpoint] = file[checkpoint]
      BY <1>0, <3>1, <3>2, AppendProperties
    <3> QED
      BY <2>2, <3>3
  <2>3. CASE pc[p] = "replace" /\ checkpoint' = checkpoint /\ file' = kept[p]
    BY <2>3 DEF Base, PlacesHold
  <2>4. CASE pc[p] = "compact" /\ checkpoint' = 0 /\ file' = file
    BY <2>4
  <2>5. CASE pc[p] = "advance" /\ checkpoint' = LineEnd /\ file' = file
    BY <2>5, LineEndBounds DEF Base, PlacesHold
  <2> QED
    BY <1>2, <2>1, <2>2, <2>3, <2>4, <2>5 DEF Effect
<1> QED
  BY <1>1, <1>2, StepEffect

LEMMA AdvanceStep ==
  ASSUME Base, AdvanceHolds, Next
  PROVE  AdvanceHolds'
<1> SUFFICES ASSUME NEW q \in Producers, pc'[q] = "advance"
             PROVE  LineEnds' # {} /\ (WellFormed' => file'[LineEnd'].event \in processed')
  BY DEF AdvanceHolds
<1>1. UNCHANGED <<file, checkpoint>>
  BY ArrivesAtAdvance
<1>2. LineEnds' = LineEnds
  BY <1>1 DEF LineEnds
<1>3. LineEnd' = LineEnd
  BY <1>2 DEF LineEnd, Min
<1>4. WellFormed' = WellFormed
  BY <1>1, <1>3 DEF WellFormed
<1>5. LineEnds # {} /\ (WellFormed => file[LineEnd].event \in processed')
  BY ArrivesAtAdvance, DecidedGrows DEF AdvanceHolds
<1> QED
  BY <1>1, <1>2, <1>3, <1>4, <1>5

(* What survived survives the step, whatever it does to the file.           *)
LEMMA LineStep ==
  ASSUME Base, SpoolHolds, NEW p \in Producers, Effect(p),
         NEW e \in Events, fate[e] = "spooled"
  PROVE  e \in processed \union glued \/ OwnLine(file', checkpoint', e)
<1>0. file \in Seq(Pieces) /\ checkpoint \in 0 .. Len(file)
  BY DEF Base, TransportTyped
<1>1. CASE e \in processed \union glued
  BY <1>1
<1>2. CASE OwnLine(file, checkpoint, e)
  <2>1. CASE UNCHANGED <<file, checkpoint>>
    BY <1>2, <2>1
  <2>2. CASE pc[p] = "write" /\ checkpoint' = checkpoint /\ \E b \in BOOLEAN : Write(p, b)
    <3>1. PICK b \in BOOLEAN : file' = Append(file, [event |-> item[p], ended |-> b])
      BY <2>2 DEF Write
    <3>2. [event |-> item[p], ended |-> b] \in Pieces
      BY <2>2, PieceTyped DEF Base, HandsHold
    <3>3. OwnLine(Append(file, [event |-> item[p], ended |-> b]), checkpoint, e)
      BY <1>0, <1>2, <3>2, OwnLineAppended
    <3> QED
      BY <2>2, <3>1, <3>3
  <2>3. CASE pc[p] = "replace" /\ checkpoint' = checkpoint /\ file' = kept[p]
    <3>1. e \in processed \union glued \/ OwnLine(kept[p], 0, e)
      BY <2>3 DEF SpoolHolds, CompactionHolds, Survives
    <3>2. checkpoint = 0
      BY <2>3 DEF Base, PlacesHold
    <3> QED
      BY <2>3, <3>1, <3>2
  <2>4. CASE pc[p] = "compact" /\ checkpoint' = 0 /\ file' = file
    <3>1. OwnLine(file, 0, e)
      BY <1>0, <1>2, OwnLineReset DEF SpoolHolds, CheckpointHolds
    <3> QED
      BY <2>4, <3>1
  <2>5. CASE pc[p] = "advance" /\ checkpoint' = LineEnd /\ file' = file
    <3>1. LineEnds # {} /\ (WellFormed => file[LineEnd].event \in processed)
      BY <2>5 DEF SpoolHolds, AdvanceHolds
    <3>2. (WellFormed /\ file[LineEnd].event = e) \/ OwnLine(file, LineEnd, e)
      BY <1>2, <3>1, OwnLinePassed DEF Base
    <3> QED
      BY <2>5, <3>1, <3>2
  <2> QED
    BY <2>1, <2>2, <2>3, <2>4, <2>5 DEF Effect
<1> QED
  BY <1>1, <1>2 DEF SpoolHolds, Survives

LEMMA SurvivalStep ==
  ASSUME Base, SpoolHolds, Next
  PROVE  Survives(file, checkpoint)'
<1> SUFFICES ASSUME NEW e \in Events, fate'[e] = "spooled"
             PROVE  e \in processed' \union glued' \/ OwnLine(file', checkpoint', e)
  BY DEF Survives, OwnLine
<1>1. CASE fate[e] = "spooled"
  <2>1. CASE UNCHANGED <<file, checkpoint, pc, item, kept>>
    BY <1>1, <2>1, DecidedGrows DEF SpoolHolds, Survives
  <2> QED
    BY <1>1, <2>1, StepEffect, LineStep, DecidedGrows
<1>2. ASSUME NEW p \in Producers, WriteLine(p), item[p] = e
      PROVE  e \in glued' \/ OwnLine(file', checkpoint', e)
  <2>1. CASE CutShort
    BY <1>2, <2>1 DEF WriteLine
  <2>2. CASE ~ CutShort
    <3>1. file = <<>> \/ file[Len(file)].ended
      BY <2>2 DEF CutShort, Last
    <3>2. OwnLine(Append(file, [event |-> e, ended |-> TRUE]), checkpoint, e)
      BY <3>1, OwnLineWritten DEF Base, TransportTyped
    <3> QED
      BY <1>2, <3>2 DEF WriteLine, Write
  <2> QED
    BY <2>1, <2>2
<1> QED
  BY <1>1, <1>2, NewlySpooled

(* What a compaction copies is everything behind the checkpoint.            *)
LEMMA CopyIsComplete ==
  ASSUME Base, SpoolHolds, NEW p \in Producers, StartAppend(p)
  PROVE  /\ pc'[p] \in {"compact", "replace"} => Survives(kept'[p], 0) /\ Len(kept'[p]) < Cap
         /\ pc'[p] = "write" => Len(file) < Cap
<1>0. /\ file \in Seq(Pieces) /\ checkpoint \in 0 .. Len(file) /\ Len(file) \in Nat
      /\ LocalTyped /\ Cap \in Nat
  BY TransportAssumption DEF Base, TransportTyped, LocalTyped
<1>1. PICK offset \in 0 .. Len(file) :
        /\ ReadsCheckpoint(offset)
        /\ Fits(offset)
        /\ \/ /\ NeedsCompaction(offset)
              /\ kept' = [kept EXCEPT ![p] = Pending(offset)]
              /\ Goto(p, "compact")
           \/ /\ ~ NeedsCompaction(offset)
              /\ Goto(p, "write")
              /\ UNCHANGED kept
  BY DEF StartAppend
<1>2. CASE NeedsCompaction(offset)
  <2>1. kept'[p] = SubSeq(file, offset + 1, Len(file)) /\ pc'[p] = "compact"
    BY <1>0, <1>1, <1>2 DEF Pending, Goto, LocalTyped
  <2>2. offset = checkpoint
    <3>1. offset = Min({checkpoint, Len(file)})
      BY <1>1, <1>2 DEF ReadsCheckpoint, NeedsCompaction
    <3>2. Min({checkpoint, Len(file)}) = checkpoint
      <4>1. /\ Min({checkpoint, Len(file)}) \in {checkpoint, Len(file)}
            /\ \A n \in {checkpoint, Len(file)} : Min({checkpoint, Len(file)}) <= n
        <5>1. {checkpoint, Len(file)} \subseteq Nat /\ {checkpoint, Len(file)} # {}
          BY <1>0
        <5> QED
          BY <5>1, MinIsLeast
      <4> QED
        BY <1>0, <4>1
    <3> QED
      BY <3>1, <3>2
  <2>3. ASSUME NEW e \in Events, fate[e] = "spooled"
        PROVE  e \in processed \union glued \/ OwnLine(kept'[p], 0, e)
    BY <1>0, <2>1, <2>2, <2>3, OwnLineCopied DEF SpoolHolds, Survives
  <2>4. Len(kept'[p]) < Cap
    <3>1. Len(SubSeq(file, offset + 1, Len(file))) = Len(file) - offset
      BY <1>0
    <3> QED
      BY <1>0, <1>1, <2>1, <3>1 DEF Fits
  <2> QED
    BY <2>1, <2>3, <2>4 DEF Survives
<1>3. CASE ~ NeedsCompaction(offset)
  <2>1. pc'[p] = "write"
    BY <1>0, <1>1, <1>3 DEF Goto, LocalTyped
  <2>2. Len(file) < Cap
    BY <1>0, <1>1, <1>3 DEF Fits, NeedsCompaction
  <2> QED
    BY <2>1, <2>2
<1> QED
  BY <1>2, <1>3

LEMMA CompactionStep ==
  ASSUME Base, SpoolHolds, Next
  PROVE  CompactionHolds'
<1> SUFFICES ASSUME NEW q \in Producers
             PROVE  /\ pc'[q] \in {"compact", "replace"}
                         => Survives(kept[q], 0)' /\ Len(kept'[q]) < Cap
                    /\ pc'[q] = "write" => Len(file') < Cap
  BY DEF CompactionHolds
<1>0. LocalTyped
  BY DEF Base, TransportTyped, LocalTyped
<1>1. ASSUME pc'[q] \in {"compact", "replace"}
      PROVE  Survives(kept[q], 0)' /\ Len(kept'[q]) < Cap
  <2>1. CASE pc'[q] = pc[q] /\ kept'[q] = kept[q] /\ checkpoint' = checkpoint
    <3>1. ASSUME NEW e \in Events, fate'[e] = "spooled"
          PROVE  fate[e] = "spooled"
      <4>1. ASSUME NEW p \in Producers, pc[p] = "write"
            PROVE  FALSE
        BY <1>1, <2>1, <4>1 DEF Base, FlockHolds, Locked
      <4> QED
        BY <3>1, <4>1, NewlySpooled DEF WriteLine
    <3> QED
      BY <1>1, <2>1, <3>1, DecidedGrows DEF SpoolHolds, CompactionHolds, Survives, OwnLine
  <2>2. CASE StartAppend(q)
    <3>1. fate' = fate /\ processed' = processed /\ glued' = glued
      BY <2>2 DEF StartAppend
    <3> QED
      BY <1>1, <2>2, <3>1, CopyIsComplete DEF Survives, OwnLine
  <2>3. CASE ResetCheckpoint(q)
    <3>1. fate' = fate /\ processed' = processed /\ glued' = glued /\ kept' = kept
          /\ pc[q] = "compact"
      BY <2>3 DEF ResetCheckpoint, work
    <3> QED
      BY <3>1 DEF SpoolHolds, CompactionHolds, Survives, OwnLine
  <2> QED
    BY <1>1, <2>1, <2>2, <2>3, ArrivesAtCompact
<1>2. ASSUME pc'[q] = "write"
      PROVE  Len(file') < Cap
  <2>1. CASE pc[q] = "write" /\ file' = file
    BY <2>1 DEF SpoolHolds, CompactionHolds
  <2>2. CASE StartAppend(q)
    BY <1>2, <2>2, CopyIsComplete DEF StartAppend
  <2>3. CASE ReplaceFile(q)
    BY <2>3 DEF ReplaceFile, SpoolHolds, CompactionHolds
  <2> QED
    BY <1>2, <2>1, <2>2, <2>3, ArrivesAtWrite
<1> QED
  BY <1>1, <1>2

----
TransportHolds == Base /\ SpoolHolds

LEMMA InitHolds ==
  Init => TransportHolds /\ FileBounded
<1> SUFFICES ASSUME Init
             PROVE  TransportHolds /\ FileBounded
  OBVIOUS
<1> USE TransportAssumption DEF Init
<1>1. TransportTyped
  BY DEF TransportTyped, Phases
<1>2. FlockHolds /\ HandsHold /\ PlacesHold
  BY DEF FlockHolds, HandsHold, PlacesHold, Locked
<1>3. SpoolHolds
  BY DEF SpoolHolds, CheckpointHolds, Survives, AdvanceHolds, CompactionHolds
<1>4. FileBounded
  BY DEF FileBounded
<1> QED
  BY <1>1, <1>2, <1>3, <1>4 DEF TransportHolds, Base

LEMMA StepHolds ==
  TransportHolds /\ [Next]_vars => TransportHolds'
<1>1. ASSUME TransportHolds, Next
      PROVE  TransportHolds'
  BY <1>1, BaseStep, CheckpointStep, SurvivalStep, AdvanceStep, CompactionStep
     DEF TransportHolds, SpoolHolds
<1>2. ASSUME TransportHolds, UNCHANGED vars
      PROVE  TransportHolds'
  <2> USE <1>2 DEF vars, TransportHolds
  <2>1. LineEnds' = LineEnds
    BY DEF LineEnds
  <2>2. LineEnd' = LineEnd
    BY <2>1 DEF LineEnd, Min
  <2>3. Base'
    BY <2>1 DEF Base, TransportTyped, FlockHolds, HandsHold, PlacesHold
  <2>4. CheckpointHolds' /\ Survives(file, checkpoint)'
    BY DEF SpoolHolds, CheckpointHolds, Survives, OwnLine
  <2>5. AdvanceHolds'
    BY <2>1, <2>2 DEF SpoolHolds, AdvanceHolds, WellFormed
  <2>6. CompactionHolds'
    BY DEF SpoolHolds, CompactionHolds, Survives, OwnLine
  <2> QED
    BY <2>3, <2>4, <2>5, <2>6 DEF SpoolHolds
<1> QED
  BY <1>1, <1>2

(* No step makes the file outgrow its cap.                                  *)
LEMMA BoundStep ==
  TransportHolds /\ FileBounded /\ [Next]_vars => FileBounded'
<1> SUFFICES ASSUME TransportHolds, FileBounded, [Next]_vars
             PROVE  Len(file') <= Cap
  BY DEF FileBounded
<1>0. file \in Seq(Pieces) /\ Len(file) <= Cap /\ Cap \in Nat
  BY TransportAssumption DEF TransportHolds, Base, TransportTyped, FileBounded
<1>1. CASE UNCHANGED file
  BY <1>0, <1>1
<1>2. ASSUME NEW p \in Producers, pc[p] = "write", NEW b \in BOOLEAN, Write(p, b)
      PROVE  Len(file') <= Cap
  <2>1. Len(file) < Cap
    BY <1>2 DEF TransportHolds, SpoolHolds, CompactionHolds
  <2>2. [event |-> item[p], ended |-> b] \in Pieces
    BY <1>2, PieceTyped DEF TransportHolds, Base, HandsHold
  <2>3. Len(file') = Len(file) + 1
    BY <1>0, <1>2, <2>2, AppendProperties DEF Write
  <2> QED
    BY <1>0, <2>1, <2>3
<1>3. ASSUME NEW p \in Producers, pc[p] = "replace", file' = kept[p]
      PROVE  Len(file') <= Cap
  <2>1. Len(kept[p]) < Cap /\ kept[p] \in Seq(Pieces)
    BY <1>3 DEF TransportHolds, SpoolHolds, CompactionHolds, Base, TransportTyped
  <2> QED
    BY <1>0, <1>3, <2>1
<1>4. CASE Next
  BY <1>1, <1>2, <1>3, <1>4, StepEffect DEF Effect, TransportHolds
<1>5. CASE UNCHANGED vars
  BY <1>1, <1>5 DEF vars
<1> QED
  BY <1>4, <1>5

LEMMA TransportHoldsAlways == Spec => [](TransportHolds /\ FileBounded)
<1>1. TransportHolds /\ FileBounded /\ [Next]_vars => (TransportHolds /\ FileBounded)'
  BY StepHolds, BoundStep
<1> QED
  BY InitHolds, <1>1, PTL DEF Spec

(* An event its producer was told is spooled is never lost: it is decided   *)
(* on, glued to a line that was cut short, or still ahead of the checkpoint, *)
(* whatever replays, compactions, failed operations and crashes there were.  *)
THEOREM SpoolSurvives == Spec => []SpooledSurvives
<1>1. TransportHolds => SpooledSurvives
  BY DEF TransportHolds, SpoolHolds, Survives, OwnLine, SpooledSurvives, InSpool
<1> QED
  BY <1>1, TransportHoldsAlways, PTL

(* The spool never outgrows its cap.                                        *)
THEOREM SpoolStaysBounded == Spec => []FileBounded
BY TransportHoldsAlways, PTL

----
(* The order of a process's events.                                         *)

Waits(p, e) == \E i \in DOMAIN queue[p] : queue[p][i] = e

(* The event has come out of its process: the daemon decided on it or a     *)
(* piece of it was written, be it to a copy.                                *)
Written(e) ==
  \/ e \in processed
  \/ \E i \in DOMAIN file : file[i].event = e
  \/ \E q \in Producers : \E i \in DOMAIN kept[q] : kept[q][i].event = e

(* The pieces of each process are in the order of its events. *)
InOrder(pieces) ==
  \A i, j \in DOMAIN pieces :
    i < j /\ pieces[i].event[1] = pieces[j].event[1] => pieces[i].event[2] <= pieces[j].event[2]

(* Events are observed in order; the one in hand is older than the ones that *)
(* wait, and what was written is not newer than either.                     *)
BornInOrder ==
  \A p \in Producers : \A n \in 1 .. MaxEvents : \A m \in 1 .. n :
    fate[<<p, n>>] # "unborn" => fate[<<p, m>>] # "unborn"

HandInOrder ==
  \A p \in Producers : item[p] \in Events => item[p][1] = p /\ fate[item[p]] # "unborn"

QueueInOrder ==
  \A p \in Producers : \A i \in DOMAIN queue[p] :
    /\ queue[p][i][1] = p
    /\ fate[queue[p][i]] # "unborn"
    /\ item[p] \in Events => item[p][2] < queue[p][i][2]
    /\ \A j \in DOMAIN queue[p] : i < j => queue[p][i][2] < queue[p][j][2]

WrittenInOrder ==
  \A p \in Producers : \A n \in 1 .. MaxEvents : Written(<<p, n>>) =>
    /\ fate[<<p, n>>] # "unborn"
    /\ item[p] \in Events => n <= item[p][2]
    /\ \A i \in DOMAIN queue[p] : n < queue[p][i][2]

PiecesInOrder == InOrder(file) /\ \A p \in Producers : InOrder(kept[p])

(* An event is sent directly only when all that its process spooled is done. *)
SendHolds ==
  \A p \in Producers : pc[p] = "send" =>
    \A m \in 1 .. MaxEvents : fate[<<p, m>>] = "spooled" => <<p, m>> \in processed \union glued

OrderHolds ==
  BornInOrder /\ HandInOrder /\ QueueInOrder /\ WrittenInOrder /\ PiecesInOrder /\ SendHolds

(* A step queues an event, takes one, or does neither: then hands and queues *)
(* at most empty, and no event is born.                                     *)
Settles ==
  /\ \A q \in Producers :
       (item'[q] = item[q] \/ item'[q] = NoEvent) /\ (queue'[q] = queue[q] \/ queue'[q] = <<>>)
  /\ \A e \in Events : fate'[e] = "unborn" <=> fate[e] = "unborn"

LEMMA StepMoves ==
  ASSUME Base, HandInOrder, Next
  PROVE  \/ \E p \in Producers : \E n \in 1 .. MaxEvents : Submit(p, n)
         \/ \E p \in Producers : Take(p)
         \/ Settles
<1>0. LocalTyped /\ HandsHold
  BY DEF Base, TransportTyped, LocalTyped
<1> USE DEF Settles
<1>1. CASE DaemonDown \/ DaemonUp
  BY <1>1 DEF DaemonDown, DaemonUp, work
<1>2. ASSUME NEW p \in Producers, Worker(p) PROVE Take(p) \/ Settles
  <2>1. CASE IdleReplay(p) \/ StartReplay(p) \/ ReplaySent(p) \/ ReplayRefused(p)
             \/ ReplayUnanswered(p) \/ EndReplay(p) \/ Advance(p)
    BY <2>1 DEF IdleReplay, StartReplay, ReplaySent, ReplayRefused, ReplayUnanswered,
                EndReplay, Advance, work
  <2>2. CASE CheckPending(p) \/ SendUnanswered(p) \/ StartAppend(p) \/ ResetCheckpoint(p)
             \/ ReplaceFile(p)
    BY <2>2 DEF CheckPending, SendUnanswered, StartAppend, ResetCheckpoint, ReplaceFile, work
  <2>3. CASE SendAnswered(p) \/ RefuseAppend(p) \/ WriteLine(p)
    <3>1. item[p] \in Events /\ fate[item[p]] # "unborn"
      BY <1>0, <2>3 DEF SendAnswered, RefuseAppend, WriteLine, HandsHold, HandInOrder
    <3> QED
      BY <1>0, <2>3, <3>1 DEF SendAnswered, RefuseAppend, WriteLine, Done, LocalTyped
  <2>4. CASE SpoolError(p)
    <3>1. item[p] \in Events => fate[item[p]] # "unborn"
      BY DEF HandInOrder
    <3> QED
      BY <1>0, <2>4, <3>1 DEF SpoolError, Done, LocalTyped
  <2> QED
    BY <1>2, <2>1, <2>2, <2>3, <2>4, Zenon DEF Worker
<1>3. ASSUME NEW p \in Producers, Crash(p) PROVE Settles
  BY <1>0, <1>3 DEF Crash, LocalTyped
<1> QED
  BY <1>1, <1>2, <1>3, Zenon DEF Next

(* Only the event in hand is newly processed by its own worker; a replay    *)
(* processes the event of the next line.                                    *)
LEMMA NewlyProcessed ==
  ASSUME Base, Next, NEW e \in Events, e \in processed', e \notin processed
  PROVE  /\ UNCHANGED fate \/ \E q \in Producers : SendAnswered(q)
         /\ \E q \in Producers :
              \/ pc[q] = "send" /\ item[q] = e
              \/ pc[q] = "replay" /\ LineEnds # {} /\ WellFormed /\ file[LineEnd].event = e
<1>1. CASE DaemonDown \/ DaemonUp
  BY <1>1 DEF DaemonDown, DaemonUp
<1>2. ASSUME NEW p \in Producers, NEW n \in 1 .. MaxEvents, Submit(p, n) PROVE FALSE
  BY <1>2 DEF Submit
<1>3. ASSUME NEW p \in Producers, Worker(p)
      PROVE  /\ UNCHANGED fate \/ SendAnswered(p)
             /\ \/ pc[p] = "send" /\ item[p] = e
                \/ pc[p] = "replay" /\ LineEnds # {} /\ WellFormed /\ file[LineEnd].event = e
  <2>1. CASE Take(p) \/ IdleReplay(p) \/ StartReplay(p) \/ ReplayRefused(p) \/ EndReplay(p)
             \/ Advance(p)
    BY <2>1 DEF Take, IdleReplay, StartReplay, ReplayRefused, EndReplay, Advance
  <2>2. CASE ReplaySent(p) \/ ReplayUnanswered(p)
    BY <2>2 DEF ReplaySent, ReplayUnanswered, Unanswered, HasLine, counters
  <2>3. CASE SendAnswered(p) \/ SendUnanswered(p)
    BY <2>3 DEF SendAnswered, SendUnanswered, Unanswered
  <2>4. CASE CheckPending(p) \/ RefuseAppend(p) \/ StartAppend(p) \/ ResetCheckpoint(p)
    BY <2>4 DEF CheckPending, RefuseAppend, StartAppend, ResetCheckpoint
  <2>5. CASE ReplaceFile(p) \/ WriteLine(p) \/ SpoolError(p)
    BY <2>5 DEF ReplaceFile, WriteLine, SpoolError
  <2> QED
    BY <1>3, <2>1, <2>2, <2>3, <2>4, <2>5, Zenon DEF Worker
<1>4. ASSUME NEW p \in Producers, Crash(p) PROVE FALSE
  BY <1>4 DEF Crash
<1> QED
  BY <1>1, <1>2, <1>3, <1>4, Zenon DEF Next

(* A copy stays, goes, or is taken of the end of the file. *)
LEMMA KeptMoves ==
  ASSUME Base, Next, NEW q \in Producers
  PROVE  \/ kept'[q] = kept[q]
         \/ kept'[q] = <<>>
         \/ \E offset \in 0 .. Len(file) : kept'[q] = SubSeq(file, offset + 1, Len(file))
<1>0. LocalTyped
  BY DEF Base, TransportTyped, LocalTyped
<1>1. CASE UNCHANGED <<file, checkpoint, pc, item, kept>>
  BY <1>1
<1>2. ASSUME NEW p \in Producers, Worker(p) \/ Crash(p), p # q
      PROVE  kept'[q] = kept[q]
  BY <1>2, OthersStay
<1>3. ASSUME Worker(q) \/ Crash(q)
      PROVE  \/ kept'[q] = kept[q]
             \/ kept'[q] = <<>>
             \/ \E offset \in 0 .. Len(file) : kept'[q] = SubSeq(file, offset + 1, Len(file))
  <2>1. CASE Take(q) \/ IdleReplay(q) \/ StartReplay(q) \/ ReplaySent(q) \/ ReplayRefused(q)
             \/ ReplayUnanswered(q) \/ EndReplay(q) \/ Advance(q)
    BY <2>1 DEF Take, IdleReplay, StartReplay, ReplaySent, ReplayRefused, ReplayUnanswered,
                EndReplay, Advance, work
  <2>2. CASE CheckPending(q) \/ SendUnanswered(q) \/ SendAnswered(q) \/ RefuseAppend(q)
             \/ ResetCheckpoint(q) \/ WriteLine(q)
    BY <2>2 DEF CheckPending, SendUnanswered, SendAnswered, RefuseAppend, ResetCheckpoint,
                WriteLine, work
  <2>3. CASE ReplaceFile(q) \/ SpoolError(q) \/ Crash(q)
    BY <1>0, <2>3 DEF ReplaceFile, SpoolError, Crash, LocalTyped
  <2>4. CASE StartAppend(q)
    BY <1>0, <2>4 DEF StartAppend, Pending, LocalTyped
  <2> QED
    BY <1>3, <2>1, <2>2, <2>3, <2>4, Zenon DEF Worker
<1> QED
  BY <1>1, <1>2, <1>3, StepEffect

(* Only an event in hand is newly written.                                  *)
LEMMA NewlyWritten ==
  ASSUME Base, Next, NEW e \in Events, Written(e)'
  PROVE  Written(e) \/ \E p \in Producers : item[p] = e
<1>0. file \in Seq(Pieces) /\ checkpoint \in 0 .. Len(file) /\ LocalTyped
  BY DEF Base, TransportTyped, LocalTyped
<1>1. CASE e \in processed'
  <2>1. LineEnds # {} => LineEnd \in DOMAIN file
    BY LineEndBounds DEF Base
  <2> QED
    BY <1>1, <2>1, NewlyProcessed DEF Written
<1>2. ASSUME NEW i \in DOMAIN file', file'[i].event = e
      PROVE  Written(e) \/ \E p \in Producers : item[p] = e
  <2>1. CASE file' = file
    BY <1>2, <2>1 DEF Written
  <2>2. ASSUME NEW p \in Producers, NEW b \in BOOLEAN, pc[p] = "write", Write(p, b)
        PROVE  Written(e) \/ item[p] = e
    <3> DEFINE piece == [event |-> item[p], ended |-> b]
    <3>1. piece \in Pieces /\ file' = Append(file, piece) /\ piece.event = item[p]
      BY <2>2, PieceTyped DEF Base, HandsHold, Write
    <3> HIDE DEF piece
    <3>2. /\ DOMAIN file' = 1 .. Len(file) + 1
          /\ \A j \in DOMAIN file : file'[j] = file[j]
          /\ file'[Len(file) + 1] = piece
      BY <1>0, <3>1, AppendProperties
    <3>3. CASE i \in DOMAIN file
      BY <1>2, <3>2, <3>3 DEF Written
    <3>4. CASE i = Len(file) + 1
      BY <1>2, <3>1, <3>2, <3>4
    <3> QED
      BY <1>0, <3>2, <3>3, <3>4
  <2>3. ASSUME NEW p \in Producers, file' = kept[p]
        PROVE  Written(e)
    BY <1>2, <2>3 DEF Written
  <2> QED
    BY <2>1, <2>2, <2>3, StepEffect DEF Effect
<1>3. ASSUME NEW q \in Producers, NEW i \in DOMAIN kept'[q], kept'[q][i].event = e
      PROVE  Written(e)
  <2>1. CASE kept'[q] = kept[q]
    BY <1>3, <2>1 DEF Written
  <2>2. CASE kept'[q] = <<>>
    BY <1>3, <2>2
  <2>3. ASSUME NEW offset \in 0 .. Len(file), kept'[q] = SubSeq(file, offset + 1, Len(file))
        PROVE  Written(e)
    <3>1. i \in 1 .. Len(file) - offset /\ kept'[q][i] = file[offset + i]
      BY <1>0, <1>3, <2>3
    <3>2. offset + i \in DOMAIN file
      BY <1>0, <3>1
    <3> QED
      BY <1>3, <3>1, <3>2 DEF Written
  <2> QED
    BY <2>1, <2>2, <2>3, KeptMoves
<1> QED
  BY <1>1, <1>2, <1>3 DEF Written

----
Ordered == BornInOrder /\ HandInOrder /\ QueueInOrder /\ WrittenInOrder

LEMMA SubmitOrdered ==
  ASSUME Base, Ordered, Next,
         NEW p \in Producers, NEW n \in 1 .. MaxEvents, Submit(p, n)
  PROVE  Ordered'
<1>0. LocalTyped /\ MaxEvents \in Nat
  BY TransportAssumption DEF Base, TransportTyped, LocalTyped
<1>1. /\ UNCHANGED <<file, item, kept, processed>>
      /\ <<p, n>> \in Events
      /\ fate[<<p, n>>] = "unborn"
      /\ \A m \in 1 .. n - 1 : fate[<<p, m>>] # "unborn"
      /\ \A q \in Producers : q # p => queue'[q] = queue[q]
  BY <1>0 DEF Submit, spool, Events, LocalTyped
<1>2. /\ fate'[<<p, n>>] # "unborn"
      /\ \A e \in Events : e # <<p, n>> => fate'[e] = fate[e]
  BY <1>0, <1>1 DEF Submit, LocalTyped
<1>3. ASSUME NEW m \in 1 .. MaxEvents, fate[<<p, m>>] # "unborn"
      PROVE  m < n
  <2>1. m >= n => n \in 1 .. m
    BY <1>0
  <2> QED
    BY <1>0, <1>1, <1>3, <2>1 DEF Ordered, BornInOrder
<1>4. BornInOrder'
  <2> SUFFICES ASSUME NEW q \in Producers, NEW k \in 1 .. MaxEvents, NEW m \in 1 .. k,
                      fate'[<<q, k>>] # "unborn"
               PROVE  fate'[<<q, m>>] # "unborn"
    BY DEF BornInOrder
  <2>1. <<q, k>> \in Events /\ <<q, m>> \in Events
    BY <1>0 DEF Events
  <2>2. CASE q = p /\ k = n
    <3>1. m = n \/ m \in 1 .. n - 1
      BY <1>0, <2>2
    <3>2. m \in 1 .. n - 1 => <<p, m>> # <<p, n>> /\ fate[<<p, m>>] # "unborn"
      BY <1>0, <1>1
    <3> QED
      BY <1>2, <2>1, <2>2, <3>1, <3>2
  <2>3. CASE ~ (q = p /\ k = n)
    <3>1. fate[<<q, k>>] # "unborn"
      BY <1>2, <2>1, <2>3
    <3>2. fate[<<q, m>>] # "unborn"
      BY <3>1 DEF Ordered, BornInOrder
    <3> QED
      BY <1>2, <2>1, <3>2
  <2> QED
    BY <2>2, <2>3
<1>5. HandInOrder'
  BY <1>1, <1>2 DEF Ordered, HandInOrder
<1>6. queue'[p] = queue[p] \/ queue'[p] = Append(queue[p], <<p, n>>)
  BY <1>0 DEF Submit, LocalTyped
<1>7. QueueInOrder'
  <2> SUFFICES ASSUME NEW q \in Producers, NEW i \in DOMAIN queue'[q]
               PROVE  /\ queue'[q][i][1] = q
                      /\ fate'[queue'[q][i]] # "unborn"
                      /\ item'[q] \in Events => item'[q][2] < queue'[q][i][2]
                      /\ \A j \in DOMAIN queue'[q] : i < j => queue'[q][i][2] < queue'[q][j][2]
    BY DEF QueueInOrder
  <2>0. queue[q] \in Seq(Events)
    BY <1>0 DEF LocalTyped
  <2>1. ASSUME NEW j \in DOMAIN queue[q]
        PROVE  /\ queue[q][j] \in Events /\ queue[q][j][1] = q
               /\ fate'[queue[q][j]] # "unborn"
               /\ item'[q] \in Events => item'[q][2] < queue[q][j][2]
               /\ \A k \in DOMAIN queue[q] : j < k => queue[q][j][2] < queue[q][k][2]
    <3>1. queue[q][j] \in Events
      BY <2>0
    <3> QED
      BY <1>1, <1>2, <3>1 DEF Ordered, QueueInOrder
  <2>2. CASE queue'[q] = queue[q]
    BY <2>1, <2>2
  <2>3. CASE q = p /\ queue'[p] = Append(queue[p], <<p, n>>)
    <3>1. /\ DOMAIN queue'[p] = 1 .. Len(queue[p]) + 1
          /\ DOMAIN queue[p] = 1 .. Len(queue[p])
          /\ Len(queue[p]) \in Nat
          /\ \A j \in DOMAIN queue[p] : queue'[p][j] = queue[p][j]
          /\ queue'[p][Len(queue[p]) + 1] = <<p, n>>
      BY <1>1, <2>0, <2>3, AppendProperties
    <3>2. \A j \in DOMAIN queue[p] : queue[p][j][2] < n
      <4> SUFFICES ASSUME NEW j \in DOMAIN queue[p]
                   PROVE  queue[p][j][2] < n
        OBVIOUS
      <4>1. queue[p][j] \in Events /\ queue[p][j][1] = p /\ fate[queue[p][j]] # "unborn"
        BY <2>1, <2>3 DEF Ordered, QueueInOrder
      <4>2. queue[p][j] = <<p, queue[p][j][2]>> /\ queue[p][j][2] \in 1 .. MaxEvents
        BY <4>1 DEF Events
      <4> QED
        BY <1>3, <4>1, <4>2
    <3>3. CASE i \in DOMAIN queue[p]
      BY <2>1, <2>3, <3>1, <3>2, <3>3
    <3>4. CASE i = Len(queue[p]) + 1
      <4>1. queue'[p][i] = <<p, n>>
        BY <3>1, <3>4
      <4>2. item[p] \in Events => item[p][2] < n
        <5>1. ASSUME item[p] \in Events
              PROVE  item[p] = <<p, item[p][2]>> /\ item[p][2] \in 1 .. MaxEvents
                     /\ fate[item[p]] # "unborn"
          BY <5>1 DEF Ordered, HandInOrder, Events
        <5> QED
          BY <1>3, <5>1
      <4>3. \A j \in DOMAIN queue'[p] : ~ (i < j)
        BY <3>1, <3>4
      <4> QED
        BY <1>1, <1>2, <2>3, <4>1, <4>2, <4>3
    <3> QED
      BY <2>3, <3>1, <3>3, <3>4
  <2> QED
    BY <1>1, <1>6, <2>2, <2>3
<1>8. WrittenInOrder'
  <2> SUFFICES ASSUME NEW q \in Producers, NEW k \in 1 .. MaxEvents, Written(<<q, k>>)'
               PROVE  /\ fate'[<<q, k>>] # "unborn"
                      /\ item'[q] \in Events => k <= item'[q][2]
                      /\ \A i \in DOMAIN queue'[q] : k < queue'[q][i][2]
    BY DEF WrittenInOrder
  <2>1. Written(<<q, k>>)
    BY <1>1 DEF Written
  <2>2. /\ fate[<<q, k>>] # "unborn"
        /\ item[q] \in Events => k <= item[q][2]
        /\ \A i \in DOMAIN queue[q] : k < queue[q][i][2]
    BY <2>1 DEF Ordered, WrittenInOrder
  <2>3. fate'[<<q, k>>] # "unborn"
    BY <1>2, <2>2 DEF Events
  <2>4. CASE queue'[q] = queue[q]
    BY <1>1, <2>2, <2>3, <2>4
  <2>5. CASE q = p /\ queue'[p] = Append(queue[p], <<p, n>>)
    <3>1. /\ DOMAIN queue'[p] = 1 .. Len(queue[p]) + 1
          /\ DOMAIN queue[p] = 1 .. Len(queue[p])
          /\ \A j \in DOMAIN queue[p] : queue'[p][j] = queue[p][j]
          /\ queue'[p][Len(queue[p]) + 1] = <<p, n>>
      BY <1>0, <1>1, <2>5, AppendProperties DEF LocalTyped
    <3>2. k < n
      BY <1>3, <2>2, <2>5
    <3> QED
      BY <1>0, <1>1, <2>2, <2>3, <2>5, <3>1, <3>2
  <2> QED
    BY <1>1, <1>6, <2>4, <2>5
<1> QED
  BY <1>4, <1>5, <1>7, <1>8 DEF Ordered

LEMMA TakeOrdered ==
  ASSUME Base, Ordered, Next, NEW p \in Producers, Take(p)
  PROVE  Ordered'
<1>0. LocalTyped /\ queue[p] \in Seq(Events) /\ queue[p] # <<>>
  BY DEF Base, TransportTyped, LocalTyped, Take
<1>1. /\ UNCHANGED <<file, kept, processed, fate>>
      /\ item'[p] = queue[p][1]
      /\ queue'[p] = Tail(queue[p])
      /\ \A q \in Producers : q # p => queue'[q] = queue[q] /\ item'[q] = item[q]
  BY <1>0 DEF Take, spool, LocalTyped
<1>2. /\ 1 \in DOMAIN queue[p]
      /\ DOMAIN queue'[p] = 1 .. Len(queue[p]) - 1
      /\ DOMAIN queue[p] = 1 .. Len(queue[p]) /\ Len(queue[p]) \in Nat
      /\ \A i \in DOMAIN queue'[p] : i + 1 \in DOMAIN queue[p] /\ queue'[p][i] = queue[p][i + 1]
  BY <1>0, <1>1
<1>3. BornInOrder'
  BY <1>1 DEF Ordered, BornInOrder
<1>4. HandInOrder'
  <2>1. queue[p][1][1] = p /\ fate[queue[p][1]] # "unborn"
    BY <1>2 DEF Ordered, QueueInOrder
  <2> QED
    BY <1>1, <2>1 DEF Ordered, HandInOrder
<1>5. QueueInOrder'
  <2>1. ASSUME NEW i \in DOMAIN queue'[p]
        PROVE  /\ queue'[p][i][1] = p
               /\ fate[queue'[p][i]] # "unborn"
               /\ item'[p][2] < queue'[p][i][2]
               /\ \A j \in DOMAIN queue'[p] : i < j => queue'[p][i][2] < queue'[p][j][2]
    <3>1. /\ i + 1 \in DOMAIN queue[p] /\ queue'[p][i] = queue[p][i + 1] /\ 1 < i + 1
      BY <1>2
    <3>2. queue[p][i + 1][1] = p /\ fate[queue[p][i + 1]] # "unborn"
      BY <3>1 DEF Ordered, QueueInOrder
    <3>3. queue[p][1][2] < queue[p][i + 1][2]
      BY <1>2, <3>1 DEF Ordered, QueueInOrder
    <3>4. ASSUME NEW j \in DOMAIN queue'[p], i < j
          PROVE  queue[p][i + 1][2] < queue[p][j + 1][2]
      <4>1. j + 1 \in DOMAIN queue[p] /\ i + 1 < j + 1
        BY <1>2, <3>4
      <4> QED
        BY <3>1, <4>1 DEF Ordered, QueueInOrder
    <3> QED
      BY <1>1, <1>2, <3>1, <3>2, <3>3, <3>4
  <2>2. ASSUME NEW q \in Producers, q # p, NEW i \in DOMAIN queue'[q]
        PROVE  /\ queue'[q][i][1] = q
               /\ fate'[queue'[q][i]] # "unborn"
               /\ item'[q] \in Events => item'[q][2] < queue'[q][i][2]
               /\ \A j \in DOMAIN queue'[q] : i < j => queue'[q][i][2] < queue'[q][j][2]
    BY <1>1, <2>2 DEF Ordered, QueueInOrder
  <2>3. fate' = fate
    BY <1>1
  <2> QED
    BY <2>1, <2>2, <2>3 DEF QueueInOrder
<1>6. WrittenInOrder'
  <2> SUFFICES ASSUME NEW q \in Producers, NEW k \in 1 .. MaxEvents, Written(<<q, k>>)'
               PROVE  /\ fate'[<<q, k>>] # "unborn"
                      /\ item'[q] \in Events => k <= item'[q][2]
                      /\ \A i \in DOMAIN queue'[q] : k < queue'[q][i][2]
    BY DEF WrittenInOrder
  <2>1. Written(<<q, k>>)
    BY <1>1 DEF Written
  <2>2. /\ fate[<<q, k>>] # "unborn"
        /\ item[q] \in Events => k <= item[q][2]
        /\ \A i \in DOMAIN queue[q] : k < queue[q][i][2]
    BY <2>1 DEF Ordered, WrittenInOrder
  <2>3. CASE q = p
    <3>1. k <= item'[q][2]
      <4>1. k < queue[p][1][2] /\ queue[p][1] \in Events
        BY <1>0, <1>2, <2>2, <2>3
      <4>2. queue[p][1][2] \in 1 .. MaxEvents
        BY <4>1 DEF Events
      <4> QED
        BY <1>1, <2>3, <4>1, <4>2
    <3> QED
      BY <1>1, <1>2, <2>2, <2>3, <3>1
  <2>4. CASE q # p
    BY <1>1, <2>2, <2>4
  <2> QED
    BY <2>3, <2>4
<1> QED
  BY <1>3, <1>4, <1>5, <1>6 DEF Ordered

LEMMA SettleOrdered ==
  ASSUME Base, Ordered, Next, Settles
  PROVE  Ordered'
<1>0. LocalTyped /\ NoEvent \notin Events
  BY TransportAssumption DEF Base, TransportTyped, LocalTyped, Events
<1>1. BornInOrder'
  <2> SUFFICES ASSUME NEW q \in Producers, NEW k \in 1 .. MaxEvents, NEW m \in 1 .. k,
                      fate'[<<q, k>>] # "unborn"
               PROVE  fate'[<<q, m>>] # "unborn"
    BY DEF BornInOrder
  <2>1. <<q, k>> \in Events /\ <<q, m>> \in Events
    BY TransportAssumption DEF Events
  <2>2. fate[<<q, k>>] # "unborn"
    BY <2>1 DEF Settles
  <2>3. fate[<<q, m>>] # "unborn"
    BY <2>2 DEF Ordered, BornInOrder
  <2> QED
    BY <2>1, <2>3 DEF Settles
<1>2. HandInOrder'
  BY <1>0 DEF Settles, Ordered, HandInOrder
<1>3. QueueInOrder'
  <2>1. ASSUME NEW q \in Producers, queue'[q] = queue[q], NEW i \in DOMAIN queue[q]
        PROVE  /\ queue[q][i][1] = q
               /\ fate'[queue[q][i]] # "unborn"
               /\ item'[q] \in Events => item'[q][2] < queue[q][i][2]
               /\ \A j \in DOMAIN queue[q] : i < j => queue[q][i][2] < queue[q][j][2]
    <3>1. queue[q][i] \in Events
      BY <1>0, <2>1 DEF LocalTyped
    <3>2. fate'[queue[q][i]] # "unborn"
      BY <3>1 DEF Settles, Ordered, QueueInOrder
    <3>3. item'[q] \in Events => item'[q] = item[q]
      BY <1>0 DEF Settles
    <3> QED
      BY <3>2, <3>3 DEF Ordered, QueueInOrder
  <2>2. ASSUME NEW q \in Producers, NEW i \in DOMAIN queue'[q]
        PROVE  queue'[q] = queue[q]
    BY <2>2 DEF Settles
  <2> QED
    BY <2>1, <2>2 DEF QueueInOrder
<1>4. WrittenInOrder'
  <2> SUFFICES ASSUME NEW q \in Producers, NEW k \in 1 .. MaxEvents, Written(<<q, k>>)'
               PROVE  /\ fate'[<<q, k>>] # "unborn"
                      /\ item'[q] \in Events => k <= item'[q][2]
                      /\ \A i \in DOMAIN queue'[q] : k < queue'[q][i][2]
    BY DEF WrittenInOrder
  <2>0. <<q, k>> \in Events
    BY DEF Events
  <2>1. /\ fate[<<q, k>>] # "unborn"
        /\ item[q] \in Events => k <= item[q][2]
        /\ \A i \in DOMAIN queue[q] : k < queue[q][i][2]
    <3>1. CASE Written(<<q, k>>)
      BY <3>1 DEF Ordered, WrittenInOrder
    <3>2. ASSUME NEW p \in Producers, item[p] = <<q, k>>
          PROVE  /\ fate[<<q, k>>] # "unborn"
                 /\ item[q] \in Events => k <= item[q][2]
                 /\ \A i \in DOMAIN queue[q] : k < queue[q][i][2]
      <4>1. p = q /\ fate[<<q, k>>] # "unborn"
        BY <2>0, <3>2 DEF Ordered, HandInOrder
      <4>2. item[q][2] = k /\ item[q] \in Events
        BY <2>0, <3>2, <4>1
      <4> QED
        BY <4>1, <4>2 DEF Ordered, QueueInOrder
    <3> QED
      BY <2>0, <3>1, <3>2, NewlyWritten
  <2>2. fate'[<<q, k>>] # "unborn"
    BY <2>0, <2>1 DEF Settles
  <2>3. item'[q] \in Events => item'[q] = item[q]
    BY <1>0 DEF Settles
  <2>4. ASSUME NEW i \in DOMAIN queue'[q]
        PROVE  queue'[q] = queue[q]
    BY <2>4 DEF Settles
  <2> QED
    BY <2>1, <2>2, <2>3, <2>4
<1> QED
  BY <1>1, <1>2, <1>3, <1>4 DEF Ordered

(* The pieces stay in order: what is appended is in hand.                   *)
LEMMA PiecesStep ==
  ASSUME Base, Ordered, PiecesInOrder, Next
  PROVE  PiecesInOrder'
<1>0. file \in Seq(Pieces) /\ LocalTyped
  BY DEF Base, TransportTyped, LocalTyped
<1>1. InOrder(file')
  <2>1. CASE file' = file
    BY <2>1 DEF PiecesInOrder
  <2>2. ASSUME NEW p \in Producers, NEW b \in BOOLEAN, pc[p] = "write", Write(p, b)
        PROVE  InOrder(file')
    <3> DEFINE piece == [event |-> item[p], ended |-> b]
    <3>1. piece \in Pieces /\ file' = Append(file, piece) /\ piece.event = item[p] /\ item[p] \in Events
      BY <2>2, PieceTyped DEF Base, HandsHold, Write
    <3> HIDE DEF piece
    <3>2. /\ DOMAIN file' = 1 .. Len(file) + 1
          /\ DOMAIN file = 1 .. Len(file) /\ Len(file) \in Nat
          /\ \A j \in DOMAIN file : file'[j] = file[j]
          /\ file'[Len(file) + 1] = piece
      BY <1>0, <3>1, AppendProperties
    <3>3. ASSUME NEW i \in DOMAIN file, file[i].event[1] = item[p][1]
          PROVE  file[i].event[2] <= item[p][2]
      <4>1. item[p][1] = p
        BY <3>1 DEF Ordered, HandInOrder
      <4>2. file[i].event \in Events
        <5>1. file[i] \in Pieces
          BY <1>0, <3>2
        <5> QED
          BY <5>1 DEF Pieces
      <4>3. file[i].event = <<p, file[i].event[2]>> /\ file[i].event[2] \in 1 .. MaxEvents
        BY <3>3, <4>1, <4>2 DEF Events
      <4>4. Written(<<p, file[i].event[2]>>)
        BY <4>3 DEF Written
      <4> QED
        BY <3>1, <4>3, <4>4 DEF Ordered, WrittenInOrder
    <3> SUFFICES ASSUME NEW i \in DOMAIN file', NEW j \in DOMAIN file', i < j,
                        file'[i].event[1] = file'[j].event[1]
                 PROVE  file'[i].event[2] <= file'[j].event[2]
      BY DEF InOrder
    <3>4. i \in DOMAIN file
      BY <3>2
    <3>5. CASE j \in DOMAIN file
      BY <3>2, <3>4, <3>5 DEF PiecesInOrder, InOrder
    <3>6. CASE j = Len(file) + 1
      BY <3>1, <3>2, <3>3, <3>4, <3>6
    <3> QED
      BY <3>2, <3>5, <3>6
  <2>3. ASSUME NEW p \in Producers, file' = kept[p]
        PROVE  InOrder(file')
    BY <2>3 DEF PiecesInOrder
  <2> QED
    BY <2>1, <2>2, <2>3, StepEffect DEF Effect
<1>2. ASSUME NEW q \in Producers
      PROVE  InOrder(kept'[q])
  <2>1. CASE kept'[q] = kept[q]
    BY <2>1 DEF PiecesInOrder
  <2>2. CASE kept'[q] = <<>>
    BY <2>2 DEF InOrder
  <2>3. ASSUME NEW offset \in 0 .. Len(file), kept'[q] = SubSeq(file, offset + 1, Len(file))
        PROVE  InOrder(kept'[q])
    <3>1. /\ DOMAIN kept'[q] = 1 .. Len(file) - offset
          /\ \A i \in 1 .. Len(file) - offset : kept'[q][i] = file[offset + i]
          /\ DOMAIN file = 1 .. Len(file) /\ Len(file) \in Nat
      BY <1>0, <2>3
    <3> SUFFICES ASSUME NEW i \in DOMAIN kept'[q], NEW j \in DOMAIN kept'[q], i < j,
                        kept'[q][i].event[1] = kept'[q][j].event[1]
                 PROVE  kept'[q][i].event[2] <= kept'[q][j].event[2]
      BY DEF InOrder
    <3>2. /\ offset + i \in DOMAIN file /\ offset + j \in DOMAIN file
          /\ offset + i < offset + j
          /\ kept'[q][i] = file[offset + i] /\ kept'[q][j] = file[offset + j]
      BY <3>1, SMTT(20)
    <3> QED
      BY <3>2 DEF PiecesInOrder, InOrder
  <2> QED
    BY <2>1, <2>2, <2>3, KeptMoves
<1> QED
  BY <1>1, <1>2 DEF PiecesInOrder, InOrder

(* How a process comes to send directly: it found no line pending.          *)
LEMMA ArrivesAtSend ==
  ASSUME Base, Next, NEW q \in Producers, pc'[q] = "send"
  PROVE  pc[q] = "send" \/ (~ HasPending /\ UNCHANGED <<fate, processed, glued>>)
<1>0. LocalTyped
  BY DEF Base, TransportTyped, LocalTyped
<1>1. CASE UNCHANGED <<file, checkpoint, pc, item, kept>>
  BY <1>1
<1>2. ASSUME NEW p \in Producers, Worker(p) \/ Crash(p), p # q
      PROVE  pc[q] = "send"
  BY <1>2, OthersStay
<1>3. ASSUME Worker(q) \/ Crash(q)
      PROVE  ~ HasPending /\ UNCHANGED <<fate, processed, glued>>
  <2>1. CASE Take(q) \/ IdleReplay(q) \/ StartReplay(q)
    BY <1>0, <2>1 DEF Take, IdleReplay, StartReplay, work, Goto, LocalTyped
  <2>2. CASE ReplaySent(q) \/ ReplayRefused(q) \/ ReplayUnanswered(q) \/ EndReplay(q)
    BY <1>0, <2>2 DEF ReplaySent, ReplayRefused, ReplayUnanswered, EndReplay, LeaveReplay, Goto, LocalTyped
  <2>3. CASE Advance(q) \/ ResetCheckpoint(q) \/ ReplaceFile(q) \/ StartAppend(q)
    BY <1>0, <2>3 DEF Advance, ResetCheckpoint, ReplaceFile, StartAppend, Goto, LocalTyped
  <2>4. CASE CheckPending(q)
    BY <1>0, <2>4 DEF CheckPending, Goto, LocalTyped
  <2>5. CASE SendUnanswered(q) \/ SendAnswered(q) \/ RefuseAppend(q)
    BY <1>0, <2>5 DEF SendUnanswered, SendAnswered, RefuseAppend, Done, Goto, LocalTyped
  <2>6. CASE WriteLine(q) \/ SpoolError(q) \/ Crash(q)
    BY <1>0, <2>6 DEF WriteLine, SpoolError, Crash, Done, Goto, LocalTyped
  <2> QED
    BY <1>3, <2>1, <2>2, <2>3, <2>4, <2>5, <2>6, Zenon DEF Worker
<1> QED
  BY <1>1, <1>2, <1>3, StepEffect

LEMMA SendStep ==
  ASSUME Base, SpoolHolds, HandInOrder, SendHolds, Next
  PROVE  SendHolds'
<1> SUFFICES ASSUME NEW q \in Producers, pc'[q] = "send",
                    NEW m \in 1 .. MaxEvents, fate'[<<q, m>>] = "spooled"
             PROVE  <<q, m>> \in processed' \union glued'
  BY DEF SendHolds
<1>0. LocalTyped /\ <<q, m>> \in Events
  BY DEF Base, TransportTyped, LocalTyped, Events
<1>1. CASE ~ HasPending /\ UNCHANGED <<fate, processed, glued>>
  <2>1. ~ OwnLine(file, checkpoint, <<q, m>>)
    BY <1>1 DEF OwnLine, HasPending, Base, TransportTyped
  <2> QED
    BY <1>0, <1>1, <2>1 DEF SpoolHolds, Survives
<1>2. CASE pc[q] = "send"
  <2>1. ASSUME NEW p \in Producers, WriteLine(p), item[p] = <<q, m>>
        PROVE  FALSE
    <3>1. p = q
      BY <1>0, <2>1 DEF HandInOrder
    <3> QED
      BY <1>2, <2>1, <3>1 DEF WriteLine
  <2>2. fate[<<q, m>>] = "spooled"
    BY <1>0, <2>1, NewlySpooled
  <2> QED
    BY <1>2, <2>2, DecidedGrows DEF SendHolds
<1> QED
  BY <1>1, <1>2, ArrivesAtSend

(* Whatever makes the daemon decide on an event, or an event spooled, leaves *)
(* the process's events in order.                                           *)
LEMMA DeliveredStep ==
  ASSUME TransportHolds, OrderHolds, DeliveredInOrder, Next
  PROVE  DeliveredInOrder'
<1> SUFFICES ASSUME NEW p \in Producers, NEW n \in 1 .. MaxEvents, NEW m \in 1 .. n - 1,
                    fate'[<<p, m>>] = "spooled", <<p, m>> \notin glued', <<p, n>> \in processed'
             PROVE  <<p, m>> \in processed'
  BY DEF DeliveredInOrder
<1>0. /\ Base /\ SpoolHolds
      /\ MaxEvents \in Nat /\ m \in 1 .. MaxEvents /\ m < n /\ n \in Nat
      /\ <<p, m>> \in Events /\ <<p, n>> \in Events
  BY TransportAssumption DEF TransportHolds, Events
<1>1. <<p, m>> \notin glued
  BY DecidedGrows
<1>2. CASE fate[<<p, m>>] = "spooled" /\ <<p, n>> \in processed
  BY <1>1, <1>2, DecidedGrows DEF DeliveredInOrder
<1>3. CASE fate[<<p, m>>] = "spooled" /\ <<p, n>> \notin processed
  <2>1. ASSUME NEW q \in Producers, pc[q] = "send", item[q] = <<p, n>>
        PROVE  <<p, m>> \in processed
    <3>1. q = p
      BY <1>0, <2>1 DEF OrderHolds, HandInOrder
    <3> QED
      BY <1>0, <1>1, <1>3, <2>1, <3>1 DEF OrderHolds, SendHolds
  <2>2. ASSUME LineEnds # {}, WellFormed, file[LineEnd].event = <<p, n>>
        PROVE  <<p, m>> \in processed
    <3>1. SUFFICES ASSUME OwnLine(file, checkpoint, <<p, m>>)
                   PROVE  FALSE
      BY <1>0, <1>1, <1>3 DEF SpoolHolds, Survives
    <3>2. PICK i \in DOMAIN file : i > checkpoint /\ file[i].event = <<p, m>>
      BY <3>1 DEF OwnLine
    <3>3. /\ LineEnd \in DOMAIN file /\ LineEnd = checkpoint + 1
          /\ checkpoint \in Nat /\ i \in Nat
      BY <1>0, <2>2, LineEndBounds DEF WellFormed, Base, TransportTyped
    <3>4. CASE i = LineEnd
      BY <1>0, <2>2, <3>2, <3>4
    <3>5. CASE LineEnd < i
      <4>1. file[LineEnd].event[1] = file[i].event[1]
        BY <2>2, <3>2
      <4>2. file[LineEnd].event[2] <= file[i].event[2]
        BY <3>3, <3>5, <4>1 DEF OrderHolds, PiecesInOrder, InOrder
      <4> QED
        BY <1>0, <2>2, <3>2, <4>2
    <3> QED
      BY <3>2, <3>3, <3>4, <3>5
  <2> QED
    BY <1>0, <1>3, <2>1, <2>2, NewlyProcessed, DecidedGrows
<1>4. CASE fate[<<p, m>>] # "spooled"
  <2>1. PICK q \in Producers : WriteLine(q) /\ item[q] = <<p, m>>
    BY <1>0, <1>4, NewlySpooled
  <2>2. q = p
    BY <1>0, <2>1 DEF OrderHolds, HandInOrder
  <2>3. Written(<<p, n>>)
    BY <2>1 DEF WriteLine, Written
  <2>4. n <= item[p][2]
    BY <1>0, <2>1, <2>2, <2>3 DEF OrderHolds, WrittenInOrder
  <2> QED
    BY <1>0, <2>1, <2>2, <2>4
<1> QED
  BY <1>2, <1>3, <1>4

LEMMA OrderInit ==
  Init => OrderHolds /\ DeliveredInOrder
<1> SUFFICES ASSUME Init
             PROVE  OrderHolds /\ DeliveredInOrder
  OBVIOUS
<1>0. NoEvent \notin Events
  BY TransportAssumption DEF Events
<1> USE DEF Init
<1>1. BornInOrder
  <2> SUFFICES ASSUME NEW p \in Producers, NEW n \in 1 .. MaxEvents
               PROVE  fate[<<p, n>>] = "unborn"
    BY DEF BornInOrder
  <2> QED
    BY DEF Events
<1>2. HandInOrder /\ QueueInOrder
  BY <1>0 DEF HandInOrder, QueueInOrder
<1>3. WrittenInOrder
  BY DEF WrittenInOrder, Written
<1>4. PiecesInOrder /\ SendHolds /\ DeliveredInOrder
  BY DEF PiecesInOrder, InOrder, SendHolds, DeliveredInOrder
<1> QED
  BY <1>1, <1>2, <1>3, <1>4 DEF OrderHolds

LEMMA OrderStep ==
  TransportHolds /\ OrderHolds /\ DeliveredInOrder /\ [Next]_vars
    => OrderHolds' /\ DeliveredInOrder'
<1>1. ASSUME TransportHolds, OrderHolds, DeliveredInOrder, Next
      PROVE  OrderHolds' /\ DeliveredInOrder'
  <2>1. Base /\ SpoolHolds /\ Ordered /\ HandInOrder /\ PiecesInOrder /\ SendHolds
    BY <1>1 DEF TransportHolds, OrderHolds, Ordered
  <2>2. Ordered'
    BY <1>1, <2>1, StepMoves, SubmitOrdered, TakeOrdered, SettleOrdered
  <2> QED
    BY <1>1, <2>1, <2>2, PiecesStep, SendStep, DeliveredStep DEF OrderHolds, Ordered
<1>2. ASSUME OrderHolds, DeliveredInOrder, UNCHANGED vars
      PROVE  OrderHolds' /\ DeliveredInOrder'
  BY <1>2 DEF vars, OrderHolds, BornInOrder, HandInOrder, QueueInOrder, WrittenInOrder, Written,
              PiecesInOrder, InOrder, SendHolds, DeliveredInOrder
<1> QED
  BY <1>1, <1>2

(* The daemon never decides on an event of a process while an earlier event  *)
(* of that process waits in the spool.                                      *)
THEOREM DeliveryKeepsOrder == Spec => []DeliveredInOrder
<1>1. TransportHolds /\ OrderHolds /\ DeliveredInOrder /\ [Next]_vars
        => (TransportHolds /\ OrderHolds /\ DeliveredInOrder)'
  BY StepHolds, OrderStep
<1>2. Init => TransportHolds /\ OrderHolds /\ DeliveredInOrder
  BY InitHolds, OrderInit
<1> QED
  BY <1>1, <1>2, PTL DEF Spec

====
