--------------------------- MODULE AuditLogProofs ---------------------------
(***************************************************************************)
(* Proofs about what is put on the record: AuditLog, for any number of     *)
(* handles, records and batches; the transport events of Server, for any   *)
(* number of peers and any bounds of its queue, backlog and windows; and   *)
(* Secrets, for any documents, values and outputs: what is recorded of a   *)
(* secret, what a run uses of it, and what is left of it in what is        *)
(* returned.                                                               *)
(***************************************************************************)
EXTENDS AuditLog, Server, Secrets, FiniteSetTheorems, SequenceTheorems, TLAPS

\* The settings in which the log is sound: the server's one handle, whatever fails and
\* whenever; or several, of which none waits for the writer while another's write fails.
\* Outside them the run audit_poisoned_writer shows a log that is not.
NoWaiterAtFault == IoFaults = "ALONE" \/ \A g, h \in Handles : g = h

-----------------------------------------------------------------------------
(* The inductive invariant *)

\* Memory is a process's: what is down has none, and what recovers has opened no handle.
MemoryIsTheProcess == proc # "UP" => durable = 0 /\ poisoned = "NO" /\ mutex = None /\ op = NoOps

\* recover has written exactly what it counts, and synced it once it counts one more.
RecoveryIsInStep ==
    proc = "RECOVERING" =>
        \/ recovering <= 2 * head /\ Len(log) = recovering
        \/ recovering = 2 * head + 1 /\ Len(log) = 2 * head /\ synced = 2 * head

Owns(h) == op[h].pc \in {"writing", "marking"}

\* The writer is held exactly by the handle that writes, syncs or marks.
WriterIsHeld == \A h \in Handles : Owns(h) <=> mutex = h

\* What a handle has committed is committed, and what it writes is the rest of the chain.
HandleIsInStep(h) ==
    /\ op[h].target <= head
    /\ op[h].pc = "writing" =>
         /\ Len(log) = op[h].at /\ op[h].at <= op[h].upto
         /\ op[h].upto % 2 = 0 /\ op[h].upto <= 2 * head /\ 2 * op[h].target <= op[h].upto
    /\ op[h].pc = "marking" =>
         /\ Len(log) = op[h].upto /\ op[h].upto = 2 * durable /\ op[h].target <= durable
HandlesAreInStep == \A h \in Handles : HandleIsInStep(h)

Waits == \E h \in Handles : op[h].pc = "waiting"

\* Nobody who can still take the writer finds a file its place in the chain does not end at:
\* a failed write leaves such a file, but it poisons, and nobody waits beside it.
PlaceIsTheEnd ==
    proc = "UP" /\ mutex = None /\ (poisoned = "NO" \/ Waits) => Len(log) = 2 * durable

\* The writer's place and every answer are on disk.
DiskCovers == 2 * durable <= synced /\ 2 * answered <= synced

IInv ==
    /\ StoreIsSound
    /\ MemoryIsTheProcess /\ RecoveryIsInStep
    /\ WriterIsHeld /\ HandlesAreInStep /\ PlaceIsTheEnd /\ DiskCovers
-----------------------------------------------------------------------------
(* The file *)

LEMMA AppendIsSound ==
  ASSUME NEW f \in Seq(Nat), Sound(f)
  PROVE  /\ Append(f, Len(f) + 1) \in Seq(Nat)
         /\ Len(Append(f, Len(f) + 1)) = Len(f) + 1
         /\ Sound(Append(f, Len(f) + 1))
  BY DEF Sound

LEMMA CutIsSound ==
  ASSUME NEW f \in Seq(Nat), Sound(f), NEW n \in 0..Len(f)
  PROVE  /\ Cut(f, n) \in Seq(Nat)
         /\ Len(Cut(f, n)) = n
         /\ Sound(Cut(f, n))
  BY SubSeqProperties DEF Sound, Cut

LEMMA LinesOfFile ==
  ASSUME NEW f \in Seq(Nat)
  PROVE  /\ Lines(f) \in Nat
         /\ 2 * Lines(f) = Len(f) \/ 2 * Lines(f) + 1 = Len(f)
         /\ Len(f) % 2 = 0 <=> 2 * Lines(f) = Len(f)
         /\ Len(f) % 2 = 1 <=> 2 * Lines(f) + 1 = Len(f)
  BY DEF Lines

-----------------------------------------------------------------------------
(* Every action preserves the invariant *)

LEMMA InitInv == Init => IInv
  BY AuditConstants
     DEF AuditConstants, Init, IInv, StoreIsSound, TypeOK, LogIsChainPrefix, MarkIsLowerBound,
         NeverQuarantined, MemoryIsTheProcess, RecoveryIsInStep, WriterIsHeld, HandlesAreInStep,
         HandleIsInStep, PlaceIsTheEnd, DiskCovers, Owns, Waits, NoOps, Idle, Op, OpType, Sound

LEMMA CreateStoreInv == ASSUME IInv, CreateStore PROVE IInv'
  BY AuditConstants
     DEF AuditConstants, CreateStore, fileVars, dbVars, memoryVars, IInv,
         StoreIsSound, TypeOK, LogIsChainPrefix, MarkIsLowerBound, NeverQuarantined,
         MemoryIsTheProcess, RecoveryIsInStep, WriterIsHeld, HandlesAreInStep, HandleIsInStep,
         PlaceIsTheEnd, DiskCovers, Owns, Waits, NoOps, Idle, Op, OpType

LEMMA RecoverInv == ASSUME IInv, Recover PROVE IInv'
  <1>. USE DEF IInv, StoreIsSound
  <1>. DEFINE n == 2 * Lines(log)
  <1>0. /\ Lines(log) \in Nat /\ Len(log) \in Nat
        /\ Len(log) % 2 = 0 <=> n = Len(log)
        /\ Len(log) % 2 = 1 <=> n + 1 = Len(log)
        /\ n = Len(log) \/ n + 1 = Len(log)
    BY LinesOfFile DEF TypeOK
  <1>1. Explained
    BY <1>0 DEF TypeOK, LogIsChainPrefix, MarkIsLowerBound, Explained
  <1>2. /\ proc = "DOWN" /\ proc' = "RECOVERING" /\ quarantine' = quarantine
        /\ log' = Cut(log, n) /\ recovering' = n
        /\ synced' = IF Len(log) % 2 = 1 THEN n ELSE synced
        /\ UNCHANGED <<dbVars, durable, poisoned, mutex, op, answered>>
    BY <1>1 DEF Recover, Repaired
  <1>3. n \in 0..Len(log)
    BY <1>0
  <1>4. log' \in Seq(Nat) /\ Len(log') = n /\ Sound(log')
    BY <1>2, <1>3, CutIsSound DEF TypeOK, LogIsChainPrefix
  <1>5. synced' \in 0..n /\ (\A k \in Nat : 2 * k <= synced => 2 * k <= synced')
    <2>1. CASE n = Len(log)
      BY <1>0, <1>2, <2>1 DEF TypeOK
    <2>2. CASE n + 1 = Len(log)
      <3>1. synced' = n /\ synced \in 0..(n + 1)
        BY <1>0, <1>2, <2>2 DEF TypeOK
      <3>2. ASSUME NEW k \in Nat, 2 * k <= synced PROVE 2 * k <= n
        BY <1>0, <3>1, <3>2
      <3>. QED BY <1>0, <3>1, <3>2
    <2>. QED BY <1>0, <2>1, <2>2
  <1>. HIDE DEF n
  <1>6. TypeOK'
    BY <1>2, <1>3, <1>4, <1>5, AuditConstants DEF TypeOK, LogIsChainPrefix, AuditConstants, dbVars
  <1>7. LogIsChainPrefix'
    BY <1>2, <1>3, <1>4 DEF TypeOK, LogIsChainPrefix, dbVars
  <1>8. MarkIsLowerBound' /\ NeverQuarantined' /\ DiskCovers'
    <2>1. flushed \in Nat /\ durable \in Nat /\ answered \in Nat
      BY AuditConstants DEF TypeOK, AuditConstants
    <2>. QED BY <1>2, <1>5, <2>1 DEF MarkIsLowerBound, NeverQuarantined, DiskCovers, dbVars
  <1>9. MemoryIsTheProcess' /\ RecoveryIsInStep'
    BY <1>2, <1>3, <1>4 DEF TypeOK, LogIsChainPrefix, MemoryIsTheProcess, RecoveryIsInStep, dbVars
  <1>10. WriterIsHeld' /\ HandlesAreInStep' /\ PlaceIsTheEnd'
    BY <1>2, AuditConstants
       DEF AuditConstants, MemoryIsTheProcess, WriterIsHeld, Owns, HandlesAreInStep, HandleIsInStep,
           PlaceIsTheEnd, NoOps, Idle, Op, dbVars
  <1>. QED BY <1>6, <1>7, <1>8, <1>9, <1>10

LEMMA RecoverAppendInv == ASSUME IInv, RecoverAppend PROVE IInv'
  BY AuditConstants, AppendIsSound
     DEF AuditConstants, RecoverAppend, fileVars, dbVars, memoryVars, IInv,
         StoreIsSound, TypeOK, LogIsChainPrefix, MarkIsLowerBound, NeverQuarantined,
         MemoryIsTheProcess, RecoveryIsInStep, WriterIsHeld, HandlesAreInStep, HandleIsInStep,
         PlaceIsTheEnd, DiskCovers, Owns, Waits, NoOps, Idle, Op, OpType

LEMMA RecoverSyncInv == ASSUME IInv, RecoverSync PROVE IInv'
  <1>. USE AuditConstants DEF AuditConstants, RecoverSync, RecoverSynced, dbVars, IInv, StoreIsSound, TypeOK
  <1>1. TypeOK' /\ LogIsChainPrefix' /\ MarkIsLowerBound' /\ NeverQuarantined' /\ DiskCovers'
    BY DEF LogIsChainPrefix, MarkIsLowerBound, NeverQuarantined, DiskCovers
  <1>2. MemoryIsTheProcess' /\ RecoveryIsInStep'
    BY DEF MemoryIsTheProcess, RecoveryIsInStep
  <1>3. WriterIsHeld' /\ HandlesAreInStep' /\ PlaceIsTheEnd'
    BY DEF WriterIsHeld, Owns, HandlesAreInStep, HandleIsInStep, PlaceIsTheEnd, MemoryIsTheProcess,
           NoOps, Idle, Op
  <1>. QED BY <1>1, <1>2, <1>3

LEMMA RecoverMarkInv == ASSUME IInv, RecoverMark PROVE IInv'
  BY AuditConstants
     DEF AuditConstants, RecoverMark, fileVars, dbVars, memoryVars, IInv,
         StoreIsSound, TypeOK, LogIsChainPrefix, MarkIsLowerBound, NeverQuarantined,
         MemoryIsTheProcess, RecoveryIsInStep, WriterIsHeld, HandlesAreInStep, HandleIsInStep,
         PlaceIsTheEnd, DiskCovers, Owns, Waits, NoOps, Idle, Op, OpType

\* A process that ends leaves its files behind, or of the log any part that covers what is on disk.
LEMMA EndInv ==
  ASSUME IInv, Memoryless, UNCHANGED <<quarantine, dbVars, answered>>,
         NEW n \in synced..Len(log), (log' = Cut(log, n) /\ synced' = n) \/ UNCHANGED fileVars
  PROVE  IInv'
  <1>. USE AuditConstants DEF AuditConstants, Memoryless, fileVars, dbVars, IInv, StoreIsSound, TypeOK
  <1>1. n \in 0..Len(log)
    OBVIOUS
  <1>2. /\ log' \in Seq(Nat) /\ Sound(log') /\ Len(log') <= Len(log)
        /\ synced <= synced' /\ synced' \in 0..Len(log')
    BY <1>1, CutIsSound DEF LogIsChainPrefix
  <1>3. NoOps \in [Handles -> OpType]
    BY DEF NoOps, Idle, Op, OpType
  <1>4. TypeOK' /\ LogIsChainPrefix' /\ MarkIsLowerBound' /\ NeverQuarantined' /\ DiskCovers'
    BY <1>2, <1>3 DEF LogIsChainPrefix, MarkIsLowerBound, NeverQuarantined, DiskCovers
  <1>5. MemoryIsTheProcess' /\ RecoveryIsInStep' /\ PlaceIsTheEnd'
    BY DEF MemoryIsTheProcess, RecoveryIsInStep, PlaceIsTheEnd
  <1>6. WriterIsHeld' /\ HandlesAreInStep'
    BY DEF WriterIsHeld, Owns, HandlesAreInStep, HandleIsInStep, NoOps, Idle, Op
  <1>. QED BY <1>4, <1>5, <1>6

LEMMA DieInv == ASSUME IInv, Die PROVE IInv'
  <1>1. synced \in synced..Len(log)
    BY DEF IInv, StoreIsSound, TypeOK
  <1>. QED BY <1>1, EndInv DEF Die

LEMMA PowerLossInv == ASSUME IInv, PowerLoss PROVE IInv'
  BY EndInv DEF PowerLoss

LEMMA EnterInv == ASSUME IInv, NEW h \in Handles, Enter(h) PROVE IInv'
  BY AuditConstants
     DEF AuditConstants, Enter, Become, fileVars, dbVars, memoryVars, IInv,
         StoreIsSound, TypeOK, LogIsChainPrefix, MarkIsLowerBound, NeverQuarantined,
         MemoryIsTheProcess, RecoveryIsInStep, WriterIsHeld, HandlesAreInStep, HandleIsInStep,
         PlaceIsTheEnd, DiskCovers, Owns, Waits, NoOps, Idle, Op, OpType

LEMMA AbortInv == ASSUME IInv, NEW h \in Handles, Abort(h) PROVE IInv'
  BY AuditConstants
     DEF AuditConstants, Abort, Become, fileVars, dbVars, memoryVars, IInv,
         StoreIsSound, TypeOK, LogIsChainPrefix, MarkIsLowerBound, NeverQuarantined,
         MemoryIsTheProcess, RecoveryIsInStep, WriterIsHeld, HandlesAreInStep, HandleIsInStep,
         PlaceIsTheEnd, DiskCovers, Owns, Waits, NoOps, Idle, Op, OpType

LEMMA FlushCheckInv == ASSUME IInv, NEW h \in Handles, FlushCheck(h) PROVE IInv'
  BY AuditConstants
     DEF AuditConstants, FlushCheck, Become, fileVars, dbVars, memoryVars, IInv,
         StoreIsSound, TypeOK, LogIsChainPrefix, MarkIsLowerBound, NeverQuarantined,
         MemoryIsTheProcess, RecoveryIsInStep, WriterIsHeld, HandlesAreInStep, HandleIsInStep,
         PlaceIsTheEnd, DiskCovers, Owns, Waits, NoOps, Idle, Op, OpType

\* A step of h leaves the others where they are.
LEMMA OthersInStep ==
  ASSUME IInv, NEW h \in Handles, NEW o \in OpType, op' = [op EXCEPT ![h] = o],
         head' \in Nat, head <= head',
         mutex = h \/ UNCHANGED <<log, durable>>,
         HandleIsInStep(h)'
  PROVE  HandlesAreInStep'
  <1>. SUFFICES ASSUME NEW g \in Handles, g # h PROVE HandleIsInStep(g)'
    BY DEF HandlesAreInStep
  <1>1. op'[g] = op[g] /\ op[g] \in OpType
    BY DEF IInv, StoreIsSound, TypeOK
  <1>2. mutex = h => op[g].pc \notin {"writing", "marking"}
    BY DEF IInv, WriterIsHeld, Owns
  <1>3. HandleIsInStep(g)
    BY DEF IInv, HandlesAreInStep
  <1>4. /\ head \in Nat /\ op[g].target \in Nat /\ op[g].at \in Nat /\ op[g].upto \in Nat
    BY <1>1, AuditConstants DEF IInv, StoreIsSound, TypeOK, OpType, AuditConstants
  <1>5. CASE mutex = h
    BY <1>1, <1>2, <1>3, <1>4, <1>5 DEF HandleIsInStep
  <1>6. CASE UNCHANGED <<log, durable>>
    BY <1>1, <1>3, <1>4, <1>6 DEF HandleIsInStep
  <1>. QED BY <1>5, <1>6

LEMMA CommitTxInv == ASSUME IInv, NEW h \in Handles, CommitTx(h) PROVE IInv'
  <1>. USE AuditConstants DEF AuditConstants, IInv, StoreIsSound
  <1>1. PICK n \in 0..Batch :
          /\ head + n <= MaxRecords /\ head' = head + n
          /\ Become(h, IF n = 0 THEN Idle ELSE Op("committed", head + n, 0, 0))
    BY DEF CommitTx
  <1>2. /\ op[h].pc = "checked"
        /\ UNCHANGED <<proc, quarantine, flushed, log, synced, durable, poisoned, mutex, recovering, answered>>
    BY DEF CommitTx, fileVars
  <1>. DEFINE o == IF n = 0 THEN Idle ELSE Op("committed", head + n, 0, 0)
  <1>3. o \in OpType /\ o.pc \in {"idle", "committed"} /\ o.target <= head'
    BY <1>1 DEF TypeOK, Idle, Op, OpType
  <1>4. op' = [op EXCEPT ![h] = o]
    BY <1>1 DEF Become
  <1>. HIDE DEF o
  <1>5. TypeOK' /\ LogIsChainPrefix' /\ MarkIsLowerBound' /\ NeverQuarantined' /\ DiskCovers'
    BY <1>1, <1>2, <1>3, <1>4 DEF TypeOK, LogIsChainPrefix, MarkIsLowerBound, NeverQuarantined, DiskCovers
  <1>6. proc = "UP"
    BY <1>2 DEF MemoryIsTheProcess, NoOps, Idle, Op
  <1>7. MemoryIsTheProcess' /\ RecoveryIsInStep'
    BY <1>2, <1>6 DEF MemoryIsTheProcess, RecoveryIsInStep
  <1>8. WriterIsHeld' /\ PlaceIsTheEnd'
    BY <1>2, <1>3, <1>4 DEF TypeOK, WriterIsHeld, Owns, PlaceIsTheEnd, Waits
  <1>9. HandleIsInStep(h)'
    BY <1>3, <1>4 DEF TypeOK, HandleIsInStep
  <1>10. HandlesAreInStep'
    <2>1. head' \in Nat /\ head <= head'
      BY <1>1 DEF TypeOK
    <2>. QED BY <1>2, <1>3, <1>4, <1>9, <2>1, OthersInStep
  <1>. QED BY <1>5, <1>7, <1>8, <1>10

LEMMA LockInv == ASSUME IInv, NEW h \in Handles, Lock(h) PROVE IInv'
  <1>. USE AuditConstants DEF AuditConstants, IInv, StoreIsSound
  <1>1. /\ op[h].pc = "waiting" /\ mutex = None /\ op[h] \in OpType
        /\ UNCHANGED <<proc, quarantine, head, flushed, log, synced, durable, recovering>>
    BY DEF Lock, WriterFree, dbVars, fileVars, TypeOK
  <1>2. proc = "UP"
    BY <1>1 DEF MemoryIsTheProcess, NoOps, Idle, Op
  <1>3. Len(log) = 2 * durable /\ op[h].target <= head /\ durable <= head /\ durable \in Nat /\ head \in Nat
    BY <1>1, <1>2 DEF PlaceIsTheEnd, Waits, HandlesAreInStep, HandleIsInStep, TypeOK, LogIsChainPrefix
  <1>4. LogIsChainPrefix' /\ MarkIsLowerBound' /\ NeverQuarantined' /\ MemoryIsTheProcess'
        /\ RecoveryIsInStep'
    BY <1>1, <1>2 DEF LogIsChainPrefix, MarkIsLowerBound, NeverQuarantined, MemoryIsTheProcess,
                      RecoveryIsInStep
  <1>5. CASE /\ Become(h, Idle) /\ UNCHANGED mutex /\ poisoned' \in {poisoned, "YES"}
             /\ answered' = answered \/ (FlushedAlready(h) /\ Answer(h))
    <2>1. op' = [op EXCEPT ![h] = Idle] /\ Idle \in OpType /\ Idle.pc = "idle" /\ Idle.target = 0
      BY <1>5 DEF Become, Idle, Op, OpType
    <2>2. answered' \in 0..MaxRecords /\ 2 * answered' <= synced
      BY <1>1, <1>5 DEF TypeOK, OpType, FlushedAlready, Answer, DiskCovers
    <2>3. TypeOK' /\ DiskCovers'
      BY <1>1, <1>5, <2>1, <2>2 DEF TypeOK, DiskCovers
    <2>4. WriterIsHeld' /\ PlaceIsTheEnd'
      BY <1>1, <1>3, <1>5, <2>1 DEF TypeOK, WriterIsHeld, Owns, PlaceIsTheEnd
    <2>5. HandleIsInStep(h)'
      BY <1>1, <1>3, <2>1 DEF TypeOK, HandleIsInStep
    <2>6. HandlesAreInStep'
      <3>1. head' \in Nat /\ head <= head' /\ UNCHANGED <<log, durable>>
        BY <1>1, <1>3
      <3>. QED BY <2>1, <2>5, <3>1, OthersInStep
    <2>. QED BY <1>4, <2>3, <2>4, <2>6
  <1>6. CASE /\ ~FlushedAlready(h) /\ mutex' = h /\ UNCHANGED <<answered, poisoned>>
             /\ Become(h, Op("writing", op[h].target, 2 * durable, 2 * head))
    <2>. DEFINE o == Op("writing", op[h].target, 2 * durable, 2 * head)
    <2>1. op' = [op EXCEPT ![h] = o] /\ o \in OpType
      BY <1>1, <1>3, <1>6 DEF Become, Op, OpType, TypeOK
    <2>2. o.pc = "writing" /\ o.target = op[h].target /\ o.at = 2 * durable /\ o.upto = 2 * head
      BY DEF Op
    <2>. HIDE DEF o
    <2>3. TypeOK' /\ DiskCovers'
      BY <1>1, <1>6, <2>1 DEF TypeOK, DiskCovers
    <2>4. WriterIsHeld' /\ PlaceIsTheEnd'
      BY <1>1, <1>6, <2>1, <2>2 DEF TypeOK, WriterIsHeld, Owns, PlaceIsTheEnd
    <2>5. HandleIsInStep(h)'
      BY <1>1, <1>3, <2>1, <2>2 DEF TypeOK, HandleIsInStep, OpType
    <2>6. HandlesAreInStep'
      <3>1. head' \in Nat /\ head <= head' /\ UNCHANGED <<log, durable>>
        BY <1>1, <1>3
      <3>. QED BY <2>1, <2>5, <3>1, OthersInStep
    <2>. QED BY <1>4, <2>3, <2>4, <2>6
  <1>7. CASE FlushedAlready(h) /\ Become(h, Idle) /\ Answer(h) /\ UNCHANGED <<mutex, poisoned>>
    BY <1>5, <1>7
  <1>8. CASE Become(h, Idle) /\ poisoned' \in {poisoned, "YES"} /\ UNCHANGED <<answered, mutex>>
    BY <1>5, <1>8
  <1>. QED BY <1>6, <1>7, <1>8 DEF Lock

\* A handle that owns the writer: the process is up, and the others only wait.
LEMMA OwnerFacts ==
  ASSUME IInv, NEW h \in Handles, Owns(h)
  PROVE  /\ proc = "UP" /\ mutex = h /\ op[h] \in OpType
         /\ head \in Nat /\ durable \in Nat /\ synced \in Nat /\ Len(log) \in Nat
         /\ op[h].target \in Nat /\ op[h].at \in Nat /\ op[h].upto \in Nat
         /\ HandleIsInStep(h)
         /\ \A g \in Handles : Owns(g) => g = h
  <1>. USE AuditConstants DEF AuditConstants, IInv, StoreIsSound
  <1>1. proc = "UP"
    BY DEF MemoryIsTheProcess, NoOps, Idle, Op, Owns
  <1>2. op[h] \in OpType /\ head \in Nat /\ durable \in Nat /\ synced \in Nat /\ Len(log) \in Nat
    BY DEF TypeOK
  <1>3. op[h].target \in Nat /\ op[h].at \in Nat /\ op[h].upto \in Nat
    BY <1>2 DEF OpType
  <1>4. mutex = h /\ \A g \in Handles : Owns(g) => g = h
    BY DEF WriterIsHeld
  <1>. QED BY <1>1, <1>2, <1>3, <1>4 DEF HandlesAreInStep

LEMMA WriteInv == ASSUME IInv, NEW h \in Handles, Write(h) PROVE IInv'
  <1>. USE AuditConstants DEF AuditConstants, IInv, StoreIsSound
  <1>1. /\ op[h].pc = "writing" /\ op[h].at < op[h].upto
        /\ log' = Append(log, op[h].at + 1)
        /\ op' = [op EXCEPT ![h] = Op("writing", op[h].target, op[h].at + 1, op[h].upto)]
        /\ UNCHANGED <<proc, quarantine, head, flushed, synced, durable, poisoned, mutex,
                       recovering, answered>>
    BY DEF Write, Become, dbVars
  <1>2. Owns(h)
    BY <1>1 DEF Owns
  <1>3. Len(log) = op[h].at /\ op[h].upto <= 2 * head /\ op[h].upto % 2 = 0
        /\ 2 * op[h].target <= op[h].upto /\ op[h].target <= head
    BY <1>1, <1>2, OwnerFacts DEF HandleIsInStep
  <1>4. log' \in Seq(Nat) /\ Len(log') = Len(log) + 1 /\ Sound(log')
    BY <1>1, <1>3, AppendIsSound DEF TypeOK, LogIsChainPrefix
  <1>. DEFINE o == Op("writing", op[h].target, op[h].at + 1, op[h].upto)
  <1>5. /\ o \in OpType /\ o.pc = "writing" /\ o.target = op[h].target
        /\ o.at = op[h].at + 1 /\ o.upto = op[h].upto
    BY <1>1, <1>2, OwnerFacts DEF Op, OpType
  <1>6. op' = [op EXCEPT ![h] = o]
    BY <1>1
  <1>. HIDE DEF o
  <1>7. TypeOK' /\ MarkIsLowerBound' /\ NeverQuarantined' /\ DiskCovers'
    BY <1>1, <1>4, <1>5, <1>6 DEF TypeOK, MarkIsLowerBound, NeverQuarantined, DiskCovers
  <1>8. LogIsChainPrefix'
    BY <1>1, <1>2, <1>3, <1>4, OwnerFacts DEF LogIsChainPrefix
  <1>9. MemoryIsTheProcess' /\ RecoveryIsInStep' /\ PlaceIsTheEnd'
    BY <1>1, <1>2, OwnerFacts DEF MemoryIsTheProcess, RecoveryIsInStep, PlaceIsTheEnd
  <1>10. WriterIsHeld'
    BY <1>1, <1>5, <1>6 DEF TypeOK, WriterIsHeld, Owns
  <1>11. HandleIsInStep(h)'
    <2>1. op'[h] = o
      BY <1>6 DEF TypeOK
    <2>2. op[h].at \in Nat /\ op[h].upto \in Nat
      BY <1>2, OwnerFacts
    <2>3. Len(log') = o.at /\ o.at <= o.upto
      BY <1>1, <1>3, <1>4, <1>5, <2>2
    <2>4. /\ o.upto % 2 = 0 /\ o.upto <= 2 * head' /\ 2 * o.target <= o.upto
          /\ o.target <= head'
      BY <1>1, <1>3, <1>5
    <2>5. op'[h].pc = "writing"
      BY <1>5, <2>1
    <2>. QED BY <2>1, <2>3, <2>4, <2>5 DEF HandleIsInStep
  <1>12. HandlesAreInStep'
    <2>1. head' \in Nat /\ head <= head' /\ mutex = h
      BY <1>1, <1>2, OwnerFacts
    <2>. QED BY <1>1, <1>5, <1>6, <1>11, <2>1, OthersInStep
  <1>. QED BY <1>7, <1>8, <1>9, <1>10, <1>12

\* An I/O error gives the writer up with a torn file; but nobody waits for it any more.
LEMMA PoisonInv ==
  ASSUME IInv, NEW h \in Handles, op[h].pc = "writing",
         \A g \in Handles \ {h} : op[g].pc # "waiting",
         poisoned' = "YES", mutex' = None, op' = [op EXCEPT ![h] = Idle],
         log' = log \/ (op[h].at < op[h].upto /\ log' = Append(log, op[h].at + 1)),
         UNCHANGED <<proc, quarantine, head, flushed, synced, durable, recovering, answered>>
  PROVE  IInv'
  <1>. USE AuditConstants DEF AuditConstants, IInv, StoreIsSound
  <1>1. poisoned' = "YES" /\ mutex' = None /\ op' = [op EXCEPT ![h] = Idle]
    OBVIOUS
  <1>2. Owns(h)
    BY DEF Owns
  <1>3. Len(log) = op[h].at /\ op[h].at <= op[h].upto /\ op[h].upto <= 2 * head
    BY <1>2, OwnerFacts DEF HandleIsInStep
  <1>4. log' \in Seq(Nat) /\ Len(log') \in {Len(log), Len(log) + 1} /\ Len(log') <= 2 * head
        /\ Sound(log')
    <2>1. log \in Seq(Nat) /\ Sound(log) /\ Len(log) <= 2 * head
      BY DEF TypeOK, LogIsChainPrefix
    <2>2. CASE log' = log
      BY <2>1, <2>2
    <2>3. CASE op[h].at < op[h].upto /\ log' = Append(log, op[h].at + 1)
      <3>1. Len(log) + 1 <= 2 * head
        BY <1>2, <1>3, <2>3, OwnerFacts
      <3>. QED BY <1>3, <2>1, <2>3, <3>1, AppendIsSound
    <2>. QED BY <2>2, <2>3
  <1>5. Idle \in OpType /\ Idle.pc = "idle" /\ Idle.target = 0
    BY DEF Idle, Op, OpType
  <1>6. \A g \in Handles : op'[g].pc # "waiting"
    BY <1>1, <1>5 DEF TypeOK
  <1>7. TypeOK' /\ MarkIsLowerBound' /\ NeverQuarantined' /\ DiskCovers'
    BY <1>1, <1>4, <1>5 DEF TypeOK, MarkIsLowerBound, NeverQuarantined, DiskCovers
  <1>8. LogIsChainPrefix'
    BY <1>4 DEF LogIsChainPrefix
  <1>9. MemoryIsTheProcess' /\ RecoveryIsInStep' /\ PlaceIsTheEnd'
    BY <1>1, <1>2, <1>6, OwnerFacts DEF MemoryIsTheProcess, RecoveryIsInStep, PlaceIsTheEnd, Waits
  <1>10. WriterIsHeld'
    BY <1>1, <1>2, <1>5, OwnerFacts DEF TypeOK, WriterIsHeld, Owns
  <1>11. HandleIsInStep(h)'
    BY <1>1, <1>2, <1>5, OwnerFacts DEF TypeOK, HandleIsInStep
  <1>12. HandlesAreInStep'
    <2>1. head' \in Nat /\ head <= head' /\ mutex = h
      BY <1>1, <1>2, OwnerFacts
    <2>. QED BY <1>1, <1>5, <1>11, <2>1, OthersInStep
  <1>. QED BY <1>7, <1>8, <1>9, <1>10, <1>12

LEMMA WriteFailsInv ==
  ASSUME NoWaiterAtFault, IInv, NEW h \in Handles, WriteFails(h)
  PROVE  IInv'
  <1>1. /\ op[h].pc = "writing" /\ op[h].at < op[h].upto
        /\ poisoned' = "YES" /\ mutex' = None /\ op' = [op EXCEPT ![h] = Idle]
        /\ \A g \in Handles \ {h} : op[g].pc # "waiting"
    BY DEF WriteFails, Poison, Become, NoWaiterAtFault, IoMayFail
  <1>2. log' = log \/ log' = Append(log, op[h].at + 1)
    BY DEF WriteFails
  <1>3. UNCHANGED <<proc, quarantine, head, flushed, synced, durable, recovering, answered>>
    BY DEF WriteFails, dbVars
  <1>. QED BY <1>1, <1>2, <1>3, PoisonInv

LEMMA SyncFailsInv ==
  ASSUME NoWaiterAtFault, IInv, NEW h \in Handles, SyncFails(h)
  PROVE  IInv'
  <1>1. /\ op[h].pc = "writing" /\ log' = log
        /\ poisoned' = "YES" /\ mutex' = None /\ op' = [op EXCEPT ![h] = Idle]
        /\ \A g \in Handles \ {h} : op[g].pc # "waiting"
    BY DEF SyncFails, fileVars, Poison, Become, NoWaiterAtFault, IoMayFail
  <1>2. UNCHANGED <<proc, quarantine, head, flushed, synced, durable, recovering, answered>>
    BY DEF SyncFails, dbVars, fileVars
  <1>. QED BY <1>1, <1>2, PoisonInv

LEMMA SyncInv == ASSUME IInv, NEW h \in Handles, Sync(h) PROVE IInv'
  <1>. USE AuditConstants DEF AuditConstants, IInv, StoreIsSound
  <1>1. /\ op[h].pc = "writing" /\ op[h].at = op[h].upto
        /\ synced' = Len(log) /\ durable' = op[h].upto \div 2
        /\ op' = [op EXCEPT ![h] = Op("marking", op[h].target, op[h].at, op[h].upto)]
        /\ UNCHANGED <<proc, quarantine, head, flushed, log, poisoned, mutex, recovering, answered>>
    BY DEF Sync, Synced, Become, dbVars
  <1>2. Owns(h)
    BY <1>1 DEF Owns
  <1>3. Len(log) = op[h].upto /\ op[h].upto <= 2 * head /\ op[h].upto % 2 = 0
        /\ 2 * op[h].target <= op[h].upto /\ op[h].target <= head
    BY <1>1, <1>2, OwnerFacts DEF HandleIsInStep
  <1>4. durable' \in Nat /\ 2 * durable' = Len(log) /\ durable' <= head /\ op[h].target <= durable'
    BY <1>1, <1>2, <1>3, OwnerFacts
  <1>. DEFINE o == Op("marking", op[h].target, op[h].at, op[h].upto)
  <1>5. /\ o \in OpType /\ o.pc = "marking" /\ o.target = op[h].target /\ o.upto = op[h].upto
    BY <1>2, OwnerFacts DEF Op, OpType
  <1>6. op' = [op EXCEPT ![h] = o]
    BY <1>1
  <1>. HIDE DEF o
  <1>7. TypeOK' /\ LogIsChainPrefix' /\ MarkIsLowerBound' /\ NeverQuarantined' /\ DiskCovers'
    BY <1>1, <1>4, <1>5, <1>6 DEF TypeOK, LogIsChainPrefix, MarkIsLowerBound, NeverQuarantined, DiskCovers
  <1>9. MemoryIsTheProcess' /\ RecoveryIsInStep' /\ PlaceIsTheEnd'
    BY <1>1, <1>2, OwnerFacts DEF MemoryIsTheProcess, RecoveryIsInStep, PlaceIsTheEnd
  <1>10. WriterIsHeld'
    BY <1>1, <1>5, <1>6, <1>2 DEF TypeOK, WriterIsHeld, Owns
  <1>11. HandleIsInStep(h)'
    BY <1>1, <1>3, <1>4, <1>5, <1>6 DEF TypeOK, HandleIsInStep
  <1>12. HandlesAreInStep'
    <2>1. head' \in Nat /\ head <= head' /\ mutex = h
      BY <1>1, <1>2, OwnerFacts
    <2>. QED BY <1>1, <1>5, <1>6, <1>11, <2>1, OthersInStep
  <1>. QED BY <1>7, <1>9, <1>10, <1>12

\* The mark is told, or not: either way the writer is free, at the end of the file.
LEMMA ReleaseInv ==
  ASSUME IInv, NEW h \in Handles, op[h].pc = "marking", mutex' = None, Become(h, Idle),
         poisoned' \in {poisoned, "YES"},
         flushed' \in {flushed, op[h].upto \div 2}, answered' \in {answered, op[h].target},
         UNCHANGED <<proc, quarantine, head, log, synced, durable, recovering>>
  PROVE  IInv'
  <1>. USE AuditConstants DEF AuditConstants, IInv, StoreIsSound
  <1>1. op' = [op EXCEPT ![h] = Idle] /\ Idle \in OpType /\ Idle.pc = "idle" /\ Idle.target = 0
    BY DEF Become, Idle, Op, OpType
  <1>2. Owns(h)
    BY DEF Owns
  <1>3. Len(log) = 2 * durable /\ op[h].upto = 2 * durable /\ op[h].target <= durable
    BY <1>2, OwnerFacts DEF HandleIsInStep
  <1>4. op[h].upto \div 2 = durable
    BY <1>2, <1>3, OwnerFacts
  <1>5. /\ flushed' \in 0..MaxRecords /\ 2 * flushed' <= synced
        /\ answered' \in 0..MaxRecords /\ 2 * answered' <= synced
    <2>1. durable \in 0..MaxRecords /\ 2 * durable <= synced /\ op[h].target \in 0..MaxRecords
      BY <1>2, OwnerFacts DEF TypeOK, DiskCovers, OpType
    <2>2. synced \in Nat
      BY <1>2, OwnerFacts
    <2>3. /\ flushed \in 0..MaxRecords /\ 2 * flushed <= synced
          /\ answered \in 0..MaxRecords /\ 2 * answered <= synced
      BY DEF TypeOK, MarkIsLowerBound, DiskCovers
    <2>4. flushed' \in {flushed, durable}
      BY <1>4
    <2>5. 2 * op[h].target <= synced
      BY <1>3, <2>1, <2>2
    <2>. QED BY <2>1, <2>2, <2>3, <2>4, <2>5
  <1>6. TypeOK' /\ LogIsChainPrefix' /\ MarkIsLowerBound' /\ NeverQuarantined' /\ DiskCovers'
    BY <1>1, <1>5 DEF TypeOK, LogIsChainPrefix, MarkIsLowerBound, NeverQuarantined, DiskCovers
  <1>7. MemoryIsTheProcess' /\ RecoveryIsInStep' /\ PlaceIsTheEnd'
    BY <1>2, <1>3, OwnerFacts DEF MemoryIsTheProcess, RecoveryIsInStep, PlaceIsTheEnd
  <1>8. WriterIsHeld'
    BY <1>1, <1>2, OwnerFacts DEF TypeOK, WriterIsHeld, Owns
  <1>9. HandleIsInStep(h)'
    BY <1>1, <1>2, OwnerFacts DEF TypeOK, HandleIsInStep
  <1>10. HandlesAreInStep'
    <2>1. head' \in Nat /\ head <= head' /\ mutex = h
      BY <1>1, <1>2, OwnerFacts
    <2>. QED BY <1>1, <1>9, <2>1, OthersInStep
  <1>. QED BY <1>6, <1>7, <1>8, <1>10

LEMMA MarkInv == ASSUME IInv, NEW h \in Handles, Mark(h) PROVE IInv'
  BY ReleaseInv DEF Mark, Answer, fileVars

LEMMA MarkFailsInv == ASSUME IInv, NEW h \in Handles, MarkFails(h) PROVE IInv'
  BY ReleaseInv DEF MarkFails, fileVars, dbVars

LEMMA NextInv == ASSUME NoWaiterAtFault PROVE IInv /\ [Next]_vars => IInv'
  <1>. SUFFICES ASSUME IInv, [Next]_vars PROVE IInv'
    OBVIOUS
  <1>1. CASE Start
    BY <1>1, CreateStoreInv, RecoverInv DEF Start
  <1>2. CASE Recovery
    BY <1>2, RecoverAppendInv, RecoverSyncInv, RecoverMarkInv DEF Recovery
  <1>3. CASE Die \/ PowerLoss
    BY <1>3, DieInv, PowerLossInv
  <1>4. ASSUME NEW h \in Handles, Transact(h) PROVE IInv'
    BY <1>4, EnterInv, AbortInv, CommitTxInv, FlushCheckInv, LockInv, WriteInv, WriteFailsInv,
       SyncInv, SyncFailsInv, MarkInv, MarkFailsInv
       DEF Transact
  <1>5. CASE UNCHANGED vars
    BY <1>5 DEF vars, fileVars, dbVars, memoryVars, IInv,
         StoreIsSound, TypeOK, LogIsChainPrefix, MarkIsLowerBound, NeverQuarantined,
         MemoryIsTheProcess, RecoveryIsInStep, WriterIsHeld, HandlesAreInStep, HandleIsInStep,
         PlaceIsTheEnd, DiskCovers, Owns, Waits
  <1>. QED BY <1>1, <1>2, <1>3, <1>4, <1>5 DEF Next

LEMMA InductiveInvariant == ASSUME NoWaiterAtFault PROVE Spec => []IInv
  <1>1. Init => IInv
    BY InitInv
  <1>2. IInv /\ [Next]_vars => IInv'
    BY NextInv
  <1>. QED BY <1>1, <1>2, PTL DEF Spec
-----------------------------------------------------------------------------
(* Theorems *)

\* Whatever process dies, power is lost and I/O fails, in any order and again during the
\* recovery, the file is a prefix of the chain's lines, the mark in kernel.db a lower bound of
\* what is on disk, and no start quarantines the store (Shared::flush; audit.rs, compare and
\* recover): for the server's one handle, and for several of which none waits beside a fault.
THEOREM NoFaultLooksLikeTampering == ASSUME NoWaiterAtFault PROVE Spec => []StoreIsSound
  <1>1. IInv => StoreIsSound
    BY DEF IInv
  <1>. QED BY <1>1, InductiveInvariant, PTL

\* Before it serves anyone, a recovered authority has on disk all that was committed and
\* nothing more, and its writer stands at the end of it (audit.rs, recover).
THEOREM RecoveryIsExact == ASSUME NoWaiterAtFault PROVE Spec => RecoveredIsExact
  <1>1. IInv /\ [Next]_vars =>
          [proc = "RECOVERING" /\ proc' = "UP"
             => synced' = 2 * head' /\ Len(log') = synced' /\ durable' = head']_vars
    <2>. SUFFICES ASSUME IInv, [Next]_vars, proc = "RECOVERING", proc' = "UP"
                  PROVE  synced' = 2 * head' /\ Len(log') = synced' /\ durable' = head'
      OBVIOUS
    <2>1. ASSUME NEW h \in Handles, Transact(h) PROVE FALSE
      BY <2>1 DEF Transact, Enter, Abort, CommitTx, FlushCheck, Lock, Write, WriteFails, Sync,
                  SyncFails, Mark, MarkFails
    <2>2. RecoverMark
      BY <2>1 DEF Next, Start, CreateStore, Recover, Recovery, RecoverAppend, RecoverSync, Die,
                  PowerLoss, Memoryless, vars
    <2>3. head \in Nat
      BY AuditConstants DEF IInv, StoreIsSound, TypeOK, AuditConstants
    <2>. QED BY <2>2, <2>3 DEF RecoverMark, IInv, RecoveryIsInStep, fileVars
  <1>. QED BY <1>1, InductiveInvariant, PTL DEF Spec, RecoveredIsExact

\* What is on disk, in whole records: it grows with what is synced.
LEMMA WholeRecords ==
  ASSUME NEW a \in Nat, NEW b \in Nat, a <= b
  PROVE  a \div 2 \in Nat /\ a \div 2 <= b \div 2
         /\ \A n \in Nat : (2 * n <= a => n <= a \div 2) /\ (a <= 2 * n => a \div 2 <= n)
  OBVIOUS

LEMMA PersistStep ==
  ASSUME IInv, IInv', UNCHANGED <<head, answered>>, synced \div 2 <= synced' \div 2
  PROVE  [T!TNext]_(T!tvars)
  <1>1. /\ synced \in Nat /\ synced' \in Nat /\ head \in Nat /\ synced' <= 2 * head
    BY AuditConstants DEF IInv, StoreIsSound, TypeOK, LogIsChainPrefix, AuditConstants
  <1>2. synced' \div 2 <= head /\ synced' \div 2 \in Nat /\ synced \div 2 \in Nat
    <2>1. ASSUME NEW a \in Nat, NEW n \in Nat, a <= 2 * n PROVE a \div 2 <= n /\ a \div 2 \in Nat
      BY <2>1
    <2>2. synced <= 2 * head
      BY DEF IInv, StoreIsSound, TypeOK, LogIsChainPrefix
    <2>. QED BY <1>1, <2>1, <2>2
  <1>3. CASE synced \div 2 = synced' \div 2
    BY <1>3 DEF T!tvars
  <1>4. CASE synced \div 2 # synced' \div 2
    <2>1. synced' \div 2 > synced \div 2
      BY <1>2, <1>4
    <2>. QED BY <1>2, <2>1 DEF T!TNext, T!Persist
  <1>. QED BY <1>3, <1>4

LEMMA ReplyStep ==
  ASSUME IInv, IInv', UNCHANGED <<head, synced>>, NEW t \in Nat,
         answered' = IF t > answered THEN t ELSE answered
  PROVE  [T!TNext]_(T!tvars)
  <1>1. synced \in Nat /\ answered \in Nat /\ answered' \in Nat /\ 2 * answered' <= synced
    BY AuditConstants DEF IInv, StoreIsSound, TypeOK, DiskCovers, AuditConstants
  <1>2. answered' <= synced \div 2
    BY <1>1, WholeRecords
  <1>. QED BY <1>1, <1>2 DEF T!TNext, T!Reply, T!tvars

LEMMA StepRefines == ASSUME IInv, IInv', [Next]_vars PROVE [T!TNext]_(T!tvars)
  <1>0. synced \in Nat /\ synced' \in Nat /\ Len(log) \in Nat /\ synced <= Len(log)
    BY DEF IInv, StoreIsSound, TypeOK
  <1>1. CASE UNCHANGED <<head, synced, answered>>
    BY <1>1 DEF T!tvars
  <1>2. CASE CreateStore
    BY <1>2, AuditConstants DEF AuditConstants, CreateStore, fileVars, T!TNext, T!Commit
  <1>3. CASE Recover
    <2>1. synced \div 2 <= synced' \div 2
      <3>1. CASE synced' = synced
        BY <1>0, <3>1, WholeRecords
      <3>2. CASE Len(log) % 2 = 1 /\ synced' = 2 * Lines(log)
        <4>1. Lines(log) \in Nat /\ 2 * Lines(log) + 1 = Len(log)
          BY <3>2, LinesOfFile DEF IInv, StoreIsSound, TypeOK
        <4>. QED BY <1>0, <3>2, <4>1
      <3>. QED BY <1>3, <3>1, <3>2 DEF Recover, fileVars
    <2>. QED BY <1>3, <2>1, PersistStep DEF Recover, dbVars
  <1>4. CASE Recovery
    <2>1. CASE RecoverSync
      BY <1>0, <2>1, WholeRecords, PersistStep DEF RecoverSync, RecoverSynced, dbVars
    <2>. QED BY <1>1, <1>4, <2>1 DEF Recovery, RecoverAppend, RecoverMark, dbVars, fileVars
  <1>5. CASE Die
    BY <1>1, <1>5 DEF Die, dbVars, fileVars
  <1>6. CASE PowerLoss
    <2>1. synced <= synced'
      BY <1>0, <1>6 DEF PowerLoss
    <2>. QED BY <1>0, <1>6, <2>1, WholeRecords, PersistStep DEF PowerLoss, dbVars
  <1>7. ASSUME NEW h \in Handles, Transact(h) PROVE [T!TNext]_(T!tvars)
    <2>0. op[h].target \in Nat
      BY AuditConstants DEF IInv, StoreIsSound, TypeOK, OpType, AuditConstants
    <2>1. CASE CommitTx(h)
      <3>1. PICK n \in 0..Batch : head + n <= MaxRecords /\ head' = head + n
        BY <2>1 DEF CommitTx
      <3>2. head \in Nat
        BY AuditConstants DEF IInv, StoreIsSound, TypeOK, AuditConstants
      <3>3. UNCHANGED <<synced, answered>>
        BY <2>1 DEF CommitTx, fileVars
      <3>4. CASE n = 0
        BY <1>1, <3>1, <3>2, <3>3, <3>4
      <3>5. CASE n # 0
        BY <3>1, <3>2, <3>3, <3>5, AuditConstants DEF AuditConstants, T!TNext, T!Commit
      <3>. QED BY <3>4, <3>5
    <2>2. CASE Lock(h)
      <3>1. UNCHANGED <<head, synced>>
        BY <2>2 DEF Lock, dbVars, fileVars
      <3>2. answered' = answered \/ Answer(h)
        BY <2>2 DEF Lock
      <3>. QED BY <1>1, <2>0, <3>1, <3>2, ReplyStep DEF Answer
    <2>3. CASE Mark(h)
      BY <2>0, <2>3, ReplyStep DEF Mark, Answer, fileVars
    <2>4. CASE Sync(h)
      BY <1>0, <2>4, WholeRecords, PersistStep DEF Sync, Synced, dbVars
    <2>. QED BY <1>1, <1>7, <2>1, <2>2, <2>3, <2>4
             DEF Transact, Enter, Abort, FlushCheck, Write, WriteFails, SyncFails, MarkFails,
                 dbVars, fileVars
  <1>8. CASE UNCHANGED vars
    BY <1>1, <1>8 DEF vars, dbVars, fileVars
  <1>. QED BY <1>2, <1>3, <1>4, <1>5, <1>6, <1>7, <1>8 DEF Next, Start

\* The outbox, the file and its recovery implement the abstract trail: what is on disk grows,
\* never beyond what is committed, nothing of it is ever lost, and a caller is answered only for
\* what is on disk (state/mod.rs, transact and flush; audit.rs).
THEOREM LogImplementsTrail == ASSUME NoWaiterAtFault PROVE Spec => ImplementsAuditTrail
  <1>1. Init => T!TInit
    BY DEF Init, T!TInit
  <1>2. IInv /\ IInv' /\ [Next]_vars => [T!TNext]_(T!tvars)
    BY StepRefines
  <1>. QED BY <1>1, <1>2, InductiveInvariant, PTL DEF Spec, ImplementsAuditTrail, T!TSpec

-----------------------------------------------------------------------------
(* The server's transport events: its inductive invariant *)

Places == {"NONE", "PENDING", "ARRIVED", "HOLDER", "AWAITING", "ESTABLISHED", "REQUEST",
           "WAITING", "VIOLATION"}
Jobs ==
    [kind : {"AUDIT"}, class : Classes, peer : {"NONE"}]
    \cup [kind : {"CONNECT", "DISPATCH"}, class : {"NONE"}, peer : Peers]
Buckets == [written : Nat, suppressed : Nat, over : BOOLEAN]
Tallies == [events : Nat, written : Nat, counted : Nat, lost : Nat]

ServerTypeOK ==
    /\ acceptor \in Classes \cup {"WAIT", "DONE"}
    /\ conn \in [Peers -> Places]
    /\ queue \in Seq(Jobs)
    /\ worker \in {"RUN", "WAKE", "DONE"}
    /\ parked \in SUBSET Peers
    /\ store \in {"OPEN", "POISONED"}
    /\ bucket \in [Classes -> Buckets]
    /\ tally \in [Classes -> Tallies]

\* While the server serves, what waits to be accepted is peers' connections, each once.
BacklogPends ==
    store = "OPEN" =>
        /\ backlog \in Seq(Peers)
        /\ \A i \in DOMAIN backlog : conn[backlog[i]] = "PENDING"
        /\ \A i, j \in DOMAIN backlog : backlog[i] = backlog[j] => i = j

\* A connection's thread waits for the one job it sent, in the queue or parked.
IsAwaited(job) == conn[job.peer] = (IF job.kind = "CONNECT" THEN "HOLDER" ELSE "WAITING")
JobsAreAwaited ==
    /\ \A i \in DOMAIN queue :
         queue[i].kind # "AUDIT" => IsAwaited(queue[i]) /\ queue[i].peer \notin parked
    /\ \A i, j \in DOMAIN queue :
         queue[i].kind # "AUDIT" /\ queue[j].kind # "AUDIT" /\ queue[i].peer = queue[j].peer
           => i = j
    /\ \A p \in parked : conn[p] = "WAITING"

\* The worker stops for the store alone, and takes its queue and its launches with it.
WorkerStops ==
    /\ worker = "RUN" => store = "OPEN"
    /\ worker # "RUN" => store = "POISONED"
    /\ worker = "DONE" => queue = <<>> /\ parked = {}

ServerInv ==
    /\ ServerTypeOK /\ BacklogPends /\ JobsAreAwaited /\ WorkerStops
    /\ EventsAreAccounted

-----------------------------------------------------------------------------
(* Counting *)

LEMMA ReportsFinite ==
  ASSUME NEW q \in Seq(Jobs), NEW k \in Classes
  PROVE  /\ IsFiniteSet(Reports(q, k)) /\ Cardinality(Reports(q, k)) \in Nat
         /\ Reports(q, k) \subseteq 1 .. Len(q)
  <1>1. DOMAIN q = 1 .. Len(q) /\ Len(q) \in Nat
    OBVIOUS
  <1>2. IsFiniteSet(1 .. Len(q))
    BY <1>1, FS_Interval
  <1>3. Reports(q, k) \subseteq 1 .. Len(q)
    BY <1>1 DEF Reports
  <1>. QED BY <1>2, <1>3, FS_Subset, FS_CardinalityType

\* A job that is sent adds itself to the reports in the queue, if it is one.
LEMMA AppendCounts ==
  ASSUME NEW q \in Seq(Jobs), NEW job \in Jobs, NEW k \in Classes
  PROVE  Cardinality(Reports(Append(q, job), k)) =
           Cardinality(Reports(q, k)) + (IF job.kind = "AUDIT" /\ job.class = k THEN 1 ELSE 0)
  <1>. DEFINE n == Len(q) + 1
              a == Append(q, job)
  <1>1. /\ Len(q) \in Nat /\ DOMAIN q = 1 .. Len(q) /\ DOMAIN a = 1 .. n
        /\ a[n] = job /\ \A i \in 1 .. Len(q) : a[i] = q[i]
    OBVIOUS
  <1>2. /\ IsFiniteSet(Reports(q, k)) /\ Cardinality(Reports(q, k)) \in Nat
        /\ Reports(q, k) \subseteq 1 .. Len(q)
    BY ReportsFinite
  <1>3. CASE job.kind = "AUDIT" /\ job.class = k
    <2>1. Reports(a, k) = Reports(q, k) \cup {n}
      <3>. HIDE DEF a
      <3>. QED BY <1>1, <1>3 DEF Reports
    <2>2. n \notin Reports(q, k)
      BY <1>1, <1>2
    <2>. QED BY <1>2, <1>3, <2>1, <2>2, FS_AddElement
  <1>4. CASE ~(job.kind = "AUDIT" /\ job.class = k)
    <2>1. Reports(a, k) = Reports(q, k)
      <3>. HIDE DEF a
      <3>. QED BY <1>1, <1>4 DEF Reports
    <2>. QED BY <1>2, <1>4, <2>1
  <1>. QED BY <1>3, <1>4

\* A job that is taken takes itself from the reports in the queue, if it is one.
LEMMA TailCounts ==
  ASSUME NEW q \in Seq(Jobs), q # <<>>, NEW k \in Classes
  PROVE  Cardinality(Reports(q, k)) =
           Cardinality(Reports(Tail(q), k))
             + (IF Head(q).kind = "AUDIT" /\ Head(q).class = k THEN 1 ELSE 0)
  <1>. DEFINE t == Tail(q)
              later == Reports(q, k) \ {1}
  <1>1. /\ Len(q) \in Nat /\ DOMAIN q = 1 .. Len(q) /\ Len(q) >= 1
        /\ t \in Seq(Jobs) /\ Len(t) = Len(q) - 1 /\ DOMAIN t = 1 .. Len(q) - 1
        /\ Head(q) = q[1] /\ \A i \in 1 .. Len(q) - 1 : t[i] = q[i + 1]
    OBVIOUS
  <1>2. IsFiniteSet(Reports(q, k)) /\ Cardinality(Reports(q, k)) \in Nat
    BY ReportsFinite
  <1>3. IsFiniteSet(Reports(t, k)) /\ Cardinality(Reports(t, k)) \in Nat
    BY <1>1, ReportsFinite
  <1>4. Cardinality(later) = Cardinality(Reports(t, k))
    <2>. DEFINE f == [i \in Reports(t, k) |-> i + 1]
    <2>0. Reports(t, k) \subseteq 1 .. Len(q) - 1 /\ Reports(q, k) \subseteq 1 .. Len(q)
      <3>. HIDE DEF t
      <3>. QED BY <1>1 DEF Reports
    <2>1. f \in [Reports(t, k) -> later]
      <3>1. \A i \in Reports(t, k) : i + 1 \in later
        <4>. HIDE DEF t
        <4>. QED BY <1>1, <2>0 DEF Reports
      <3>. QED BY <3>1
    <2>2. \A i, j \in Reports(t, k) : f[i] = f[j] => i = j
      <3>. HIDE DEF t
      <3>. QED BY <2>0, <1>1
    <2>3. \A j \in later : \E i \in Reports(t, k) : f[i] = j
      <3>1. SUFFICES ASSUME NEW j \in later PROVE j - 1 \in Reports(t, k) /\ f[j - 1] = j
        OBVIOUS
      <3>2. j \in 2 .. Len(q) /\ q[j].kind = "AUDIT" /\ q[j].class = k
        BY <1>1, <2>0 DEF Reports
      <3>3. j - 1 \in 1 .. Len(q) - 1 /\ t[j - 1] = q[j]
        <4>. HIDE DEF t
        <4>. QED BY <1>1, <3>2
      <3>4. j - 1 \in Reports(t, k)
        <4>. HIDE DEF t
        <4>. QED BY <1>1, <3>2, <3>3 DEF Reports
      <3>. QED BY <3>2, <3>4
    <2>4. f \in Bijection(Reports(t, k), later)
      <3>. HIDE DEF f, t, later
      <3>. QED BY <2>1, <2>2, <2>3 DEF Bijection, Injection, Surjection, IsInjective
    <2>5. ExistsBijection(Reports(t, k), later)
      <3>. HIDE DEF f
      <3>. QED BY <2>4 DEF ExistsBijection
    <2>. QED BY <1>3, <2>5, FS_Bijection
  <1>5. Cardinality(later) =
          IF 1 \in Reports(q, k) THEN Cardinality(Reports(q, k)) - 1 ELSE Cardinality(Reports(q, k))
    BY <1>2, FS_RemoveElement
  <1>6. 1 \in Reports(q, k) <=> Head(q).kind = "AUDIT" /\ Head(q).class = k
    BY <1>1 DEF Reports
  <1>. QED BY <1>2, <1>3, <1>4, <1>5, <1>6

\* A connection that moves is in violation after it, or not, and nothing else changes.
Violating(c) == {p \in Peers : c[p] = "VIOLATION"}

LEMMA ViolatingFinite ==
  ASSUME ServerConstants, NEW c
  PROVE  IsFiniteSet(Violating(c)) /\ Cardinality(Violating(c)) \in Nat
  <1>1. Violating(c) \subseteq Peers
    BY DEF Violating
  <1>. QED BY <1>1, FS_Subset, FS_CardinalityType DEF ServerConstants

LEMMA EntersViolation ==
  ASSUME ServerConstants, NEW c \in [Peers -> Places], NEW p \in Peers, c[p] # "VIOLATION"
  PROVE  Cardinality(Violating([c EXCEPT ![p] = "VIOLATION"])) = Cardinality(Violating(c)) + 1
  <1>1. Violating([c EXCEPT ![p] = "VIOLATION"]) = Violating(c) \cup {p} /\ p \notin Violating(c)
    BY DEF Violating
  <1>. QED BY <1>1, ViolatingFinite, FS_AddElement

LEMMA LeavesViolation ==
  ASSUME ServerConstants, NEW c \in [Peers -> Places], NEW p \in Peers, c[p] = "VIOLATION"
  PROVE  Cardinality(Violating([c EXCEPT ![p] = "NONE"])) = Cardinality(Violating(c)) - 1
  <1>1. Violating([c EXCEPT ![p] = "NONE"]) = Violating(c) \ {p} /\ p \in Violating(c)
    BY DEF Violating
  <1>. QED BY <1>1, ViolatingFinite, FS_RemoveElement

\* Where an event is: told, on the record or lost; withheld in its window; or on its way.
Told(k) == tally[k].written + tally[k].counted + tally[k].lost
AtAcceptor(k) == IF acceptor = k THEN 1 ELSE 0
AtPeers(k) == IF k = "PROTOCOL" THEN Cardinality(Violating(conn)) ELSE 0
InBound(b) == b.written <= PerWindow /\ (b.suppressed > 0 => b.written = PerWindow)
Accounted(k) ==
    /\ tally[k].events = Told(k) + bucket[k].suppressed + InQueue(k) + AtAcceptor(k) + AtPeers(k)
    /\ InBound(bucket[k])

LEMMA AccountsAre == EventsAreAccounted <=> \A k \in Classes : Accounted(k)
  BY DEF EventsAreAccounted, Accounted, Told, AtAcceptor, AtPeers, InBound, Violating

LEMMA AccountsNext == EventsAreAccounted' <=> \A k \in Classes : Accounted(k)'
  BY DEF EventsAreAccounted, Accounted, Told, AtAcceptor, AtPeers, InBound, Violating

LEMMA AccountTypes ==
  ASSUME ServerConstants, ServerTypeOK, NEW k \in Classes
  PROVE  /\ tally[k] \in Tallies /\ bucket[k] \in Buckets
         /\ Told(k) \in Nat /\ InQueue(k) \in Nat /\ AtAcceptor(k) \in Nat /\ AtPeers(k) \in Nat
  <1>1. tally[k] \in Tallies /\ bucket[k] \in Buckets
    BY DEF ServerTypeOK
  <1>2. InQueue(k) \in Nat
    BY ReportsFinite DEF ServerTypeOK, InQueue
  <1>3. AtPeers(k) \in Nat
    BY ViolatingFinite DEF AtPeers
  <1>. QED BY <1>1, <1>2, <1>3 DEF Told, AtAcceptor, Tallies

\* What tells nothing, and moves no event, keeps the account.
LEMMA AccountKept ==
  ASSUME ServerInv, UNCHANGED <<tally, bucket>>, \A k \in Classes : InQueue(k)' = InQueue(k),
         \A k \in Classes : AtAcceptor(k)' = AtAcceptor(k), Violating(conn') = Violating(conn)
  PROVE  EventsAreAccounted'
  <1>1. \A k \in Classes : Accounted(k)
    BY AccountsAre DEF ServerInv
  <1>2. \A k \in Classes : Told(k)' = Told(k) /\ AtPeers(k)' = AtPeers(k)
    BY DEF Told, AtPeers
  <1>3. SUFFICES ASSUME NEW k \in Classes PROVE Accounted(k)'
    BY AccountsNext
  <1>. QED BY <1>1, <1>2 DEF Accounted

\* A connection that neither was nor is in violation leaves the count as it was.
LEMMA ViolatingKept ==
  ASSUME \A p \in Peers : conn'[p] = "VIOLATION" <=> conn[p] = "VIOLATION"
  PROVE  Violating(conn') = Violating(conn)
  BY DEF Violating

-----------------------------------------------------------------------------
(* What a step leaves alone *)

LEMMA BacklogKept ==
  ASSUME ServerTypeOK, BacklogPends, backlog' = backlog, store' = "OPEN" => store = "OPEN",
         \A p \in Peers : conn[p] = "PENDING" => conn'[p] = "PENDING"
  PROVE  BacklogPends'
  BY DEF BacklogPends

LEMMA AwaitedKept ==
  ASSUME ServerTypeOK, JobsAreAwaited, queue' = queue, parked' = parked,
         \A p \in Peers : conn[p] \in {"HOLDER", "WAITING"} => conn'[p] = conn[p]
  PROVE  JobsAreAwaited'
  <1>1. \A i \in DOMAIN queue : queue[i] \in Jobs
    BY DEF ServerTypeOK
  <1>2. \A i \in DOMAIN queue : queue[i].kind # "AUDIT" => queue[i].peer \in Peers
    BY <1>1 DEF Jobs
  <1>3. ASSUME NEW i \in DOMAIN queue, queue[i].kind # "AUDIT" PROVE IsAwaited(queue[i])'
    BY <1>2, <1>3 DEF JobsAreAwaited, IsAwaited
  <1>4. \A p \in parked : conn'[p] = "WAITING"
    BY DEF JobsAreAwaited, ServerTypeOK
  <1>. QED BY <1>3, <1>4 DEF JobsAreAwaited

LEMMA WorkerKept ==
  ASSUME WorkerStops, UNCHANGED <<worker, store>>, worker = "DONE" => UNCHANGED <<queue, parked>>
  PROVE  WorkerStops'
  BY DEF WorkerStops

-----------------------------------------------------------------------------
(* accept *)

LEMMA ServerInitInv == ASSUME ServerConstants PROVE ServerInit => ServerInv
  <1>. SUFFICES ASSUME ServerInit PROVE ServerInv
    OBVIOUS
  <1>1. ServerTypeOK /\ BacklogPends /\ JobsAreAwaited /\ WorkerStops
    <2>1. queue = <<>> /\ backlog = <<>> /\ queue \in Seq(Jobs) /\ backlog \in Seq(Peers)
      BY DEF ServerInit
    <2>2. DOMAIN queue = {} /\ DOMAIN backlog = {}
      BY <2>1
    <2>. QED BY <2>1, <2>2 DEF ServerInit, ServerTypeOK, BacklogPends, JobsAreAwaited, WorkerStops,
                 Places, Buckets, Tallies, Classes, NoBucket
  <1>2. ASSUME NEW k \in Classes PROVE Accounted(k)
    <2>1. Reports(queue, k) = {} /\ Violating(conn) = {}
      BY DEF ServerInit, Reports, Violating
    <2>2. InQueue(k) = 0 /\ AtPeers(k) = 0
      BY <2>1, FS_EmptySet DEF InQueue, AtPeers
    <2>3. AtAcceptor(k) = 0
      BY DEF AtAcceptor, ServerInit, Classes
    <2>. QED BY <2>2, <2>3 DEF Accounted, Told, InBound, ServerInit, NoBucket, ServerConstants
  <1>. QED BY <1>1, <1>2, AccountsAre DEF ServerInv

LEMMA ConnectInv ==
  ASSUME ServerConstants, ServerInv, NEW p \in Peers, Connect(p) PROVE ServerInv'
  <1>. USE DEF ServerInv
  <1>1. /\ conn \in [Peers -> Places] /\ conn[p] = "NONE"
        /\ conn' = [conn EXCEPT ![p] = "PENDING"] /\ backlog' = Append(backlog, p)
        /\ UNCHANGED <<acceptor, queue, worker, parked, store, bucket, tally>>
    BY DEF Connect, ServerTypeOK
  <1>2. ServerTypeOK'
    BY <1>1 DEF ServerTypeOK, Places
  <1>3. BacklogPends'
    <2>1. SUFFICES ASSUME store = "OPEN"
                   PROVE  /\ backlog' \in Seq(Peers)
                          /\ \A i \in DOMAIN backlog' : conn'[backlog'[i]] = "PENDING"
                          /\ \A i, j \in DOMAIN backlog' : backlog'[i] = backlog'[j] => i = j
      BY <1>1 DEF BacklogPends
    <2>2. /\ backlog \in Seq(Peers) /\ \A i \in DOMAIN backlog : conn[backlog[i]] = "PENDING"
          /\ \A i, j \in DOMAIN backlog : backlog[i] = backlog[j] => i = j
      BY <2>1 DEF BacklogPends
    <2>3. /\ DOMAIN backlog = 1 .. Len(backlog) /\ DOMAIN backlog' = 1 .. Len(backlog) + 1
          /\ Len(backlog) \in Nat /\ backlog' \in Seq(Peers)
          /\ \A i \in DOMAIN backlog : backlog'[i] = backlog[i] /\ backlog[i] \in Peers
          /\ backlog'[Len(backlog) + 1] = p
      BY <1>1, <2>2
    <2>4. \A i \in DOMAIN backlog : backlog[i] # p
      BY <1>1, <2>2
    <2>. QED BY <1>1, <2>2, <2>3, <2>4
  <1>4. JobsAreAwaited'
    BY <1>1, AwaitedKept
  <1>5. WorkerStops'
    BY <1>1, WorkerKept
  <1>6. EventsAreAccounted'
    <2>1. Violating(conn') = Violating(conn)
      BY <1>1, ViolatingKept
    <2>. QED BY <1>1, <2>1, AccountKept DEF InQueue, AtAcceptor
  <1>. QED BY <1>2, <1>3, <1>4, <1>5, <1>6

\* What is accepted is a peer that waits, once.
LEMMA Accepted ==
  ASSUME ServerInv, store = "OPEN", backlog # <<>>
  PROVE  /\ Head(backlog) \in Peers /\ conn[Head(backlog)] = "PENDING"
         /\ \A at \in Places :
              conn' = [conn EXCEPT ![Head(backlog)] = at] /\ backlog' = Tail(backlog) => BacklogPends'
  <1>1. /\ backlog \in Seq(Peers) /\ \A i \in DOMAIN backlog : conn[backlog[i]] = "PENDING"
        /\ \A i, j \in DOMAIN backlog : backlog[i] = backlog[j] => i = j
        /\ conn \in [Peers -> Places]
    BY DEF ServerInv, BacklogPends, ServerTypeOK
  <1>2. /\ DOMAIN backlog = 1 .. Len(backlog) /\ Len(backlog) \in Nat /\ Len(backlog) >= 1
        /\ Tail(backlog) \in Seq(Peers) /\ DOMAIN Tail(backlog) = 1 .. Len(backlog) - 1
        /\ \A i \in 1 .. Len(backlog) - 1 : Tail(backlog)[i] = backlog[i + 1]
        /\ Head(backlog) = backlog[1] /\ \A i \in DOMAIN backlog : backlog[i] \in Peers
    BY <1>1
  <1>3. Head(backlog) \in Peers /\ conn[Head(backlog)] = "PENDING"
    BY <1>1, <1>2
  <1>4. ASSUME NEW at \in Places, conn' = [conn EXCEPT ![Head(backlog)] = at],
               backlog' = Tail(backlog)
        PROVE  BacklogPends'
    <2>1. \A i \in 1 .. Len(backlog) - 1 :
            /\ i + 1 \in DOMAIN backlog /\ backlog'[i] = backlog[i + 1]
            /\ backlog[i + 1] # backlog[1] /\ backlog[i + 1] \in Peers
      BY <1>1, <1>2, <1>4
    <2>2. \A i \in DOMAIN backlog' : conn'[backlog'[i]] = "PENDING"
      BY <1>1, <1>2, <1>4, <2>1
    <2>3. ASSUME NEW i \in DOMAIN backlog', NEW j \in DOMAIN backlog', backlog'[i] = backlog'[j]
          PROVE  i = j
      <3>1. i \in 1 .. Len(backlog) - 1 /\ j \in 1 .. Len(backlog) - 1
        BY <1>2, <1>4
      <3>2. i + 1 = j + 1
        BY <1>1, <2>1, <2>3, <3>1
      <3>. QED BY <3>1, <3>2
    <2>. QED BY <1>2, <1>4, <2>2, <2>3 DEF BacklogPends
  <1>. QED BY <1>3, <1>4

\* A connection refused with a record to send: the event is the acceptor's.
LEMMA RefusalCounts ==
  ASSUME ServerConstants, ServerInv, acceptor = "WAIT", NEW k \in Classes, acceptor' = k, Happens(k),
         UNCHANGED <<queue, bucket>>, Violating(conn') = Violating(conn)
  PROVE  tally' \in [Classes -> Tallies] /\ EventsAreAccounted'
  <1>1. tally \in [Classes -> Tallies]
    BY DEF ServerInv, ServerTypeOK
  <1>2. /\ tally' \in [Classes -> Tallies]
        /\ \A c \in Classes : /\ Told(c)' = Told(c)
                              /\ tally'[c].events = tally[c].events + (IF c = k THEN 1 ELSE 0)
    BY <1>1 DEF Happens, Told, Tallies
  <1>3. ASSUME NEW c \in Classes PROVE Accounted(c)'
    <2>1. InQueue(c)' = InQueue(c) /\ AtPeers(c)' = AtPeers(c)
      BY DEF InQueue, AtPeers
    <2>2. AtAcceptor(c) = 0 /\ AtAcceptor(c)' = IF c = k THEN 1 ELSE 0
      BY DEF AtAcceptor, Classes
    <2>3. Accounted(c)
      BY AccountsAre DEF ServerInv
    <2>4. /\ Told(c) \in Nat /\ InQueue(c) \in Nat /\ AtPeers(c) \in Nat
          /\ bucket[c].suppressed \in Nat
      BY AccountTypes DEF ServerInv, Buckets
    <2>. QED BY <1>2, <2>1, <2>2, <2>3, <2>4 DEF Accounted
  <1>. QED BY <1>2, <1>3, AccountsNext

LEMMA AcceptInv == ASSUME ServerConstants, ServerInv, Accept \/ AcceptFails PROVE ServerInv'
  <1>. USE DEF ServerInv
  <1>. DEFINE p == Head(backlog)
  <1>1. /\ acceptor = "WAIT" /\ backlog # <<>> /\ store = "OPEN"
        /\ backlog' = Tail(backlog) /\ UNCHANGED <<queue, worker, parked, store, bucket>>
    BY DEF Accept, AcceptFails, Stopping, ServerTypeOK
  <1>2. PICK at \in {"ARRIVED", "NONE"} : conn' = [conn EXCEPT ![p] = at]
    BY DEF Accept, AcceptFails
  <1>3. UNCHANGED <<acceptor, tally>> \/ \E k \in Classes : acceptor' = k /\ Happens(k)
    BY DEF Accept, AcceptFails, Refusal, Classes
  <1>4. /\ p \in Peers /\ conn[p] = "PENDING" /\ conn \in [Peers -> Places]
        /\ BacklogPends'
    BY <1>1, <1>2, Accepted DEF ServerTypeOK, Places
  <1>. HIDE DEF p
  <1>5. conn' \in [Peers -> Places] /\ Violating(conn') = Violating(conn)
    BY <1>2, <1>4 DEF Places, Violating
  <1>6. JobsAreAwaited'
    BY <1>1, <1>2, <1>4, AwaitedKept
  <1>7. WorkerStops'
    BY <1>1, WorkerKept
  <1>8. CASE UNCHANGED <<acceptor, tally>>
    <2>1. ServerTypeOK'
      BY <1>1, <1>5, <1>8 DEF ServerTypeOK
    <2>2. EventsAreAccounted'
      BY <1>1, <1>5, <1>8, AccountKept DEF InQueue, AtAcceptor
    <2>. QED BY <1>4, <1>6, <1>7, <2>1, <2>2
  <1>9. ASSUME NEW k \in Classes, acceptor' = k, Happens(k) PROVE ServerInv'
    <2>1. tally' \in [Classes -> Tallies] /\ EventsAreAccounted'
      BY <1>1, <1>5, <1>9, RefusalCounts
    <2>2. ServerTypeOK'
      BY <1>1, <1>5, <1>9, <2>1 DEF ServerTypeOK
    <2>. QED BY <1>4, <1>6, <1>7, <2>1, <2>2
  <1>. QED BY <1>3, <1>8, <1>9

LEMMA AcceptorReturnsInv == ASSUME ServerConstants, ServerInv, AcceptorReturns PROVE ServerInv'
  <1>. USE DEF ServerInv
  <1>1. /\ acceptor = "WAIT" /\ store = "POISONED" /\ acceptor' = "DONE"
        /\ conn' = [p \in Peers |-> IF conn[p] = "PENDING" THEN "NONE" ELSE conn[p]]
        /\ UNCHANGED <<queue, worker, parked, store, bucket, tally>>
    BY DEF AcceptorReturns, Stopping
  <1>2. conn \in [Peers -> Places] /\ conn' \in [Peers -> Places]
    BY <1>1 DEF ServerTypeOK, Places
  <1>3. ServerTypeOK'
    BY <1>1, <1>2 DEF ServerTypeOK
  <1>4. BacklogPends'
    BY <1>1 DEF BacklogPends
  <1>5. JobsAreAwaited'
    BY <1>1, AwaitedKept
  <1>6. WorkerStops'
    BY <1>1, WorkerKept
  <1>7. EventsAreAccounted'
    <2>1. Violating(conn') = Violating(conn)
      BY <1>1, ViolatingKept
    <2>. QED BY <1>1, <2>1, AccountKept DEF InQueue, AtAcceptor, Classes
  <1>. QED BY <1>3, <1>4, <1>5, <1>6, <1>7

-----------------------------------------------------------------------------
(* The jobs that are sent *)

LEMMA SentCounts ==
  ASSUME ServerInv, NEW job \in Jobs, Sends(job)
  PROVE  /\ queue' \in Seq(Jobs) /\ (worker = "DONE" => queue' = queue)
         /\ \A k \in Classes :
              InQueue(k)' = InQueue(k)
                + (IF worker # "DONE" /\ job.kind = "AUDIT" /\ job.class = k THEN 1 ELSE 0)
  <1>1. queue \in Seq(Jobs)
    BY DEF ServerInv, ServerTypeOK
  <1>2. \A k \in Classes : InQueue(k) \in Nat
    BY <1>1, ReportsFinite DEF InQueue
  <1>3. CASE worker # "DONE" /\ queue' = Append(queue, job)
    BY <1>1, <1>3, AppendCounts DEF InQueue
  <1>4. CASE worker = "DONE" /\ queue' = queue
    BY <1>1, <1>2, <1>4 DEF InQueue
  <1>. QED BY <1>3, <1>4 DEF Sends

\* A report is nobody's to wait for.
LEMMA ReportAwaited ==
  ASSUME ServerInv, NEW job \in Jobs, job.kind = "AUDIT", Sends(job), parked' = parked,
         \A p \in Peers : conn[p] \in {"HOLDER", "WAITING"} => conn'[p] = conn[p]
  PROVE  JobsAreAwaited'
  <1>1. ServerTypeOK /\ JobsAreAwaited /\ queue \in Seq(Jobs)
    BY DEF ServerInv, ServerTypeOK
  <1>2. CASE queue' = queue
    BY <1>1, <1>2, AwaitedKept
  <1>3. CASE queue' = Append(queue, job)
    <2>1. /\ DOMAIN queue = 1 .. Len(queue) /\ DOMAIN queue' = 1 .. Len(queue) + 1
          /\ Len(queue) \in Nat /\ queue'[Len(queue) + 1] = job
          /\ \A i \in DOMAIN queue : queue'[i] = queue[i] /\ queue[i] \in Jobs
      BY <1>1, <1>3
    <2>2. \A i \in DOMAIN queue' : queue'[i].kind # "AUDIT" => i \in DOMAIN queue
      BY <2>1
    <2>3. \A i \in DOMAIN queue : queue[i].kind # "AUDIT" => queue[i].peer \in Peers
      BY <2>1 DEF Jobs
    <2>4. ASSUME NEW i \in DOMAIN queue', queue'[i].kind # "AUDIT"
          PROVE  IsAwaited(queue[i])' /\ queue'[i].peer \notin parked'
      BY <1>1, <2>1, <2>2, <2>3, <2>4 DEF JobsAreAwaited, IsAwaited
    <2>5. ASSUME NEW i \in DOMAIN queue', NEW j \in DOMAIN queue', queue'[i].kind # "AUDIT",
                 queue'[j].kind # "AUDIT", queue'[i].peer = queue'[j].peer
          PROVE  i = j
      BY <1>1, <2>1, <2>2, <2>5 DEF JobsAreAwaited
    <2>6. \A p \in parked' : conn'[p] = "WAITING"
      BY <1>1 DEF JobsAreAwaited, ServerTypeOK
    <2>. QED BY <2>1, <2>4, <2>5, <2>6 DEF JobsAreAwaited, IsAwaited
  <1>. QED BY <1>2, <1>3 DEF Sends

LEMMA AcceptorAuditsInv == ASSUME ServerConstants, ServerInv, AcceptorAudits PROVE ServerInv'
  <1>. USE DEF ServerInv
  <1>. DEFINE job == [kind |-> "AUDIT", class |-> acceptor, peer |-> "NONE"]
  <1>1. /\ acceptor \in Classes /\ acceptor' = "WAIT" /\ Sends(job)
        /\ tally' = [tally EXCEPT ![acceptor].lost = IF worker = "DONE" THEN @ + 1 ELSE @]
        /\ UNCHANGED <<backlog, conn, worker, parked, store, bucket>>
    BY DEF AcceptorAudits
  <1>2. job \in Jobs /\ job.kind = "AUDIT" /\ job.class = acceptor
    BY <1>1 DEF Jobs
  <1>. HIDE DEF job
  <1>3. /\ queue' \in Seq(Jobs) /\ (worker = "DONE" => queue' = queue)
        /\ \A k \in Classes :
             InQueue(k)' = InQueue(k) + (IF worker # "DONE" /\ acceptor = k THEN 1 ELSE 0)
    BY <1>1, <1>2, SentCounts
  <1>4. /\ tally' \in [Classes -> Tallies]
        /\ \A k \in Classes :
             /\ tally'[k].events = tally[k].events
             /\ Told(k)' = Told(k) + (IF worker = "DONE" /\ acceptor = k THEN 1 ELSE 0)
    <2>1. tally \in [Classes -> Tallies]
      BY DEF ServerTypeOK
    <2>. QED BY <1>1, <2>1 DEF Told, Tallies
  <1>5. ServerTypeOK'
    BY <1>1, <1>3, <1>4 DEF ServerTypeOK
  <1>6. BacklogPends' /\ JobsAreAwaited' /\ WorkerStops'
    BY <1>1, <1>2, <1>3, BacklogKept, ReportAwaited, WorkerKept
  <1>7. ASSUME NEW k \in Classes PROVE Accounted(k)'
    <2>1. Accounted(k)
      BY AccountsAre
    <2>2. AtPeers(k)' = AtPeers(k) /\ AtAcceptor(k)' = 0
      BY <1>1 DEF AtPeers, AtAcceptor, Classes
    <2>3. /\ Told(k) \in Nat /\ InQueue(k) \in Nat /\ AtPeers(k) \in Nat
          /\ bucket[k].suppressed \in Nat
      BY AccountTypes DEF Buckets
    <2>4. InQueue(k)' + Told(k)' = InQueue(k) + Told(k) + AtAcceptor(k)
      BY <1>3, <1>4, <2>3 DEF AtAcceptor
    <2>5. Told(k)' \in Nat /\ InQueue(k)' \in Nat
      BY <1>3, <1>4, <2>3
    <2>6. AtAcceptor(k) \in Nat
      BY DEF AtAcceptor
    <2>7. bucket'[k] = bucket[k] /\ tally'[k].events = tally[k].events
      BY <1>1, <1>4
    <2>. QED BY <2>1, <2>2, <2>3, <2>4, <2>5, <2>6, <2>7 DEF Accounted, InBound
  <1>. QED BY <1>5, <1>6, <1>7, AccountsNext

\* serve and dispatch: a thread that waits for the job it sends.
LEMMA AsksInv ==
  ASSUME ServerConstants, ServerInv, NEW p \in Peers, AskHolder(p) \/ Dispatch(p) PROVE ServerInv'
  <1>. USE DEF ServerInv
  <1>1. PICK job \in Jobs :
          /\ job.kind # "AUDIT" /\ job.peer = p /\ Sends(job)
          /\ conn' = [conn EXCEPT ![p] = IF job.kind = "CONNECT" THEN "HOLDER" ELSE "WAITING"]
          /\ conn[p] \in {"ARRIVED", "REQUEST"}
          /\ UNCHANGED <<backlog, acceptor, worker, parked, store, bucket, tally>>
    <2>1. CASE AskHolder(p)
      <3>1. [kind |-> "CONNECT", class |-> "NONE", peer |-> p] \in Jobs
        BY DEF Jobs
      <3>. QED BY <2>1, <3>1 DEF AskHolder, Goto
    <2>2. CASE Dispatch(p)
      <3>1. [kind |-> "DISPATCH", class |-> "NONE", peer |-> p] \in Jobs
        BY DEF Jobs
      <3>. QED BY <2>2, <3>1 DEF Dispatch, Goto
    <2>. QED BY <2>1, <2>2
  <1>2. conn \in [Peers -> Places] /\ conn' \in [Peers -> Places] /\ queue \in Seq(Jobs)
    BY <1>1 DEF ServerTypeOK, Places
  <1>3. /\ queue' \in Seq(Jobs) /\ (worker = "DONE" => queue' = queue)
        /\ \A k \in Classes : InQueue(k)' = InQueue(k)
    BY <1>1, SentCounts, AccountTypes
  <1>4. ServerTypeOK'
    BY <1>1, <1>2, <1>3 DEF ServerTypeOK
  <1>5. BacklogPends' /\ WorkerStops'
    BY <1>1, <1>2, <1>3, BacklogKept, WorkerKept
  <1>6. JobsAreAwaited'
    <2>1. CASE queue' = queue
      BY <1>1, <1>2, <2>1, AwaitedKept
    <2>2. CASE queue' = Append(queue, job)
      <3>1. /\ DOMAIN queue = 1 .. Len(queue) /\ DOMAIN queue' = 1 .. Len(queue) + 1
            /\ Len(queue) \in Nat /\ queue'[Len(queue) + 1] = job
            /\ \A i \in DOMAIN queue : queue'[i] = queue[i] /\ queue[i] \in Jobs
        BY <1>2, <2>2
      <3>2. \A i \in DOMAIN queue :
              queue[i].kind # "AUDIT" => /\ queue[i].peer \in Peers /\ queue[i].peer # p
                                         /\ conn'[queue[i].peer] = conn[queue[i].peer]
        BY <1>1, <1>2, <3>1 DEF Jobs, JobsAreAwaited, IsAwaited
      <3>3. p \notin parked /\ \A r \in parked : conn'[r] = "WAITING"
        BY <1>1, <1>2 DEF JobsAreAwaited, ServerTypeOK
      <3>4. ASSUME NEW i \in DOMAIN queue', queue'[i].kind # "AUDIT"
            PROVE  /\ queue'[i].peer \notin parked'
                   /\ conn'[queue'[i].peer] =
                        IF queue'[i].kind = "CONNECT" THEN "HOLDER" ELSE "WAITING"
        <4>1. CASE i \in DOMAIN queue
          BY <1>1, <3>1, <3>2, <3>4, <4>1 DEF JobsAreAwaited, IsAwaited
        <4>2. CASE i = Len(queue) + 1
          BY <1>1, <1>2, <3>1, <3>3, <4>2
        <4>. QED BY <3>1, <4>1, <4>2
      <3>5. ASSUME NEW i \in DOMAIN queue', NEW j \in DOMAIN queue', queue'[i].kind # "AUDIT",
                   queue'[j].kind # "AUDIT", queue'[i].peer = queue'[j].peer
            PROVE  i = j
        <4>1. CASE i \in DOMAIN queue /\ j \in DOMAIN queue
          BY <3>1, <3>5, <4>1 DEF JobsAreAwaited
        <4>2. CASE i = Len(queue) + 1 \/ j = Len(queue) + 1
          BY <1>1, <3>1, <3>2, <3>5, <4>2
        <4>. QED BY <3>1, <4>1, <4>2
      <3>. QED BY <1>1, <3>3, <3>4, <3>5 DEF JobsAreAwaited, IsAwaited
    <2>. QED BY <1>1, <2>1, <2>2 DEF Sends
  <1>7. EventsAreAccounted'
    <2>1. Violating(conn') = Violating(conn)
      BY <1>1, <1>2 DEF Violating
    <2>. QED BY <1>1, <1>3, <2>1, AccountKept DEF AtAcceptor
  <1>. QED BY <1>4, <1>5, <1>6, <1>7

LEMMA ConnectionAuditsInv ==
  ASSUME ServerConstants, ServerInv, NEW p \in Peers, ConnectionAudits(p) PROVE ServerInv'
  <1>. USE DEF ServerInv
  <1>. DEFINE job == [kind |-> "AUDIT", class |-> "PROTOCOL", peer |-> "NONE"]
  <1>1. /\ conn[p] = "VIOLATION" /\ conn' = [conn EXCEPT ![p] = "NONE"] /\ Sends(job)
        /\ tally' = [tally EXCEPT !["PROTOCOL"].lost = IF worker = "DONE" THEN @ + 1 ELSE @]
        /\ UNCHANGED <<backlog, acceptor, worker, parked, store, bucket>>
    BY DEF ConnectionAudits, Goto
  <1>2. job \in Jobs /\ job.kind = "AUDIT" /\ job.class = "PROTOCOL"
    BY DEF Jobs, Classes
  <1>. HIDE DEF job
  <1>3. /\ queue' \in Seq(Jobs) /\ (worker = "DONE" => queue' = queue)
        /\ \A k \in Classes :
             InQueue(k)' = InQueue(k) + (IF worker # "DONE" /\ k = "PROTOCOL" THEN 1 ELSE 0)
    BY <1>1, <1>2, SentCounts
  <1>4. conn \in [Peers -> Places] /\ conn' \in [Peers -> Places]
    BY <1>1 DEF ServerTypeOK, Places
  <1>5. /\ tally' \in [Classes -> Tallies]
        /\ \A k \in Classes :
             /\ tally'[k].events = tally[k].events
             /\ Told(k)' = Told(k) + (IF worker = "DONE" /\ k = "PROTOCOL" THEN 1 ELSE 0)
    <2>1. tally \in [Classes -> Tallies] /\ "PROTOCOL" \in Classes
      BY DEF ServerTypeOK, Classes
    <2>. QED BY <1>1, <2>1 DEF Told, Tallies
  <1>6. ServerTypeOK'
    BY <1>1, <1>3, <1>4, <1>5 DEF ServerTypeOK
  <1>7. BacklogPends' /\ JobsAreAwaited' /\ WorkerStops'
    BY <1>1, <1>2, <1>3, <1>4, BacklogKept, ReportAwaited, WorkerKept
  <1>8. ASSUME NEW k \in Classes PROVE Accounted(k)'
    <2>1. Accounted(k)
      BY AccountsAre
    <2>2. AtAcceptor(k)' = AtAcceptor(k)
      BY <1>1 DEF AtAcceptor
    <2>3. AtPeers(k)' = AtPeers(k) - (IF k = "PROTOCOL" THEN 1 ELSE 0)
      <3>1. Cardinality(Violating(conn')) = Cardinality(Violating(conn)) - 1
        BY <1>1, <1>4, LeavesViolation
      <3>. QED BY <3>1 DEF AtPeers
    <2>4. /\ Told(k) \in Nat /\ InQueue(k) \in Nat /\ AtPeers(k) \in Nat /\ AtAcceptor(k) \in Nat
          /\ bucket[k].suppressed \in Nat
      BY AccountTypes DEF Buckets
    <2>5. InQueue(k)' + Told(k)' + AtPeers(k)' = InQueue(k) + Told(k) + AtPeers(k)
      BY <1>3, <1>5, <2>3, <2>4
    <2>6. Told(k)' \in Nat /\ InQueue(k)' \in Nat /\ AtPeers(k)' \in Int
      BY <1>3, <1>5, <2>3, <2>4
    <2>7. bucket'[k] = bucket[k] /\ tally'[k].events = tally[k].events
      BY <1>1, <1>5
    <2>. QED BY <2>1, <2>2, <2>4, <2>5, <2>6, <2>7 DEF Accounted, InBound
  <1>. QED BY <1>6, <1>7, <1>8, AccountsNext

-----------------------------------------------------------------------------
(* Connection::run *)

\* A connection that goes from and to places where nobody waits for it, and no event is.
LEMMA MovesInv ==
  ASSUME ServerConstants, ServerInv, NEW p \in Peers, NEW at \in Places \ {"VIOLATION"},
         conn[p] \notin {"PENDING", "VIOLATION"}, conn' = [conn EXCEPT ![p] = at],
         conn[p] \notin {"HOLDER", "WAITING"} \/ (queue = <<>> /\ parked = {}),
         UNCHANGED <<backlog, acceptor, queue, worker, parked, store, bucket, tally>>
  PROVE  ServerInv'
  <1>. USE DEF ServerInv
  <1>1. conn \in [Peers -> Places] /\ conn' \in [Peers -> Places]
    BY DEF ServerTypeOK
  <1>2. ServerTypeOK'
    BY <1>1 DEF ServerTypeOK
  <1>3. BacklogPends' /\ WorkerStops'
    BY <1>1, BacklogKept, WorkerKept
  <1>4. JobsAreAwaited'
    <2>1. CASE conn[p] \notin {"HOLDER", "WAITING"}
      BY <1>1, <2>1, AwaitedKept
    <2>2. CASE queue = <<>> /\ parked = {}
      BY <2>2 DEF JobsAreAwaited
    <2>. QED BY <2>1, <2>2
  <1>5. EventsAreAccounted'
    <2>1. Violating(conn') = Violating(conn)
      BY <1>1 DEF Violating
    <2>. QED BY <2>1, AccountKept DEF InQueue, AtAcceptor
  <1>. QED BY <1>2, <1>3, <1>4, <1>5

LEMMA ReceiveInv ==
  ASSUME ServerConstants, ServerInv, NEW p \in Peers, Receive(p) PROVE ServerInv'
  <1>. USE DEF ServerInv
  <1>1. /\ conn[p] \in {"AWAITING", "ESTABLISHED"}
        /\ UNCHANGED <<backlog, acceptor, queue, worker, parked, store, bucket>>
    BY DEF Receive
  <1>2. \/ \E at \in {"ESTABLISHED", "REQUEST"} : conn' = [conn EXCEPT ![p] = at] /\ UNCHANGED tally
        \/ conn' = [conn EXCEPT ![p] = "VIOLATION"] /\ Happens("PROTOCOL")
    BY DEF Receive, Goto
  <1>3. ASSUME NEW at \in {"ESTABLISHED", "REQUEST"}, conn' = [conn EXCEPT ![p] = at], UNCHANGED tally
        PROVE  ServerInv'
    BY <1>1, <1>3, MovesInv DEF Places
  <1>4. CASE conn' = [conn EXCEPT ![p] = "VIOLATION"] /\ Happens("PROTOCOL")
    <2>1. conn \in [Peers -> Places] /\ conn' \in [Peers -> Places]
      BY <1>4 DEF ServerTypeOK, Places
    <2>2. /\ tally' \in [Classes -> Tallies]
          /\ \A k \in Classes :
               /\ Told(k)' = Told(k)
               /\ tally'[k].events = tally[k].events + (IF k = "PROTOCOL" THEN 1 ELSE 0)
      <3>1. tally \in [Classes -> Tallies] /\ "PROTOCOL" \in Classes
        BY DEF ServerTypeOK, Classes
      <3>. QED BY <1>4, <3>1 DEF Happens, Told, Tallies
    <2>3. ServerTypeOK'
      BY <1>1, <2>1, <2>2 DEF ServerTypeOK
    <2>4. BacklogPends' /\ JobsAreAwaited' /\ WorkerStops'
      BY <1>1, <1>4, <2>1, BacklogKept, AwaitedKept, WorkerKept
    <2>5. ASSUME NEW k \in Classes PROVE Accounted(k)'
      <3>1. Accounted(k)
        BY AccountsAre
      <3>2. InQueue(k)' = InQueue(k) /\ AtAcceptor(k)' = AtAcceptor(k)
        BY <1>1 DEF InQueue, AtAcceptor
      <3>3. Cardinality(Violating(conn')) = Cardinality(Violating(conn)) + 1
        BY <1>1, <1>4, <2>1, EntersViolation
      <3>4. AtPeers(k)' = AtPeers(k) + (IF k = "PROTOCOL" THEN 1 ELSE 0)
        BY <3>3 DEF AtPeers
      <3>5. /\ Told(k) \in Nat /\ InQueue(k) \in Nat /\ AtPeers(k) \in Nat /\ AtAcceptor(k) \in Nat
            /\ bucket[k].suppressed \in Nat
        BY AccountTypes DEF Buckets
      <3>. QED BY <1>1, <2>2, <3>1, <3>2, <3>4, <3>5 DEF Accounted, InBound
    <2>. QED BY <2>3, <2>4, <2>5, AccountsNext
  <1>. QED BY <1>2, <1>3, <1>4

LEMMA EndsInv ==
  ASSUME ServerConstants, ServerInv, NEW p \in Peers, Leaves(p) \/ Abandoned(p) PROVE ServerInv'
  <1>1. worker = "DONE" => queue = <<>> /\ parked = {}
    BY DEF ServerInv, WorkerStops
  <1>. QED BY <1>1, MovesInv DEF Leaves, Abandoned, Goto, Places

-----------------------------------------------------------------------------
(* Worker::run *)

\* A job the worker takes is its thread's only one.
LEMMA TakenCounts ==
  ASSUME ServerInv, queue # <<>>, queue' = Tail(queue)
  PROVE  /\ Head(queue) \in Jobs /\ queue' \in Seq(Jobs)
         /\ \A k \in Classes :
              InQueue(k) = InQueue(k)'
                + (IF Head(queue).kind = "AUDIT" /\ Head(queue).class = k THEN 1 ELSE 0)
         /\ \A k \in Classes : InQueue(k)' \in Nat
  <1>1. queue \in Seq(Jobs)
    BY DEF ServerInv, ServerTypeOK
  <1>2. Head(queue) \in Jobs /\ queue' \in Seq(Jobs)
    BY <1>1
  <1>. QED BY <1>1, <1>2, TailCounts, ReportsFinite DEF InQueue

LEMMA HeadIsAlone ==
  ASSUME ServerInv, queue # <<>>, Head(queue).kind # "AUDIT"
  PROVE  /\ Head(queue).peer \in Peers \ parked /\ IsAwaited(Head(queue))
         /\ \A i \in 2 .. Len(queue) :
              queue[i].kind # "AUDIT" => queue[i].peer \in Peers \ (parked \cup {Head(queue).peer})
  <1>1. queue \in Seq(Jobs) /\ JobsAreAwaited
    BY DEF ServerInv, ServerTypeOK
  <1>2. /\ DOMAIN queue = 1 .. Len(queue) /\ Len(queue) \in Nat /\ Len(queue) >= 1
        /\ Head(queue) = queue[1] /\ \A i \in DOMAIN queue : queue[i] \in Jobs
    BY <1>1
  <1>3. \A i \in DOMAIN queue : queue[i].kind # "AUDIT" => queue[i].peer \in Peers
    BY <1>2 DEF Jobs
  <1>. QED BY <1>1, <1>2, <1>3 DEF JobsAreAwaited

LEMMA TailAwaited ==
  ASSUME ServerInv, queue # <<>>, queue' = Tail(queue), \A p \in parked' : conn'[p] = "WAITING",
         \A i \in 2 .. Len(queue) :
           queue[i].kind # "AUDIT" => /\ conn'[queue[i].peer] = conn[queue[i].peer]
                                      /\ queue[i].peer \notin parked'
  PROVE  JobsAreAwaited'
  <1>1. queue \in Seq(Jobs) /\ JobsAreAwaited
    BY DEF ServerInv, ServerTypeOK
  <1>2. /\ DOMAIN queue = 1 .. Len(queue) /\ Len(queue) \in Nat /\ Len(queue) >= 1
        /\ DOMAIN queue' = 1 .. Len(queue) - 1
        /\ \A i \in 1 .. Len(queue) - 1 : queue'[i] = queue[i + 1] /\ i + 1 \in 2 .. Len(queue)
    BY <1>1
  <1>3. ASSUME NEW i \in DOMAIN queue', queue'[i].kind # "AUDIT"
        PROVE  /\ queue'[i].peer \notin parked'
               /\ conn'[queue'[i].peer] =
                    IF queue'[i].kind = "CONNECT" THEN "HOLDER" ELSE "WAITING"
    <2>1. i + 1 \in DOMAIN queue /\ i + 1 \in 2 .. Len(queue) /\ queue'[i] = queue[i + 1]
      BY <1>2
    <2>. QED BY <1>1, <1>3, <2>1 DEF JobsAreAwaited, IsAwaited
  <1>4. ASSUME NEW i \in DOMAIN queue', NEW j \in DOMAIN queue', queue'[i].kind # "AUDIT",
               queue'[j].kind # "AUDIT", queue'[i].peer = queue'[j].peer
        PROVE  i = j
    <2>1. /\ i + 1 \in DOMAIN queue /\ j + 1 \in DOMAIN queue
          /\ queue'[i] = queue[i + 1] /\ queue'[j] = queue[j + 1]
      BY <1>2
    <2>2. i + 1 = j + 1
      BY <1>1, <1>4, <2>1 DEF JobsAreAwaited
    <2>. QED BY <1>2, <2>2
  <1>. QED BY <1>3, <1>4 DEF JobsAreAwaited, IsAwaited

\* The loop's end is the store's.
LEMMA IteratesStops ==
  ASSUME ServerInv, worker = "RUN", Iterates, store' = store \/ Fails
  PROVE  /\ store' \in {"OPEN", "POISONED"} /\ worker' \in {"RUN", "WAKE", "DONE"}
         /\ WorkerStops' /\ (store' = "OPEN" => store = "OPEN")
  BY DEF ServerInv, WorkerStops, Iterates, Fails

\* A thread answered: its job, or its launch, is gone from where it waited.
LEMMA AnsweredInv ==
  ASSUME ServerConstants, ServerInv, NEW p \in Peers, NEW at \in {"AWAITING", "ESTABLISHED", "NONE"},
         conn[p] \in {"HOLDER", "WAITING"}, conn' = [conn EXCEPT ![p] = at],
         parked' \in SUBSET parked, queue' \in Seq(Jobs), \A k \in Classes : InQueue(k)' = InQueue(k),
         JobsAreAwaited', WorkerStops', store' \in {"OPEN", "POISONED"},
         worker' \in {"RUN", "WAKE", "DONE"}, store' = "OPEN" => store = "OPEN",
         UNCHANGED <<backlog, acceptor, bucket, tally>>
  PROVE  ServerInv'
  <1>. USE DEF ServerInv
  <1>1. conn \in [Peers -> Places] /\ conn' \in [Peers -> Places]
    BY DEF ServerTypeOK, Places
  <1>2. ServerTypeOK'
    BY <1>1 DEF ServerTypeOK
  <1>3. BacklogPends'
    BY <1>1, BacklogKept
  <1>4. EventsAreAccounted'
    <2>1. Violating(conn') = Violating(conn)
      BY <1>1 DEF Violating
    <2>. QED BY <2>1, AccountKept DEF AtAcceptor
  <1>. QED BY <1>2, <1>3, <1>4

LEMMA GiveHolderInv == ASSUME ServerConstants, ServerInv, GiveHolder PROVE ServerInv'
  <1>. DEFINE p == Head(queue).peer
  <1>1. /\ worker = "RUN" /\ queue # <<>> /\ Head(queue).kind = "CONNECT" /\ queue' = Tail(queue)
        /\ conn' = [conn EXCEPT ![p] = "AWAITING"]
        /\ UNCHANGED <<backlog, acceptor, worker, parked, store, bucket, tally>>
    BY DEF GiveHolder, Takes, Goto
  <1>2. /\ p \in Peers \ parked /\ conn[p] = "HOLDER"
        /\ \A i \in 2 .. Len(queue) : queue[i].kind # "AUDIT" => queue[i].peer \in Peers \ (parked \cup {p})
    BY <1>1, HeadIsAlone DEF IsAwaited
  <1>. HIDE DEF p
  <1>3. queue' \in Seq(Jobs) /\ \A k \in Classes : InQueue(k)' = InQueue(k)
    BY <1>1, TakenCounts
  <1>4. conn \in [Peers -> Places] /\ JobsAreAwaited /\ parked \in SUBSET Peers
    BY DEF ServerInv, ServerTypeOK
  <1>5. JobsAreAwaited'
    <2>1. \A r \in parked' : conn'[r] = "WAITING"
      BY <1>1, <1>2, <1>4 DEF JobsAreAwaited
    <2>. QED BY <1>1, <1>2, <1>4, <2>1, TailAwaited
  <1>6. WorkerStops' /\ worker' \in {"RUN", "WAKE", "DONE"} /\ store' \in {"OPEN", "POISONED"}
    BY <1>1 DEF ServerInv, ServerTypeOK, WorkerStops
  <1>. QED BY <1>1, <1>2, <1>3, <1>5, <1>6, AnsweredInv

LEMMA AnswerRequestInv == ASSUME ServerConstants, ServerInv, AnswerRequest PROVE ServerInv'
  <1>. DEFINE p == Head(queue).peer
  <1>1. /\ worker = "RUN" /\ queue # <<>> /\ Head(queue).kind = "DISPATCH" /\ queue' = Tail(queue)
        /\ Iterates /\ UNCHANGED <<backlog, acceptor, bucket, tally>>
    BY DEF AnswerRequest, Takes
  <1>2. /\ p \in Peers \ parked /\ conn[p] = "WAITING"
        /\ \A i \in 2 .. Len(queue) : queue[i].kind # "AUDIT" => queue[i].peer \in Peers \ (parked \cup {p})
    BY <1>1, HeadIsAlone DEF IsAwaited
  <1>3. \/ \E at \in {"ESTABLISHED", "NONE"} :
             conn' = [conn EXCEPT ![p] = at] /\ parked' = parked /\ (store' = store \/ Fails)
        \/ parked' = parked \cup {p} /\ UNCHANGED <<store, conn>>
    BY DEF AnswerRequest, Goto
  <1>. HIDE DEF p
  <1>4. queue' \in Seq(Jobs) /\ \A k \in Classes : InQueue(k)' = InQueue(k)
    BY <1>1, TakenCounts
  <1>5. /\ store' \in {"OPEN", "POISONED"} /\ worker' \in {"RUN", "WAKE", "DONE"}
        /\ WorkerStops' /\ (store' = "OPEN" => store = "OPEN")
    BY <1>1, <1>3, IteratesStops
  <1>6. conn \in [Peers -> Places] /\ JobsAreAwaited /\ parked \in SUBSET Peers
    BY DEF ServerInv, ServerTypeOK
  <1>7. ASSUME NEW at \in {"ESTABLISHED", "NONE"}, conn' = [conn EXCEPT ![p] = at], parked' = parked
        PROVE  ServerInv'
    <2>1. \A r \in parked' : conn'[r] = "WAITING"
      BY <1>2, <1>6, <1>7 DEF JobsAreAwaited
    <2>2. JobsAreAwaited'
      BY <1>1, <1>2, <1>6, <1>7, <2>1, TailAwaited
    <2>. QED BY <1>1, <1>2, <1>4, <1>5, <1>7, <2>2, AnsweredInv
  <1>8. CASE parked' = parked \cup {p} /\ UNCHANGED <<store, conn>>
    <2>1. JobsAreAwaited'
      <3>1. \A r \in parked' : conn'[r] = "WAITING"
        BY <1>2, <1>6, <1>8 DEF JobsAreAwaited
      <3>2. \A i \in 2 .. Len(queue) :
              queue[i].kind # "AUDIT" => /\ conn'[queue[i].peer] = conn[queue[i].peer]
                                         /\ queue[i].peer \notin parked'
        BY <1>2, <1>8
      <3>. QED BY <1>1, <3>1, <3>2, TailAwaited
    <2>2. ServerTypeOK'
      BY <1>1, <1>2, <1>4, <1>5, <1>6, <1>8 DEF ServerInv, ServerTypeOK
    <2>3. BacklogPends'
      BY <1>1, <1>8, BacklogKept DEF ServerInv
    <2>4. EventsAreAccounted'
      BY <1>1, <1>4, <1>8, AccountKept DEF AtAcceptor
    <2>. QED BY <1>5, <2>1, <2>2, <2>3, <2>4 DEF ServerInv
  <1>. QED BY <1>3, <1>7, <1>8

LEMMA CollectInv == ASSUME ServerConstants, ServerInv, Collect PROVE ServerInv'
  <1>1. /\ worker = "RUN" /\ Iterates /\ UNCHANGED <<backlog, acceptor, queue, bucket, tally>>
    BY DEF Collect
  <1>2. PICK p \in parked :
          /\ parked' = parked \ {p}
          /\ \E at \in {"ESTABLISHED", "NONE"} :
               conn' = [conn EXCEPT ![p] = at] /\ (store' = store \/ Fails)
    BY DEF Collect, Goto
  <1>3. PICK at \in {"ESTABLISHED", "NONE"} :
          conn' = [conn EXCEPT ![p] = at] /\ (store' = store \/ Fails)
    BY <1>2
  <1>4. /\ conn \in [Peers -> Places] /\ JobsAreAwaited /\ parked \in SUBSET Peers
        /\ queue \in Seq(Jobs) /\ p \in Peers /\ conn[p] = "WAITING"
    BY DEF ServerInv, ServerTypeOK, JobsAreAwaited
  <1>5. /\ store' \in {"OPEN", "POISONED"} /\ worker' \in {"RUN", "WAKE", "DONE"}
        /\ WorkerStops' /\ (store' = "OPEN" => store = "OPEN")
    BY <1>1, <1>3, IteratesStops
  <1>6. JobsAreAwaited'
    <2>1. \A i \in DOMAIN queue : queue[i] \in Jobs
      BY <1>4
    <2>2. \A i \in DOMAIN queue :
            queue[i].kind # "AUDIT" => queue[i].peer \in Peers \ {p} /\ queue[i].peer \notin parked'
      BY <1>2, <1>4, <2>1 DEF Jobs, JobsAreAwaited
    <2>3. \A r \in parked' : conn'[r] = "WAITING"
      BY <1>2, <1>3, <1>4 DEF JobsAreAwaited
    <2>4. ASSUME NEW i \in DOMAIN queue, queue[i].kind # "AUDIT" PROVE IsAwaited(queue[i])'
      BY <1>1, <1>3, <1>4, <2>2, <2>4 DEF IsAwaited, JobsAreAwaited
    <2>. QED BY <1>1, <1>4, <2>2, <2>3, <2>4 DEF JobsAreAwaited
  <1>7. \A k \in Classes : InQueue(k)' = InQueue(k)
    BY <1>1 DEF InQueue
  <1>. QED BY <1>1, <1>2, <1>3, <1>4, <1>5, <1>6, <1>7, AnsweredInv

-----------------------------------------------------------------------------
(* RateLimiter *)

\* roll: what a window withheld is due, or still withheld.
LEMMA RolledKeeps ==
  ASSUME ServerConstants, NEW b \in Buckets, InBound(b)
  PROVE  /\ Rolled(b).due \in Nat /\ Rolled(b).b \in Buckets /\ InBound(Rolled(b).b)
         /\ Rolled(b).due + Rolled(b).b.suppressed = b.suppressed
  BY DEF Rolled, Buckets, InBound, NoBucket, ServerConstants

\* admit: one event more is due, withheld or to be written.
LEMMA AdmittedKeeps ==
  ASSUME ServerConstants, NEW b \in Buckets, InBound(b)
  PROVE  /\ Admitted(b).due \in Nat /\ Admitted(b).b \in Buckets /\ InBound(Admitted(b).b)
         /\ Admitted(b).due + Admitted(b).b.suppressed + (IF Admitted(b).write THEN 1 ELSE 0)
              = b.suppressed + 1
  <1>. DEFINE r == Rolled(b)
  <1>1. /\ r.due \in Nat /\ r.b \in Buckets /\ InBound(r.b)
        /\ r.due + r.b.suppressed = b.suppressed
    BY RolledKeeps
  <1>2. Admitted(b) =
          [due |-> r.due, write |-> r.b.written < PerWindow,
           b |-> IF r.b.written < PerWindow THEN [r.b EXCEPT !.written = @ + 1]
                 ELSE [r.b EXCEPT !.suppressed = @ + 1]]
    BY DEF Admitted
  <1>5. Admitted(b).write <=> r.b.written < PerWindow
    BY DEF Admitted
  <1>. HIDE DEF r
  <1>3. CASE r.b.written < PerWindow
    <2>1. Admitted(b).due = r.due /\ Admitted(b).b = [r.b EXCEPT !.written = @ + 1]
      BY <1>2, <1>3
    <2>5. (IF Admitted(b).write THEN 1 ELSE 0) = 1
      BY <1>3, <1>5
    <2>2. [r.b EXCEPT !.written = @ + 1] =
            [written |-> r.b.written + 1, suppressed |-> r.b.suppressed, over |-> r.b.over]
      BY <1>1 DEF Buckets
    <2>3. r.b.written \in Nat /\ r.b.suppressed \in Nat /\ r.b.over \in BOOLEAN /\ PerWindow \in Nat
      BY <1>1 DEF Buckets, ServerConstants
    <2>4. r.b.suppressed = 0
      BY <1>1, <1>3, <2>3 DEF InBound
    <2>. QED BY <1>1, <1>3, <2>1, <2>2, <2>3, <2>4, <2>5 DEF Buckets, InBound
  <1>4. CASE ~(r.b.written < PerWindow)
    <2>1. Admitted(b).due = r.due /\ Admitted(b).b = [r.b EXCEPT !.suppressed = @ + 1]
      BY <1>2, <1>4
    <2>5. (IF Admitted(b).write THEN 1 ELSE 0) = 0
      BY <1>4, <1>5
    <2>2. [r.b EXCEPT !.suppressed = @ + 1] =
            [written |-> r.b.written, suppressed |-> r.b.suppressed + 1, over |-> r.b.over]
      BY <1>1 DEF Buckets
    <2>3. r.b.written \in Nat /\ r.b.suppressed \in Nat /\ r.b.over \in BOOLEAN /\ PerWindow \in Nat
      BY <1>1 DEF Buckets, ServerConstants
    <2>4. r.b.written = PerWindow
      BY <1>1, <1>4, <2>3 DEF InBound
    <2>. QED BY <1>1, <1>4, <2>1, <2>2, <2>3, <2>4, <2>5 DEF Buckets, InBound
  <1>. QED BY <1>3, <1>4

LEMMA NatSum == ASSUME NEW a \in Nat, NEW b \in Nat PROVE a + b \in Nat
  OBVIOUS

\* record_transport_event: what is due is told, as a record or as lost.
LEMMA RecordedTells ==
  ASSUME ServerInv, NEW k \in Classes, NEW due \in Nat, NEW one \in Nat, Recorded(k, due, one)
  PROVE  /\ tally' \in [Classes -> Tallies] /\ (store' = store \/ Fails)
         /\ \A c \in Classes :
              /\ tally'[c].events = tally[c].events
              /\ Told(c)' = Told(c) + (IF c = k THEN due + one ELSE 0)
  <1>1. PICK counted \in {0, due}, written \in {0, one} :
          /\ tally' = [tally EXCEPT ![k].counted = @ + counted, ![k].written = @ + written,
                                    ![k].lost = @ + ((due - counted) + (one - written))]
          /\ IF (due - counted) + (one - written) = 0 THEN UNCHANGED store ELSE Fails
    BY DEF Recorded
  <1>2. tally \in [Classes -> Tallies]
    BY DEF ServerInv, ServerTypeOK
  <1>3. (due - counted) + (one - written) \in Nat /\ counted \in Nat /\ written \in Nat
    OBVIOUS
  <1>4. ASSUME NEW c \in Classes, c # k PROVE tally'[c] = tally[c]
    BY <1>1, <1>2, <1>4
  <1>5. tally'[k] = [tally[k] EXCEPT !.counted = @ + counted, !.written = @ + written,
                                     !.lost = @ + ((due - counted) + (one - written))]
    BY <1>1, <1>2 DEF Tallies
  <1>11. /\ tally[k].events \in Nat /\ tally[k].counted \in Nat
         /\ tally[k].written \in Nat /\ tally[k].lost \in Nat
    BY <1>2 DEF Tallies
  <1>12. tally'[k] =
           [events |-> tally[k].events, written |-> tally[k].written + written,
            counted |-> tally[k].counted + counted,
            lost |-> tally[k].lost + ((due - counted) + (one - written))]
    <2>1. tally[k] \in Tallies
      BY <1>2
    <2>. QED BY <1>5, <2>1 DEF Tallies
  <1>6. /\ tally'[k] \in Tallies /\ tally'[k].events = tally[k].events
        /\ tally'[k].counted = tally[k].counted + counted
        /\ tally'[k].written = tally[k].written + written
        /\ tally'[k].lost = tally[k].lost + ((due - counted) + (one - written))
        /\ tally[k].counted \in Nat /\ tally[k].written \in Nat /\ tally[k].lost \in Nat
    <2>1. PICK e, w, n, l :
             /\ e = tally[k].events /\ w = tally[k].written + written /\ n = tally[k].counted + counted
             /\ l = tally[k].lost + ((due - counted) + (one - written))
      OBVIOUS
    <2>5. e \in Nat /\ w \in Nat /\ n \in Nat /\ l \in Nat
      <3>1. e \in Nat
        BY <1>11, <2>1
      <3>2. w \in Nat
        BY <1>3, <1>11, <2>1, NatSum, Zenon
      <3>3. n \in Nat
        BY <1>3, <1>11, <2>1, NatSum, Zenon
      <3>4. l \in Nat
        BY <1>3, <1>11, <2>1, NatSum, Zenon
      <3>. QED BY <3>1, <3>2, <3>3, <3>4
    <2>2. tally'[k] = [events |-> e, written |-> w, counted |-> n, lost |-> l]
      BY <1>12, <2>1
    <2>3. tally'[k].events = e /\ tally'[k].written = w /\ tally'[k].counted = n /\ tally'[k].lost = l
      BY <2>2
    <2>4. tally'[k] \in Tallies
      BY <2>2, <2>5 DEF Tallies
    <2>. QED BY <1>11, <2>1, <2>3, <2>4
  <1>7. Told(k)' = Told(k) + (due + one)
    <2>1. PICK w \in Nat, n \in Nat, l \in Nat :
             w = tally[k].written /\ n = tally[k].counted /\ l = tally[k].lost
      BY <1>11
    <2>2. Told(k)' = (w + written) + (n + counted) + (l + ((due - counted) + (one - written)))
      BY <1>6, <2>1 DEF Told
    <2>3. Told(k) = w + n + l
      BY <2>1 DEF Told
    <2>4. (w + written) + (n + counted) + (l + ((due - counted) + (one - written)))
            = (w + n + l) + (due + one)
      BY <1>3
    <2>. QED BY <2>2, <2>3, <2>4
  <1>8. \A c \in Classes : tally[c] \in Tallies /\ Told(c) \in Nat
    BY <1>2 DEF Told, Tallies
  <1>9. tally' \in [Classes -> Tallies]
    BY <1>1, <1>2, <1>4, <1>6, <1>8
  <1>10. ASSUME NEW c \in Classes
         PROVE  /\ tally'[c].events = tally[c].events
                /\ Told(c)' = Told(c) + (IF c = k THEN due + one ELSE 0)
    <2>1. CASE c = k
      BY <1>6, <1>7, <2>1
    <2>2. CASE c # k
      BY <1>4, <1>8, <2>2 DEF Told
    <2>. QED BY <2>1, <2>2
  <1>. QED BY <1>1, <1>9, <1>10

LEMMA AuditEventInv == ASSUME ServerConstants, ServerInv, AuditEvent PROVE ServerInv'
  <1>. USE DEF ServerInv
  <1>. DEFINE k == Head(queue).class
              a == Admitted(bucket[k])
              one == IF a.write THEN 1 ELSE 0
  <1>1. /\ worker = "RUN" /\ queue # <<>> /\ Head(queue).kind = "AUDIT" /\ queue' = Tail(queue)
        /\ bucket' = [bucket EXCEPT ![k] = a.b] /\ Recorded(k, a.due, one)
        /\ Iterates /\ UNCHANGED <<backlog, acceptor, conn, parked>>
    BY DEF AuditEvent, Takes
  <1>2. /\ Head(queue) \in Jobs /\ queue' \in Seq(Jobs)
        /\ \A c \in Classes : InQueue(c) = InQueue(c)' + (IF c = k THEN 1 ELSE 0)
        /\ \A c \in Classes : InQueue(c)' \in Nat
    BY <1>1, TakenCounts
  <1>3. k \in Classes
    BY <1>1, <1>2 DEF Jobs
  <1>. HIDE DEF k
  <1>4. bucket \in [Classes -> Buckets] /\ bucket[k] \in Buckets /\ InBound(bucket[k])
    BY <1>3, AccountsAre DEF ServerTypeOK, Accounted
  <1>5. /\ a.due \in Nat /\ a.b \in Buckets /\ InBound(a.b)
        /\ a.due + a.b.suppressed + one = bucket[k].suppressed + 1
    BY <1>4, AdmittedKeeps
  <1>6. one \in Nat
    OBVIOUS
  <1>. HIDE DEF a, one
  <1>7. /\ tally' \in [Classes -> Tallies] /\ (store' = store \/ Fails)
        /\ \A c \in Classes :
             /\ tally'[c].events = tally[c].events
             /\ Told(c)' = Told(c) + (IF c = k THEN a.due + one ELSE 0)
    BY <1>1, <1>3, <1>5, <1>6, RecordedTells
  <1>8. /\ store' \in {"OPEN", "POISONED"} /\ worker' \in {"RUN", "WAKE", "DONE"}
        /\ WorkerStops' /\ (store' = "OPEN" => store = "OPEN")
    BY <1>1, <1>7, IteratesStops
  <1>9. ServerTypeOK'
    BY <1>1, <1>2, <1>4, <1>5, <1>7, <1>8 DEF ServerTypeOK
  <1>10. BacklogPends'
    BY <1>1, <1>8, BacklogKept
  <1>11. JobsAreAwaited'
    <2>1. queue \in Seq(Jobs)
      BY DEF ServerTypeOK
    <2>2. \A i \in 2 .. Len(queue) : queue[i].kind # "AUDIT" => queue[i].peer \notin parked
      BY <2>1 DEF JobsAreAwaited
    <2>3. \A p \in parked : conn[p] = "WAITING"
      BY DEF JobsAreAwaited
    <2>. QED BY <1>1, <2>2, <2>3, TailAwaited
  <1>12. ASSUME NEW c \in Classes PROVE Accounted(c)'
    <2>1. Accounted(c)
      BY AccountsAre
    <2>2. AtAcceptor(c)' = AtAcceptor(c) /\ AtPeers(c)' = AtPeers(c)
      BY <1>1 DEF AtAcceptor, AtPeers
    <2>3. /\ Told(c) \in Nat /\ InQueue(c) \in Nat /\ AtPeers(c) \in Nat /\ AtAcceptor(c) \in Nat
          /\ bucket[c].suppressed \in Nat
      BY AccountTypes DEF Buckets
    <2>4. CASE c = k
      <3>1. bucket'[c] = a.b /\ a.b.suppressed \in Nat
        BY <1>1, <1>4, <1>5, <2>4 DEF Buckets
      <3>2. Told(c)' = Told(c) + (a.due + one) /\ InQueue(c) = InQueue(c)' + 1
        BY <1>2, <1>7, <2>4
      <3>3. InBound(bucket[c])'
        BY <1>5, <3>1 DEF InBound
      <3>4. /\ tally'[c].events = tally[c].events /\ InQueue(c)' \in Nat
            /\ a.due + a.b.suppressed + one = bucket[c].suppressed + 1
        BY <1>2, <1>5, <1>7, <2>4
      <3>5. Told(c)' \in Nat /\ bucket'[c].suppressed \in Nat
        BY <1>5, <1>6, <2>3, <3>1, <3>2
      <3>6. Told(c)' + bucket'[c].suppressed + InQueue(c)'
              = Told(c) + bucket[c].suppressed + InQueue(c)
        <4>1. a.due \in Nat /\ one \in Nat /\ a.b.suppressed \in Nat /\ InQueue(c)' \in Nat
          BY <1>5, <1>6, <3>1, <3>4
        <4>2. (Told(c) + (a.due + one)) + a.b.suppressed + InQueue(c)'
                = Told(c) + bucket[c].suppressed + InQueue(c)
          <5>1. PICK t \in Nat, d \in Nat, o \in Nat, p \in Nat, q \in Nat, s \in Nat, i \in Nat :
                   /\ t = Told(c) /\ d = a.due /\ o = one /\ p = a.b.suppressed /\ q = InQueue(c)'
                   /\ s = bucket[c].suppressed /\ i = InQueue(c)
            BY <2>3, <4>1
          <5>2. i = q + 1 /\ d + p + o = s + 1
            BY <3>2, <3>4, <5>1
          <5>3. (t + (d + o)) + p + q = t + s + i
            BY <5>2
          <5>. QED BY <5>1, <5>3
        <4>. QED BY <3>1, <3>2, <4>2
      <3>. QED BY <2>1, <2>2, <2>3, <3>3, <3>4, <3>5, <3>6 DEF Accounted
    <2>5. CASE c # k
      <3>1. bucket'[c] = bucket[c] /\ InQueue(c)' = InQueue(c)
        BY <1>1, <1>2, <1>4, <2>5
      <3>2. Told(c)' = Told(c) /\ tally'[c].events = tally[c].events
        BY <1>7, <2>3, <2>5
      <3>. QED BY <2>1, <2>2, <3>1, <3>2 DEF Accounted, InBound
    <2>. QED BY <2>4, <2>5
  <1>. QED BY <1>8, <1>9, <1>10, <1>11, <1>12, AccountsNext

LEMMA DueInv == ASSUME ServerConstants, ServerInv, NEW k \in Classes, Due(k) PROVE ServerInv'
  <1>. USE DEF ServerInv
  <1>. DEFINE r == Rolled(bucket[k])
  <1>1. bucket \in [Classes -> Buckets] /\ bucket[k] \in Buckets /\ InBound(bucket[k])
    BY AccountsAre DEF ServerTypeOK, Accounted
  <1>2. /\ worker = "RUN" /\ bucket' = [bucket EXCEPT ![k] = r.b] /\ Recorded(k, r.due, 0)
        /\ Iterates /\ UNCHANGED <<backlog, acceptor, conn, queue, parked>>
    BY <1>1 DEF Due
  <1>3. /\ r.due \in Nat /\ r.b \in Buckets /\ InBound(r.b)
        /\ r.due + r.b.suppressed = bucket[k].suppressed
    BY <1>1, RolledKeeps
  <1>. HIDE DEF r
  <1>4. /\ tally' \in [Classes -> Tallies] /\ (store' = store \/ Fails)
        /\ \A c \in Classes :
             /\ tally'[c].events = tally[c].events
             /\ Told(c)' = Told(c) + (IF c = k THEN r.due + 0 ELSE 0)
    BY <1>2, <1>3, RecordedTells
  <1>5. /\ store' \in {"OPEN", "POISONED"} /\ worker' \in {"RUN", "WAKE", "DONE"}
        /\ WorkerStops' /\ (store' = "OPEN" => store = "OPEN")
    BY <1>2, <1>4, IteratesStops
  <1>6. ServerTypeOK'
    BY <1>1, <1>2, <1>3, <1>4, <1>5 DEF ServerTypeOK
  <1>7. BacklogPends' /\ JobsAreAwaited'
    BY <1>2, <1>5, BacklogKept, AwaitedKept
  <1>8. ASSUME NEW c \in Classes PROVE Accounted(c)'
    <2>1. Accounted(c)
      BY AccountsAre
    <2>2. AtAcceptor(c)' = AtAcceptor(c) /\ AtPeers(c)' = AtPeers(c) /\ InQueue(c)' = InQueue(c)
      BY <1>2 DEF AtAcceptor, AtPeers, InQueue
    <2>3. /\ Told(c) \in Nat /\ InQueue(c) \in Nat /\ AtPeers(c) \in Nat /\ AtAcceptor(c) \in Nat
          /\ bucket[c].suppressed \in Nat
      BY AccountTypes DEF Buckets
    <2>4. CASE c = k
      <3>1. bucket'[c] = r.b /\ r.b.suppressed \in Nat
        BY <1>1, <1>2, <1>3, <2>4 DEF Buckets
      <3>2. Told(c)' = Told(c) + r.due /\ tally'[c].events = tally[c].events
        BY <1>3, <1>4, <2>4
      <3>3. InBound(bucket[c])'
        BY <1>3, <3>1 DEF InBound
      <3>. QED BY <1>3, <2>1, <2>2, <2>3, <2>4, <3>1, <3>2, <3>3 DEF Accounted
    <2>5. CASE c # k
      <3>1. bucket'[c] = bucket[c]
        BY <1>1, <1>2, <2>5
      <3>2. Told(c)' = Told(c) /\ tally'[c].events = tally[c].events
        BY <1>4, <2>3, <2>5
      <3>. QED BY <2>1, <2>2, <3>1, <3>2 DEF Accounted, InBound
    <2>. QED BY <2>4, <2>5
  <1>. QED BY <1>5, <1>6, <1>7, <1>8, AccountsNext

LEMMA WindowPassesInv ==
  ASSUME ServerConstants, ServerInv, NEW k \in Classes, WindowPasses(k) PROVE ServerInv'
  <1>. USE DEF ServerInv
  <1>1. /\ bucket' = [bucket EXCEPT ![k].over = TRUE]
        /\ UNCHANGED <<backlog, acceptor, conn, queue, worker, parked, store, tally>>
    BY DEF WindowPasses
  <1>2. /\ bucket' \in [Classes -> Buckets]
        /\ \A c \in Classes : /\ bucket'[c].suppressed = bucket[c].suppressed
                              /\ bucket'[c].written = bucket[c].written
    <2>1. bucket \in [Classes -> Buckets]
      BY DEF ServerTypeOK
    <2>. QED BY <1>1, <2>1 DEF Buckets
  <1>3. ServerTypeOK'
    BY <1>1, <1>2 DEF ServerTypeOK
  <1>4. BacklogPends' /\ JobsAreAwaited' /\ WorkerStops'
    BY <1>1, BacklogKept, AwaitedKept, WorkerKept
  <1>5. ASSUME NEW c \in Classes PROVE Accounted(c)'
    <2>1. Accounted(c)
      BY AccountsAre
    <2>2. /\ AtAcceptor(c)' = AtAcceptor(c) /\ AtPeers(c)' = AtPeers(c) /\ InQueue(c)' = InQueue(c)
          /\ Told(c)' = Told(c)
      BY <1>1 DEF AtAcceptor, AtPeers, InQueue, Told
    <2>. QED BY <1>1, <1>2, <2>1, <2>2 DEF Accounted, InBound
  <1>. QED BY <1>3, <1>4, <1>5, AccountsNext

LEMMA WakeInv == ASSUME ServerConstants, ServerInv, Wake PROVE ServerInv'
  <1>. USE DEF ServerInv
  <1>1. /\ worker = "WAKE" /\ worker' = "DONE" /\ queue' = <<>> /\ parked' = {}
        /\ tally' = [k \in Classes |-> [tally[k] EXCEPT !.lost = @ + InQueue(k)]]
        /\ UNCHANGED <<acceptor, conn, store, bucket>> /\ store = "POISONED"
    BY DEF Wake, WorkerStops
  <1>2. \A k \in Classes : InQueue(k) \in Nat /\ tally[k] \in Tallies
    BY AccountTypes
  <1>3. /\ tally' \in [Classes -> Tallies]
        /\ \A k \in Classes : /\ tally'[k].events = tally[k].events
                              /\ Told(k)' = Told(k) + InQueue(k)
    <2>1. ASSUME NEW k \in Classes
          PROVE  /\ tally'[k] \in Tallies /\ tally'[k].events = tally[k].events
                 /\ Told(k)' = Told(k) + InQueue(k)
      <3>1. tally'[k] = [tally[k] EXCEPT !.lost = @ + InQueue(k)]
        BY <1>1
      <3>2. tally'[k] =
              [events |-> tally[k].events, written |-> tally[k].written,
               counted |-> tally[k].counted, lost |-> tally[k].lost + InQueue(k)]
        BY <1>2, <3>1 DEF Tallies
      <3>3. /\ tally[k].events \in Nat /\ tally[k].counted \in Nat
            /\ tally[k].written \in Nat /\ tally[k].lost \in Nat /\ InQueue(k) \in Nat
        BY <1>2 DEF Tallies
      <3>. QED BY <3>2, <3>3 DEF Told, Tallies
    <2>. QED BY <1>1, <2>1
  <1>4. ServerTypeOK'
    <2>1. queue' \in Seq(Jobs) /\ parked' \in SUBSET Peers
      BY <1>1
    <2>. QED BY <1>1, <1>3, <2>1 DEF ServerTypeOK
  <1>5. BacklogPends' /\ JobsAreAwaited' /\ WorkerStops'
    BY <1>1 DEF BacklogPends, JobsAreAwaited, WorkerStops
  <1>6. ASSUME NEW k \in Classes PROVE Accounted(k)'
    <2>1. Accounted(k)
      BY AccountsAre
    <2>2. AtAcceptor(k)' = AtAcceptor(k) /\ AtPeers(k)' = AtPeers(k)
      BY <1>1 DEF AtAcceptor, AtPeers
    <2>3. InQueue(k)' = 0
      <3>1. Reports(queue', k) = {}
        BY <1>1 DEF Reports
      <3>. QED BY <3>1, FS_EmptySet DEF InQueue
    <2>4. /\ Told(k) \in Nat /\ InQueue(k) \in Nat /\ AtPeers(k) \in Nat /\ AtAcceptor(k) \in Nat
          /\ bucket[k].suppressed \in Nat
      BY AccountTypes DEF Buckets
    <2>. QED BY <1>1, <1>3, <2>1, <2>2, <2>3, <2>4 DEF Accounted, InBound
  <1>. QED BY <1>4, <1>5, <1>6, AccountsNext

LEMMA ServerNextInv == ASSUME ServerConstants PROVE ServerInv /\ [ServerNext]_serverVars => ServerInv'
  <1>. SUFFICES ASSUME ServerInv, [ServerNext]_serverVars PROVE ServerInv'
    OBVIOUS
  <1>1. ASSUME NEW p \in Peers, AskHolder(p) \/ Dispatch(p) PROVE ServerInv'
    BY <1>1, AsksInv
  <1>2. ASSUME NEW p \in Peers, ConnectionAudits(p) PROVE ServerInv'
    BY <1>2, ConnectionAuditsInv
  <1>3. ASSUME NEW p \in Peers, Leaves(p) \/ Abandoned(p) PROVE ServerInv'
    BY <1>3, EndsInv
  <1>4. ASSUME NEW p \in Peers, Connect(p) PROVE ServerInv'
    BY <1>4, ConnectInv
  <1>5. ASSUME NEW p \in Peers, Receive(p) PROVE ServerInv'
    BY <1>5, ReceiveInv
  <1>6. ASSUME NEW k \in Classes, Due(k) PROVE ServerInv'
    BY <1>6, DueInv
  <1>7. ASSUME NEW k \in Classes, WindowPasses(k) PROVE ServerInv'
    BY <1>7, WindowPassesInv
  <1>8. CASE Accept \/ AcceptFails \/ AcceptorReturns \/ AcceptorAudits
    BY <1>8, AcceptInv, AcceptorReturnsInv, AcceptorAuditsInv
  <1>9. CASE Worker \/ Collect
    BY <1>9, GiveHolderInv, AnswerRequestInv, AuditEventInv, WakeInv, CollectInv DEF Worker
  <1>10. CASE UNCHANGED serverVars
    <2>1. UNCHANGED <<backlog, acceptor, conn, queue, worker, parked, store, bucket, tally>>
      BY <1>10 DEF serverVars
    <2>2. ServerTypeOK' /\ BacklogPends' /\ JobsAreAwaited' /\ WorkerStops'
      BY <2>1, BacklogKept, AwaitedKept, WorkerKept DEF ServerInv, ServerTypeOK
    <2>3. EventsAreAccounted'
      BY <2>1, AccountKept DEF InQueue, AtAcceptor
    <2>. QED BY <2>2, <2>3 DEF ServerInv
  <1>. QED BY <1>1, <1>2, <1>3, <1>4, <1>5, <1>6, <1>7, <1>8, <1>9, <1>10 DEF ServerNext, Threads

\* For any number of peers, any queue, backlog and window, every transport event is on the
\* record, in itself or in a count, still on its way, or lost with a record that failed or a
\* server that stopped (RateLimiter, Worker::record and WorkerHandle::audit in
\* server/worker.rs; accept in server/mod.rs; connection.rs).
THEOREM EventsStayAccounted == ASSUME ServerConstants PROVE ServerSpec => []EventsAreAccounted
  <1>1. ServerInit => ServerInv
    BY ServerInitInv
  <1>2. ServerInv /\ [ServerNext]_serverVars => ServerInv'
    BY ServerNextInv
  <1>3. ServerInv => EventsAreAccounted
    BY DEF ServerInv
  <1>. QED BY <1>1, <1>2, <1>3, PTL DEF ServerSpec

-----------------------------------------------------------------------------
(* Induction and recursion over the naturals, with sets in the place of predicates *)

LEMMA LeastNatural ==
    ASSUME NEW Reach \in SUBSET Nat, Reach # {}
    PROVE  \E n \in Reach : \A m \in Reach : n <= m
  <1>1. PICK R : R = OpToRel(<, Nat)
    BY Zenon
  <1>2. IsWellFoundedOn(R, Nat)
    BY <1>1, NatLessThanWellFounded, Zenon
  <1>3. PICK n \in Reach : \A m \in Reach : ~ (<<m, n>> \in R)
    BY <1>2, WFMin
  <1>4. \A m \in Reach : ~(m < n)
    BY <1>1, <1>3 DEF OpToRel
  <1>. QED BY <1>3, <1>4

LEMMA InductionOn ==
    ASSUME NEW Reach, 0 \in Reach, \A n \in Nat : n \in Reach => n + 1 \in Reach
    PROVE  Nat \subseteq Reach
  <1>. SUFFICES ASSUME Nat \ Reach # {} PROVE FALSE
    OBVIOUS
  <1>1. PICK n \in Nat \ Reach : \A m \in Nat \ Reach : n <= m
    BY LeastNatural
  <1>2. n # 0 /\ n - 1 \in Nat /\ n - 1 \in Reach
    BY <1>1
  <1>. QED BY <1>1, <1>2

\* A step from each natural to the next, within a set, has a sequence of values that follows it.
Steps(f, S, base, step) ==
    f \in [Nat -> S] /\ f[0] = base /\ \A n \in Nat : f[n + 1] = step[<<n, f[n]>>]
LEMMA RecursionExists ==
    ASSUME NEW S, NEW base \in S, NEW step \in [Nat \X S -> S]
    PROVE  \E f : Steps(f, S, base, step)
  <1>. DEFINE Traces(g, n) == /\ g \in [0..n -> S] /\ g[0] = base
                               /\ \A k \in 0..n : k < n => g[k + 1] = step[<<k, g[k]>>]
  <1>1. \A n \in Nat : \E g : Traces(g, n)
    <2>. DEFINE Reach == {n \in Nat : \E g : Traces(g, n)}
    <2>1. 0 \in Reach
      <3>1. Traces([k \in 0..0 |-> base], 0)
        OBVIOUS
      <3>. QED BY <3>1
    <2>2. ASSUME NEW n \in Nat, n \in Reach PROVE n + 1 \in Reach
      <3>1. PICK g : Traces(g, n)
        BY <2>2
      <3>2. PICK h : h = [k \in 0..(n + 1) |-> IF k <= n THEN g[k] ELSE step[<<n, g[n]>>]]
        OBVIOUS
      <3>3. g[n] \in S /\ <<n, g[n]>> \in Nat \X S /\ step[<<n, g[n]>>] \in S
        BY <3>1
      <3>4. h \in [0..(n + 1) -> S]
        BY <3>1, <3>2, <3>3
      <3>5. h[0] = base
        BY <3>1, <3>2
      <3>6. ASSUME NEW k \in 0..(n + 1), k < n + 1 PROVE h[k + 1] = step[<<k, h[k]>>]
        <4>1. CASE k < n
          <5>1. k \in 0..n /\ k + 1 \in 0..(n + 1) /\ k + 1 <= n
            BY <4>1
          <5>2. h[k + 1] = g[k + 1] /\ h[k] = g[k]
            BY <3>2, <4>1, <5>1
          <5>. QED BY <3>1, <4>1, <5>1, <5>2
        <4>2. CASE k = n
          BY <3>2, <4>2
        <4>. QED BY <3>6, <4>1, <4>2
      <3>. QED BY <3>4, <3>5, <3>6
    <2>. HIDE DEF Reach
    <2>3. Nat \subseteq Reach
      BY <2>1, <2>2, InductionOn
    <2>. QED BY <2>3 DEF Reach
  <1>2. ASSUME NEW g, NEW h, NEW n \in Nat, NEW m \in Nat, Traces(g, n), Traces(h, m)
        PROVE  \A k \in Nat : k <= n /\ k <= m => g[k] = h[k]
    <2>. DEFINE Reach == {k \in Nat : k <= n /\ k <= m => g[k] = h[k]}
    <2>1. 0 \in Reach
      BY <1>2
    <2>2. ASSUME NEW k \in Nat, k \in Reach PROVE k + 1 \in Reach
      <3>. SUFFICES ASSUME k + 1 <= n, k + 1 <= m PROVE g[k + 1] = h[k + 1]
        OBVIOUS
      <3>1. k \in 0..n /\ k \in 0..m /\ k < n /\ k < m /\ g[k] = h[k]
        BY <2>2
      <3>. QED BY <1>2, <3>1
    <2>. HIDE DEF Reach
    <2>3. Nat \subseteq Reach
      BY <2>1, <2>2, InductionOn
    <2>. QED BY <2>3 DEF Reach
  <1>. DEFINE G(n) == CHOOSE g : Traces(g, n)
  <1>3. \A n \in Nat : Traces(G(n), n)
    BY <1>1
  <1>. HIDE DEF G, Traces
  <1>4. PICK f : f = [n \in Nat |-> G(n)[n]]
    OBVIOUS
  <1>5. f \in [Nat -> S] /\ f[0] = base
    BY <1>3, <1>4 DEF Traces
  <1>6. ASSUME NEW n \in Nat PROVE f[n + 1] = step[<<n, f[n]>>]
    <2>1. Traces(G(n), n) /\ Traces(G(n + 1), n + 1)
      BY <1>3
    <2>2. G(n)[n] = G(n + 1)[n]
      BY <1>2, <2>1
    <2>3. G(n + 1)[n + 1] = step[<<n, G(n + 1)[n]>>]
      BY <2>1 DEF Traces
    <2>. QED BY <1>4, <2>2, <2>3
  <1>. QED BY <1>5, <1>6 DEF Steps

\* The same, for a recursive function on an interval.
StepsOn(f, n, S, base, step) ==
    /\ f \in [0..n -> S]
    /\ f = [i \in 0..n |-> IF i = 0 THEN base ELSE step[<<i, f[i - 1]>>]]
LEMMA RecursionOn ==
    ASSUME NEW S, NEW n \in Nat, NEW base \in S, NEW step \in [Nat \X S -> S]
    PROVE  \E f : StepsOn(f, n, S, base, step)
  <1>1. PICK next : next = [p \in Nat \X S |-> step[<<p[1] + 1, p[2]>>]]
    OBVIOUS
  <1>2. next \in [Nat \X S -> S]
    BY <1>1
  <1>3. PICK f \in [Nat -> S] : f[0] = base /\ \A k \in Nat : f[k + 1] = next[<<k, f[k]>>]
    <2>1. \E f : Steps(f, S, base, next)
      BY <1>2, RecursionExists, Zenon
    <2>. QED BY <2>1 DEF Steps
  <1>4. PICK g : g = [i \in 0..n |-> f[i]]
    OBVIOUS
  <1>5. ASSUME NEW i \in 0..n, i # 0 PROVE f[i] = step[<<i, g[i - 1]>>]
    <2>1. i - 1 \in Nat /\ (i - 1) + 1 = i /\ i - 1 \in 0..n
      BY <1>5
    <2>2. f[i] = next[<<i - 1, f[i - 1]>>]
      BY <1>3, <2>1
    <2>3. <<i - 1, f[i - 1]>> \in Nat \X S
      BY <1>3, <2>1
    <2>. QED BY <1>1, <1>4, <2>1, <2>2, <2>3
  <1>6. g \in [0..n -> S]
    BY <1>3, <1>4
  <1>7. g = [i \in 0..n |-> IF i = 0 THEN base ELSE step[<<i, g[i - 1]>>]]
    BY <1>3, <1>4, <1>5
  <1>. QED BY <1>6, <1>7 DEF StepsOn

-----------------------------------------------------------------------------
(* The spans that match, in order, those that overlap merged *)

Intervals(n) == [from : 1..n, to : 1..n]
Proper(spans) == \A s \in spans : s.from <= s.to

LEMMA IntervalsAreFinite ==
    ASSUME NEW n \in Nat PROVE IsFiniteSet(Intervals(n))
  <1>1. PICK P : P = (1..n) \X (1..n)
    OBVIOUS
  <1>2. IsFiniteSet(P)
    <2>1. IsFiniteSet(1..n)
      BY FS_Interval
    <2>. QED BY <1>1, <2>1, FS_Product
  <1>3. PICK f : f = [p \in P |-> [from |-> p[1], to |-> p[2]]]
    OBVIOUS
  <1>4. f \in Surjection(P, Intervals(n))
    <2>1. f \in [P -> Intervals(n)]
      BY <1>1, <1>3 DEF Intervals
    <2>2. ASSUME NEW s \in Intervals(n) PROVE \E p \in P : f[p] = s
      <3>1. <<s.from, s.to>> \in P /\ s = [from |-> s.from, to |-> s.to]
        BY <1>1 DEF Intervals
      <3>2. f[<<s.from, s.to>>] = s
        BY <1>3, <3>1
      <3>. QED BY <3>1, <3>2
    <2>. QED BY <2>1, <2>2 DEF Surjection
  <1>. QED BY <1>2, <1>4, FS_Surjection

\* There is a first of any spans.
LEMMA FirstSpan ==
    ASSUME NEW n \in Nat, NEW left \in SUBSET Intervals(n), left # {}
    PROVE  \E s \in left : \A t \in left \ {s} : Before(s, t)
  <1>1. PICK A : A = {s.from : s \in left}
    OBVIOUS
  <1>2. \A s \in left : s.from \in 1..n /\ s.to \in 1..n /\ s = [from |-> s.from, to |-> s.to]
    BY DEF Intervals
  <1>3. PICK a \in A : \A b \in A : a <= b
    <2>1. A \in SUBSET Nat /\ A # {}
      BY <1>1, <1>2
    <2>. QED BY <2>1, LeastNatural
  <1>4. PICK B : B = {n - s.to : s \in {s \in left : s.from = a}}
    OBVIOUS
  <1>5. PICK b \in B : \A c \in B : b <= c
    <2>1. B \in SUBSET Nat /\ B # {}
      BY <1>1, <1>2, <1>3, <1>4
    <2>. QED BY <2>1, LeastNatural
  <1>6. PICK s \in left : s.from = a /\ b = n - s.to
    BY <1>4, <1>5
  <1>7. ASSUME NEW t \in left \ {s} PROVE Before(s, t)
    <2>1. a <= t.from /\ s.from \in 1..n /\ s.to \in 1..n /\ t.from \in 1..n /\ t.to \in 1..n
      BY <1>1, <1>2, <1>3
    <2>2. CASE t.from = a
      <3>1. n - s.to <= n - t.to
        BY <1>4, <1>5, <1>6, <2>2
      <3>2. s.to # t.to
        BY <1>2, <1>6, <1>7, <2>2
      <3>3. s.to > t.to
        BY <2>1, <3>1, <3>2
      <3>. QED BY <1>6, <2>2, <3>3 DEF Before
    <2>3. CASE t.from # a
      <3>1. s.from < t.from
        BY <1>6, <2>1, <2>3
      <3>. QED BY <3>1 DEF Before
    <2>. QED BY <2>2, <2>3
  <1>. QED BY <1>7

Cover(m) == UNION {m[k].from .. m[k].to : k \in 1..Len(m)}
\* Spans merged so far, of those no longer left: each after the one before it, covering what they do.
IsMerged(m, done, n) ==
    /\ m \in Seq(Intervals(n))
    /\ \A k \in 1..Len(m) : m[k].from <= m[k].to
    /\ \A k, l \in 1..Len(m) : k < l => m[k].to < m[l].from
    /\ Cover(m) = UNION {s.from .. s.to : s \in done}
NoneBefore(m, left) == m # <<>> => \A t \in left : m[Len(m)].from <= t.from

LEMMA MergeKeeps ==
    ASSUME NEW n \in Nat, NEW done \in SUBSET Intervals(n), NEW left \in SUBSET Intervals(n),
           NEW m, IsMerged(m, done, n), NoneBefore(m, left),
           NEW s \in left, s.from <= s.to, \A t \in left \ {s} : Before(s, t)
    PROVE  /\ IsMerged(Merge(m, s), done \cup {s}, n)
           /\ NoneBefore(Merge(m, s), left \ {s})
  <1>1. PICK len \in Nat, r \in {Merge(m, s)} : len = Len(m)
    BY DEF IsMerged
  <1>2. s.from \in 1..n /\ s.to \in 1..n /\ s = [from |-> s.from, to |-> s.to]
    BY DEF Intervals
  <1>3. \A t \in left \ {s} : s.from <= t.from
    <2>. TAKE t \in left \ {s}
    <2>1. t.from \in 1..n
      BY DEF Intervals
    <2>. QED BY <1>2, <2>1 DEF Before
  <1>4. m \in Seq(Intervals(n)) /\ \A k \in 1..len : m[k] \in Intervals(n) /\ m[k].from \in 1..n /\ m[k].to \in 1..n /\ m[k].from <= m[k].to
    <2>1. m \in Seq(Intervals(n)) /\ \A k \in 1..len : m[k].from <= m[k].to
      BY <1>1 DEF IsMerged
    <2>2. \A k \in 1..len : m[k] \in Intervals(n)
      BY <1>1, <2>1
    <2>. QED BY <2>1, <2>2 DEF Intervals
  <1>5. CASE m # <<>> /\ s.from <= m[len].to
    <2>1. len \in 1..len /\ m[len].from <= s.from
      BY <1>1, <1>4, <1>5 DEF NoneBefore
    <2>2. PICK to \in 1..n : to = IF s.to > m[len].to THEN s.to ELSE m[len].to
      BY <1>2, <1>4, <2>1
    <2>3. PICK x : x = [from |-> m[len].from, to |-> to]
      OBVIOUS
    <2>4. x \in Intervals(n) /\ x.from = m[len].from /\ x.to = to
      BY <1>4, <2>1, <2>2, <2>3 DEF Intervals
    <2>5. r = [m EXCEPT ![len] = x]
      <3>1. r = [m EXCEPT ![len] = [m[len] EXCEPT !.to = to]]
        BY <1>1, <1>5, <2>2 DEF Merge, Last
      <3>2. m[len] = [from |-> m[len].from, to |-> m[len].to]
        BY <1>4, <2>1 DEF Intervals
      <3>3. [m[len] EXCEPT !.to = to] = x
        BY <2>3, <3>2
      <3>. QED BY <3>1, <3>3
    <2>6. r \in Seq(Intervals(n)) /\ Len(r) = len /\ \A k \in 1..len : r[k] = IF k = len THEN x ELSE m[k]
      <3>1. DOMAIN m = 1..len /\ DOMAIN r = 1..len
        BY <1>1, <1>4, <2>5
      <3>2. \A k \in 1..len : r[k] = IF k = len THEN x ELSE m[k]
        BY <2>1, <2>5, <3>1
      <3>3. r = [k \in 1..len |-> r[k]]
        BY <2>5, <3>1
      <3>4. \A k \in 1..len : r[k] \in Intervals(n)
        BY <1>4, <2>4, <3>2
      <3>5. PICK F : F = Intervals(n)
        OBVIOUS
      <3>6. r \in Seq(F)
        BY <3>3, <3>4, <3>5
      <3>7. Len(r) = len
        BY <1>1, <3>1, <3>6
      <3>. QED BY <3>2, <3>5, <3>6, <3>7
    <2>7. \A k \in 1..Len(r) : r[k].from <= r[k].to
      BY <1>2, <1>4, <2>1, <2>2, <2>4, <2>6
    <2>8. \A k, l \in 1..Len(r) : k < l => r[k].to < r[l].from
      <3>1. \A k, l \in 1..len : k < l => m[k].to < m[l].from
        BY <1>1 DEF IsMerged
      <3>. QED BY <2>4, <2>6, <3>1
    <2>9. m[len].from .. to = (m[len].from .. m[len].to) \cup (s.from .. s.to)
      BY <1>2, <1>4, <1>5, <2>1, <2>2
    <2>10. Cover(r) = Cover(m) \cup (s.from .. s.to)
      <3>1. ASSUME NEW p \in Cover(r) PROVE p \in Cover(m) \cup (s.from .. s.to)
        <4>1. PICK k \in 1..len : p \in r[k].from .. r[k].to
          BY <2>6, <3>1 DEF Cover
        <4>. QED BY <1>1, <2>1, <2>4, <2>6, <2>9, <4>1 DEF Cover
      <3>2. ASSUME NEW p \in Cover(m) PROVE p \in Cover(r)
        <4>1. PICK k \in 1..len : p \in m[k].from .. m[k].to
          BY <1>1, <3>2 DEF Cover
        <4>2. p \in r[k].from .. r[k].to
          BY <2>4, <2>6, <2>9, <4>1
        <4>. QED BY <2>6, <4>2 DEF Cover
      <3>3. ASSUME NEW p \in s.from .. s.to PROVE p \in Cover(r)
        <4>1. p \in r[len].from .. r[len].to
          BY <2>1, <2>4, <2>6, <2>9, <3>3
        <4>. QED BY <2>1, <2>6, <4>1 DEF Cover
      <3>. QED BY <3>1, <3>2, <3>3
    <2>11. Cover(r) = UNION {t.from .. t.to : t \in done \cup {s}}
      BY <2>10 DEF IsMerged
    <2>12. NoneBefore(r, left \ {s})
      BY <1>1, <2>1, <2>4, <2>6 DEF NoneBefore
    <2>. QED BY <1>1, <2>6, <2>7, <2>8, <2>11, <2>12 DEF IsMerged
  <1>6. CASE ~(m # <<>> /\ s.from <= m[len].to)
    <2>1. r = Append(m, s)
      BY <1>1, <1>6 DEF Merge, Last
    <2>2. /\ r \in Seq(Intervals(n)) /\ Len(r) = len + 1 /\ r[len + 1] = s
          /\ \A k \in 1..len : r[k] = m[k]
      BY <1>1, <1>4, <2>1
    <2>3. \A k \in 1..Len(r) : r[k].from <= r[k].to
      BY <1>4, <2>2
    <2>4. \A k \in 1..len : m[k].to < s.from
      <3>. TAKE k \in 1..len
      <3>1. len \in 1..len /\ m[len].to < s.from
        BY <1>1, <1>2, <1>4, <1>6
      <3>2. CASE k = len
        BY <3>1, <3>2
      <3>3. CASE k # len
        <4>1. m[k].to < m[len].from
          BY <1>1, <3>1, <3>3 DEF IsMerged
        <4>. QED BY <1>2, <1>4, <3>1, <4>1
      <3>. QED BY <3>2, <3>3
    <2>5. \A k, l \in 1..Len(r) : k < l => r[k].to < r[l].from
      <3>1. \A k, l \in 1..len : k < l => m[k].to < m[l].from
        BY <1>1 DEF IsMerged
      <3>. QED BY <2>2, <2>4, <3>1
    <2>6. Cover(r) = Cover(m) \cup (s.from .. s.to)
      <3>1. ASSUME NEW p \in Cover(r) PROVE p \in Cover(m) \cup (s.from .. s.to)
        <4>1. PICK k \in 1..(len + 1) : p \in r[k].from .. r[k].to
          BY <2>2, <3>1 DEF Cover
        <4>2. CASE k = len + 1
          BY <2>2, <4>1, <4>2
        <4>3. CASE k # len + 1
          <5>1. k \in 1..len /\ p \in m[k].from .. m[k].to
            BY <2>2, <4>1, <4>3
          <5>. QED BY <1>1, <5>1 DEF Cover
        <4>. QED BY <4>2, <4>3
      <3>2. ASSUME NEW p \in Cover(m) PROVE p \in Cover(r)
        <4>1. PICK k \in 1..len : p \in m[k].from .. m[k].to
          BY <1>1, <3>2 DEF Cover
        <4>2. k \in 1..Len(r) /\ p \in r[k].from .. r[k].to
          BY <2>2, <4>1
        <4>. QED BY <4>2 DEF Cover
      <3>3. ASSUME NEW p \in s.from .. s.to PROVE p \in Cover(r)
        <4>1. len + 1 \in 1..Len(r) /\ p \in r[len + 1].from .. r[len + 1].to
          BY <2>2, <3>3
        <4>. QED BY <4>1 DEF Cover
      <3>. QED BY <3>1, <3>2, <3>3
    <2>7. Cover(r) = UNION {t.from .. t.to : t \in done \cup {s}}
      BY <2>6 DEF IsMerged
    <2>8. NoneBefore(r, left \ {s})
      BY <1>3, <2>2 DEF NoneBefore
    <2>. QED BY <1>1, <2>2, <2>3, <2>5, <2>7, <2>8 DEF IsMerged
  <1>. QED BY <1>5, <1>6

TakenSpan(left) == CHOOSE s \in left : \A t \in left \ {s} : Before(s, t)
MergeMove(b) == [left |-> b.left \ {TakenSpan(b.left)}, merged |-> Merge(b.merged, TakenSpan(b.left))]
MergeStart(spans) == [left |-> spans, merged |-> <<>>]
\* How far the loop is after so many steps.
MergeGood(b, i, spans, n) ==
    /\ b.left \subseteq spans /\ IsFiniteSet(b.left)
    /\ Cardinality(b.left) = Cardinality(spans) - i
    /\ IsMerged(b.merged, spans \ b.left, n)
    /\ NoneBefore(b.merged, b.left)

LEMMA MergeGoesOn ==
    ASSUME NEW n \in Nat, NEW spans \in SUBSET Intervals(n), Proper(spans), IsFiniteSet(spans),
           NEW i \in Nat, NEW b, MergeGood(b, i, spans, n), b.left # {}
    PROVE  MergeGood(MergeMove(b), i + 1, spans, n)
  <1>1. PICK left, m, s : left = b.left /\ m = b.merged /\ s = TakenSpan(left)
    OBVIOUS
  <1>2. left \in SUBSET Intervals(n)
    BY <1>1 DEF MergeGood
  <1>3. s \in left /\ \A t \in left \ {s} : Before(s, t)
    <2>1. \E z \in left : \A t \in left \ {z} : Before(z, t)
      BY <1>1, <1>2, FirstSpan
    <2>. QED BY <1>1, <2>1 DEF TakenSpan
  <1>4. PICK done : done = spans \ left
    OBVIOUS
  <1>5. IsMerged(m, done, n) /\ NoneBefore(m, left) /\ done \in SUBSET Intervals(n)
    BY <1>1, <1>4 DEF MergeGood
  <1>6. s.from <= s.to
    BY <1>1, <1>3 DEF MergeGood, Proper
  <1>7. IsMerged(Merge(m, s), done \cup {s}, n) /\ NoneBefore(Merge(m, s), left \ {s})
    BY <1>2, <1>3, <1>5, <1>6, MergeKeeps
  <1>8. done \cup {s} = spans \ (left \ {s})
    BY <1>1, <1>3, <1>4 DEF MergeGood
  <1>9. IsFiniteSet(left \ {s}) /\ Cardinality(left \ {s}) = Cardinality(left) - 1
    BY <1>1, <1>3, FS_RemoveElement DEF MergeGood
  <1>10. Cardinality(spans) \in Nat
    BY FS_CardinalityType
  <1>11. MergeMove(b) = [left |-> left \ {s}, merged |-> Merge(m, s)]
    BY <1>1 DEF MergeMove
  <1>12. PICK x, y : x = left \ {s} /\ y = Merge(m, s)
    OBVIOUS
  <1>13. MergeMove(b).left = x /\ MergeMove(b).merged = y
    BY <1>11, <1>12
  <1>14. Cardinality(x) = Cardinality(spans) - (i + 1)
    BY <1>1, <1>9, <1>10, <1>12 DEF MergeGood
  <1>. QED BY <1>1, <1>7, <1>8, <1>9, <1>12, <1>13, <1>14 DEF MergeGood

LEMMA MergeStarts ==
    ASSUME NEW n \in Nat, NEW spans \in SUBSET Intervals(n), IsFiniteSet(spans)
    PROVE  MergeGood(MergeStart(spans), 0, spans, n)
  <1>1. Cardinality(spans) \in Nat
    BY FS_CardinalityType
  <1>2. IsMerged(<<>>, {}, n)
    BY DEF IsMerged, Cover
  <1>3. NoneBefore(<<>>, spans)
    BY DEF NoneBefore
  <1>4. spans \ spans = {}
    OBVIOUS
  <1>. QED BY <1>1, <1>2, <1>3, <1>4 DEF MergeGood, MergeStart

LEMMA MergeRuns ==
    ASSUME NEW n \in Nat, NEW spans \in SUBSET Intervals(n), Proper(spans), IsFiniteSet(spans),
           NEW N \in Nat, N = Cardinality(spans), NEW h, h[0] = MergeStart(spans),
           \A i \in 1..N : h[i - 1].left # {} => h[i] = MergeMove(h[i - 1])
    PROVE  /\ \A i \in 0..N : MergeGood(h[i], i, spans, n)
           /\ \A i \in 1..N : h[i - 1].left # {}
  <1>. DEFINE Reach == {i \in Nat : i <= N => MergeGood(h[i], i, spans, n)}
  <1>1. 0 \in Reach
    BY MergeStarts
  <1>2. ASSUME NEW i \in 0..N, i < N, MergeGood(h[i], i, spans, n) PROVE h[i].left # {}
    <2>1. Cardinality(h[i].left) = N - i
      BY <1>2 DEF MergeGood
    <2>2. Cardinality(h[i].left) # 0
      BY <1>2, <2>1
    <2>3. Cardinality({}) = 0
      BY FS_EmptySet
    <2>. QED BY <2>2, <2>3
  <1>3. ASSUME NEW i \in Nat, i \in Reach PROVE i + 1 \in Reach
    <2>. SUFFICES ASSUME i + 1 <= N PROVE MergeGood(h[i + 1], i + 1, spans, n)
      OBVIOUS
    <2>1. PICK j \in 1..N : j = i + 1 /\ j - 1 = i
      OBVIOUS
    <2>2. MergeGood(h[i], i, spans, n) /\ i \in 0..N /\ i < N
      BY <1>3
    <2>3. h[j] = MergeMove(h[i]) /\ h[i].left # {}
      BY <1>2, <2>1, <2>2
    <2>4. PICK b : b = h[i]
      OBVIOUS
    <2>5. MergeGood(MergeMove(b), i + 1, spans, n)
      BY <2>2, <2>3, <2>4, MergeGoesOn
    <2>. QED BY <2>1, <2>3, <2>4, <2>5
  <1>. HIDE DEF Reach
  <1>4. \A i \in Nat : i \in Reach
    BY <1>1, <1>3, InductionOn
  <1>5. \A i \in 0..N : MergeGood(h[i], i, spans, n)
    BY <1>4 DEF Reach
  <1>6. ASSUME NEW i \in 1..N PROVE h[i - 1].left # {}
    <2>1. i - 1 \in 0..N /\ i - 1 < N
      OBVIOUS
    <2>. QED BY <1>2, <1>5, <2>1
  <1>. QED BY <1>5, <1>6

LEMMA MergedIs ==
    ASSUME NEW n \in Nat, NEW spans \in SUBSET Intervals(n), Proper(spans)
    PROVE  IsMerged(Merged(spans), spans, n)
  <1>. DEFINE Def(f) == [i \in 0..Cardinality(spans) |->
                          IF i = 0 THEN MergeStart(spans) ELSE MergeMove(f[i - 1])]
  <1>1. IsFiniteSet(spans)
    BY IntervalsAreFinite, FS_Subset
  <1>2. PICK N \in Nat : N = Cardinality(spans)
    BY <1>1, FS_CardinalityType
  <1>3. PICK S : S = {b \in [left : SUBSET spans, merged : Seq(Intervals(n))] :
                        \E i \in Nat : MergeGood(b, i, spans, n)}
    OBVIOUS
  <1>4. PICK base : base = MergeStart(spans)
    OBVIOUS
  <1>5. base \in S
    <2>1. MergeGood(base, 0, spans, n)
      BY <1>1, <1>4, MergeStarts
    <2>2. base \in [left : SUBSET spans, merged : Seq(Intervals(n))]
      BY <1>4 DEF MergeStart
    <2>. QED BY <1>3, <2>1, <2>2
  <1>6. PICK step : step = [p \in Nat \X S |-> IF p[2].left = {} THEN p[2] ELSE MergeMove(p[2])]
    OBVIOUS
  <1>7. step \in [Nat \X S -> S]
    <2>1. ASSUME NEW p \in Nat \X S PROVE step[p] \in S
      <3>1. PICK b \in S : b = p[2]
        OBVIOUS
      <3>2. CASE b.left = {}
        BY <1>6, <3>1, <3>2
      <3>3. CASE b.left # {}
        <4>1. step[p] = MergeMove(b)
          BY <1>6, <3>1, <3>3
        <4>2. PICK i \in Nat : MergeGood(b, i, spans, n)
          BY <1>3
        <4>3. MergeGood(MergeMove(b), i + 1, spans, n)
          BY <1>1, <3>3, <4>2, MergeGoesOn
        <4>4. PICK c : c = MergeMove(b)
          OBVIOUS
        <4>5. c.left \in SUBSET spans /\ c.merged \in Seq(Intervals(n))
          BY <4>3, <4>4 DEF MergeGood, IsMerged
        <4>6. c = [left |-> c.left, merged |-> c.merged]
          BY <4>4 DEF MergeMove
        <4>7. c \in [left : SUBSET spans, merged : Seq(Intervals(n))]
          BY <4>5, <4>6
        <4>8. i + 1 \in Nat
          OBVIOUS
        <4>. QED BY <1>3, <4>1, <4>3, <4>4, <4>7, <4>8
      <3>. QED BY <3>2, <3>3
    <2>. QED BY <1>6, <2>1
  <1>8. PICK g : StepsOn(g, N, S, base, step)
    BY <1>5, <1>7, RecursionOn
  <1>9. \A i \in 0..N : g[i] \in S /\ g[i] = IF i = 0 THEN base ELSE step[<<i, g[i - 1]>>]
    BY <1>8 DEF StepsOn
  <1>10. \A i \in 1..N : g[i - 1].left # {} => g[i] = MergeMove(g[i - 1])
    <2>. TAKE i \in 1..N
    <2>. HAVE g[i - 1].left # {}
    <2>1. i - 1 \in 0..N /\ i \in 0..N /\ i \in Nat /\ i # 0
      OBVIOUS
    <2>2. <<i, g[i - 1]>> \in Nat \X S
      BY <1>9, <2>1
    <2>. QED BY <1>6, <1>9, <2>1, <2>2
  <1>11. g[0] = MergeStart(spans)
    <2>1. PICK z \in 0..N : z = 0
      OBVIOUS
    <2>. QED BY <1>4, <1>9, <2>1
  <1>12. \A i \in 1..N : g[i] = MergeMove(g[i - 1])
    <2>1. \A i \in 1..N : g[i - 1].left # {}
      BY <1>1, <1>2, <1>10, <1>11, MergeRuns
    <2>. QED BY <1>10, <2>1
  <1>13. g = Def(g)
    <2>1. g = [i \in 0..N |-> g[i]]
      BY <1>8 DEF StepsOn
    <2>2. \A i \in 0..N : g[i] = IF i = 0 THEN MergeStart(spans) ELSE MergeMove(g[i - 1])
      BY <1>11, <1>12
    <2>. QED BY <1>2, <2>1, <2>2
  <1>. HIDE DEF Def
  <1>14. PICK f : f = CHOOSE z : z = Def(z)
    OBVIOUS
  <1>15. f = Def(f)
    BY <1>13, <1>14
  <1>16. Merged(spans) = f[N].merged
    BY <1>2, <1>14 DEF Merged, Def, MergeMove, MergeStart, TakenSpan
  <1>17. \A i \in 0..N : f[i] = IF i = 0 THEN MergeStart(spans) ELSE MergeMove(f[i - 1])
    BY <1>2, <1>15 DEF Def
  <1>18. f[0] = MergeStart(spans) /\ \A i \in 1..N : f[i] = MergeMove(f[i - 1])
    <2>1. PICK z \in 0..N : z = 0
      OBVIOUS
    <2>. QED BY <1>17, <2>1
  <1>19. PICK b : b = f[N]
    OBVIOUS
  <1>20. MergeGood(b, N, spans, n)
    <2>1. \A i \in 0..N : MergeGood(f[i], i, spans, n)
      BY <1>1, <1>2, <1>18, MergeRuns
    <2>. QED BY <1>19, <2>1
  <1>21. b.left = {}
    BY <1>2, <1>20, FS_EmptySet DEF MergeGood
  <1>. QED BY <1>16, <1>19, <1>20, <1>21 DEF MergeGood

-----------------------------------------------------------------------------
(* What a filter leaves *)

Associate(x, y, z) == (x \o y) \o z = x \o (y \o z)
LEMMA JoinAssociates ==
    ASSUME NEW X, NEW x \in Seq(X), NEW y \in Seq(X), NEW z \in Seq(X)
    PROVE  Associate(x, y, z)
  BY DEF Associate

FilterStep(f, s, keep, i) == IF i \in keep THEN Append(f[i - 1], s[i]) ELSE f[i - 1]
FilterUpTo(f, s, keep, X) ==
    /\ f \in [0..Len(s) -> Seq(X)]
    /\ f[0] = <<>>
    /\ \A i \in 1..Len(s) : f[i] = FilterStep(f, s, keep, i)

LEMMA FilteredIs ==
    ASSUME NEW X, NEW s \in Seq(X), NEW keep
    PROVE  \E f : FilterUpTo(f, s, keep, X) /\ Filtered(s, keep) = f[Len(s)]
  <1>. DEFINE Def(f) == [i \in 0..Len(s) |->
                          IF i = 0 THEN <<>> ELSE IF i \in keep THEN Append(f[i - 1], s[i]) ELSE f[i - 1]]
  <1>1. PICK n \in Nat : n = Len(s)
    OBVIOUS
  <1>2. PICK S : S = Seq(X)
    OBVIOUS
  <1>3. PICK base \in S : base = <<>>
    BY <1>2, EmptySeq
  <1>4. PICK step : step = [p \in Nat \X S |-> IF p[1] \in 1..n /\ p[1] \in keep THEN Append(p[2], s[p[1]]) ELSE p[2]]
    OBVIOUS
  <1>5. step \in [Nat \X S -> S]
    <2>1. ASSUME NEW p \in Nat \X S PROVE step[p] \in S
      <3>1. PICK i \in Nat, b \in S : p[1] = i /\ p[2] = b
        OBVIOUS
      <3>2. CASE i \in 1..n /\ i \in keep
        <4>1. s[i] \in X
          BY <1>1, <3>2, ElementOfSeq
        <4>2. Append(b, s[i]) \in Seq(X)
          BY <1>2, <4>1
        <4>. QED BY <1>2, <1>4, <3>1, <3>2, <4>2
      <3>3. CASE ~(i \in 1..n /\ i \in keep)
        BY <1>4, <3>1, <3>3
      <3>. QED BY <3>2, <3>3
    <2>. QED BY <1>4, <2>1
  <1>6. PICK g : StepsOn(g, n, S, base, step)
    BY <1>5, RecursionOn
  <1>7. \A i \in 0..n : i # 0 => step[<<i, g[i - 1]>>] = IF i \in keep THEN Append(g[i - 1], s[i]) ELSE g[i - 1]
    <2>. TAKE i \in 0..n
    <2>. HAVE i # 0
    <2>1. i - 1 \in 0..n /\ i \in Nat /\ i \in 1..n
      OBVIOUS
    <2>2. <<i, g[i - 1]>> \in Nat \X S
      BY <1>6, <2>1 DEF StepsOn
    <2>. QED BY <1>4, <2>1, <2>2
  <1>8. g = Def(g)
    BY <1>1, <1>3, <1>6, <1>7 DEF StepsOn
  <1>. HIDE DEF Def
  <1>9. PICK f : f = CHOOSE z : z = Def(z)
    OBVIOUS
  <1>10. f = Def(f)
    BY <1>8, <1>9
  <1>11. Filtered(s, keep) = f[Len(s)]
    BY <1>9 DEF Filtered, Def
  <1>12. \A i \in 0..n : f[i] = IF i = 0 THEN <<>> ELSE FilterStep(f, s, keep, i)
    BY <1>1, <1>10 DEF Def, FilterStep
  <1>13. f[0] = <<>> /\ \A i \in 1..n : f[i] = FilterStep(f, s, keep, i)
    <2>1. PICK z \in 0..n : z = 0
      OBVIOUS
    <2>. QED BY <1>12, <2>1
  <1>. DEFINE Reach == {i \in Nat : i <= n => f[i] \in Seq(X)}
  <1>14. 0 \in Reach
    BY <1>13, EmptySeq
  <1>15. ASSUME NEW i \in Nat, i \in Reach PROVE i + 1 \in Reach
    <2>. SUFFICES ASSUME i + 1 <= n PROVE f[i + 1] \in Seq(X)
      OBVIOUS
    <2>1. PICK j \in 1..n : j = i + 1 /\ j - 1 = i
      OBVIOUS
    <2>2. f[i] \in Seq(X)
      BY <1>15
    <2>3. s[j] \in X
      BY <1>1, ElementOfSeq
    <2>4. f[j] = IF j \in keep THEN Append(f[i], s[j]) ELSE f[i]
      BY <1>13, <2>1 DEF FilterStep
    <2>. QED BY <2>1, <2>2, <2>3, <2>4
  <1>. HIDE DEF Reach
  <1>16. \A i \in 0..n : f[i] \in Seq(X)
    <2>1. Nat \subseteq Reach
      BY <1>14, <1>15, InductionOn
    <2>. QED BY <2>1 DEF Reach
  <1>17. f = [i \in 0..n |-> f[i]]
    BY <1>1, <1>10 DEF Def
  <1>18. f \in [0..n -> Seq(X)]
    BY <1>16, <1>17
  <1>19. FilterUpTo(f, s, keep, X)
    BY <1>1, <1>13, <1>18 DEF FilterUpTo
  <1>. QED BY <1>11, <1>19

AllIn(keep, a, b) == \A i \in (a + 1)..b : i \in keep
NoneIn(keep, a, b) == \A i \in (a + 1)..b : i \notin keep
Follows(f, s, a, b) == f[b] = f[a] \o SubSeq(s, a + 1, b)
\* A stretch that is kept whole follows what was left before it; one that is dropped adds nothing.
LEMMA FilterStretch ==
    ASSUME NEW X, NEW s \in Seq(X), NEW keep, NEW f, FilterUpTo(f, s, keep, X),
           NEW a \in 0..Len(s), NEW b \in a..Len(s)
    PROVE  /\ AllIn(keep, a, b) => Follows(f, s, a, b)
           /\ NoneIn(keep, a, b) => f[b] = f[a]
  <1>. USE DEF AllIn, NoneIn, Follows
  <1>1. PICK n \in Nat : n = Len(s)
    OBVIOUS
  <1>2. /\ \A i \in 0..n : f[i] \in Seq(X)
        /\ \A i \in 1..n : f[i] = IF i \in keep THEN Append(f[i - 1], s[i]) ELSE f[i - 1]
    BY <1>1 DEF FilterUpTo, FilterStep
  <1>3. b - a \in Nat /\ a + (b - a) = b /\ a + (b - a) <= n /\ a \in Nat /\ b \in Nat
    BY <1>1
  <1>4. CASE \A i \in (a + 1)..b : i \in keep
    <2>. DEFINE Good(j) == f[j] = f[a] \o SubSeq(s, a + 1, j)
                Reach == {k \in Nat : a + k <= b => Good(a + k)}
    <2>1. 0 \in Reach
      <3>1. SubSeq(s, a + 1, a) = <<>>
        BY SubSeqEmpty, <1>3
      <3>2. f[a] \in Seq(X)
        BY <1>1, <1>2
      <3>3. f[a] \o <<>> = f[a]
        BY <3>2, ConcatEmptySeq
      <3>4. Good(a)
        BY <3>1, <3>3
      <3>. HIDE DEF Good
      <3>. QED BY <1>3, <3>4
    <2>2. ASSUME NEW k \in Nat, k \in Reach PROVE k + 1 \in Reach
      <3>. HIDE DEF Good
      <3>. SUFFICES ASSUME a + (k + 1) <= b PROVE Good(a + (k + 1))
        OBVIOUS
      <3>. USE DEF Good
      <3>1. PICK j \in 1..n : j = a + (k + 1) /\ j - 1 = a + k /\ j \in (a + 1)..b /\ a + k <= b /\ a + 1 \in 1..n /\ j \in (a + 1)..n
        BY <1>3
      <3>2. f[a + k] = f[a] \o SubSeq(s, a + 1, a + k)
        BY <2>2, <3>1
      <3>3. f[j] = Append(f[a + k], s[j])
        BY <1>2, <1>4, <3>1
      <3>4. PICK p, q, r : p = f[a] /\ q = SubSeq(s, a + 1, a + k) /\ r = <<s[j]>>
        OBVIOUS
      <3>5. p \in Seq(X) /\ r \in Seq(X) /\ f[a + k] \in Seq(X)
        <4>1. s[j] \in X
          BY <1>1, ElementOfSeq
        <4>2. a \in 0..n /\ a + k \in 0..n
          BY <1>3, <3>1
        <4>. QED BY <1>2, <3>4, <4>1, <4>2
      <3>6. q \in Seq(X)
        <4>1. \A i \in (a + 1)..(a + k) : s[i] \in X
          <5>. TAKE i \in (a + 1)..(a + k)
          <5>1. i \in 1..Len(s)
            BY <1>1, <1>3, <3>1
          <5>. QED BY <5>1, ElementOfSeq
        <4>2. a + 1 \in Int /\ a + k \in Int
          BY <1>3
        <4>. QED BY <3>4, <4>1, <4>2, SubSeqProperties
      <3>7. SubSeq(s, a + 1, j) = q \o r
        BY <1>1, <3>1, <3>4, SubSeqRecursiveSecond
      <3>8. Append(f[a + k], s[j]) = f[a + k] \o r
        <4>1. PICK c, x : c = f[a + k] /\ x = s[j]
          OBVIOUS
        <4>2. x \in X /\ c \in Seq(X)
          BY <1>1, <3>5, <4>1, ElementOfSeq
        <4>3. Append(c, x) = c \o <<x>>
          BY <4>2, AppendIsConcat
        <4>. QED BY <3>4, <4>1, <4>3
      <3>9. Associate(p, q, r)
        BY <3>5, <3>6, JoinAssociates
      <3>10. Good(j)
        BY <3>1, <3>2, <3>3, <3>4, <3>7, <3>8, <3>9 DEF Associate
      <3>. QED BY <3>1, <3>10
    <2>. HIDE DEF Reach
    <2>3. b - a \in Reach
      BY <1>3, <2>1, <2>2, InductionOn
    <2>4. Good(b)
      <3>. HIDE DEF Good
      <3>. QED BY <1>3, <2>3 DEF Reach
    <2>5. CASE \A i \in (a + 1)..b : i \notin keep
      <3>1. a = b
        BY <1>3, <1>4, <2>5
      <3>. QED BY <2>4, <3>1
    <2>. QED BY <2>4, <2>5
  <1>5. CASE \A i \in (a + 1)..b : i \notin keep
    <2>. DEFINE Reach == {k \in Nat : a + k <= b => f[a + k] = f[a]}
    <2>1. 0 \in Reach
      BY <1>3
    <2>2. ASSUME NEW k \in Nat, k \in Reach PROVE k + 1 \in Reach
      <3>. SUFFICES ASSUME a + (k + 1) <= b PROVE f[a + (k + 1)] = f[a]
        OBVIOUS
      <3>1. PICK j \in 1..n : j = a + (k + 1) /\ j - 1 = a + k /\ j \in (a + 1)..b /\ a + k <= b
        BY <1>3
      <3>2. f[j] = f[a + k]
        BY <1>2, <1>5, <3>1
      <3>. QED BY <2>2, <3>1, <3>2
    <2>. HIDE DEF Reach
    <2>3. b - a \in Reach
      BY <1>3, <2>1, <2>2, InductionOn
    <2>4. f[b] = f[a]
      BY <1>3, <2>3 DEF Reach
    <2>5. CASE \A i \in (a + 1)..b : i \in keep
      BY <1>4, <2>5, <2>4
    <2>. QED BY <2>4, <2>5
  <1>. QED BY <1>4, <1>5

-----------------------------------------------------------------------------
(* The text of what is returned: its bytes but for those of the placeholders *)

Marks == {"[", "redacted", "]"}

LEMMA PlaceholderIs ==
    /\ Placeholder \in Seq(Marks) /\ Len(Placeholder) = 3 /\ ToSet(Placeholder) = Marks
  <1>1. Placeholder \in Seq(Marks) /\ Len(Placeholder) = 3
    BY DEF Placeholder, Marks
  <1>2. DOMAIN Placeholder = 1..3
    BY <1>1
  <1>3. Placeholder[1] = "[" /\ Placeholder[2] = "redacted" /\ Placeholder[3] = "]"
    BY DEF Placeholder
  <1>4. ToSet(Placeholder) = {Placeholder[1], Placeholder[2], Placeholder[3]}
    <2>1. \A i \in 1..3 : i = 1 \/ i = 2 \/ i = 3
      OBVIOUS
    <2>2. 1 \in 1..3 /\ 2 \in 1..3 /\ 3 \in 1..3
      OBVIOUS
    <2>. QED BY <1>2, <2>1, <2>2, Zenon DEF ToSet
  <1>. QED BY <1>1, <1>3, <1>4 DEF Marks

Unmarked(s) == {i \in DOMAIN s : s[i] \notin Marks}

LEMMA TextIs ==
    ASSUME NEW X, NEW s \in Seq(X)
    PROVE  \E f : FilterUpTo(f, s, Unmarked(s), X) /\ Text(s) = f[Len(s)]
  <1>1. Text(s) = Filtered(s, Unmarked(s))
    BY PlaceholderIs DEF Text, Unmarked
  <1>2. PICK keep : keep = Unmarked(s)
    OBVIOUS
  <1>3. \E f : FilterUpTo(f, s, keep, X) /\ Filtered(s, keep) = f[Len(s)]
    BY FilteredIs
  <1>. QED BY <1>1, <1>2, <1>3

LEMMA TextOfPlain ==
    ASSUME NEW X, X \cap Marks = {}, NEW s \in Seq(X) PROVE Text(s) = s
  <1>1. PICK keep : keep = Unmarked(s)
    OBVIOUS
  <1>2. PICK f : FilterUpTo(f, s, keep, X) /\ Text(s) = f[Len(s)]
    BY <1>1, TextIs
  <1>3. PICK n \in Nat : n = Len(s)
    OBVIOUS
  <1>4. PICK z \in 0..Len(s) : z = 0 /\ z + 1 = 1 /\ n \in z..Len(s)
    BY <1>3
  <1>5. AllIn(keep, z, n)
    <2>. USE DEF AllIn
    <2>. TAKE i \in (z + 1)..n
    <2>1. i \in 1..Len(s) /\ s[i] \in X
      BY <1>3, <1>4, ElementOfSeq
    <2>. QED BY <1>1, <2>1 DEF Unmarked
  <1>6. f[n] = f[z] \o SubSeq(s, z + 1, n)
    <2>1. Follows(f, s, z, n)
      BY <1>2, <1>4, <1>5, FilterStretch
    <2>. QED BY <2>1 DEF Follows
  <1>7. SubSeq(s, z + 1, n) = s
    BY <1>3, <1>4, SubSeqFull
  <1>8. f[z] = <<>>
    BY <1>2, <1>4 DEF FilterUpTo
  <1>9. <<>> \o s = s
    BY ConcatEmptySeq
  <1>. QED BY <1>2, <1>3, <1>6, <1>7, <1>8, <1>9

LEMMA TextOfPlaceholder == Text(Placeholder) = <<>>
  <1>1. PICK s \in Seq(Marks) : s = Placeholder /\ Len(s) = 3
    BY PlaceholderIs
  <1>2. PICK keep : keep = Unmarked(s)
    OBVIOUS
  <1>3. PICK f : FilterUpTo(f, s, keep, Marks) /\ Text(s) = f[Len(s)]
    BY <1>2, TextIs
  <1>4. PICK z \in 0..Len(s), n \in 0..Len(s) : z = 0 /\ n = 3 /\ n \in z..Len(s)
    BY <1>1
  <1>5. NoneIn(keep, z, n)
    <2>. USE DEF NoneIn
    <2>. TAKE i \in (z + 1)..n
    <2>1. i \in 1..Len(s) /\ s[i] \in Marks
      BY <1>1, <1>4, ElementOfSeq
    <2>. QED BY <1>2, <2>1 DEF Unmarked
  <1>6. f[n] = f[z]
    BY <1>3, <1>4, <1>5, FilterStretch
  <1>. QED BY <1>1, <1>3, <1>4, <1>6 DEF FilterUpTo

LEMMA TextOfJoined ==
    ASSUME NEW X, NEW a \in Seq(X), NEW b \in Seq(X)
    PROVE  Text(a \o b) = Text(a) \o Text(b) /\ Text(a) \in Seq(X) /\ Text(b) \in Seq(X)
  <1>1. PICK c \in Seq(X) : c = a \o b
    BY ConcatProperties
  <1>2. PICK la \in Nat, lb \in Nat : la = Len(a) /\ lb = Len(b) /\ Len(c) = la + lb
    BY <1>1, ConcatProperties
  <1>3. \A i \in 1..(la + lb) : c[i] = IF i <= la THEN a[i] ELSE b[i - la]
    BY <1>1, <1>2, ConcatProperties
  <1>4. PICK f : FilterUpTo(f, c, Unmarked(c), X) /\ Text(c) = f[Len(c)]
    BY TextIs
  <1>5. PICK fa : FilterUpTo(fa, a, Unmarked(a), X) /\ Text(a) = fa[Len(a)]
    BY TextIs
  <1>6. PICK fb : FilterUpTo(fb, b, Unmarked(b), X) /\ Text(b) = fb[Len(b)]
    BY TextIs
  <1>7. /\ f[0] = <<>> /\ \A i \in 1..(la + lb) : f[i] = IF c[i] \notin Marks THEN Append(f[i - 1], c[i]) ELSE f[i - 1]
        /\ fa[0] = <<>> /\ \A i \in 1..la : fa[i] = IF a[i] \notin Marks THEN Append(fa[i - 1], a[i]) ELSE fa[i - 1]
        /\ fb[0] = <<>> /\ \A i \in 1..lb : fb[i] = IF b[i] \notin Marks THEN Append(fb[i - 1], b[i]) ELSE fb[i - 1]
    <2>1. DOMAIN a = 1..la /\ DOMAIN b = 1..lb /\ DOMAIN c = 1..(la + lb)
      BY <1>2, LenProperties
    <2>2. /\ f[0] = <<>> /\ \A i \in 1..(la + lb) : f[i] = IF c[i] \notin Marks THEN Append(f[i - 1], c[i]) ELSE f[i - 1]
      BY <1>2, <1>4, <2>1 DEF FilterUpTo, FilterStep, Unmarked
    <2>3. /\ fa[0] = <<>> /\ \A i \in 1..la : fa[i] = IF a[i] \notin Marks THEN Append(fa[i - 1], a[i]) ELSE fa[i - 1]
      BY <1>2, <1>5, <2>1 DEF FilterUpTo, FilterStep, Unmarked
    <2>4. /\ fb[0] = <<>> /\ \A i \in 1..lb : fb[i] = IF b[i] \notin Marks THEN Append(fb[i - 1], b[i]) ELSE fb[i - 1]
      BY <1>2, <1>6, <2>1 DEF FilterUpTo, FilterStep, Unmarked
    <2>. QED BY <2>2, <2>3, <2>4
  <1>8. (\A i \in 0..la : fa[i] \in Seq(X)) /\ \A i \in 0..lb : fb[i] \in Seq(X)
    BY <1>2, <1>5, <1>6 DEF FilterUpTo
  <1>. DEFINE Reach == {i \in Nat : i <= la => f[i] = fa[i]}
  <1>9. 0 \in Reach
    BY <1>7
  <1>10. ASSUME NEW i \in Nat, i \in Reach PROVE i + 1 \in Reach
    <2>. SUFFICES ASSUME i + 1 <= la PROVE f[i + 1] = fa[i + 1]
      OBVIOUS
    <2>1. PICK j \in 1..la : j = i + 1 /\ j - 1 = i /\ j \in 1..(la + lb) /\ j <= la
      OBVIOUS
    <2>2. f[i] = fa[i]
      BY <1>10
    <2>3. c[j] = a[j]
      BY <1>3, <2>1
    <2>4. f[j] = IF c[j] \notin Marks THEN Append(f[i], c[j]) ELSE f[i]
      BY <1>7, <2>1
    <2>5. fa[j] = IF a[j] \notin Marks THEN Append(fa[i], a[j]) ELSE fa[i]
      BY <1>7, <2>1
    <2>. QED BY <2>1, <2>2, <2>3, <2>4, <2>5
  <1>. HIDE DEF Reach
  <1>11. f[la] = fa[la]
    <2>1. la \in Reach
      BY <1>9, <1>10, InductionOn
    <2>. QED BY <2>1 DEF Reach
  <1>12. PICK p \in Seq(X) : p = fa[la]
    BY <1>8
  <1>. DEFINE Good(k) == f[la + k] = p \o fb[k]
              U == {k \in Nat : k <= lb => Good(k)}
  <1>13. 0 \in U
    <2>1. p \o <<>> = p
      BY ConcatEmptySeq
    <2>2. la + 0 = la
      OBVIOUS
    <2>3. Good(0)
      BY <1>7, <1>11, <1>12, <2>1, <2>2
    <2>. HIDE DEF Good
    <2>. QED BY <2>3
  <1>14. ASSUME NEW k \in Nat, k \in U PROVE k + 1 \in U
    <2>. HIDE DEF Good
    <2>. SUFFICES ASSUME k + 1 <= lb PROVE Good(k + 1)
      OBVIOUS
    <2>1. Good(k)
      BY <1>14
    <2>. USE DEF Good
    <2>2. PICK j \in 1..lb : j = k + 1 /\ j - 1 = k
      OBVIOUS
    <2>3. PICK i \in 1..(la + lb) : i = la + j /\ i - 1 = la + k /\ i - la = j /\ ~(i <= la)
      BY <2>2
    <2>4. c[i] = b[j]
      BY <1>3, <2>3
    <2>5. f[i] = IF c[i] \notin Marks THEN Append(f[la + k], c[i]) ELSE f[la + k]
      BY <1>7, <2>3
    <2>6. fb[j] = IF b[j] \notin Marks THEN Append(fb[k], b[j]) ELSE fb[k]
      BY <1>7, <2>2
    <2>7. PICK q \in Seq(X), x \in X : q = fb[k] /\ x = b[j]
      BY <1>2, <1>8, <2>2, ElementOfSeq
    <2>8. Append(p \o q, x) = p \o Append(q, x)
      <3>1. <<x>> \in Seq(X) /\ p \o q \in Seq(X)
        BY ConcatProperties
      <3>2. Associate(p, q, <<x>>)
        BY <3>1, JoinAssociates
      <3>3. Append(p \o q, x) = (p \o q) \o <<x>>
        BY <3>1, AppendIsConcat
      <3>4. Append(q, x) = q \o <<x>>
        BY AppendIsConcat
      <3>. QED BY <3>2, <3>3, <3>4 DEF Associate
    <2>9. f[i] = p \o fb[j]
      BY <2>1, <2>4, <2>5, <2>6, <2>7, <2>8
    <2>. QED BY <2>2, <2>3, <2>9
  <1>. HIDE DEF U, Good
  <1>15. Good(lb)
    <2>1. lb \in U
      BY <1>13, <1>14, InductionOn
    <2>. QED BY <2>1 DEF U
  <1>16. fb[lb] \in Seq(X)
    BY <1>8
  <1>. QED BY <1>1, <1>2, <1>4, <1>5, <1>6, <1>12, <1>15, <1>16 DEF Good

-----------------------------------------------------------------------------
(* Between two placeholders there is a stretch of the input that nothing matched *)

NoMarks(bytes, p, q) == \A k \in p..q : bytes[k] \notin Marks
Shifted(bytes, p, q, d, input, C) ==
    \A k \in p..q : k + d \in 1..Len(input) /\ k + d \notin C /\ bytes[k] = input[k + d]
Clean(bytes, input, C) ==
    \A p, q \in 1..Len(bytes) :
        p <= q /\ NoMarks(bytes, p, q) => \E d \in Int : Shifted(bytes, p, q, d, input, C)
EndsMarked(bytes) == bytes # <<>> => bytes[Len(bytes)] \in Marks

IsStretch(t, s, a, b, X) ==
    t \in Seq(X) /\ Len(t) = b - a + 1 /\ \A i \in 1..(b - a + 1) : t[i] = s[a + i - 1]
IsJoin(z, x, y) ==
    Len(z) = Len(x) + Len(y) /\ \A i \in 1..(Len(x) + Len(y)) : z[i] = IF i <= Len(x) THEN x[i] ELSE y[i - Len(x)]
LEMMA JoinIs ==
    ASSUME NEW Y, NEW x \in Seq(Y), NEW y \in Seq(Y) PROVE x \o y \in Seq(Y) /\ IsJoin(x \o y, x, y)
  BY ConcatProperties DEF IsJoin
LEMMA StretchIs ==
    ASSUME NEW X, NEW s \in Seq(X), NEW a \in 1..(Len(s) + 1), NEW b \in (a - 1)..Len(s)
    PROVE  IsStretch(SubSeq(s, a, b), s, a, b, X)
  <1>1. a \in Int /\ b \in Int
    OBVIOUS
  <1>2. \A i \in a..b : s[i] \in X
    <2>. TAKE i \in a..b
    <2>1. i \in 1..Len(s)
      OBVIOUS
    <2>. QED BY <2>1, ElementOfSeq
  <1>3. PICK t : t = SubSeq(s, a, b)
    OBVIOUS
  <1>4. t \in Seq(X) /\ (Len(t) = IF a <= b THEN b - a + 1 ELSE 0) /\ \A i \in 1..(b - a + 1) : t[i] = s[a + i - 1]
    BY <1>1, <1>2, <1>3, SubSeqProperties
  <1>5. Len(t) = b - a + 1
    BY <1>1, <1>4
  <1>. QED BY <1>3, <1>4, <1>5 DEF IsStretch

LEMMA CleanGoesOn ==
    ASSUME NEW X, NEW Y, X \subseteq Y, NEW input \in Seq(X), NEW C,
           NEW x \in Seq(Y), Clean(x, input, C), EndsMarked(x),
           NEW a \in 1..(Len(input) + 1), NEW b \in (a - 1)..Len(input), \A i \in a..b : i \notin C
    PROVE  Clean(x \o SubSeq(input, a, b), input, C)
  <1>1. PICK y \in Seq(Y) : y = SubSeq(input, a, b) /\ Len(y) = b - a + 1 /\ \A i \in 1..(b - a + 1) : y[i] = input[a + i - 1]
    <2>1. input \in Seq(Y)
      BY SeqMonotonic
    <2>2. PICK y : y = SubSeq(input, a, b)
      OBVIOUS
    <2>3. IsStretch(y, input, a, b, Y)
      BY <2>1, <2>2, StretchIs
    <2>. QED BY <2>2, <2>3 DEF IsStretch
  <1>2. PICK z \in Seq(Y) : z = x \o y /\ IsJoin(z, x, y)
    BY JoinIs
  <1>3. PICK lx \in Nat : lx = Len(x)
    OBVIOUS
  <1>4. Len(z) = lx + (b - a + 1) /\ \A i \in 1..(lx + (b - a + 1)) : z[i] = IF i <= lx THEN x[i] ELSE y[i - lx]
    BY <1>1, <1>2, <1>3 DEF IsJoin
  <1>5. a \in Int /\ b \in Int /\ Len(input) \in Nat
    OBVIOUS
  <1>6. ASSUME NEW p \in 1..Len(z), NEW q \in 1..Len(z), p <= q, NoMarks(z, p, q)
        PROVE  \E d \in Int : Shifted(z, p, q, d, input, C)
    <2>1. CASE q <= lx
      <3>1. \A k \in p..q : z[k] = x[k]
        BY <1>4, <1>5, <2>1
      <3>2. p \in 1..Len(x) /\ q \in 1..Len(x) /\ NoMarks(x, p, q)
        <4>1. p \in 1..Len(x) /\ q \in 1..Len(x)
          BY <1>3, <1>4, <1>6, <2>1
        <4>2. NoMarks(x, p, q)
          BY <1>6, <3>1 DEF NoMarks
        <4>. QED BY <4>1, <4>2
      <3>3. PICK d \in Int : Shifted(x, p, q, d, input, C)
        BY <1>6, <3>2 DEF Clean
      <3>. QED BY <3>1, <3>3 DEF Shifted
    <2>2. CASE p > lx
      <3>1. PICK d \in Int : d = (a - 1) - lx
        BY <1>5
      <3>2. ASSUME NEW k \in p..q PROVE k + d \in 1..Len(input) /\ k + d \notin C /\ z[k] = input[k + d]
        <4>1. k \in 1..(lx + (b - a + 1)) /\ ~(k <= lx) /\ k - lx \in 1..(b - a + 1)
          BY <1>4, <1>5, <2>2
        <4>2. PICK i \in 1..(b - a + 1) : i = k - lx
          BY <4>1
        <4>3. a + i - 1 = k + d /\ k + d \in a..b /\ k + d \in 1..Len(input)
          BY <1>5, <3>1, <4>1, <4>2
        <4>4. z[k] = y[i]
          BY <1>4, <4>1, <4>2
        <4>5. y[i] = input[a + i - 1]
          BY <1>1
        <4>. QED BY <4>3, <4>4, <4>5
      <3>. QED BY <3>2 DEF Shifted
    <2>3. CASE p <= lx /\ lx < q
      <3>1. lx \in p..q /\ lx \in 1..(lx + (b - a + 1)) /\ lx # 0
        BY <1>4, <1>5, <2>3
      <3>2. z[lx] = x[lx] /\ z[lx] \notin Marks
        BY <1>4, <1>6, <3>1 DEF NoMarks
      <3>3. x # <<>>
        BY <1>3, <3>1, EmptySeq
      <3>. QED BY <1>3, <3>2, <3>3 DEF EndsMarked
    <2>. QED BY <1>3, <1>4, <1>5, <2>1, <2>2, <2>3
  <1>7. Clean(z, input, C)
    BY <1>6 DEF Clean
  <1>. QED BY <1>1, <1>2, <1>7

LEMMA CleanIsMarked ==
    ASSUME NEW Y, Marks \subseteq Y, NEW input, NEW C, NEW x \in Seq(Y), Clean(x, input, C)
    PROVE  Clean(x \o Placeholder, input, C) /\ EndsMarked(x \o Placeholder)
  <1>1. PICK y \in Seq(Y) : y = Placeholder /\ Len(y) = 3 /\ \A i \in 1..3 : y[i] \in Marks
    <2>1. \A i \in 1..3 : Placeholder[i] \in Marks
      BY PlaceholderIs, ElementOfSeq
    <2>2. Placeholder \in Seq(Y)
      BY PlaceholderIs, SeqMonotonic
    <2>. QED BY <2>1, <2>2, PlaceholderIs
  <1>2. PICK z \in Seq(Y) : z = x \o y /\ IsJoin(z, x, y)
    BY JoinIs
  <1>3. PICK lx \in Nat : lx = Len(x)
    OBVIOUS
  <1>4. Len(z) = lx + 3 /\ \A i \in 1..(lx + 3) : z[i] = IF i <= lx THEN x[i] ELSE y[i - lx]
    BY <1>1, <1>2, <1>3 DEF IsJoin
  <1>5. \A i \in 1..(lx + 3) : i > lx => z[i] \in Marks
    <2>. TAKE i \in 1..(lx + 3)
    <2>. HAVE i > lx
    <2>1. i - lx \in 1..3 /\ ~(i <= lx)
      OBVIOUS
    <2>. QED BY <1>1, <1>4, <2>1
  <1>6. ASSUME NEW p \in 1..Len(z), NEW q \in 1..Len(z), p <= q, NoMarks(z, p, q)
        PROVE  \E d \in Int : Shifted(z, p, q, d, input, C)
    <2>1. q <= lx
      <3>1. z[q] \notin Marks
        BY <1>6 DEF NoMarks
      <3>. QED BY <1>4, <1>5, <3>1
    <2>2. \A k \in p..q : z[k] = x[k]
      BY <1>4, <2>1
    <2>3. p \in 1..Len(x) /\ q \in 1..Len(x) /\ NoMarks(x, p, q)
      BY <1>3, <1>6, <2>1, <2>2 DEF NoMarks
    <2>4. PICK d \in Int : Shifted(x, p, q, d, input, C)
      BY <1>6, <2>3 DEF Clean
    <2>. QED BY <2>2, <2>4 DEF Shifted
  <1>7. Clean(z, input, C)
    BY <1>6 DEF Clean
  <1>8. EndsMarked(z)
    BY <1>4, <1>5 DEF EndsMarked
  <1>. QED BY <1>1, <1>2, <1>7, <1>8

LEMMA CleanIsCut ==
    ASSUME NEW Y, NEW input, NEW C, NEW x \in Seq(Y), Clean(x, input, C), NEW l \in 0..Len(x)
    PROVE  Clean(SubSeq(x, 1, l), input, C)
  <1>1. PICK z \in Seq(Y) : z = SubSeq(x, 1, l) /\ Len(z) = l /\ \A i \in 1..l : z[i] = x[i]
    <2>1. PICK o \in 1..(Len(x) + 1) : o = 1 /\ l \in (o - 1)..Len(x)
      OBVIOUS
    <2>2. IsStretch(SubSeq(x, o, l), x, o, l, Y)
      BY <2>1, StretchIs
    <2>3. l - o + 1 = l /\ \A i \in 1..l : o + i - 1 = i
      BY <2>1
    <2>. QED BY <2>1, <2>2, <2>3 DEF IsStretch
  <1>2. ASSUME NEW p \in 1..Len(z), NEW q \in 1..Len(z), p <= q, NoMarks(z, p, q)
        PROVE  \E d \in Int : Shifted(z, p, q, d, input, C)
    <2>1. \A k \in p..q : z[k] = x[k]
      BY <1>1
    <2>2. p \in 1..Len(x) /\ q \in 1..Len(x) /\ NoMarks(x, p, q)
      BY <1>1, <1>2, <2>1 DEF NoMarks
    <2>3. PICK d \in Int : Shifted(x, p, q, d, input, C)
      BY <1>2, <2>2 DEF Clean
    <2>. QED BY <2>1, <2>3 DEF Shifted
  <1>3. Clean(z, input, C)
    BY <1>2 DEF Clean
  <1>. QED BY <1>1, <1>3

\* A value whose every occurrence in the input is matched does not occur in what is clean.
LEMMA NoValueInClean ==
    ASSUME NEW X, X \cap Marks = {}, NEW Y, NEW input \in Seq(X), NEW C,
           NEW bytes \in Seq(Y), Clean(bytes, input, C),
           NEW value \in Seq(X), Len(value) # 0,
           \A s \in Spans(value, input) : s.from .. s.to \subseteq C
    PROVE  Spans(value, bytes) = {}
  <1>. SUFFICES ASSUME NEW s \in Spans(value, bytes) PROVE FALSE
    OBVIOUS
  <1>1. PICK a \in 1..Len(bytes), b \in 1..Len(bytes) : SubSeq(bytes, a, b) = value
    BY DEF Spans
  <1>2. a <= b
    <2>. SUFFICES ASSUME b < a PROVE FALSE
      OBVIOUS
    <2>1. SubSeq(bytes, a, b) = <<>>
      BY SubSeqEmpty
    <2>. QED BY <1>1, <2>1, EmptySeq
  <1>3. /\ Len(value) = b - a + 1
        /\ \A i \in 1..(b - a + 1) : value[i] = bytes[a + i - 1]
    <2>1. a \in 1..(Len(bytes) + 1) /\ b \in (a - 1)..Len(bytes)
      BY <1>2
    <2>2. IsStretch(value, bytes, a, b, Y)
      BY <1>1, <2>1, StretchIs
    <2>. QED BY <2>2 DEF IsStretch
  <1>4. NoMarks(bytes, a, b)
    <2>1. ASSUME NEW k \in a..b PROVE bytes[k] \notin Marks
      <3>1. PICK i \in 1..(b - a + 1) : a + i - 1 = k
        <4>1. k - a + 1 \in 1..(b - a + 1) /\ a + (k - a + 1) - 1 = k
          OBVIOUS
        <4>. QED BY <4>1
      <3>2. value[i] \in X
        BY <1>3, ElementOfSeq
      <3>. QED BY <1>3, <3>1, <3>2
    <2>. QED BY <2>1 DEF NoMarks
  <1>5. PICK d \in Int : Shifted(bytes, a, b, d, input, C)
    BY <1>2, <1>4 DEF Clean
  <1>6. PICK e \in Int, f \in Int : e = a + d /\ f = b + d
    OBVIOUS
  <1>7. e \in 1..Len(input) /\ f \in 1..Len(input) /\ e <= f /\ e \notin C /\ f - e + 1 = b - a + 1
    <2>1. a \in a..b /\ b \in a..b
      BY <1>2
    <2>2. a + d \in 1..Len(input) /\ a + d \notin C /\ b + d \in 1..Len(input)
      BY <1>5, <2>1 DEF Shifted
    <2>. QED BY <1>2, <1>6, <2>2
  <1>8. SubSeq(input, e, f) = value
    <2>1. PICK t \in Seq(X) : t = SubSeq(input, e, f) /\ Len(t) = f - e + 1 /\ \A i \in 1..(f - e + 1) : t[i] = input[e + i - 1]
      <3>1. e \in 1..(Len(input) + 1) /\ f \in (e - 1)..Len(input)
        BY <1>7
      <3>2. PICK t : t = SubSeq(input, e, f)
        OBVIOUS
      <3>3. IsStretch(t, input, e, f, X)
        BY <3>1, <3>2, StretchIs
      <3>. QED BY <3>2, <3>3 DEF IsStretch
    <2>2. ASSUME NEW i \in 1..(b - a + 1) PROVE t[i] = value[i]
      <3>1. PICK k \in a..b : k = a + i - 1 /\ k + d = e + i - 1
        BY <1>2, <1>6
      <3>2. bytes[k] = input[k + d]
        BY <1>5 DEF Shifted
      <3>. QED BY <1>3, <1>7, <2>1, <3>1, <3>2
    <2>3. Len(t) = Len(value) /\ \A i \in 1..Len(t) : t[i] = value[i]
      BY <1>3, <1>7, <2>1, <2>2
    <2>. QED BY <2>1, <2>3, SeqEqual
  <1>9. PICK r : r = [from |-> e, to |-> f]
    OBVIOUS
  <1>10. r \in Spans(value, input) /\ r.from = e /\ r.to = f
    BY <1>7, <1>8, <1>9 DEF Spans
  <1>11. e \in r.from .. r.to
    BY <1>7, <1>10
  <1>. QED BY <1>7, <1>10, <1>11

-----------------------------------------------------------------------------
(* What is written for an input whose matched spans are merged *)

WriteStep(b, s, input) ==
    [bytes |-> b.bytes \o SubSeq(input, b.at, s.from - 1) \o Placeholder, at |-> s.to + 1]
WriteStart == [bytes |-> <<>>, at |-> 1]

LEMMA WrittenIs ==
    ASSUME NEW X, NEW input \in Seq(X), NEW m \in Seq(Intervals(Len(input)))
    PROVE  \E f : /\ f[0] = WriteStart
                  /\ \A i \in 1..Len(m) : f[i] = WriteStep(f[i - 1], m[i], input)
                  /\ Written(input, m) = f[Len(m)].bytes \o SubSeq(input, f[Len(m)].at, Len(input))
  <1>. DEFINE Def(f) == [i \in 0..Len(m) |-> IF i = 0 THEN WriteStart ELSE WriteStep(f[i - 1], m[i], input)]
  <1>1. PICK n \in Nat, N \in Nat : n = Len(input) /\ N = Len(m)
    OBVIOUS
  <1>2. PICK Y : Y = X \cup Marks
    OBVIOUS
  <1>3. PICK S : S = [bytes : Seq(Y), at : 1..(n + 1)]
    OBVIOUS
  <1>4. PICK base : base = WriteStart
    OBVIOUS
  <1>5. base \in S
    <2>1. <<>> \in Seq(Y) /\ 1 \in 1..(n + 1)
      BY EmptySeq
    <2>. QED BY <1>3, <1>4, <2>1 DEF WriteStart
  <1>6. PICK step : step = [p \in Nat \X S |-> IF p[1] \in 1..N THEN WriteStep(p[2], m[p[1]], input) ELSE p[2]]
    OBVIOUS
  <1>7. step \in [Nat \X S -> S]
    <2>1. ASSUME NEW p \in Nat \X S PROVE step[p] \in S
      <3>1. PICK i \in Nat, b \in S : i = p[1] /\ b = p[2]
        OBVIOUS
      <3>2. CASE i \notin 1..N
        BY <1>6, <3>1, <3>2
      <3>3. CASE i \in 1..N
        <4>1. step[p] = WriteStep(b, m[i], input)
          BY <1>6, <3>1, <3>3
        <4>2. PICK s \in Intervals(n) : s = m[i]
          BY <1>1, <3>3, ElementOfSeq
        <4>3. s.from \in 1..n /\ s.to \in 1..n
          BY DEF Intervals
        <4>4. b.bytes \in Seq(Y) /\ b.at \in 1..(n + 1)
          BY <1>3
        <4>5. PICK c, d, e : c = SubSeq(input, b.at, s.from - 1) /\ d = b.bytes \o c /\ e = d \o Placeholder
          OBVIOUS
        <4>6. c \in Seq(Y)
          <5>1. PICK x \in Int, y \in Int : x = b.at /\ y = s.from - 1
            BY <4>3, <4>4
          <5>2. \A k \in x..y : input[k] \in Y
            <6>. TAKE k \in x..y
            <6>1. k \in 1..Len(input)
              BY <1>1, <4>3, <4>4, <5>1
            <6>. QED BY <1>2, <6>1, ElementOfSeq
          <5>. QED BY <4>5, <5>1, <5>2, SubSeqProperties
        <4>7. d \in Seq(Y)
          BY <4>4, <4>5, <4>6, JoinIs
        <4>8. Placeholder \in Seq(Y)
          BY <1>2, PlaceholderIs, SeqMonotonic
        <4>9. e \in Seq(Y)
          BY <4>5, <4>7, <4>8, JoinIs
        <4>10. s.to + 1 \in 1..(n + 1)
          BY <4>3
        <4>11. step[p] = [bytes |-> e, at |-> s.to + 1]
          BY <4>1, <4>2, <4>5 DEF WriteStep
        <4>. QED BY <1>3, <4>9, <4>10, <4>11
      <3>. QED BY <3>2, <3>3
    <2>. QED BY <1>6, <2>1
  <1>8. PICK g : StepsOn(g, N, S, base, step)
    BY <1>5, <1>7, RecursionOn
  <1>9. \A i \in 0..N : i # 0 => step[<<i, g[i - 1]>>] = WriteStep(g[i - 1], m[i], input)
    <2>. TAKE i \in 0..N
    <2>. HAVE i # 0
    <2>1. i - 1 \in 0..N /\ i \in Nat /\ i \in 1..N
      OBVIOUS
    <2>2. <<i, g[i - 1]>> \in Nat \X S
      BY <1>8, <2>1 DEF StepsOn
    <2>. QED BY <1>6, <2>1, <2>2
  <1>10. g = Def(g)
    BY <1>1, <1>4, <1>8, <1>9 DEF StepsOn
  <1>. HIDE DEF Def
  <1>11. PICK f : f = CHOOSE z : z = Def(z)
    OBVIOUS
  <1>12. f = Def(f)
    BY <1>10, <1>11
  <1>13. Written(input, m) = f[Len(m)].bytes \o SubSeq(input, f[Len(m)].at, Len(input))
    BY <1>11 DEF Written, Def, WriteStart, WriteStep
  <1>14. \A i \in 0..N : f[i] = IF i = 0 THEN WriteStart ELSE WriteStep(f[i - 1], m[i], input)
    BY <1>1, <1>12 DEF Def
  <1>15. f[0] = WriteStart /\ \A i \in 1..N : f[i] = WriteStep(f[i - 1], m[i], input)
    <2>1. PICK z \in 0..N : z = 0
      OBVIOUS
    <2>. QED BY <1>14, <2>1
  <1>. QED BY <1>1, <1>13, <1>15

\* How far the writing is after so many spans, `kept` being the input's unmatched bytes so far.
WriteGood(b, last, input, C, kept, Y) ==
    /\ b.bytes \in Seq(Y) /\ b.at = last + 1
    /\ Text(b.bytes) = kept[last]
    /\ Clean(b.bytes, input, C) /\ EndsMarked(b.bytes)

LEMMA WriteGoesOn ==
    ASSUME NEW X, X \cap Marks = {}, NEW Y, Y = X \cup Marks, NEW input \in Seq(X), NEW C,
           NEW kept, FilterUpTo(kept, input, DOMAIN input \ C, X),
           NEW last \in 0..Len(input), NEW b, WriteGood(b, last, input, C, kept, Y),
           NEW s \in Intervals(Len(input)), last < s.from, s.from <= s.to,
           \A i \in (last + 1)..(s.from - 1) : i \notin C, \A i \in s.from .. s.to : i \in C
    PROVE  WriteGood(WriteStep(b, s, input), s.to, input, C, kept, Y)
  <1>1. PICK n \in Nat, from \in Nat, to \in Nat :
            n = Len(input) /\ s.from = from /\ s.to = to /\ from \in 1..n /\ to \in 1..n
    BY DEF Intervals
  <1>2. DOMAIN input = 1..n
    BY <1>1, LenProperties
  <1>3. PICK x \in Seq(Y) : x = b.bytes
    BY DEF WriteGood
  <1>4. PICK a \in 1..(n + 1), e \in 0..n : a = last + 1 /\ e = from - 1 /\ e \in (a - 1)..Len(input) /\ last \in Nat
    BY <1>1
  <1>5. PICK y \in Seq(X) : y = SubSeq(input, a, e)
    <2>1. PICK y : y = SubSeq(input, a, e)
      OBVIOUS
    <2>2. IsStretch(y, input, a, e, X)
      BY <1>1, <1>4, <2>1, StretchIs
    <2>. QED BY <2>1, <2>2 DEF IsStretch
  <1>6. y \in Seq(Y)
    BY SeqMonotonic
  <1>7. PICK d \in Seq(Y) : d = x \o y
    BY <1>6, JoinIs
  <1>8. Placeholder \in Seq(Y)
    BY PlaceholderIs, SeqMonotonic
  <1>9. PICK w \in Seq(Y) : w = d \o Placeholder
    BY <1>8, JoinIs
  <1>10. PICK v : v = WriteStep(b, s, input)
    OBVIOUS
  <1>11. v.bytes = w /\ v.at = to + 1
    <2>1. v = [bytes |-> w, at |-> to + 1]
      <3>1. b.at = a /\ s.from - 1 = e
        BY <1>1, <1>4 DEF WriteGood
      <3>. QED BY <1>1, <1>3, <1>5, <1>7, <1>9, <1>10, <3>1 DEF WriteStep
    <2>. QED BY <2>1
  <1>12. Clean(d, input, C)
    <2>1. \A i \in a..e : i \notin C
      BY <1>1, <1>4
    <2>2. Clean(x, input, C) /\ EndsMarked(x)
      BY <1>3 DEF WriteGood
    <2>3. Clean(x \o SubSeq(input, a, e), input, C)
      BY <1>1, <1>4, <2>1, <2>2, CleanGoesOn
    <2>. QED BY <1>5, <1>7, <2>3
  <1>13. Clean(w, input, C) /\ EndsMarked(w)
    BY <1>9, <1>12, CleanIsMarked
  <1>14. Text(d) = Text(x) \o y
    <2>1. Text(y) = y
      BY TextOfPlain
    <2>2. Text(x \o y) = Text(x) \o Text(y)
      BY <1>6, TextOfJoined
    <2>. QED BY <1>7, <2>1, <2>2
  <1>15. Text(w) = Text(d)
    <2>1. Text(d \o Placeholder) = Text(d) \o Text(Placeholder) /\ Text(d) \in Seq(Y)
      BY <1>8, TextOfJoined
    <2>2. Text(d) \o <<>> = Text(d)
      BY <2>1, ConcatEmptySeq
    <2>. QED BY <1>9, <2>1, <2>2, TextOfPlaceholder
  <1>16. kept[e] = kept[last] \o y
    <2>1. PICK keep : keep = DOMAIN input \ C
      OBVIOUS
    <2>2. AllIn(keep, last, e)
      BY <1>1, <1>2, <1>4, <2>1 DEF AllIn
    <2>3. e \in last..Len(input)
      BY <1>1, <1>4
    <2>4. Follows(kept, input, last, e)
      BY <2>1, <2>2, <2>3, FilterStretch
    <2>. QED BY <1>4, <1>5, <2>4 DEF Follows
  <1>17. kept[to] = kept[e]
    <2>1. PICK keep : keep = DOMAIN input \ C
      OBVIOUS
    <2>2. NoneIn(keep, e, to)
      BY <1>1, <1>2, <1>4, <2>1 DEF NoneIn
    <2>3. e \in 0..Len(input) /\ to \in e..Len(input)
      BY <1>1, <1>4
    <2>. QED BY <2>1, <2>2, <2>3, FilterStretch
  <1>18. Text(w) = kept[to]
    BY <1>3, <1>14, <1>15, <1>16, <1>17 DEF WriteGood
  <1>. QED BY <1>1, <1>10, <1>11, <1>13, <1>18 DEF WriteGood

LEMMA WrittenHolds ==
    ASSUME NEW X, X \cap Marks = {}, NEW Y, Y = X \cup Marks, NEW input \in Seq(X),
           NEW spans, NEW m, IsMerged(m, spans, Len(input)), NEW C, C = Cover(m)
    PROVE  /\ Written(input, m) \in Seq(Y)
           /\ Clean(Written(input, m), input, C)
           /\ Text(Written(input, m)) = Filtered(input, DOMAIN input \ C)
  <1>1. PICK n \in Nat, N \in Nat : n = Len(input) /\ N = Len(m)
    BY DEF IsMerged
  <1>2. m \in Seq(Intervals(n))
    BY <1>1 DEF IsMerged
  <1>3. /\ \A k \in 1..N : m[k] \in Intervals(n) /\ m[k].from \in 1..n /\ m[k].to \in 1..n /\ m[k].from <= m[k].to
        /\ \A k, l \in 1..N : k < l => m[k].to < m[l].from
    <2>1. \A k \in 1..N : m[k] \in Intervals(n)
      BY <1>1, <1>2, ElementOfSeq
    <2>. QED BY <1>1, <2>1 DEF IsMerged, Intervals
  <1>4. PICK f : /\ f[0] = WriteStart
                 /\ \A i \in 1..N : f[i] = WriteStep(f[i - 1], m[i], input)
                 /\ Written(input, m) = f[N].bytes \o SubSeq(input, f[N].at, Len(input))
    BY <1>1, <1>2, WrittenIs
  <1>5. PICK keep, kept : keep = DOMAIN input \ C /\ FilterUpTo(kept, input, keep, X) /\ Filtered(input, keep) = kept[Len(input)]
    BY FilteredIs
  <1>. DEFINE LastTo(i) == IF i = 0 THEN 0 ELSE m[i].to
              Reach == {i \in Nat : i <= N => WriteGood(f[i], LastTo(i), input, C, kept, Y)}
  <1>6. \A i \in 0..N : LastTo(i) \in 0..n
    BY <1>3
  <1>7. \A i \in 0..N, j \in 1..N : j > i => LastTo(i) < m[j].from
    BY <1>3
  <1>8. \A i \in 0..N, k \in 1..N : k <= i => m[k].to <= LastTo(i)
    <2>. TAKE i \in 0..N, k \in 1..N
    <2>. HAVE k <= i
    <2>1. CASE k = i
      BY <1>3, <2>1
    <2>2. CASE k < i
      <3>1. i \in 1..N /\ m[k].to < m[i].from /\ LastTo(i) = m[i].to
        BY <1>3, <2>2
      <3>. QED BY <1>3, <3>1
    <2>. QED BY <2>1, <2>2
  <1>9. \A i \in 0..N, p \in 1..n : p \in C /\ p > LastTo(i) => \E j \in 1..N : j > i /\ m[j].from <= p
    <2>. TAKE i \in 0..N, p \in 1..n
    <2>. HAVE p \in C /\ p > LastTo(i)
    <2>1. PICK k \in 1..N : p \in m[k].from .. m[k].to
      BY <1>1 DEF Cover
    <2>2. m[k].from <= p /\ p <= m[k].to
      BY <1>3, <2>1
    <2>3. k > i
      <3>. SUFFICES ASSUME k <= i PROVE FALSE
        OBVIOUS
      <3>1. m[k].to <= LastTo(i)
        BY <1>8
      <3>. QED BY <1>3, <1>6, <2>2, <3>1
    <2>. QED BY <2>2, <2>3
  <1>10. \A i \in 0..N : f[i] = IF i = 0 THEN WriteStart ELSE WriteStep(f[i - 1], m[i], input)
    BY <1>4
  <1>11. 0 \in Reach
    <2>1. f[0].bytes = <<>> /\ f[0].at = 1
      BY <1>4 DEF WriteStart
    <2>2. <<>> \in Seq(Y) /\ Len(<<>>) = 0 /\ <<>> \in Seq(X)
      BY EmptySeq
    <2>3. Text(<<>>) = <<>>
      BY <2>2, TextOfPlain
    <2>4. Clean(<<>>, input, C)
      BY <2>2 DEF Clean
    <2>5. EndsMarked(<<>>)
      BY DEF EndsMarked
    <2>6. kept[0] = <<>>
      BY <1>5 DEF FilterUpTo
    <2>7. PICK b : b = f[0]
      OBVIOUS
    <2>8. WriteGood(b, 0, input, C, kept, Y)
      <3>1. b.bytes = <<>> /\ b.at = 0 + 1
        BY <2>1, <2>7
      <3>2. b.bytes \in Seq(Y)
        BY <2>2, <3>1
      <3>3. Text(b.bytes) = kept[0]
        BY <2>3, <2>6, <3>1
      <3>4. Clean(b.bytes, input, C) /\ EndsMarked(b.bytes)
        BY <2>4, <2>5, <3>1
      <3>. QED BY <3>1, <3>2, <3>3, <3>4 DEF WriteGood
    <2>. QED BY <2>7, <2>8
  <1>12. ASSUME NEW i \in Nat, i \in Reach PROVE i + 1 \in Reach
    <2>. SUFFICES ASSUME i + 1 <= N PROVE WriteGood(f[i + 1], LastTo(i + 1), input, C, kept, Y)
      OBVIOUS
    <2>1. PICK j \in 1..N : j = i + 1 /\ j - 1 = i /\ j > i /\ j # 0 /\ i \in 0..N
      OBVIOUS
    <2>2. PICK b, last, s : b = f[i] /\ last = LastTo(i) /\ s = m[j]
      OBVIOUS
    <2>3. WriteGood(b, last, input, C, kept, Y)
      BY <1>12, <2>2
    <2>4. last \in 0..Len(input) /\ s \in Intervals(Len(input)) /\ last < s.from /\ s.from <= s.to /\ s.from \in 1..n /\ s.to \in 1..n
      BY <1>1, <1>3, <1>6, <1>7, <2>1, <2>2
    <2>5. \A p \in (last + 1)..(s.from - 1) : p \notin C
      <3>. TAKE p \in (last + 1)..(s.from - 1)
      <3>1. p \in 1..n /\ p > last /\ p < s.from
        BY <1>1, <2>4
      <3>. SUFFICES ASSUME p \in C PROVE FALSE
        OBVIOUS
      <3>2. PICK k \in 1..N : k > i /\ m[k].from <= p
        BY <1>9, <2>1, <2>2, <3>1
      <3>3. k = j \/ (k > j /\ m[j].to < m[k].from)
        BY <1>3, <2>1, <3>2
      <3>4. m[j].from <= m[k].from
        BY <1>3, <3>3
      <3>. QED BY <1>3, <2>2, <3>1, <3>2, <3>4
    <2>6. \A p \in s.from .. s.to : p \in C
      BY <1>1, <2>2 DEF Cover
    <2>7. WriteGood(WriteStep(b, s, input), s.to, input, C, kept, Y)
      <3>1. FilterUpTo(kept, input, DOMAIN input \ C, X)
        BY <1>5
      <3>. QED BY <2>3, <2>4, <2>5, <2>6, <3>1, WriteGoesOn
    <2>8. f[j] = WriteStep(b, s, input)
      BY <1>4, <2>1, <2>2
    <2>9. LastTo(j) = s.to
      BY <2>1, <2>2
    <2>. HIDE DEF LastTo
    <2>. QED BY <2>1, <2>7, <2>8, <2>9
  <1>. HIDE DEF Reach
  <1>13. N \in Reach
    BY <1>11, <1>12, InductionOn
  <1>14. PICK b, last : b = f[N] /\ last = LastTo(N)
    OBVIOUS
  <1>15. WriteGood(b, last, input, C, kept, Y) /\ last \in 0..n
    <2>. HIDE DEF LastTo
    <2>. QED BY <1>6, <1>13, <1>14 DEF Reach
  <1>16. PICK a \in 1..(n + 1) : a = last + 1 /\ b.at = a /\ n \in (a - 1)..n /\ last \in Nat
    BY <1>15 DEF WriteGood
  <1>17. \A p \in a..n : p \notin C
    <2>. TAKE p \in a..n
    <2>1. p \in 1..n /\ p > last
      BY <1>15, <1>16
    <2>. SUFFICES ASSUME p \in C PROVE FALSE
      OBVIOUS
    <2>2. N \in 0..N
      OBVIOUS
    <2>3. PICK j \in 1..N : j > N
      BY <1>9, <1>14, <2>1, <2>2
    <2>. QED BY <2>3
  <1>18. PICK x \in Seq(Y) : x = b.bytes
    BY <1>15 DEF WriteGood
  <1>19. PICK y \in Seq(X) : y = SubSeq(input, a, n)
    <2>1. PICK y : y = SubSeq(input, a, n)
      OBVIOUS
    <2>2. IsStretch(y, input, a, n, X)
      BY <1>1, <1>16, <2>1, StretchIs
    <2>. QED BY <2>1, <2>2 DEF IsStretch
  <1>20. y \in Seq(Y)
    BY SeqMonotonic
  <1>21. PICK w \in Seq(Y) : w = x \o y
    BY <1>20, JoinIs
  <1>22. Written(input, m) = w
    BY <1>1, <1>4, <1>14, <1>16, <1>18, <1>19, <1>21
  <1>23. Clean(w, input, C)
    <2>1. Clean(x, input, C) /\ EndsMarked(x)
      BY <1>15, <1>18 DEF WriteGood
    <2>2. Clean(x \o SubSeq(input, a, n), input, C)
      BY <1>1, <1>16, <1>17, <2>1, CleanGoesOn
    <2>. QED BY <1>19, <1>21, <2>2
  <1>24. Text(w) = Text(x) \o y
    <2>1. Text(y) = y
      BY TextOfPlain
    <2>2. Text(x \o y) = Text(x) \o Text(y)
      BY <1>20, TextOfJoined
    <2>. QED BY <1>21, <2>1, <2>2
  <1>25. kept[n] = kept[last] \o y
    <2>1. DOMAIN input = 1..n
      BY <1>1, LenProperties
    <2>2. AllIn(keep, last, n)
      BY <1>5, <1>16, <1>17, <2>1 DEF AllIn
    <2>3. last \in 0..Len(input) /\ n \in last..Len(input)
      BY <1>1, <1>15
    <2>4. Follows(kept, input, last, n)
      BY <1>5, <2>2, <2>3, FilterStretch
    <2>. QED BY <1>16, <1>19, <2>4 DEF Follows
  <1>26. Text(w) = Filtered(input, DOMAIN input \ C)
    BY <1>1, <1>5, <1>15, <1>18, <1>24, <1>25 DEF WriteGood
  <1>. QED BY <1>22, <1>23, <1>26

-----------------------------------------------------------------------------
(* The redaction of an output by an index of values *)

IsIndex(index) == \A h \in DOMAIN index : index[h] # Missing

LEMMA SpansAreProper ==
    ASSUME NEW X, NEW input \in Seq(X), NEW word, word # <<>>
    PROVE  Spans(word, input) \subseteq Intervals(Len(input)) /\ Proper(Spans(word, input))
  <1>1. ASSUME NEW s \in Spans(word, input) PROVE s \in Intervals(Len(input)) /\ s.from <= s.to
    <2>1. s \in Intervals(Len(input)) /\ SubSeq(input, s.from, s.to) = word
      BY DEF Spans, Intervals
    <2>2. PICK a \in Int, b \in Int : a = s.from /\ b = s.to
      BY <2>1 DEF Intervals
    <2>3. a <= b
      <3>. SUFFICES ASSUME b < a PROVE FALSE
        OBVIOUS
      <3>. QED BY <2>1, <2>2, SubSeqEmpty
    <2>. QED BY <2>1, <2>2, <2>3
  <1>. QED BY <1>1 DEF Proper

LEMMA FoundIsProper ==
    ASSUME NEW X, NEW input \in Seq(X), NEW index, IsIndex(index), Missing \notin Shapes
    PROVE  /\ Find(index, input) \cup Scan(input) \subseteq Intervals(Len(input))
           /\ Proper(Find(index, input) \cup Scan(input))
  <1>1. ASSUME NEW s \in Find(index, input) \cup Scan(input) PROVE s \in Intervals(Len(input)) /\ s.from <= s.to
    <2>1. PICK word : word # <<>> /\ s \in Spans(word, input)
      <3>1. CASE s \in Find(index, input)
        <4>1. PICK h \in DOMAIN index : s \in Spans(index[h], input)
          BY <3>1 DEF Find
        <4>. QED BY <4>1 DEF IsIndex, Missing
      <3>2. CASE s \in Scan(input)
        <4>1. PICK w \in Shapes : s \in Spans(w, input)
          BY <3>2 DEF Scan
        <4>. QED BY <4>1 DEF Missing
      <3>. QED BY <3>1, <3>2
    <2>2. Spans(word, input) \subseteq Intervals(Len(input)) /\ Proper(Spans(word, input))
      BY <2>1, SpansAreProper
    <2>. QED BY <2>1, <2>2 DEF Proper
  <1>. QED BY <1>1 DEF Proper

LEMMA CutIsPrefix ==
    ASSUME NEW Y, NEW x \in Seq(Y), NEW l \in 0..Len(x)
    PROVE  IsPrefix(Text(SubSeq(x, 1, l)), Text(x))
  <1>1. PICK n \in Nat : n = Len(x)
    OBVIOUS
  <1>2. PICK o \in 1..(n + 1), j \in 1..(n + 1) : o = 1 /\ j = l + 1 /\ l \in (o - 1)..Len(x) /\ n \in (j - 1)..Len(x) /\ l \in Nat
    BY <1>1
  <1>3. PICK p, q : p = SubSeq(x, o, l) /\ q = SubSeq(x, j, n)
    OBVIOUS
  <1>4. IsStretch(p, x, o, l, Y) /\ IsStretch(q, x, j, n, Y)
    BY <1>1, <1>2, <1>3, StretchIs
  <1>5. p \in Seq(Y) /\ q \in Seq(Y)
    BY <1>4 DEF IsStretch
  <1>6. p \o q = x
    <2>1. PICK z \in Seq(Y) : z = p \o q /\ IsJoin(z, p, q)
      BY <1>5, JoinIs
    <2>2. Len(p) = l /\ Len(q) = n - l
      BY <1>2, <1>4 DEF IsStretch
    <2>3. Len(z) = n
      BY <1>2, <2>1, <2>2 DEF IsJoin
    <2>4. ASSUME NEW i \in 1..n PROVE z[i] = x[i]
      <3>1. z[i] = IF i <= l THEN p[i] ELSE q[i - l]
        <4>1. l + (n - l) = n
          BY <1>2
        <4>. QED BY <2>1, <2>2, <4>1 DEF IsJoin
      <3>2. CASE i <= l
        <4>1. i \in 1..(l - o + 1) /\ o + i - 1 = i
          BY <1>2, <3>2
        <4>2. p[i] = x[o + i - 1]
          BY <1>4, <4>1 DEF IsStretch
        <4>. QED BY <3>1, <3>2, <4>1, <4>2
      <3>3. CASE i > l
        <4>1. PICK k \in 1..(n - j + 1) : k = i - l /\ j + k - 1 = i
          BY <1>2, <3>3
        <4>2. q[k] = x[j + k - 1]
          BY <1>4 DEF IsStretch
        <4>3. ~(i <= l)
          BY <1>2, <3>3
        <4>. QED BY <3>1, <4>1, <4>2, <4>3
      <3>. QED BY <1>2, <3>2, <3>3
    <2>5. \A i \in 1..Len(z) : z[i] = x[i]
      BY <2>3, <2>4
    <2>. QED BY <1>1, <2>1, <2>3, <2>5, SeqEqual
  <1>7. PICK t, u, v : t = Text(p) /\ u = Text(q) /\ v = Text(x)
    OBVIOUS
  <1>8. t \in Seq(Y) /\ u \in Seq(Y) /\ v = t \o u
    BY <1>5, <1>6, <1>7, TextOfJoined
  <1>9. v \in Seq(Y) /\ IsJoin(v, t, u)
    BY <1>8, JoinIs
  <1>10. PICK k \in Nat : k = Len(t) /\ Len(t) <= Len(v)
    BY <1>8, <1>9 DEF IsJoin
  <1>11. SubSeq(t, 1, k) = SubSeq(v, 1, k)
    <2>1. PICK c \in 1..(k + 1) : c = 1 /\ k \in (c - 1)..Len(t) /\ k \in (c - 1)..Len(v) /\ c \in 1..(Len(t) + 1) /\ c \in 1..(Len(v) + 1)
      BY <1>8, <1>9, <1>10
    <2>2. PICK a, b : a = SubSeq(t, c, k) /\ b = SubSeq(v, c, k)
      OBVIOUS
    <2>3. IsStretch(a, t, c, k, Y) /\ IsStretch(b, v, c, k, Y)
      BY <1>8, <1>9, <2>1, <2>2, StretchIs
    <2>4. a \in Seq(Y) /\ b \in Seq(Y) /\ Len(a) = k /\ Len(b) = k
      BY <2>1, <2>3 DEF IsStretch
    <2>5. ASSUME NEW i \in 1..k PROVE a[i] = b[i]
      <3>1. i \in 1..(k - c + 1) /\ c + i - 1 = i
        BY <2>1
      <3>2. a[i] = t[i] /\ b[i] = v[i]
        BY <2>3, <3>1 DEF IsStretch
      <3>3. v[i] = t[i]
        BY <1>8, <1>9, <1>10 DEF IsJoin
      <3>. QED BY <3>2, <3>3
    <2>6. a = b
      BY <2>4, <2>5, SeqEqual
    <2>. QED BY <2>1, <2>2, <2>6
  <1>. QED BY <1>2, <1>3, <1>7, <1>10, <1>11 DEF IsPrefix

LEMMA RedactHolds ==
    ASSUME NEW input, IsPlain(input), NEW index, IsIndex(index), Missing \notin Shapes, Limit \in Nat
    PROVE  /\ \A h \in DOMAIN index : IsPlain(index[h]) => Spans(index[h], RedactBounded(input, index)) = {}
           /\ IsPrefix(Text(RedactBounded(input, index)), Kept(input, index))
           /\ Len(RedactBounded(input, index)) < Limit => Text(RedactBounded(input, index)) = Kept(input, index)
  <1>1. PICK X : X = ToSet(input)
    OBVIOUS
  <1>2. input \in Seq(X) /\ X \cap Marks = {}
    BY <1>1, PlaceholderIs DEF IsPlain
  <1>3. PICK n \in Nat : n = Len(input)
    BY <1>2
  <1>4. PICK spans \in SUBSET Intervals(n) : spans = Find(index, input) \cup Scan(input) /\ Proper(spans)
    BY <1>2, <1>3, FoundIsProper
  <1>5. PICK m : m = Merged(spans)
    OBVIOUS
  <1>6. IsMerged(m, spans, n)
    BY <1>4, <1>5, MergedIs
  <1>7. PICK C : C = Cover(m)
    OBVIOUS
  <1>8. C = Matched(input, index)
    BY <1>4, <1>6, <1>7 DEF IsMerged, Matched
  <1>9. PICK Y : Y = X \cup Marks
    OBVIOUS
  <1>10. PICK full : full = Redact(input, index)
    OBVIOUS
  <1>11. full = Written(input, m)
    BY <1>4, <1>5, <1>10 DEF Redact
  <1>12. full \in Seq(Y) /\ Clean(full, input, C) /\ Text(full) = Kept(input, index)
    <2>1. /\ Written(input, m) \in Seq(Y)
          /\ Clean(Written(input, m), input, C)
          /\ Text(Written(input, m)) = Filtered(input, DOMAIN input \ C)
      BY <1>2, <1>3, <1>6, <1>7, <1>9, WrittenHolds
    <2>. QED BY <1>8, <1>11, <2>1 DEF Kept
  <1>13. PICK l \in 0..Len(full) : l = IF Len(full) > Limit THEN Limit ELSE Len(full)
    BY <1>12
  <1>14. PICK bytes : bytes = RedactBounded(input, index)
    OBVIOUS
  <1>15. bytes = SubSeq(full, 1, l)
    <2>1. CASE Len(full) > Limit
      BY <1>10, <1>13, <1>14, <2>1 DEF RedactBounded
    <2>2. CASE ~(Len(full) > Limit)
      <3>1. bytes = full
        BY <1>10, <1>14, <2>2 DEF RedactBounded
      <3>2. SubSeq(full, 1, Len(full)) = full
        BY <1>12, SubSeqFull
      <3>. QED BY <1>13, <2>2, <3>1, <3>2
    <2>. QED BY <2>1, <2>2
  <1>16. bytes \in Seq(Y) /\ Len(bytes) = l
    <2>1. PICK o \in 1..(Len(full) + 1) : o = 1 /\ l \in (o - 1)..Len(full) /\ l - o + 1 = l
      BY <1>12
    <2>2. IsStretch(bytes, full, o, l, Y)
      BY <1>12, <1>15, <2>1, StretchIs
    <2>. QED BY <2>1, <2>2 DEF IsStretch
  <1>17. Clean(bytes, input, C)
    BY <1>12, <1>15, CleanIsCut
  <1>18. IsPrefix(Text(bytes), Kept(input, index))
    <2>1. IsPrefix(Text(SubSeq(full, 1, l)), Text(full))
      BY <1>12, CutIsPrefix
    <2>. QED BY <1>12, <1>15, <2>1
  <1>19. ASSUME Len(bytes) < Limit PROVE Text(bytes) = Kept(input, index)
    <2>1. l = Len(full)
      BY <1>13, <1>16, <1>19
    <2>2. bytes = full
      BY <1>12, <1>15, <2>1, SubSeqFull
    <2>. QED BY <1>12, <2>2
  <1>20. ASSUME NEW h \in DOMAIN index, IsPlain(index[h]) PROVE Spans(index[h], bytes) = {}
    <2>1. PICK value : value = index[h]
      OBVIOUS
    <2>2. PICK Z : Z = X \cup ToSet(value)
      OBVIOUS
    <2>3. value \in Seq(Z) /\ input \in Seq(Z) /\ Z \cap Marks = {}
      <3>1. value \in Seq(ToSet(value)) /\ ToSet(value) \cap Marks = {}
        BY <1>20, <2>1, PlaceholderIs DEF IsPlain
      <3>. QED BY <1>2, <2>2, <3>1, SeqMonotonic
    <2>4. Len(value) # 0
      <3>1. value # <<>>
        BY <2>1 DEF IsIndex, Missing
      <3>. QED BY <2>3, <3>1, EmptySeq
    <2>5. \A s \in Spans(value, input) : s.from .. s.to \subseteq C
      <3>. TAKE s \in Spans(value, input)
      <3>1. s \in Find(index, input)
        BY <2>1 DEF Find
      <3>. QED BY <1>8, <3>1 DEF Matched
    <2>6. Spans(value, bytes) = {}
      BY <1>16, <1>17, <2>3, <2>4, <2>5, NoValueInClean
    <2>. QED BY <2>1, <2>6
  <1>. QED BY <1>14, <1>18, <1>19, <1>20

-----------------------------------------------------------------------------
(* The invariant of the secrets *)

IsRow(s) == s \in Seq(ToSet(s))
IsMeta(meta) == {"backend", "reference", "consumers"} \subseteq DOMAIN meta /\ Entries(meta) \subseteq DOMAIN backend
UseWith(x, state, at, value) ==
    [run |-> x.run, handle |-> x.handle, revision |-> x.revision, mode |-> x.mode, meta |-> x.meta,
     state |-> state, at |-> at, value |-> value]
IsUse(x) ==
    /\ x = UseWith(x, x.state, x.at, x.value)
    /\ x.run \in Runs /\ x.handle \in SecretHandles /\ IsPlain(x.value)
    /\ Entries(x.meta) \subseteq DOMAIN backend

\* What the operator keeps is of the operator's documents and backends.
OperatorsOwn ==
    /\ document \in AllDocuments
    /\ \E b \in Beginnings : DOMAIN backend = DOMAIN b.backend
    /\ \A e \in DOMAIN backend : IsPlain(backend[e])

\* What the authority holds in memory names entries that can be read, and indexes what is long enough.
MemoryIsOfConfig ==
    /\ memory = [config |-> memory.config, consumers |-> memory.consumers, index |-> memory.index]
    /\ DOMAIN memory.config \subseteq SecretHandles
    /\ \A h \in DOMAIN memory.config : IsMeta(memory.config[h])
    /\ \A h \in DOMAIN memory.index : IsPlain(memory.index[h]) /\ Len(memory.index[h]) >= MinExact

RecordsAreRows ==
    /\ DOMAIN revisions = SecretHandles /\ revisions = [h \in SecretHandles |-> revisions[h]]
    /\ \A h \in SecretHandles : IsRow(revisions[h])
    /\ binding \in [Runs -> [SecretHandles -> Nat]]

\* The worker is busy with the last use only, and only such a use has not read its value.
OnlyTheLastIsServed ==
    /\ serving # 0 => serving = Len(uses) /\ authority = "UP"
    /\ serving # 0 => serving \in DOMAIN uses
    /\ \A u \in DOMAIN uses : uses[u].at = "ORDERED" => u = serving /\ uses[u].value = <<>>
    /\ authority # "UP" => \A u \in DOMAIN uses : uses[u].at = "ENDED"

\* A consumer's value is the index's, unless a later use of its handle read another.
Indexed(u) ==
    /\ uses[u].handle \in DOMAIN memory.index
    /\ memory.index[uses[u].handle] = uses[u].value
ConsumersAreIndexed ==
    \A u \in DOMAIN uses :
        uses[u].at = "CONSUMER" /\ Len(uses[u].value) >= MinExact => Replaced(u) \/ Indexed(u)

UsesAreUses == IsRow(uses) /\ \A u \in DOMAIN uses : IsUse(uses[u])
OfItsRevision ==
    \A u \in DOMAIN uses :
        /\ uses[u].revision \in 1..Len(revisions[uses[u].handle])
        /\ revisions[uses[u].handle][uses[u].revision] = [state |-> "CONFIGURED", meta |-> <<uses[u].meta>>]
        /\ binding[uses[u].run][uses[u].handle] = uses[u].revision

SecretsInv ==
    /\ OperatorsOwn /\ MemoryIsOfConfig /\ RecordsAreRows /\ UsesAreUses
    /\ OnlyTheLastIsServed /\ ConsumersAreIndexed
    /\ IndexIsTheConfiguration /\ OfItsRevision /\ ReturnIsRedacted

LEMMA EmptyRow == IsRow(<<>>) /\ IsPlain(<<>>) /\ DOMAIN <<>> = {} /\ Len(<<>>) = 0
  <1>1. PICK s : s = <<>>
    OBVIOUS
  <1>2. s \in Seq({}) /\ DOMAIN s = {} /\ Len(s) = 0
    BY <1>1
  <1>3. ToSet(s) = {}
    BY <1>2 DEF ToSet
  <1>. QED BY <1>1, <1>2, <1>3 DEF IsRow, IsPlain

\* A function on 1..n is a sequence.
LEMMA RowOf ==
    ASSUME NEW n \in Nat, NEW s, s = [i \in 1..n |-> s[i]]
    PROVE  IsRow(s) /\ Len(s) = n /\ DOMAIN s = 1..n
  <1>1. DOMAIN s = 1..n
    OBVIOUS
  <1>2. PICK F : F = ToSet(s)
    OBVIOUS
  <1>3. \A i \in 1..n : s[i] \in F
    BY <1>1, <1>2 DEF ToSet
  <1>4. s \in Seq(F)
    BY <1>3
  <1>5. Len(s) = n
    BY <1>1, <1>4, LenProperties
  <1>. QED BY <1>1, <1>2, <1>4, <1>5 DEF IsRow

LEMMA RowIs ==
    ASSUME NEW s, IsRow(s)
    PROVE  Len(s) \in Nat /\ DOMAIN s = 1..Len(s) /\ s = [i \in 1..Len(s) |-> s[i]] /\ (s # <<>> => Len(s) # 0)
  <1>1. PICK F : F = ToSet(s) /\ s \in Seq(F)
    BY DEF IsRow
  <1>. QED BY <1>1, LenProperties, EmptySeq

LEMMA RowGrows ==
    ASSUME NEW s, IsRow(s), NEW x
    PROVE  /\ IsRow(Append(s, x)) /\ Len(Append(s, x)) = Len(s) + 1 /\ Append(s, x)[Len(s) + 1] = x
           /\ DOMAIN Append(s, x) = 1..(Len(s) + 1)
           /\ \A i \in 1..Len(s) : Append(s, x)[i] = s[i]
           /\ Append(s, x) # <<>>
  <1>1. PICK F : F = ToSet(s) \cup {x}
    OBVIOUS
  <1>2. s \in Seq(F) /\ x \in F
    <2>1. s \in Seq(ToSet(s)) /\ ToSet(s) \subseteq F
      BY <1>1 DEF IsRow
    <2>. QED BY <1>1, <2>1, SeqMonotonic
  <1>3. PICK t \in Seq(F) : t = Append(s, x)
    BY <1>2, AppendProperties
  <1>4. Len(t) = Len(s) + 1 /\ t[Len(s) + 1] = x /\ (\A i \in 1..Len(s) : t[i] = s[i]) /\ t # <<>>
    BY <1>2, <1>3, AppendProperties
  <1>5. Len(t) \in Nat /\ t = [i \in 1..Len(t) |-> t[i]] /\ DOMAIN t = 1..Len(t)
    BY LenProperties
  <1>6. IsRow(t)
    BY <1>5, RowOf
  <1>. QED BY <1>3, <1>4, <1>5, <1>6

LEMMA RewrittenUse ==
    ASSUME NEW x, IsUse(x), NEW state, NEW at, NEW value, IsPlain(value)
    PROVE  IsUse(UseWith(x, state, at, value))
  <1>1. PICK y : y = UseWith(x, state, at, value)
    OBVIOUS
  <1>2. y.run = x.run /\ y.handle = x.handle /\ y.revision = x.revision /\ y.mode = x.mode /\ y.meta = x.meta
        /\ y.state = state /\ y.at = at /\ y.value = value
    BY <1>1 DEF UseWith
  <1>3. y = UseWith(y, y.state, y.at, y.value)
    BY <1>1, <1>2 DEF UseWith
  <1>. QED BY <1>1, <1>2, <1>3 DEF IsUse

UseFields(y, x, state, at, value) ==
    /\ y.run = x.run /\ y.handle = x.handle /\ y.revision = x.revision /\ y.mode = x.mode /\ y.meta = x.meta
    /\ y.state = state /\ y.at = at /\ y.value = value
LEMMA UseWithFields ==
    ASSUME NEW x, NEW state, NEW at, NEW value
    PROVE  UseFields(UseWith(x, state, at, value), x, state, at, value)
  BY DEF UseFields, UseWith

\* What is written of a use leaves its run, handle, revision, mode and metadata alone.
LEMMA RewrittenUses ==
    ASSUME UsesAreUses, NEW changed, DOMAIN changed = DOMAIN uses, changed = [u \in DOMAIN uses |-> changed[u]],
           \A u \in DOMAIN uses : \E state, at, value :
               IsPlain(value) /\ changed[u] = UseWith(uses[u], state, at, value)
    PROVE  /\ IsRow(changed) /\ Len(changed) = Len(uses)
           /\ \A u \in DOMAIN uses :
                /\ IsUse(changed[u])
                /\ changed[u].run = uses[u].run /\ changed[u].handle = uses[u].handle
                /\ changed[u].revision = uses[u].revision /\ changed[u].meta = uses[u].meta
                /\ changed[u].mode = uses[u].mode
  <1>1. PICK n \in Nat : n = Len(uses) /\ DOMAIN uses = 1..n
    BY RowIs DEF UsesAreUses
  <1>2. IsRow(changed) /\ Len(changed) = n
    BY <1>1, RowOf
  <1>3. ASSUME NEW u \in DOMAIN uses
        PROVE  /\ IsUse(changed[u])
               /\ changed[u].run = uses[u].run /\ changed[u].handle = uses[u].handle
               /\ changed[u].revision = uses[u].revision /\ changed[u].meta = uses[u].meta
               /\ changed[u].mode = uses[u].mode
    <2>1. PICK state, at, value : IsPlain(value) /\ changed[u] = UseWith(uses[u], state, at, value)
      OBVIOUS
    <2>2. IsUse(changed[u])
      BY <2>1, RewrittenUse DEF UsesAreUses
    <2>3. UseFields(changed[u], uses[u], state, at, value)
      BY <2>1, UseWithFields
    <2>. QED BY <2>2, <2>3 DEF UseFields
  <1>. QED BY <1>1, <1>2, <1>3

LEMMA ReplacedStays ==
    ASSUME UsesAreUses, DOMAIN uses \subseteq DOMAIN uses',
           \A w \in DOMAIN uses : /\ uses'[w].handle = uses[w].handle
                                  /\ uses'[w].value = uses[w].value \/ uses[w].value = <<>>,
           NEW u \in DOMAIN uses, uses'[u].value = uses[u].value, Replaced(u)
    PROVE  Replaced(u)'
  <1>1. PICK w \in DOMAIN uses : w > u /\ uses[w].handle = uses[u].handle /\ uses[w].value \notin {<<>>, uses[u].value}
    BY DEF Replaced
  <1>2. w \in DOMAIN uses' /\ uses'[w].handle = uses'[u].handle /\ uses'[w].value \notin {<<>>, uses'[u].value}
    BY <1>1
  <1>. QED BY <1>1, <1>2 DEF Replaced

\* While nothing is returned there is nothing to hold of what is.
LEMMA NothingIsReturned == ASSUME returned' = <<>> PROVE ReturnIsRedacted'
  BY EmptyRow DEF ReturnIsRedacted

LEMMA UseOfItsSecretHolds == ASSUME OfItsRevision PROVE UseIsOfItsSecret
  BY DEF OfItsRevision, UseIsOfItsSecret

-----------------------------------------------------------------------------
(* The steps *)

LEMMA SecretsBegin == ASSUME SecretsConstants, SecretsInit PROVE SecretsInv
  <1>1. PICK b \in Beginnings : document = b.document /\ backend = b.backend /\ programs = b.programs
    BY DEF SecretsInit
  <1>2. OperatorsOwn
    BY <1>1 DEF OperatorsOwn, AllDocuments, SecretsConstants
  <1>3. DOMAIN Empty = {}
    BY DEF Empty
  <1>4. memory.config = Empty /\ memory.consumers = Empty /\ memory.index = Empty
        /\ memory = [config |-> Empty, consumers |-> Empty, index |-> Empty]
    BY DEF SecretsInit
  <1>5. MemoryIsOfConfig
    BY <1>3, <1>4 DEF MemoryIsOfConfig
  <1>6. RecordsAreRows
    BY EmptyRow DEF RecordsAreRows, SecretsInit
  <1>7. DOMAIN uses = {} /\ IsRow(uses) /\ serving = 0 /\ authority = "DOWN" /\ DOMAIN returned = {}
    BY EmptyRow DEF SecretsInit
  <1>8. UsesAreUses /\ OnlyTheLastIsServed /\ ConsumersAreIndexed /\ OfItsRevision /\ IndexIsTheConfiguration
    BY <1>7 DEF UsesAreUses, OnlyTheLastIsServed, ConsumersAreIndexed, OfItsRevision, IndexIsTheConfiguration
  <1>9. ReturnIsRedacted
    BY <1>7 DEF ReturnIsRedacted
  <1>. QED BY <1>2, <1>5, <1>6, <1>8, <1>9 DEF SecretsInv

LEMMA ReadIsPlain ==
    ASSUME OperatorsOwn, NEW meta, Entries(meta) \subseteq DOMAIN backend PROVE IsPlain(Read(meta))
  <1>1. AgeEntry \in DOMAIN backend /\ meta.reference \in DOMAIN backend
    BY DEF Entries
  <1>. QED BY <1>1, EmptyRow DEF Read, OperatorsOwn, Missing

\* Before it serves no use is open, so nothing is lost with the index that is rebuilt.
LEMMA PrepareKeeps == ASSUME SecretsConstants, SecretsInv, Prepare PROVE SecretsInv'
  <1>1. UNCHANGED <<document, backend, programs, revisions, binding, runs, uses, serving, changes>>
        /\ returned' = <<>> /\ authority = "DOWN" /\ authority' = "PREPARED" /\ Parses(document)
    BY DEF Prepare
  <1>2. OperatorsOwn' /\ RecordsAreRows' /\ UsesAreUses' /\ OfItsRevision'
    BY <1>1 DEF SecretsInv, OperatorsOwn, RecordsAreRows, UsesAreUses, OfItsRevision, IsUse, UseWith
  <1>3. PICK config : config = Config(document)
    OBVIOUS
  <1>4. PICK readable : readable = {h \in DOMAIN config : Len(Read(config[h])) >= MinExact}
    OBVIOUS
  <1>5. memory' = [config |-> config,
                   consumers |-> [h \in DOMAIN config |-> Resolved(config[h].consumers, programs)],
                   index |-> [h \in readable |-> Read(config[h])]]
    BY <1>3, <1>4 DEF Prepare
  <1>6. DOMAIN config = DOMAIN document.secrets /\ \A h \in DOMAIN config : config[h] = Metadata(document.secrets[h])
    BY <1>3 DEF Config
  <1>7. DOMAIN config \subseteq SecretHandles
    BY <1>1, <1>6 DEF Parses
  <1>8. ASSUME NEW h \in DOMAIN config PROVE IsMeta(config[h])
    <2>1. PICK t : t = document.secrets[h]
      OBVIOUS
    <2>2. {"backend", "reference", "consumers"} \subseteq DOMAIN Metadata(t)
      BY DEF Metadata
    <2>3. PICK b \in Beginnings : DOMAIN backend = DOMAIN b.backend
      BY DEF SecretsInv, OperatorsOwn
    <2>4. document \in AllDocuments
      BY DEF SecretsInv, OperatorsOwn
    <2>5. Entries(Metadata(t)) \subseteq DOMAIN b.backend
      BY <1>1, <1>6, <2>1, <2>4 DEF SecretsConstants
    <2>. QED BY <1>6, <2>1, <2>2, <2>3, <2>5 DEF IsMeta
  <1>9. \A h \in DOMAIN config : IsPlain(Read(config[h]))
    BY <1>8, ReadIsPlain DEF SecretsInv, IsMeta
  <1>10. memory'.config = config /\ memory'.index = [h \in readable |-> Read(config[h])]
         /\ memory' = [config |-> memory'.config, consumers |-> memory'.consumers, index |-> memory'.index]
    BY <1>5
  <1>11. \A h \in readable : IsPlain(Read(config[h])) /\ Len(Read(config[h])) >= MinExact
    BY <1>4, <1>9
  <1>12. MemoryIsOfConfig'
    <2>1. \A h \in DOMAIN memory'.index : IsPlain(memory'.index[h]) /\ Len(memory'.index[h]) >= MinExact
      BY <1>10, <1>11
    <2>2. \A h \in DOMAIN memory'.config : IsMeta(memory.config[h])'
      BY <1>1, <1>8, <1>10 DEF IsMeta, Entries
    <2>. QED BY <1>7, <1>10, <2>1, <2>2 DEF MemoryIsOfConfig, IsPlain
  <1>13. OnlyTheLastIsServed'
    BY <1>1 DEF SecretsInv, OnlyTheLastIsServed
  <1>14. ConsumersAreIndexed'
    <2>1. \A u \in DOMAIN uses : uses[u].at = "ENDED"
      BY <1>1 DEF SecretsInv, OnlyTheLastIsServed
    <2>. QED BY <1>1, <2>1 DEF ConsumersAreIndexed
  <1>15. IndexIsTheConfiguration'
    BY <1>1 DEF IndexIsTheConfiguration
  <1>16. ReturnIsRedacted'
    BY <1>1, NothingIsReturned
  <1>. QED BY <1>2, <1>12, <1>13, <1>14, <1>15, <1>16 DEF SecretsInv

\* What a step that rewrites uses must not touch, for what is recorded of them to go on.
LEMMA RewritingKeeps ==
    ASSUME SecretsInv, UNCHANGED <<backend, revisions, binding>>,
           DOMAIN uses' = DOMAIN uses, uses' = [u \in DOMAIN uses |-> uses'[u]],
           \A u \in DOMAIN uses : \E state, at, value :
               IsPlain(value) /\ uses'[u] = UseWith(uses[u], state, at, value)
    PROVE  /\ UsesAreUses' /\ OfItsRevision' /\ Len(uses') = Len(uses)
           /\ \A u \in DOMAIN uses : uses'[u].handle = uses[u].handle
  <1>1. /\ IsRow(uses') /\ Len(uses') = Len(uses)
        /\ \A u \in DOMAIN uses :
             /\ IsUse(uses'[u])
             /\ uses'[u].run = uses[u].run /\ uses'[u].handle = uses[u].handle
             /\ uses'[u].revision = uses[u].revision /\ uses'[u].meta = uses[u].meta
    <2>1. PICK changed : changed = uses'
      OBVIOUS
    <2>2. UsesAreUses
      BY DEF SecretsInv
    <2>3. /\ DOMAIN changed = DOMAIN uses /\ changed = [u \in DOMAIN uses |-> changed[u]]
          /\ \A u \in DOMAIN uses : \E state, at, value :
               IsPlain(value) /\ changed[u] = UseWith(uses[u], state, at, value)
      BY <2>1
    <2>4. /\ IsRow(changed) /\ Len(changed) = Len(uses)
          /\ \A u \in DOMAIN uses :
               /\ IsUse(changed[u])
               /\ changed[u].run = uses[u].run /\ changed[u].handle = uses[u].handle
               /\ changed[u].revision = uses[u].revision /\ changed[u].meta = uses[u].meta
               /\ changed[u].mode = uses[u].mode
      BY <2>2, <2>3, RewrittenUses
    <2>. QED BY <2>1, <2>4
  <1>2. UsesAreUses'
    <2>1. \A u \in DOMAIN uses' : IsUse(uses[u])'
      BY <1>1 DEF IsUse, UseWith, IsPlain, Entries
    <2>. QED BY <1>1, <2>1 DEF UsesAreUses, IsRow
  <1>3. OfItsRevision'
    BY <1>1 DEF SecretsInv, OfItsRevision
  <1>. QED BY <1>1, <1>2, <1>3

LEMMA BeginKeeps == ASSUME SecretsConstants, SecretsInv, BeginIncarnation PROVE SecretsInv'
  <1>1. UNCHANGED <<document, backend, programs, memory, revisions, binding, serving, starts, changes>>
        /\ returned' = <<>> /\ authority = "PREPARED" /\ authority' = "BEGUN"
    BY DEF BeginIncarnation
  <1>2. OperatorsOwn' /\ RecordsAreRows' /\ MemoryIsOfConfig'
    BY <1>1 DEF SecretsInv, OperatorsOwn, RecordsAreRows, MemoryIsOfConfig, IsMeta, Entries
  <1>3. DOMAIN uses' = DOMAIN uses /\ uses' = [u \in DOMAIN uses |-> uses'[u]]
    BY DEF BeginIncarnation
  <1>4. ASSUME NEW u \in DOMAIN uses
        PROVE  \E state : uses'[u] = UseWith(uses[u], state, uses[u].at, uses[u].value)
    <2>1. uses'[u] = IF uses[u].state = "INTENT" THEN [uses[u] EXCEPT !.state = "UNKNOWN"] ELSE uses[u]
      BY DEF BeginIncarnation
    <2>2. uses[u] = UseWith(uses[u], uses[u].state, uses[u].at, uses[u].value)
      BY DEF SecretsInv, UsesAreUses, IsUse
    <2>3. [uses[u] EXCEPT !.state = "UNKNOWN"] = UseWith(uses[u], "UNKNOWN", uses[u].at, uses[u].value)
      BY <2>2 DEF UseWith
    <2>. QED BY <2>1, <2>2, <2>3
  <1>5. \A u \in DOMAIN uses : \E state, at, value :
               IsPlain(value) /\ uses'[u] = UseWith(uses[u], state, at, value)
    BY <1>4 DEF SecretsInv, UsesAreUses, IsUse
  <1>6. UsesAreUses' /\ OfItsRevision' /\ Len(uses') = Len(uses)
    BY <1>1, <1>3, <1>5, RewritingKeeps
  <1>7. \A u \in DOMAIN uses : uses[u].at = "ENDED" /\ uses'[u].at = "ENDED"
    <2>1. \A u \in DOMAIN uses : uses[u].at = "ENDED"
      BY <1>1 DEF SecretsInv, OnlyTheLastIsServed
    <2>2. ASSUME NEW u \in DOMAIN uses PROVE uses'[u].at = "ENDED"
      <3>1. PICK state : uses'[u] = UseWith(uses[u], state, uses[u].at, uses[u].value)
        BY <1>4
      <3>2. UseFields(uses'[u], uses[u], state, uses[u].at, uses[u].value)
        BY <3>1, UseWithFields
      <3>. QED BY <2>1, <3>2 DEF UseFields
    <2>. QED BY <2>1, <2>2
  <1>8. serving = 0
    BY <1>1 DEF SecretsInv, OnlyTheLastIsServed
  <1>9. OnlyTheLastIsServed' /\ ConsumersAreIndexed' /\ IndexIsTheConfiguration'
    BY <1>1, <1>3, <1>7, <1>8 DEF OnlyTheLastIsServed, ConsumersAreIndexed, IndexIsTheConfiguration
  <1>10. ReturnIsRedacted'
    BY <1>1, NothingIsReturned
  <1>. QED BY <1>2, <1>6, <1>9, <1>10 DEF SecretsInv

LEMMA DieKeeps == ASSUME SecretsConstants, SecretsInv, AuthorityDies PROVE SecretsInv'
  <1>1. UNCHANGED <<document, backend, programs, revisions, binding, runs, starts, changes>>
        /\ returned' = <<>> /\ authority' = "DOWN" /\ serving' = 0
        /\ memory' = [config |-> Empty, consumers |-> Empty, index |-> Empty]
    BY DEF AuthorityDies
  <1>2. OperatorsOwn' /\ RecordsAreRows'
    BY <1>1 DEF SecretsInv, OperatorsOwn, RecordsAreRows
  <1>3. DOMAIN Empty = {}
    BY DEF Empty
  <1>4. memory'.config = Empty /\ memory'.consumers = Empty /\ memory'.index = Empty
    BY <1>1
  <1>5. MemoryIsOfConfig'
    BY <1>1, <1>3, <1>4 DEF MemoryIsOfConfig
  <1>6. DOMAIN uses' = DOMAIN uses /\ uses' = [u \in DOMAIN uses |-> uses'[u]]
    BY DEF AuthorityDies
  <1>7. ASSUME NEW u \in DOMAIN uses
        PROVE  uses'[u] = UseWith(uses[u], uses[u].state, "ENDED", uses[u].value)
    <2>1. uses'[u] = [uses[u] EXCEPT !.at = "ENDED"]
      BY DEF AuthorityDies
    <2>2. uses[u] = UseWith(uses[u], uses[u].state, uses[u].at, uses[u].value)
      BY DEF SecretsInv, UsesAreUses, IsUse
    <2>. QED BY <2>1, <2>2 DEF UseWith
  <1>8. \A u \in DOMAIN uses : \E state, at, value :
               IsPlain(value) /\ uses'[u] = UseWith(uses[u], state, at, value)
    BY <1>7 DEF SecretsInv, UsesAreUses, IsUse
  <1>9. UsesAreUses' /\ OfItsRevision' /\ Len(uses') = Len(uses)
    BY <1>1, <1>6, <1>8, RewritingKeeps
  <1>10. \A u \in DOMAIN uses : uses'[u].at = "ENDED"
    <2>. TAKE u \in DOMAIN uses
    <2>1. UseFields(uses'[u], uses[u], uses[u].state, "ENDED", uses[u].value)
      BY <1>7, UseWithFields
    <2>. QED BY <2>1 DEF UseFields
  <1>11. OnlyTheLastIsServed' /\ ConsumersAreIndexed' /\ IndexIsTheConfiguration'
    BY <1>1, <1>6, <1>10 DEF OnlyTheLastIsServed, ConsumersAreIndexed, IndexIsTheConfiguration
  <1>12. ReturnIsRedacted'
    BY <1>1, NothingIsReturned
  <1>. QED BY <1>2, <1>5, <1>9, <1>11, <1>12 DEF SecretsInv

LEMMA ReconcileKeeps == ASSUME SecretsConstants, SecretsInv, Reconcile PROVE SecretsInv'
  <1>1. UNCHANGED <<document, backend, programs, memory, binding, runs, uses, serving, starts, changes>>
        /\ returned' = <<>> /\ authority = "BEGUN" /\ authority' = "UP"
    BY DEF Reconcile
  <1>2. OperatorsOwn' /\ MemoryIsOfConfig' /\ UsesAreUses' /\ OnlyTheLastIsServed'
    BY <1>1 DEF SecretsInv, OperatorsOwn, MemoryIsOfConfig, UsesAreUses, OnlyTheLastIsServed, IsMeta, Entries, IsUse
  <1>3. ConsumersAreIndexed'
    BY <1>1 DEF SecretsInv, ConsumersAreIndexed, Indexed, Replaced
  <1>4. ASSUME NEW h \in SecretHandles
        PROVE  /\ IsRow(revisions'[h])
               /\ \A i \in 1..Len(revisions[h]) : i \in 1..Len(revisions'[h]) /\ revisions'[h][i] = revisions[h][i]
               /\ Current(h)' = Row(h)'
    <2>1. PICK s, x : s = revisions[h] /\ x = Row(h)
      OBVIOUS
    <2>2. IsRow(s)
      BY <2>1 DEF SecretsInv, RecordsAreRows
    <2>3. revisions'[h] = IF x = Current(h) THEN s ELSE Append(s, x)
      BY <2>1 DEF Reconcile
    <2>4. Row(h)' = x
      BY <1>1, <2>1 DEF Row
    <2>5. Len(s) \in Nat
      BY <2>2, RowIs
    <2>6. CASE x = Current(h)
      <3>1. revisions'[h] = s
        BY <2>3, <2>6
      <3>2. Current(h)' = Current(h)
        BY <2>1, <3>1 DEF Current
      <3>. QED BY <2>1, <2>2, <2>4, <2>5, <2>6, <3>1, <3>2
    <2>7. CASE x # Current(h)
      <3>1. PICK t : t = Append(s, x)
        OBVIOUS
      <3>2. IsRow(t) /\ Len(t) = Len(s) + 1 /\ t[Len(s) + 1] = x /\ (\A i \in 1..Len(s) : t[i] = s[i]) /\ t # <<>>
        BY <2>2, <3>1, RowGrows
      <3>3. revisions'[h] = t
        BY <2>3, <2>7, <3>1
      <3>4. Current(h)' = x
        BY <3>2, <3>3 DEF Current, Last
      <3>. QED BY <2>1, <2>4, <2>5, <3>2, <3>3, <3>4
    <2>. QED BY <2>6, <2>7
  <1>5. RecordsAreRows'
    <2>1. DOMAIN revisions' = SecretHandles /\ revisions' = [h \in SecretHandles |-> revisions'[h]]
      BY DEF Reconcile
    <2>. QED BY <1>1, <1>4, <2>1 DEF SecretsInv, RecordsAreRows, IsRow
  <1>6. IndexIsTheConfiguration'
    BY <1>4 DEF IndexIsTheConfiguration
  <1>7. OfItsRevision'
    <2>1. \A u \in DOMAIN uses : uses[u].handle \in SecretHandles
      BY DEF SecretsInv, UsesAreUses, IsUse
    <2>. QED BY <1>1, <1>4, <2>1 DEF SecretsInv, OfItsRevision
  <1>8. ReturnIsRedacted'
    BY <1>1, NothingIsReturned
  <1>. QED BY <1>2, <1>3, <1>5, <1>6, <1>7, <1>8 DEF SecretsInv

LEMMA BindKeeps ==
    ASSUME RecordsAreRows, NEW r \in Runs, NEW granted, Bind(r, granted)
    PROVE  /\ binding' \in [Runs -> [SecretHandles -> Nat]]
           /\ \A q \in Runs, h \in SecretHandles : binding[q][h] # 0 => binding'[q][h] = binding[q][h]
           /\ \A h \in SecretHandles : h \in granted /\ binding[r][h] = 0 => binding'[r][h] = Len(revisions[h])
  <1>1. PICK b : b = [h \in SecretHandles |-> IF h \in granted /\ binding[r][h] = 0 THEN Len(revisions[h]) ELSE binding[r][h]]
    OBVIOUS
  <1>2. binding' = [binding EXCEPT ![r] = b]
    BY <1>1 DEF Bind
  <1>3. \A h \in SecretHandles : Len(revisions[h]) \in Nat
    BY RowIs DEF RecordsAreRows
  <1>4. b \in [SecretHandles -> Nat]
    BY <1>1, <1>3 DEF RecordsAreRows
  <1>5. binding' \in [Runs -> [SecretHandles -> Nat]]
    BY <1>2, <1>4 DEF RecordsAreRows
  <1>6. \A q \in Runs : binding'[q] = IF q = r THEN b ELSE binding[q]
    BY <1>2 DEF RecordsAreRows
  <1>. QED BY <1>1, <1>5, <1>6

\* A use's run was bound, to a revision that exists.
LEMMA UsesAreBound ==
    ASSUME SecretsInv, NEW u \in DOMAIN uses
    PROVE  /\ uses[u].handle \in SecretHandles /\ uses[u].run \in Runs
           /\ binding[uses[u].run][uses[u].handle] # 0
  <1>1. PICK x : x = uses[u]
    OBVIOUS
  <1>2. x.handle \in SecretHandles /\ x.run \in Runs
    BY <1>1 DEF SecretsInv, UsesAreUses, IsUse
  <1>3. Len(revisions[x.handle]) \in Nat
    BY <1>2, RowIs DEF SecretsInv, RecordsAreRows
  <1>4. x.revision \in 1..Len(revisions[x.handle]) /\ binding[x.run][x.handle] = x.revision
    BY <1>1 DEF SecretsInv, OfItsRevision
  <1>5. x.revision # 0
    BY <1>3, <1>4
  <1>. QED BY <1>1, <1>2, <1>4, <1>5

LEMMA AdmitKeeps ==
    ASSUME SecretsConstants, SecretsInv, NEW r \in Runs, NEW asked, Admit(r, asked) PROVE SecretsInv'
  <1>1. UNCHANGED <<document, backend, programs, authority, memory, revisions, uses, serving, starts, changes>>
        /\ returned' = <<>> /\ Bind(r, Answered(asked))
    BY DEF Admit
  <1>2. OperatorsOwn' /\ MemoryIsOfConfig' /\ UsesAreUses' /\ OnlyTheLastIsServed'
    BY <1>1 DEF SecretsInv, OperatorsOwn, MemoryIsOfConfig, UsesAreUses, OnlyTheLastIsServed, IsMeta, Entries, IsUse
  <1>3. ConsumersAreIndexed'
    BY <1>1 DEF SecretsInv, ConsumersAreIndexed, Indexed, Replaced
  <1>4. IndexIsTheConfiguration'
    BY <1>1 DEF SecretsInv, IndexIsTheConfiguration, Current, Row, Canonical, RowState
  <1>5. /\ binding' \in [Runs -> [SecretHandles -> Nat]]
        /\ \A q \in Runs, h \in SecretHandles : binding[q][h] # 0 => binding'[q][h] = binding[q][h]
    BY <1>1, BindKeeps DEF SecretsInv
  <1>6. RecordsAreRows'
    BY <1>1, <1>5 DEF SecretsInv, RecordsAreRows
  <1>7. OfItsRevision'
    <2>1. \A u \in DOMAIN uses : uses[u].handle \in SecretHandles /\ uses[u].run \in Runs
      BY DEF SecretsInv, UsesAreUses, IsUse
    <2>2. \A u \in DOMAIN uses : binding[uses[u].run][uses[u].handle] # 0
      BY UsesAreBound
    <2>. QED BY <1>1, <1>5, <2>1, <2>2 DEF SecretsInv, OfItsRevision
  <1>8. ReturnIsRedacted'
    BY <1>1, NothingIsReturned
  <1>. QED BY <1>2, <1>3, <1>4, <1>6, <1>7, <1>8 DEF SecretsInv

\* A use is prepared from what the authority holds, which is what the last row says.
LEMMA UseKeeps ==
    ASSUME SecretsConstants, SecretsInv, NEW r \in Runs, NEW h \in SecretHandles, NEW target, NEW verdict,
           Use(r, h, target, verdict)
    PROVE  SecretsInv'
  <1>1. UNCHANGED <<document, backend, programs, authority, memory, revisions, runs, starts, changes>>
        /\ returned' = <<>> /\ Bind(r, {h}) /\ authority = "UP" /\ serving = 0
        /\ h \in DOMAIN memory.config /\ CheckUse(r, h)
    BY DEF Use
  <1>2. OperatorsOwn' /\ MemoryIsOfConfig'
    BY <1>1 DEF SecretsInv, OperatorsOwn, MemoryIsOfConfig, IsMeta, Entries
  <1>3. IndexIsTheConfiguration'
    BY <1>1 DEF SecretsInv, IndexIsTheConfiguration, Current, Row, Canonical, RowState
  <1>4. /\ binding' \in [Runs -> [SecretHandles -> Nat]]
        /\ \A q \in Runs, g \in SecretHandles : binding[q][g] # 0 => binding'[q][g] = binding[q][g]
        /\ binding[r][h] = 0 => binding'[r][h] = Len(revisions[h])
    <2>1. RecordsAreRows
      BY DEF SecretsInv
    <2>. QED BY <1>1, <2>1, BindKeeps
  <1>5. RecordsAreRows'
    BY <1>1, <1>4 DEF SecretsInv, RecordsAreRows
  <1>6. \A u \in DOMAIN uses : /\ uses[u].handle \in SecretHandles /\ uses[u].run \in Runs
                               /\ binding[uses[u].run][uses[u].handle] # 0
    BY UsesAreBound
  <1>7. ReturnIsRedacted'
    BY <1>1, NothingIsReturned
  <1>8. CASE UNCHANGED <<uses, serving>>
    <2>1. UsesAreUses' /\ OnlyTheLastIsServed'
      BY <1>1, <1>8 DEF SecretsInv, UsesAreUses, OnlyTheLastIsServed, Entries, IsUse
    <2>2. ConsumersAreIndexed'
      BY <1>1, <1>8 DEF SecretsInv, ConsumersAreIndexed, Indexed, Replaced
    <2>3. OfItsRevision'
      BY <1>1, <1>4, <1>6, <1>8 DEF SecretsInv, OfItsRevision
    <2>. QED BY <1>2, <1>3, <1>5, <1>7, <2>1, <2>2, <2>3 DEF SecretsInv
  <1>9. CASE \E mode : uses' = Append(uses, Intent(r, h, mode)) /\ serving' = Len(uses) + 1
    <2>1. PICK mode : uses' = Append(uses, Intent(r, h, mode)) /\ serving' = Len(uses) + 1
      BY <1>9
    <2>2. PICK n \in Nat, x \in {Intent(r, h, mode)} : n = Len(uses)
      BY RowIs DEF SecretsInv, UsesAreUses
    <2>3. PICK meta : meta = Canonical(memory.config[h], memory.consumers[h])
      OBVIOUS
    <2>4. x = [run |-> r, handle |-> h, revision |-> Len(revisions[h]), mode |-> mode, meta |-> meta,
               state |-> "INTENT", at |-> "ORDERED", value |-> <<>>]
      BY <2>2, <2>3 DEF Intent
    <2>5. x.run = r /\ x.handle = h /\ x.revision = Len(revisions[h]) /\ x.mode = mode /\ x.meta = meta
          /\ x.state = "INTENT" /\ x.at = "ORDERED" /\ x.value = <<>>
      BY <2>4
    <2>6. /\ IsRow(uses') /\ Len(uses') = n + 1 /\ uses'[n + 1] = x
          /\ DOMAIN uses' = 1..(n + 1) /\ DOMAIN uses = 1..n
          /\ \A i \in 1..n : uses'[i] = uses[i]
      <3>1. PICK t, s : t = Append(uses, x) /\ s = uses
        OBVIOUS
      <3>2. IsRow(s) /\ t = Append(s, x) /\ n = Len(s)
        BY <2>2, <3>1 DEF SecretsInv, UsesAreUses
      <3>3. IsRow(t) /\ Len(t) = n + 1 /\ t[n + 1] = x /\ DOMAIN t = 1..(n + 1) /\ \A i \in 1..n : t[i] = s[i]
        BY <3>2, RowGrows
      <3>4. DOMAIN s = 1..n
        BY <3>2, RowIs
      <3>. QED BY <2>1, <2>2, <3>1, <3>3, <3>4
    <2>7. meta.reference = memory.config[h].reference
      <3>1. IsMeta(memory.config[h])
        BY <1>1 DEF SecretsInv, MemoryIsOfConfig
      <3>2. "reference" \in DOMAIN memory.config[h] \ {"revoked"}
        BY <3>1 DEF IsMeta
      <3>. QED BY <2>3, <3>2 DEF Canonical
    <2>8. IsUse(x)
      <3>1. x = UseWith(x, x.state, x.at, x.value)
        BY <2>4, <2>5 DEF UseWith
      <3>2. Entries(x.meta) \subseteq DOMAIN backend
        BY <1>1, <2>5, <2>7 DEF SecretsInv, MemoryIsOfConfig, IsMeta, Entries
      <3>. QED BY <2>5, <3>1, <3>2, EmptyRow DEF IsUse
    <2>9. \A u \in 1..(n + 1) : (u \in 1..n /\ uses'[u] = uses[u]) \/ (u = n + 1 /\ uses'[u] = x)
      BY <2>6
    <2>10. UsesAreUses'
      <3>1. \A u \in DOMAIN uses' : IsUse(uses'[u])
        BY <2>6, <2>8, <2>9 DEF SecretsInv, UsesAreUses
      <3>2. \A u \in DOMAIN uses' : IsUse(uses[u])'
        BY <1>1, <3>1 DEF IsUse, Entries
      <3>. QED BY <2>6, <3>2 DEF UsesAreUses, IsRow
    <2>11. OnlyTheLastIsServed'
      <3>1. \A u \in 1..n : uses[u].at # "ORDERED"
        <4>1. 0 \notin 1..n
          OBVIOUS
        <4>. QED BY <1>1, <2>6, <4>1 DEF SecretsInv, OnlyTheLastIsServed
      <3>2. serving' = n + 1 /\ authority' = "UP" /\ n + 1 \in 1..(n + 1)
        BY <1>1, <2>1, <2>2
      <3>. QED BY <2>5, <2>6, <2>9, <3>1, <3>2 DEF OnlyTheLastIsServed
    <2>12. ConsumersAreIndexed'
      <3>1. ASSUME NEW u \in 1..n, uses[u].at = "CONSUMER", Len(uses[u].value) >= MinExact
            PROVE  Replaced(u)' \/ Indexed(u)'
        <4>1. Replaced(u) \/ Indexed(u)
          BY <2>6, <3>1 DEF SecretsInv, ConsumersAreIndexed
        <4>2. ASSUME Replaced(u) PROVE Replaced(u)'
          <5>1. DOMAIN uses \subseteq DOMAIN uses' /\ UsesAreUses /\ u \in DOMAIN uses
            BY <2>6 DEF SecretsInv
          <5>2. \A w \in DOMAIN uses : uses'[w].handle = uses[w].handle /\ uses'[w].value = uses[w].value
            BY <2>6
          <5>. QED BY <4>2, <5>1, <5>2, ReplacedStays
        <4>3. ASSUME Indexed(u) PROVE Indexed(u)'
          BY <1>1, <2>6, <4>3 DEF Indexed
        <4>. QED BY <4>1, <4>2, <4>3
      <3>2. x.at # "CONSUMER"
        BY <2>5
      <3>. QED BY <2>6, <2>9, <3>1, <3>2 DEF ConsumersAreIndexed
    <2>13. OfItsRevision'
      <3>1. PICK s : s = revisions[h]
        OBVIOUS
      <3>2. IsRow(s) /\ Len(s) \in Nat
        BY <3>1, RowIs DEF SecretsInv, RecordsAreRows
      <3>3. Current(h).state = "CONFIGURED" /\ binding[r][h] \in {0, Len(s)}
        BY <1>1, <3>1 DEF CheckUse
      <3>4. s # <<>>
        BY <3>1, <3>3 DEF Current
      <3>5. Len(s) \in 1..Len(s) /\ Len(s) # 0 /\ Current(h) = s[Len(s)]
        <4>1. Len(s) # 0
          BY <3>2, <3>4, RowIs
        <4>2. Current(h) = s[Len(s)]
          BY <3>1, <3>4 DEF Current, Last
        <4>. QED BY <3>2, <4>1, <4>2
      <3>6. Current(h) = Row(h)
        BY <1>1 DEF SecretsInv, IndexIsTheConfiguration
      <3>7. Row(h) = [state |-> RowState(memory.config[h]), meta |-> <<meta>>]
        BY <1>1, <2>3 DEF Row
      <3>8. RowState(memory.config[h]) = "CONFIGURED"
        BY <3>3, <3>6, <3>7
      <3>9. s[Len(s)] = [state |-> "CONFIGURED", meta |-> <<x.meta>>]
        BY <2>5, <3>5, <3>6, <3>7, <3>8
      <3>10. binding'[r][h] = Len(s)
        BY <1>4, <3>1, <3>3, <3>5
      <3>11. ASSUME NEW u \in 1..n
             PROVE  /\ uses[u].revision \in 1..Len(revisions[uses[u].handle])
                    /\ revisions[uses[u].handle][uses[u].revision] = [state |-> "CONFIGURED", meta |-> <<uses[u].meta>>]
                    /\ binding'[uses[u].run][uses[u].handle] = uses[u].revision
        BY <1>4, <1>6, <2>6 DEF SecretsInv, OfItsRevision
      <3>. QED BY <1>1, <2>5, <2>6, <2>9, <3>1, <3>5, <3>9, <3>10, <3>11 DEF OfItsRevision
    <2>. QED BY <1>2, <1>3, <1>5, <1>7, <2>10, <2>11, <2>12, <2>13 DEF SecretsInv
  <1>. QED BY <1>8, <1>9 DEF Use

Rewrites(u, state, at, value) ==
    /\ DOMAIN uses' = DOMAIN uses /\ uses' = [w \in DOMAIN uses |-> uses'[w]]
    /\ uses'[u] = UseWith(uses[u], state, at, value)
    /\ \A w \in DOMAIN uses : w # u => uses'[w] = uses[w]

WithAll(x, state, at, value) == [[[x EXCEPT !.state = state] EXCEPT !.at = at] EXCEPT !.value = value]
WithTwo(x, at, value) == [[x EXCEPT !.at = at] EXCEPT !.value = value]
LEMMA RewrittenFields ==
    ASSUME NEW x, x = UseWith(x, x.state, x.at, x.value), NEW state, NEW at, NEW value
    PROVE  /\ WithAll(x, state, at, value) = UseWith(x, state, at, value)
           /\ WithTwo(x, at, value) = UseWith(x, x.state, at, value)
  <1>1. PICK y : y = [x EXCEPT !.state = state]
    OBVIOUS
  <1>2. y = UseWith(x, state, x.at, x.value)
    BY <1>1 DEF UseWith
  <1>3. PICK z : z = [y EXCEPT !.at = at]
    OBVIOUS
  <1>4. z = UseWith(x, state, at, x.value)
    BY <1>2, <1>3 DEF UseWith
  <1>5. [z EXCEPT !.value = value] = UseWith(x, state, at, value)
    BY <1>4 DEF UseWith
  <1>6. PICK w : w = [x EXCEPT !.at = at]
    OBVIOUS
  <1>7. w = UseWith(x, x.state, at, x.value)
    BY <1>6 DEF UseWith
  <1>8. [w EXCEPT !.value = value] = UseWith(x, x.state, at, value)
    BY <1>7 DEF UseWith
  <1>. QED BY <1>1, <1>3, <1>5, <1>6, <1>8 DEF WithAll, WithTwo

LEMMA EndedRewrites ==
    ASSUME SecretsInv, NEW u \in DOMAIN uses, NEW state, NEW value, Ended(u, state, value)
    PROVE  Rewrites(u, state, "ENDED", value)
  <1>1. uses' = [uses EXCEPT ![u] = WithAll(uses[u], state, "ENDED", value)]
    BY DEF Ended, WithAll
  <1>2. uses[u] = UseWith(uses[u], uses[u].state, uses[u].at, uses[u].value)
    BY DEF SecretsInv, UsesAreUses, IsUse
  <1>3. WithAll(uses[u], state, "ENDED", value) = UseWith(uses[u], state, "ENDED", value)
    BY <1>2, RewrittenFields
  <1>4. uses = [w \in DOMAIN uses |-> uses[w]]
    BY RowIs DEF SecretsInv, UsesAreUses
  <1>5. PICK x : x = UseWith(uses[u], state, "ENDED", value)
    OBVIOUS
  <1>6. uses' = [uses EXCEPT ![u] = x]
    BY <1>1, <1>3, <1>5
  <1>. QED BY <1>4, <1>5, <1>6 DEF Rewrites

LEMMA RewriteKeeps ==
    ASSUME SecretsInv, UNCHANGED <<backend, revisions, binding>>, NEW u \in DOMAIN uses,
           NEW state, NEW at, NEW value, IsPlain(value), Rewrites(u, state, at, value)
    PROVE  /\ UsesAreUses' /\ OfItsRevision' /\ Len(uses') = Len(uses)
           /\ \A w \in DOMAIN uses : uses'[w].handle = uses[w].handle
           /\ uses'[u].at = at /\ uses'[u].value = value
  <1>1. ASSUME NEW w \in DOMAIN uses
        PROVE  \E s, a, v : IsPlain(v) /\ uses'[w] = UseWith(uses[w], s, a, v)
    <2>1. CASE w = u
      BY <2>1 DEF Rewrites
    <2>2. CASE w # u
      <3>1. uses[w] = UseWith(uses[w], uses[w].state, uses[w].at, uses[w].value) /\ IsPlain(uses[w].value)
        BY DEF SecretsInv, UsesAreUses, IsUse
      <3>. QED BY <2>2, <3>1 DEF Rewrites
    <2>. QED BY <2>1, <2>2
  <1>2. /\ UsesAreUses' /\ OfItsRevision' /\ Len(uses') = Len(uses)
        /\ \A w \in DOMAIN uses : uses'[w].handle = uses[w].handle
    BY <1>1, RewritingKeeps DEF Rewrites
  <1>3. UseFields(uses'[u], uses[u], state, at, value)
    BY UseWithFields DEF Rewrites
  <1>. QED BY <1>2, <1>3 DEF UseFields

LEMMA InsertedIs ==
    ASSUME NEW index, NEW h, NEW value, NEW after, after = Inserted(index, h, value)
    PROVE  /\ \A g : g \in DOMAIN after <=> (g \in DOMAIN index /\ g # h) \/ (g = h /\ Len(value) >= MinExact)
           /\ \A g \in DOMAIN after : after[g] = IF g = h THEN value ELSE index[g]
  BY DEF Inserted

\* A use that reads another value takes the index's place of those of its handle, and is later.
LEMMA HandOverKeeps ==
    ASSUME SecretsConstants, SecretsInv, NEW piped, HandOver(piped) PROVE SecretsInv'
  <1>1. PICK u \in DOMAIN uses : u = serving /\ u # 0 /\ u = Len(uses) /\ uses[u].at = "ORDERED" /\ uses[u].value = <<>>
    BY DEF HandOver, SecretsInv, OnlyTheLastIsServed
  <1>2. PICK h, value : h = uses[u].handle /\ value = Read(uses[u].meta)
    OBVIOUS
  <1>3. UNCHANGED <<document, backend, programs, authority, revisions, binding, runs, starts, changes>> /\ returned' = <<>>
    BY DEF HandOver
  <1>4. IsPlain(value)
    BY <1>1, <1>2, ReadIsPlain DEF SecretsInv, UsesAreUses, IsUse
  <1>5. OperatorsOwn' /\ RecordsAreRows'
    BY <1>3 DEF SecretsInv, OperatorsOwn, RecordsAreRows
  <1>6. ReturnIsRedacted'
    BY <1>3, NothingIsReturned
  <1>7. authority = "UP"
    BY <1>1 DEF SecretsInv, OnlyTheLastIsServed
  <1>8. \A w \in DOMAIN uses : w # u => uses[w].at # "ORDERED"
    BY <1>1 DEF SecretsInv, OnlyTheLastIsServed
  <1>9. \A w \in DOMAIN uses : w \in Nat /\ w # 0 /\ (w # u => u > w)
    <2>1. PICK n \in Nat : n = Len(uses) /\ DOMAIN uses = 1..n
      BY RowIs DEF SecretsInv, UsesAreUses
    <2>. QED BY <1>1, <2>1
  <1>10. ASSUME NEW state, Rewrites(u, state, "ENDED", value) \/ Rewrites(u, state, "CONSUMER", value),
                value # <<>>, memory' = [memory EXCEPT !.index = Inserted(@, h, value)],
                serving' = 0 \/ (serving' = serving),
                Rewrites(u, state, "CONSUMER", value) \/ serving' = 0
         PROVE  SecretsInv'
    <2>1. PICK at \in {"ENDED", "CONSUMER"} : Rewrites(u, state, at, value)
      BY <1>10
    <2>2. /\ UsesAreUses' /\ OfItsRevision' /\ Len(uses') = Len(uses)
          /\ \A w \in DOMAIN uses : uses'[w].handle = uses[w].handle
          /\ uses'[u].at = at /\ uses'[u].value = value
      BY <1>3, <1>4, <2>1, RewriteKeeps
    <2>3. DOMAIN uses' = DOMAIN uses /\ \A w \in DOMAIN uses : w # u => uses'[w] = uses[w]
      BY <2>1 DEF Rewrites
    <2>4. PICK index, after : index = memory.index /\ after = Inserted(index, h, value)
      OBVIOUS
    <2>5. memory' = [config |-> memory.config, consumers |-> memory.consumers, index |-> after]
      <3>1. memory = [config |-> memory.config, consumers |-> memory.consumers, index |-> memory.index]
        BY DEF SecretsInv, MemoryIsOfConfig
      <3>2. memory' = [memory EXCEPT !.index = after]
        BY <1>10, <2>4
      <3>. QED BY <3>1, <3>2
    <2>6. memory'.config = memory.config /\ memory'.consumers = memory.consumers /\ memory'.index = after
      BY <2>5
    <2>7. /\ \A g : g \in DOMAIN after <=> (g \in DOMAIN index /\ g # h) \/ (g = h /\ Len(value) >= MinExact)
          /\ \A g \in DOMAIN after : after[g] = IF g = h THEN value ELSE index[g]
      BY <2>4, InsertedIs
    <2>8. MemoryIsOfConfig'
      <3>1. \A g \in DOMAIN after : IsPlain(after[g]) /\ Len(after[g]) >= MinExact
        <4>. TAKE g \in DOMAIN after
        <4>1. CASE g = h
          BY <1>4, <2>7, <4>1
        <4>2. CASE g # h
          <5>1. g \in DOMAIN memory.index /\ after[g] = memory.index[g]
            BY <2>4, <2>7, <4>2
          <5>. QED BY <5>1 DEF SecretsInv, MemoryIsOfConfig
        <4>. QED BY <4>1, <4>2
      <3>2. \A g \in DOMAIN memory.config : IsMeta(memory.config[g])'
        BY <1>3, <2>6 DEF SecretsInv, MemoryIsOfConfig, IsMeta, Entries
      <3>. QED BY <2>5, <2>6, <3>1, <3>2 DEF SecretsInv, MemoryIsOfConfig
    <2>9. OnlyTheLastIsServed'
      <3>1. serving' # 0 => serving' = u
        BY <1>1, <1>10
      <3>2. \A w \in DOMAIN uses' : uses'[w].at # "ORDERED"
        BY <1>8, <2>2, <2>3
      <3>. QED BY <1>1, <1>3, <1>7, <2>2, <2>3, <3>1, <3>2 DEF OnlyTheLastIsServed
    <2>10. ASSUME NEW w \in DOMAIN uses, uses'[w].at = "CONSUMER", Len(uses'[w].value) >= MinExact
           PROVE  Replaced(w)' \/ Indexed(w)'
      <3>1. CASE w = u
        <4>1. uses'[w].value = value /\ uses'[w].handle = h /\ Len(value) >= MinExact
          BY <1>2, <2>2, <2>10, <3>1
        <4>2. h \in DOMAIN after /\ after[h] = value
          BY <2>7, <4>1
        <4>. QED BY <2>6, <4>1, <4>2 DEF Indexed
      <3>2. CASE w # u
        <4>1. uses'[w] = uses[w] /\ u > w
          BY <1>9, <2>3, <3>2
        <4>2. Replaced(w) \/ Indexed(w)
          BY <2>10, <4>1 DEF SecretsInv, ConsumersAreIndexed
        <4>3. ASSUME Replaced(w) PROVE Replaced(w)'
          <5>1. \A v \in DOMAIN uses : /\ uses'[v].handle = uses[v].handle
                                       /\ uses'[v].value = uses[v].value \/ uses[v].value = <<>>
            BY <1>1, <2>2, <2>3
          <5>2. UsesAreUses /\ DOMAIN uses \subseteq DOMAIN uses' /\ uses'[w].value = uses[w].value
            BY <2>3, <4>1 DEF SecretsInv
          <5>. QED BY <4>3, <5>1, <5>2, ReplacedStays
        <4>4. ASSUME Indexed(w), uses[w].handle # h PROVE Indexed(w)'
          <5>1. uses[w].handle \in DOMAIN index /\ index[uses[w].handle] = uses[w].value
            BY <2>4, <4>4 DEF Indexed
          <5>2. uses[w].handle \in DOMAIN after /\ after[uses[w].handle] = uses[w].value
            BY <2>7, <4>4, <5>1
          <5>. QED BY <2>6, <4>1, <5>2 DEF Indexed
        <4>5. ASSUME uses[w].handle = h, uses[w].value = value PROVE Indexed(w)'
          <5>1. h \in DOMAIN after /\ after[h] = value
            BY <2>7, <2>10, <4>1, <4>5
          <5>. QED BY <2>6, <4>1, <4>5, <5>1 DEF Indexed
        <4>6. ASSUME uses[w].handle = h, uses[w].value # value PROVE Replaced(w)'
          <5>1. u \in DOMAIN uses' /\ uses'[u].handle = uses'[w].handle /\ uses'[u].value \notin {<<>>, uses'[w].value}
            BY <1>2, <1>10, <2>2, <2>3, <4>1, <4>6
          <5>. QED BY <4>1, <5>1 DEF Replaced
        <4>. QED BY <4>2, <4>3, <4>4, <4>5, <4>6
      <3>. QED BY <3>1, <3>2
    <2>11. ConsumersAreIndexed'
      BY <2>3, <2>10 DEF ConsumersAreIndexed
    <2>12. IndexIsTheConfiguration'
      BY <1>3, <2>6 DEF SecretsInv, IndexIsTheConfiguration, Current, Row
    <2>. QED BY <1>5, <1>6, <2>2, <2>8, <2>9, <2>11, <2>12 DEF SecretsInv
  <1>11. CASE value = Missing
    <2>1. Ended(u, "FAILED", <<>>) /\ serving' = 0 /\ UNCHANGED memory
      BY <1>1, <1>2, <1>11 DEF HandOver
    <2>2. Rewrites(u, "FAILED", "ENDED", <<>>)
      BY <2>1, EndedRewrites
    <2>3. /\ UsesAreUses' /\ OfItsRevision' /\ Len(uses') = Len(uses)
          /\ \A w \in DOMAIN uses : uses'[w].handle = uses[w].handle
          /\ uses'[u].at = "ENDED" /\ uses'[u].value = <<>>
      BY <1>3, <2>2, EmptyRow, RewriteKeeps
    <2>4. DOMAIN uses' = DOMAIN uses /\ \A w \in DOMAIN uses : w # u => uses'[w] = uses[w]
      BY <2>2 DEF Rewrites
    <2>5. MemoryIsOfConfig'
      BY <1>3, <2>1 DEF SecretsInv, MemoryIsOfConfig, IsMeta, Entries
    <2>6. OnlyTheLastIsServed'
      <3>1. \A w \in DOMAIN uses' : uses'[w].at # "ORDERED"
        BY <1>8, <2>3, <2>4
      <3>. QED BY <1>3, <1>7, <2>1, <3>1 DEF OnlyTheLastIsServed
    <2>7. ASSUME NEW w \in DOMAIN uses, uses'[w].at = "CONSUMER", Len(uses'[w].value) >= MinExact
          PROVE  Replaced(w)' \/ Indexed(w)'
      <3>1. w # u /\ uses'[w] = uses[w]
        BY <2>3, <2>4, <2>7
      <3>2. Replaced(w) \/ Indexed(w)
        BY <2>7, <3>1 DEF SecretsInv, ConsumersAreIndexed
      <3>3. ASSUME Replaced(w) PROVE Replaced(w)'
        <4>1. \A v \in DOMAIN uses : /\ uses'[v].handle = uses[v].handle
                                     /\ uses'[v].value = uses[v].value \/ uses[v].value = <<>>
          BY <1>1, <2>3, <2>4
        <4>2. UsesAreUses /\ DOMAIN uses \subseteq DOMAIN uses' /\ uses'[w].value = uses[w].value
          BY <2>4, <3>1 DEF SecretsInv
        <4>. QED BY <3>3, <4>1, <4>2, ReplacedStays
      <3>4. ASSUME Indexed(w) PROVE Indexed(w)'
        BY <2>1, <3>1, <3>4 DEF Indexed
      <3>. QED BY <3>2, <3>3, <3>4
    <2>8. ConsumersAreIndexed'
      BY <2>4, <2>7 DEF ConsumersAreIndexed
    <2>9. IndexIsTheConfiguration'
      BY <1>3, <2>1 DEF SecretsInv, IndexIsTheConfiguration, Current, Row
    <2>. QED BY <1>5, <1>6, <2>3, <2>5, <2>6, <2>8, <2>9 DEF SecretsInv
  <1>12. CASE value # Missing
    <2>1. memory' = [memory EXCEPT !.index = Inserted(@, h, value)]
      BY <1>1, <1>2, <1>12 DEF HandOver
    <2>2. \/ uses' = [uses EXCEPT ![u].at = "CONSUMER", ![u].value = value] /\ UNCHANGED serving
          \/ Ended(u, "FAILED", value) /\ serving' = 0
      BY <1>1, <1>2, <1>12 DEF HandOver
    <2>3. CASE Ended(u, "FAILED", value) /\ serving' = 0
      <3>1. Rewrites(u, "FAILED", "ENDED", value)
        BY <2>3, EndedRewrites
      <3>. QED BY <1>10, <1>12, <2>1, <2>3, <3>1 DEF Missing
    <2>4. CASE uses' = [uses EXCEPT ![u].at = "CONSUMER", ![u].value = value] /\ UNCHANGED serving
      <3>1. uses' = [uses EXCEPT ![u] = WithTwo(uses[u], "CONSUMER", value)]
        BY <2>4 DEF WithTwo
      <3>2. uses[u] = UseWith(uses[u], uses[u].state, uses[u].at, uses[u].value)
        BY DEF SecretsInv, UsesAreUses, IsUse
      <3>3. PICK x : x = UseWith(uses[u], uses[u].state, "CONSUMER", value)
        OBVIOUS
      <3>4. WithTwo(uses[u], "CONSUMER", value) = x
        BY <3>2, <3>3, RewrittenFields
      <3>5. uses = [w \in DOMAIN uses |-> uses[w]]
        BY RowIs DEF SecretsInv, UsesAreUses
      <3>6. Rewrites(u, uses[u].state, "CONSUMER", value)
        BY <3>1, <3>3, <3>4, <3>5 DEF Rewrites
      <3>. QED BY <1>10, <1>12, <2>1, <2>4, <3>6 DEF Missing
    <2>. QED BY <2>2, <2>3, <2>4
  <1>. QED BY <1>11, <1>12

LEMMA ParkKeeps == ASSUME SecretsConstants, SecretsInv, Park PROVE SecretsInv'
  <1>1. UNCHANGED <<document, backend, programs, authority, memory, revisions, binding, runs, uses, starts, changes>>
        /\ returned' = <<>> /\ serving' = 0 /\ uses[serving].at = "CONSUMER"
    BY DEF Park
  <1>2. OperatorsOwn' /\ MemoryIsOfConfig' /\ UsesAreUses' /\ RecordsAreRows' /\ OfItsRevision'
    BY <1>1 DEF SecretsInv, OperatorsOwn, MemoryIsOfConfig, UsesAreUses, RecordsAreRows, OfItsRevision, IsMeta, Entries, IsUse
  <1>3. OnlyTheLastIsServed'
    <2>1. \A u \in DOMAIN uses : uses[u].at # "ORDERED"
      BY <1>1 DEF SecretsInv, OnlyTheLastIsServed
    <2>. QED BY <1>1, <2>1 DEF SecretsInv, OnlyTheLastIsServed
  <1>4. ConsumersAreIndexed'
    BY <1>1 DEF SecretsInv, ConsumersAreIndexed, Indexed, Replaced
  <1>5. IndexIsTheConfiguration'
    BY <1>1 DEF SecretsInv, IndexIsTheConfiguration, Current, Row
  <1>6. ReturnIsRedacted'
    BY <1>1, NothingIsReturned
  <1>. QED BY <1>2, <1>3, <1>4, <1>5, <1>6 DEF SecretsInv

\* A use that ends with the value it had changes neither the index nor what replaced what.
LEMMA EndingKeeps ==
    ASSUME SecretsConstants, SecretsInv, NEW u \in DOMAIN uses, NEW state, serving \in {0, u}, uses[u].at = "CONSUMER",
           Ended(u, state, uses[u].value), serving' = 0,
           UNCHANGED <<document, backend, programs, authority, memory, revisions, binding>>
    PROVE  /\ OperatorsOwn' /\ MemoryIsOfConfig' /\ RecordsAreRows' /\ UsesAreUses'
           /\ OnlyTheLastIsServed' /\ ConsumersAreIndexed'
           /\ IndexIsTheConfiguration' /\ OfItsRevision'
           /\ uses'[u].value = uses[u].value /\ (Replaced(u) => Replaced(u)')
  <1>1. PICK value : value = uses[u].value
    OBVIOUS
  <1>2. Rewrites(u, state, "ENDED", value)
    BY <1>1, EndedRewrites
  <1>3. IsPlain(value)
    BY <1>1 DEF SecretsInv, UsesAreUses, IsUse
  <1>4. /\ UsesAreUses' /\ OfItsRevision' /\ Len(uses') = Len(uses)
        /\ \A w \in DOMAIN uses : uses'[w].handle = uses[w].handle
        /\ uses'[u].at = "ENDED" /\ uses'[u].value = value
    BY <1>2, <1>3, RewriteKeeps
  <1>5. DOMAIN uses' = DOMAIN uses /\ \A w \in DOMAIN uses : w # u => uses'[w] = uses[w]
    BY <1>2 DEF Rewrites
  <1>6. \A w \in DOMAIN uses : uses'[w].value = uses[w].value
    BY <1>1, <1>4, <1>5
  <1>7. ASSUME NEW w \in DOMAIN uses, Replaced(w) PROVE Replaced(w)'
    <2>1. UsesAreUses /\ DOMAIN uses \subseteq DOMAIN uses'
      BY <1>5 DEF SecretsInv
    <2>. QED BY <1>4, <1>6, <1>7, <2>1, ReplacedStays
  <1>8. OperatorsOwn' /\ MemoryIsOfConfig' /\ RecordsAreRows'
    BY DEF SecretsInv, OperatorsOwn, MemoryIsOfConfig, RecordsAreRows, IsMeta, Entries
  <1>9. IndexIsTheConfiguration'
    BY DEF SecretsInv, IndexIsTheConfiguration, Current, Row
  <1>10. OnlyTheLastIsServed'
    <2>1. \A w \in DOMAIN uses : w # u => uses[w].at # "ORDERED"
      <3>1. \A w \in DOMAIN uses : w # 0
        <4>1. PICK n \in Nat : DOMAIN uses = 1..n
          BY RowIs DEF SecretsInv, UsesAreUses
        <4>. QED BY <4>1
      <3>. QED BY <3>1 DEF SecretsInv, OnlyTheLastIsServed
    <2>2. \A w \in DOMAIN uses' : uses'[w].at # "ORDERED"
      BY <1>4, <1>5, <2>1
    <2>3. authority = "UP"
      BY DEF SecretsInv, OnlyTheLastIsServed
    <2>. QED BY <2>2, <2>3 DEF OnlyTheLastIsServed
  <1>11. ASSUME NEW w \in DOMAIN uses, uses'[w].at = "CONSUMER", Len(uses'[w].value) >= MinExact
         PROVE  Replaced(w)' \/ Indexed(w)'
    <2>1. w # u /\ uses'[w] = uses[w]
      BY <1>4, <1>5, <1>11
    <2>2. Replaced(w) \/ Indexed(w)
      BY <1>11, <2>1 DEF SecretsInv, ConsumersAreIndexed
    <2>3. ASSUME Indexed(w) PROVE Indexed(w)'
      BY <2>1, <2>3 DEF Indexed
    <2>. QED BY <1>7, <2>2, <2>3
  <1>12. ConsumersAreIndexed'
    BY <1>5, <1>11 DEF ConsumersAreIndexed
  <1>. QED BY <1>1, <1>4, <1>7, <1>8, <1>9, <1>10, <1>12

\* The value a consumer was given is in the index its output is redacted by, unless it was replaced.
LEMMA ReturnKeeps ==
    ASSUME SecretsConstants, SecretsInv, NEW u \in DOMAIN uses, NEW output \in Outputs, Return(u, output)
    PROVE  SecretsInv'
  <1>1. /\ serving \in {0, u} /\ uses[u].at = "CONSUMER" /\ Ended(u, "INJECTED", uses[u].value) /\ serving' = 0
        /\ UNCHANGED <<document, backend, programs, authority, memory, revisions, binding>>
    BY DEF Return
  <1>2. /\ OperatorsOwn' /\ MemoryIsOfConfig' /\ RecordsAreRows' /\ UsesAreUses'
        /\ OnlyTheLastIsServed' /\ ConsumersAreIndexed'
        /\ IndexIsTheConfiguration' /\ OfItsRevision'
        /\ uses'[u].value = uses[u].value /\ (Replaced(u) => Replaced(u)')
    BY <1>1, EndingKeeps
  <1>3. PICK bytes, index, r : /\ bytes = RedactBounded(output, memory.index) /\ index = memory.index
                               /\ r = [use |-> u, raw |-> output, bytes |-> bytes]
    OBVIOUS
  <1>4. returned' = <<r>>
    BY <1>3 DEF Return
  <1>5. DOMAIN returned' = {1} /\ returned'[1] = r
    BY <1>4
  <1>6. IsPlain(output) /\ Missing \notin Shapes /\ Limit \in Nat /\ MinExact \in Nat \ {0}
    BY DEF SecretsConstants
  <1>7. IsIndex(index)
    <2>1. ASSUME NEW h \in DOMAIN index PROVE index[h] # Missing
      <3>1. Len(index[h]) >= MinExact
        BY <1>3 DEF SecretsInv, MemoryIsOfConfig
      <3>2. Len(<<>>) = 0
        BY EmptyRow
      <3>3. ~(0 >= MinExact)
        BY <1>6
      <3>. QED BY <3>1, <3>2, <3>3 DEF Missing
    <2>. QED BY <2>1 DEF IsIndex
  <1>8. /\ \A h \in DOMAIN index : IsPlain(index[h]) => Spans(index[h], bytes) = {}
        /\ IsPrefix(Text(bytes), Kept(output, index))
        /\ Len(bytes) < Limit => Text(bytes) = Kept(output, index)
    BY <1>3, <1>6, <1>7, RedactHolds
  <1>9. Len(uses[u].value) < MinExact \/ Replaced(u)' \/ Spans(uses[u].value, bytes) = {}
    <2>. SUFFICES ASSUME ~(Len(uses[u].value) < MinExact), ~Replaced(u)' PROVE Spans(uses[u].value, bytes) = {}
      OBVIOUS
    <2>1. Len(uses[u].value) \in Nat
      <3>1. PICK v : v = uses[u].value
        OBVIOUS
      <3>2. IsRow(v)
        BY <3>1 DEF SecretsInv, UsesAreUses, IsUse, IsPlain, IsRow
      <3>. QED BY <3>1, <3>2, RowIs
    <2>2. Len(uses[u].value) >= MinExact
      BY <1>6, <2>1
    <2>3. Indexed(u)
      BY <1>1, <1>2, <2>2 DEF SecretsInv, ConsumersAreIndexed
    <2>4. PICK h : h = uses[u].handle
      OBVIOUS
    <2>5. h \in DOMAIN index /\ index[h] = uses[u].value
      BY <1>3, <2>3, <2>4 DEF Indexed
    <2>6. IsPlain(index[h])
      BY <2>5 DEF SecretsInv, UsesAreUses, IsUse
    <2>. QED BY <1>8, <2>5, <2>6
  <1>10. ReturnIsRedacted'
    <2>1. r.use = u /\ r.bytes = bytes /\ r.raw = output
      BY <1>3
    <2>2. memory'.index = index
      BY <1>1, <1>3
    <2>. QED BY <1>2, <1>5, <1>8, <1>9, <2>1, <2>2 DEF ReturnIsRedacted
  <1>. QED BY <1>2, <1>10 DEF SecretsInv

LEMMA NothingReturnedKeeps ==
    ASSUME SecretsConstants, SecretsInv, NEW u \in DOMAIN uses, NEW state, NothingReturned(u, state)
    PROVE  SecretsInv'
  <1>1. /\ serving \in {0, u} /\ uses[u].at = "CONSUMER" /\ Ended(u, state, uses[u].value) /\ serving' = 0
        /\ UNCHANGED <<document, backend, programs, authority, memory, revisions, binding>> /\ returned' = <<>>
    BY DEF NothingReturned
  <1>2. /\ OperatorsOwn' /\ MemoryIsOfConfig' /\ RecordsAreRows' /\ UsesAreUses'
        /\ OnlyTheLastIsServed' /\ ConsumersAreIndexed'
        /\ IndexIsTheConfiguration' /\ OfItsRevision'
    BY <1>1, EndingKeeps
  <1>3. ReturnIsRedacted'
    BY <1>1, NothingIsReturned
  <1>. QED BY <1>2, <1>3 DEF SecretsInv

LEMMA OperatorKeeps == ASSUME SecretsConstants, SecretsInv, OperatorActs PROVE SecretsInv'
  <1>1. UNCHANGED <<authority, memory, revisions, binding, runs, uses, serving, starts>> /\ returned' = <<>>
    BY DEF OperatorActs
  <1>2. DOMAIN backend' = DOMAIN backend /\ (\A e \in DOMAIN backend : IsPlain(backend'[e])) /\ document' \in AllDocuments
    <2>1. CASE UNCHANGED backend /\ document' \in Documents \cup {document}
      BY <2>1 DEF SecretsInv, OperatorsOwn, AllDocuments
    <2>2. CASE UNCHANGED document /\ \E c \in Rotations : backend' = [backend EXCEPT ![c.entry] = c.value]
      <3>1. PICK c \in Rotations : backend' = [backend EXCEPT ![c.entry] = c.value]
        BY <2>2
      <3>2. IsPlain(c.value)
        BY DEF SecretsConstants
      <3>. QED BY <2>2, <3>1, <3>2 DEF SecretsInv, OperatorsOwn
    <2>. QED BY <2>1, <2>2 DEF OperatorActs
  <1>3. OperatorsOwn'
    BY <1>2 DEF SecretsInv, OperatorsOwn, AllDocuments, IsPlain
  <1>4. MemoryIsOfConfig' /\ UsesAreUses' /\ RecordsAreRows' /\ OfItsRevision'
    BY <1>1, <1>2 DEF SecretsInv, MemoryIsOfConfig, UsesAreUses, RecordsAreRows, OfItsRevision, IsMeta, Entries, IsUse
  <1>5. OnlyTheLastIsServed'
    BY <1>1 DEF SecretsInv, OnlyTheLastIsServed
  <1>6. ConsumersAreIndexed'
    BY <1>1 DEF SecretsInv, ConsumersAreIndexed, Indexed, Replaced
  <1>7. IndexIsTheConfiguration'
    BY <1>1 DEF SecretsInv, IndexIsTheConfiguration, Current, Row
  <1>8. ReturnIsRedacted'
    BY <1>1, NothingIsReturned
  <1>. QED BY <1>3, <1>4, <1>5, <1>6, <1>7, <1>8 DEF SecretsInv

LEMMA SecretsStep == ASSUME SecretsConstants, SecretsInv, SecretsNext PROVE SecretsInv'
  BY PrepareKeeps, BeginKeeps, ReconcileKeeps, DieKeeps, AdmitKeeps, UseKeeps, HandOverKeeps, ParkKeeps,
     ReturnKeeps, NothingReturnedKeeps, OperatorKeeps DEF SecretsNext

LEMMA SecretsStutter == ASSUME SecretsInv, UNCHANGED secretsVars PROVE SecretsInv'
  <1>1. UNCHANGED <<document, backend, programs, authority, memory, revisions, binding, runs, uses, serving, returned>>
    BY DEF secretsVars
  <1>2. OperatorsOwn' /\ MemoryIsOfConfig' /\ UsesAreUses' /\ RecordsAreRows' /\ OfItsRevision'
    BY <1>1 DEF SecretsInv, OperatorsOwn, MemoryIsOfConfig, UsesAreUses, RecordsAreRows, OfItsRevision, IsMeta, Entries, IsUse
  <1>3. OnlyTheLastIsServed'
    BY <1>1 DEF SecretsInv, OnlyTheLastIsServed
  <1>4. ConsumersAreIndexed'
    BY <1>1 DEF SecretsInv, ConsumersAreIndexed, Indexed, Replaced
  <1>5. IndexIsTheConfiguration'
    BY <1>1 DEF SecretsInv, IndexIsTheConfiguration, Current, Row
  <1>6. ReturnIsRedacted'
    BY <1>1 DEF SecretsInv, ReturnIsRedacted, Replaced
  <1>. QED BY <1>2, <1>3, <1>4, <1>5, <1>6 DEF SecretsInv

\* For any handles, documents, values and outputs: while it serves, the last row of every secret is
\* what the authority holds of it; a use is of the revision its run is bound to; and what comes back
\* holds the value no more, and everything that no known value or shape matched (reconcile in
\* state/secrets.rs, check_use and bind in state/secret_use.rs, redact in secret/redact/mod.rs).
THEOREM SecretsStayKept == ASSUME SecretsConstants PROVE SecretsSpec => []SecretsAreKept
  <1>1. SecretsInit => SecretsInv
    BY SecretsBegin
  <1>2. SecretsInv /\ [SecretsNext]_secretsVars => SecretsInv'
    BY SecretsStep, SecretsStutter
  <1>3. SecretsInv => SecretsAreKept
    BY UseOfItsSecretHolds DEF SecretsInv, SecretsAreKept
  <1>. QED BY <1>1, <1>2, <1>3, PTL DEF SecretsSpec
=============================================================================
