------------------------------ MODULE AuditLog ------------------------------
(****************************************************************************)
(* The transactional outbox of kernel.db and the audit.log it is flushed    *)
(* to (crates/dwkd-authority/src/state: audit.rs, Authority::transact,      *)
(* Shared::flush and Authority::start of mod.rs).                           *)
(*                                                                          *)
(* A record is its sequence number: the hash chain binds its contents to    *)
(* it.  Record n's line is written in two halves, numbered 2n-1 and 2n, so  *)
(* audit.log is a sequence of halves, and it is sound when the i-th is half *)
(* i; an odd length is a torn tail.  A file whose halves are anything else  *)
(* does not verify.  The file's first `synced' halves are on disk; a power  *)
(* loss keeps them and any part of the rest.  kernel.db is synchronous:     *)
(* what it commits is on disk.                                              *)
(*                                                                          *)
(* Every handle is a thread of its own.  They share the mutex of the        *)
(* AuditWriter and the poison flag, and nothing else in memory.             *)
(****************************************************************************)
EXTENDS Integers, Sequences

CONSTANTS
    Handles,        \* open handles onto the store, a thread each
    None,           \* no handle
    IoFaults,       \* when writing or syncing audit.log may fail: "ALONE" or "ANY"
    Batch,          \* bound: records one transaction appends
    MaxRecords      \* bound: records committed in all

ASSUME AuditConstants ==
    /\ None \notin Handles
    /\ IoFaults \in {"ALONE", "ANY"}
    /\ Batch \in Nat \ {0}
    /\ MaxRecords \in Nat \ {0}

VARIABLES
    proc,           \* "DOWN", "RECOVERING" (inside Authority::start) or "UP"
    quarantine,     \* the marker file: "ABSENT" or "PRESENT"
    head,           \* audit_head.seq: records committed in kernel.db
    flushed,        \* audit_state.flushed_seq
    log,            \* audit.log
    synced,         \* how many halves of it are on disk
    durable,        \* AuditWriter::durable_seq
    poisoned,       \* Shared::poisoned: "NO" or "YES"
    mutex,          \* the handle holding Shared::audit, or None
    op,             \* per handle, the transaction it is in
    recovering,     \* recover: the halves written so far
    answered        \* the last record a caller was answered for

fileVars   == <<log, synced>>
dbVars     == <<head, flushed>>
memoryVars == <<durable, poisoned, mutex, op, recovering>>
vars == <<proc, quarantine, dbVars, fileVars, memoryVars, answered>>

-----------------------------------------------------------------------------
\* A handle's transaction: in no one; past check(); committed, with `target'
\* its last record; past flush's check(); writing half `at' + 1 of the pending
\* halves through `upto'; or synced and marking.
Op(pc, target, at, upto) == [pc |-> pc, target |-> target, at |-> at, upto |-> upto]
Idle == Op("idle", 0, 0, 0)
OpType == [pc : {"idle", "checked", "committed", "waiting", "writing", "marking"},
           target : 0..MaxRecords, at : 0..2 * MaxRecords, upto : 0..2 * MaxRecords]

Sound(file) == \A i \in 1..Len(file) : file[i] = i

\* The complete lines of a sound file.
Lines(file) == Len(file) \div 2

Cut(file, n) == SubSeq(file, 1, n)

\* Memory, when a process begins.
NoOps == [h \in Handles |-> Idle]

Init ==
    /\ proc = "DOWN"
    /\ quarantine = "ABSENT"
    /\ head = 0
    /\ flushed = 0
    /\ log = <<>>
    /\ synced = 0
    /\ durable = 0
    /\ poisoned = "NO"
    /\ mutex = None
    /\ op = NoOps
    /\ recovering = 0
    /\ answered = 0

-----------------------------------------------------------------------------
(* Starting *)

\* create_store: the schema and record 1, store.created, in one transaction.
\* The process may die before it recovers.
CreateStore ==
    /\ proc = "DOWN"
    /\ quarantine = "ABSENT"
    /\ head = 0
    /\ log = <<>>
    /\ head' = 1
    /\ UNCHANGED <<proc, quarantine, flushed, fileVars, memoryVars, answered>>

\* Fault: a partial last line is never explained by a crash.
ExplainedWhole == Sound(log) /\ Lines(log) <= head /\ Lines(log) >= flushed /\ Len(log) % 2 = 0

\* compare: the complete lines are the chain's first records, none that the
\* mark acknowledges is missing, and a partial last line is a strict prefix of
\* the next pending record.
Explained == Sound(log) /\ Len(log) <= 2 * head /\ Lines(log) >= flushed

\* Fault: the torn tail stays, and the line is written after it.
RepairedNot == log
\* The log without its torn tail.
Repaired == Cut(log, 2 * Lines(log))

\* The start of recover: compare, and a torn tail is removed and that synced;
\* or the store is quarantined.
Recover ==
    /\ proc = "DOWN"
    /\ quarantine = "ABSENT"
    /\ head > 0
    /\ \/ /\ ~Explained
          /\ quarantine' = "PRESENT"
          /\ UNCHANGED <<proc, fileVars, recovering>>
       \/ /\ Explained
          /\ proc' = "RECOVERING"
          /\ quarantine' = quarantine
          /\ log' = Repaired
          /\ synced' = IF Len(log) % 2 = 1 THEN 2 * Lines(log) ELSE synced
          /\ recovering' = 2 * Lines(log)
    /\ UNCHANGED <<dbVars, durable, poisoned, mutex, op, answered>>

\* recover appends the next half of what the log lacks of the chain.
RecoverAppend ==
    /\ proc = "RECOVERING"
    /\ recovering < 2 * head
    /\ log' = Append(log, recovering + 1)
    /\ recovering' = recovering + 1
    /\ UNCHANGED <<proc, quarantine, dbVars, synced, durable, poisoned, mutex, op, answered>>

\* Fault: what was found in the file is taken to be on disk.
RecoverSyncedNot == synced
\* What is on disk once recover has synced: everything in the file, whoever
\* wrote it.
RecoverSynced == Len(log)

\* recover syncs; only then does it advance the mark and open the writer.
RecoverSync ==
    /\ proc = "RECOVERING"
    /\ recovering = 2 * head
    /\ synced' = RecoverSynced
    /\ recovering' = recovering + 1
    /\ UNCHANGED <<proc, quarantine, dbVars, log, durable, poisoned, mutex, op, answered>>

RecoverMark ==
    /\ proc = "RECOVERING"
    /\ recovering = 2 * head + 1
    /\ flushed' = head
    /\ durable' = head
    /\ recovering' = 0
    /\ proc' = "UP"
    /\ UNCHANGED <<quarantine, head, fileVars, poisoned, mutex, op, answered>>

-----------------------------------------------------------------------------
(* Ending *)

\* The process is gone, and with it its memory.
Memoryless ==
    /\ proc' = "DOWN"
    /\ durable' = 0
    /\ poisoned' = "NO"
    /\ mutex' = None
    /\ op' = NoOps
    /\ recovering' = 0

\* The process dies, or is stopped because it is poisoned: what it wrote stays
\* in the file, whether on disk or not.
Die ==
    /\ proc # "DOWN"
    /\ Memoryless
    /\ UNCHANGED <<quarantine, dbVars, fileVars, answered>>

\* Power is lost: of what was not synced, any part is on disk.
PowerLoss ==
    /\ \E n \in synced..Len(log) :
        /\ log' = Cut(log, n)
        /\ synced' = n
    /\ Memoryless
    /\ UNCHANGED <<quarantine, dbVars, answered>>

-----------------------------------------------------------------------------
(* A transaction of handle h *)

Become(h, o) == op' = [op EXCEPT ![h] = o]

\* transact: the check, before the transaction begins.
Enter(h) ==
    /\ proc = "UP"
    /\ op[h].pc = "idle"
    /\ poisoned = "NO"
    /\ Become(h, Op("checked", 0, 0, 0))
    /\ UNCHANGED <<proc, quarantine, dbVars, fileVars, durable, poisoned, mutex, recovering, answered>>

\* The transaction does not commit: refused, busy, or an error of the store
\* that poisons it.
Abort(h) ==
    /\ op[h].pc = "checked"
    /\ Become(h, Idle)
    /\ poisoned' \in {poisoned, "YES"}
    /\ UNCHANGED <<proc, quarantine, dbVars, fileVars, durable, mutex, recovering, answered>>

\* It commits, n records with it; one that records nothing is answered.
CommitTx(h) ==
    /\ op[h].pc = "checked"
    /\ \E n \in 0..Batch :
        /\ head + n <= MaxRecords
        /\ head' = head + n
        /\ Become(h, IF n = 0 THEN Idle ELSE Op("committed", head + n, 0, 0))
    /\ UNCHANGED <<proc, quarantine, flushed, fileVars, durable, poisoned, mutex, recovering, answered>>

\* flush: its own check, before it waits for the writer.
FlushCheck(h) ==
    /\ op[h].pc = "committed"
    /\ Become(h, IF poisoned = "YES" THEN Idle ELSE Op("waiting", op[h].target, 0, 0))
    /\ UNCHANGED <<proc, quarantine, dbVars, fileVars, durable, poisoned, mutex, recovering, answered>>

Answer(h) == answered' = IF op[h].target > answered THEN op[h].target ELSE answered

WriterFree == mutex = None

\* Fault: committed records are taken for flushed ones.
FlushedAlreadyCommitted(h) == head >= op[h].target
\* Another handle's flush took this one's records along.
FlushedAlready(h) == durable >= op[h].target

\* The writer is taken.  Another handle has flushed the records already; or the
\* outbox cannot be read (busy, or an error that poisons); or its pending records are read.
Lock(h) ==
    /\ op[h].pc = "waiting"
    /\ WriterFree
    /\ \/ /\ FlushedAlready(h)
          /\ Become(h, Idle)
          /\ Answer(h)
          /\ UNCHANGED <<mutex, poisoned>>
       \/ /\ ~FlushedAlready(h)
          /\ Become(h, Idle)
          /\ poisoned' \in {poisoned, "YES"}
          /\ UNCHANGED <<answered, mutex>>
       \/ /\ ~FlushedAlready(h)
          /\ Become(h, Op("writing", op[h].target, 2 * durable, 2 * head))
          /\ mutex' = h
          /\ UNCHANGED <<answered, poisoned>>
    /\ UNCHANGED <<proc, quarantine, dbVars, fileVars, durable, recovering>>

\* The next half of the pending lines is written.
Write(h) ==
    /\ op[h].pc = "writing"
    /\ op[h].at < op[h].upto
    /\ log' = Append(log, op[h].at + 1)
    /\ Become(h, Op("writing", op[h].target, op[h].at + 1, op[h].upto))
    /\ UNCHANGED <<proc, quarantine, dbVars, synced, durable, poisoned, mutex, recovering, answered>>

\* flush's answer to an I/O error: the store is poisoned, and the writer given
\* up with its place unchanged.
Poison(h) ==
    /\ poisoned' = "YES"
    /\ mutex' = None
    /\ Become(h, Idle)

\* "ALONE": only while no other handle waits for the writer, which is always so
\* of the server's one handle.
IoMayFail(h) == IoFaults = "ANY" \/ \A g \in Handles \ {h} : op[g].pc # "waiting"

\* Writing fails, with part of a half written or none.
WriteFails(h) ==
    /\ IoMayFail(h)
    /\ op[h].pc = "writing"
    /\ op[h].at < op[h].upto
    /\ log' \in {log} \cup (IF op[h].at % 2 = 0 THEN {Append(log, op[h].at + 1)} ELSE {})
    /\ Poison(h)
    /\ UNCHANGED <<proc, quarantine, dbVars, synced, durable, recovering, answered>>

\* What is on disk once the writer has synced.
Synced == Len(log)

\* All is written: it is synced, and the place in the chain advanced.
Sync(h) ==
    /\ op[h].pc = "writing"
    /\ op[h].at = op[h].upto
    /\ synced' = Synced
    /\ durable' = op[h].upto \div 2
    /\ Become(h, Op("marking", op[h].target, op[h].at, op[h].upto))
    /\ UNCHANGED <<proc, quarantine, dbVars, log, poisoned, mutex, recovering, answered>>

SyncFails(h) ==
    /\ IoMayFail(h)
    /\ op[h].pc = "writing"
    /\ op[h].at = op[h].upto
    /\ Poison(h)
    /\ UNCHANGED <<proc, quarantine, dbVars, fileVars, durable, recovering, answered>>

\* kernel.db is told, the writer released, and the operation answered.
Mark(h) ==
    /\ op[h].pc = "marking"
    /\ flushed' = IF flushed < op[h].upto \div 2 THEN op[h].upto \div 2 ELSE flushed
    /\ mutex' = None
    /\ Become(h, Idle)
    /\ Answer(h)
    /\ UNCHANGED <<proc, quarantine, head, fileVars, durable, poisoned, recovering>>

\* kernel.db cannot be told now: the operation fails, unmarked and unanswered.
MarkFails(h) ==
    /\ op[h].pc = "marking"
    /\ mutex' = None
    /\ Become(h, Idle)
    /\ poisoned' \in {poisoned, "YES"}
    /\ UNCHANGED <<proc, quarantine, dbVars, fileVars, durable, recovering, answered>>

-----------------------------------------------------------------------------
Start == CreateStore \/ Recover

Recovery == RecoverAppend \/ RecoverSync \/ RecoverMark

Transact(h) ==
    \/ Enter(h) \/ Abort(h) \/ CommitTx(h)
    \/ FlushCheck(h) \/ Lock(h) \/ Write(h) \/ WriteFails(h)
    \/ Sync(h) \/ SyncFails(h) \/ Mark(h) \/ MarkFails(h)

Next == Start \/ Recovery \/ Die \/ PowerLoss \/ \E h \in Handles : Transact(h)

Spec == Init /\ [][Next]_vars

\* Startup runs on, once begun, and is begun by the supervisor.
FairSpec == Spec /\ WF_vars(Start) /\ WF_vars(Recovery)

-----------------------------------------------------------------------------
(* Properties *)

\* The store's columns, the file and every handle's transaction have their types;
\* what is on disk is a part of the file.
TypeOK ==
    /\ proc \in {"DOWN", "RECOVERING", "UP"}
    /\ quarantine \in {"ABSENT", "PRESENT"}
    /\ head \in 0..MaxRecords
    /\ flushed \in 0..MaxRecords
    /\ log \in Seq(Nat)
    /\ synced \in 0..Len(log)
    /\ durable \in 0..MaxRecords
    /\ poisoned \in {"NO", "YES"}
    /\ mutex \in Handles \cup {None}
    /\ op \in [Handles -> OpType]
    /\ recovering \in 0..(2 * MaxRecords + 1)
    /\ answered \in 0..MaxRecords

\* Records reach audit.log in sequence order, whichever handle committed them
\* and wherever a crash or a failed write stopped one: the file is always a
\* prefix of the chain's lines, a torn last one included.
LogIsChainPrefix == Sound(log) /\ Len(log) <= 2 * head

\* kernel.db's mark is a lower bound of what is on disk, so a power loss never
\* looks like the removal of acknowledged records.
MarkIsLowerBound == 2 * flushed <= synced

\* No crash, power loss or failed operation, in any order, makes the next start
\* quarantine the store: recovery explains every state they leave.
NeverQuarantined == quarantine = "ABSENT"

\* No crash, power loss or failure, alone or after others, in whichever handle's hands, leaves
\* the two files in a state that looks like tampering (state/mod.rs, Shared::flush; audit.rs,
\* flush_through, compare and recover).
StoreIsSound == TypeOK /\ LogIsChainPrefix /\ MarkIsLowerBound /\ NeverQuarantined

\* The log holds on disk all that was committed, and nothing more, before the
\* recovered authority serves anyone.
RecoveredIsExact == [][proc = "RECOVERING" /\ proc' = "UP"
                        => synced' = 2 * head' /\ Len(log') = synced' /\ durable' = head']_vars

\* If starts are not interrupted for ever, the authority comes to serve: no
\* state that a crash leaves keeps it down.
EventuallyServes ==
    <>[][proc = "DOWN" \/ proc' # "DOWN"]_vars => <>[](proc = "UP")

T == INSTANCE AuditTrail WITH
    committed <- head,
    durable   <- synced \div 2

\* What a caller is answered was on disk in audit.log before, and nothing that
\* was on disk is ever lost.
ImplementsAuditTrail == T!TSpec
=============================================================================
