----------------------------- MODULE HostProcess -----------------------------
(******************************************************************************************)
(* process.exec, process.status and process.kill (dwkd-authority/src/state/               *)
(* process.rs and mod.rs; dwkd-broker/src/process): the authority locates, decides        *)
(* and records its intent, hands one operation to the broker, and records what came       *)
(* of it; the broker verifies, spawns a helper, reads its handshake, supervises what it   *)
(* executed until it is reaped, and answers status and kill from its table.               *)
(*                                                                                        *)
(* The authority gives up on an exchange while the broker still performs it; either dies. *)
(* The approval a launch needs has no production source: HostApproved lets it exist.      *)
(******************************************************************************************)
EXTENDS Naturals, FiniteSets

CONSTANTS
    Processes,        \* handles to mint, in no order
    LaunchKeys,       \* idempotency keys
    TableSize,        \* MAX_PROCESSES
    HostApproved,     \* whether the floor lets a launch pass
    MaxAuthorities,   \* bound: incarnations of the authority
    MaxBrokers        \* bound: generations of the broker

VARIABLES
    cur,        \* the invocation the authority is in
    row,        \* tool_process: per handle, its recorded state and generation
    bound,      \* the keys bound
    oper,       \* the operation the broker performs
    table,      \* the broker's supervised processes
    os,         \* per handle, what the kernel runs for it
    ran,        \* per handle, whether its target was executed, and when
    lives       \* incarnations of the authority, generations of the broker

processVars == <<cur, row, bound, oper, table, os, ran, lives>>

NoProcess == "NONE"
Idle == [st |-> "IDLE", tool |-> "NONE", p |-> NoProcess, key |-> "NONE", gen |-> 0]
NoRow == [state |-> "NONE", gen |-> 0]
NoLaunch == [phase |-> "NONE", tool |-> "NONE", p |-> NoProcess, heard |-> "NOTHING"]
NoEntry == [life |-> "NONE", timedOut |-> FALSE]

ProcessInit ==
    /\ cur = Idle /\ row = [p \in Processes |-> NoRow] /\ bound = {}
    /\ oper = NoLaunch /\ table = [p \in Processes |-> NoEntry]
    /\ os = [p \in Processes |-> "NONE"] /\ ran = [p \in Processes |-> "NO"]
    /\ lives = [authority |-> 1, broker |-> 1]

-----------------------------------------------------------------------------
(* The authority.                                                          *)

Tools == {"exec", "status", "kill"}
\* has_effect and retry_class: a status may be asked again, and only it.
HasEffect(tool) == tool # "status"
\* stored_process: a launch that is under way, failed or is of unknown outcome names nothing.
Named(p) == row[p].state \in {"RUNNING", "EXITED", "SIGNALED", "UNOBSERVABLE"}

\* A key names one invocation, whatever became of it.
LaunchKeyBound(key) == key \in bound

\* locate: the key and the process; the lease, the run and the resolvers refuse on their own
\* account, which leaves nothing.
Locate(tool, p, key) ==
    /\ cur.st = "IDLE" /\ ~LaunchKeyBound(key)
    /\ tool = "exec" => p = NoProcess
    /\ tool # "exec" => p # NoProcess /\ Named(p)
    /\ cur' = [st |-> "LOCATED", tool |-> tool, p |-> p, key |-> key,
               gen |-> IF tool = "exec" THEN 0 ELSE row[p].gen]
    /\ UNCHANGED <<row, bound, oper, table, os, ran, lives>>

\* decide, ending in a preview, a denial or a refusal: no invocation and no process.
Undecided ==
    /\ cur.st = "LOCATED"
    /\ cur' = Idle
    /\ UNCHANGED <<row, bound, oper, table, os, ran, lives>>

\* decide_plan: both gates, and for a launch the host floor.
FloorPassed(tool) == tool = "exec" => HostApproved
\* binding_key: a status binds none.
Binds(tool) == HasEffect(tool)

\* record_launching: a launch has a row before anything is sent.
Launching(p) == [row EXCEPT ![p].state = "LAUNCHING"]
\* decide: the intent, the minted handle's LAUNCHING row and the key, in one transaction.
Intend ==
    /\ cur.st = "LOCATED" /\ ~LaunchKeyBound(cur.key) /\ FloorPassed(cur.tool)
    /\ cur.tool # "exec" => Named(cur.p)
    /\ \E p \in IF cur.tool = "exec" THEN {q \in Processes : row[q] = NoRow} ELSE {cur.p} :
         /\ cur' = [cur EXCEPT !.st = "INTENT", !.p = p]
         /\ row' = IF cur.tool = "exec" THEN Launching(p) ELSE row
    /\ bound' = IF Binds(cur.tool) THEN bound \cup {cur.key} ELSE bound
    /\ UNCHANGED <<oper, table, os, ran, lives>>

\* settle_process: only a row that is still open moves.
SettledRow(r, tool, ending, state, gen) ==
    CASE tool = "exec" /\ r.state = "LAUNCHING" ->
           IF ending = "COMPLETED" THEN [state |-> state, gen |-> gen]
           ELSE [r EXCEPT !.state = ending]
      [] tool = "status" /\ ending = "COMPLETED" /\ r.state = "RUNNING" -> [r EXCEPT !.state = state]
      [] tool = "kill" /\ ending = "FAILED" /\ state = "UNOBSERVABLE" /\ r.state = "RUNNING" ->
           [r EXCEPT !.state = "UNOBSERVABLE"]
      [] OTHER -> r

\* record_outcome and end.
Record(ending, state, gen) ==
    /\ row' = [row EXCEPT ![cur.p] = SettledRow(@, cur.tool, ending, state, gen)]
    /\ cur' = Idle

\* handoff: a descriptor cannot be opened as the object that was decided on; or the broker is
\* not reached, or not free, before anything is sent.
LaunchNotSent ==
    /\ cur.st = "INTENT"
    /\ Record("FAILED", "NONE", 0)
    /\ UNCHANGED <<bound, oper, table, os, ran, lives>>

\* perform: the broker takes the operation.
SendLaunch ==
    /\ cur.st = "INTENT" /\ oper = NoLaunch
    /\ cur' = [cur EXCEPT !.st = "SENT"]
    /\ oper' = [NoLaunch EXCEPT !.phase = "TAKEN", !.tool = cur.tool, !.p = cur.p]
    /\ UNCHANGED <<row, bound, table, os, ran, lives>>

\* classify, of an exchange that broke off after sending.
GiveUp ==
    /\ cur.st = "SENT"
    /\ Record(IF HasEffect(cur.tool) THEN "UNKNOWN" ELSE "FAILED", "NONE", 0)
    /\ UNCHANGED <<bound, oper, table, os, ran, lives>>

\* observed: a status that agrees with itself.  One that timed out was ended by a signal.
Observed(status) == status.timedOut => status.state = "SIGNALED"

\* reconcile_open: what a restart finds open.
AuthorityRestarts ==
    /\ lives.authority < MaxAuthorities
    /\ lives' = [lives EXCEPT !.authority = @ + 1]
    /\ cur' = Idle
    /\ row' = IF cur.st \in {"INTENT", "SENT"} /\ cur.tool = "exec"
              THEN [row EXCEPT ![cur.p].state = "UNKNOWN"] ELSE row
    /\ UNCHANGED <<bound, oper, table, os, ran>>

-----------------------------------------------------------------------------
(* The broker.  An answer reaches the authority only if it still waits for it.       *)

Awaited == cur.st = "SENT" /\ cur.p = oper.p /\ cur.tool = oper.tool
Answer(ending, state, gen) ==
    /\ oper' = NoLaunch
    /\ IF Awaited THEN Record(ending, state, gen) ELSE UNCHANGED <<cur, row>>

\* make_room: a reaped entry gives way, a live one does not.
Entries == {p \in Processes : table[p] # NoEntry}
Reaped == {p \in Entries : table[p].life # "RUNNING"}
Rooms ==
    IF Cardinality(Entries) < TableSize THEN {table}
    ELSE {[table EXCEPT ![q] = NoEntry] : q \in Reaped}

\* launch_supervised: the table, the descriptors, the secret and what would be inherited.
LaunchRefused ==
    /\ oper.phase = "TAKEN" /\ oper.tool = "exec"
    /\ \E t \in Rooms \cup {table} : table' = t
    /\ Answer("FAILED", "NONE", 0)
    /\ UNCHANGED <<bound, os, ran, lives>>
\* launch: the helper is spawned, is sent its launch, and the handshake is awaited.
Launched ==
    /\ os' = [os EXCEPT ![oper.p] = "HELPER"]
    /\ oper' = [oper EXCEPT !.phase = "HANDSHAKE"]
SpawnHelper ==
    /\ oper.phase = "TAKEN" /\ oper.tool = "exec"
    /\ table[oper.p] = NoEntry
    /\ \E t \in Rooms : table' = t
    /\ Launched
    /\ UNCHANGED <<cur, row, bound, ran, lives>>

Helped == oper.tool = "exec" /\ oper.phase \in {"HANDSHAKE", "ABANDON", "WAIT"}

\* helper::run: it fails at a stage or dies before its announcement, or it announces; then
\* execveat fails, which is recorded, or executes.  A kill of another's between the announcement
\* and execveat, which the source states as an exception, is left out.
HelperFails ==
    /\ Helped /\ os[oper.p] \in {"HELPER", "MARKED", "MARKED_LATE"}
    /\ os' = [os EXCEPT ![oper.p] = "GONE"]
    /\ oper' = IF oper.phase = "HANDSHAKE" THEN [oper EXCEPT !.heard = "FAILED"] ELSE oper
    /\ UNCHANGED <<cur, row, bound, table, ran, lives>>
HelperMarks ==
    /\ Helped /\ os[oper.p] = "HELPER"
    /\ os' = [os EXCEPT ![oper.p] = IF oper.phase = "HANDSHAKE" THEN "MARKED" ELSE "MARKED_LATE"]
    /\ UNCHANGED <<cur, row, bound, oper, table, ran, lives>>
\* execveat, which closes the control channel.  What was announced after the handshake was
\* judged is executed late.
HelperExecutes ==
    /\ Helped /\ os[oper.p] \in {"MARKED", "MARKED_LATE"}
    /\ os' = [os EXCEPT ![oper.p] = "RUNS"]
    /\ ran' = [ran EXCEPT ![oper.p] = IF os[oper.p] = "MARKED" THEN "YES" ELSE "LATE"]
    /\ oper' = IF oper.phase = "HANDSHAKE" THEN [oper EXCEPT !.heard = "EXECUTED"] ELSE oper
    /\ UNCHANGED <<cur, row, bound, table, lives>>

\* The handshake's end: the helper failed.
LaunchFails ==
    /\ oper.phase = "HANDSHAKE" /\ oper.heard = "FAILED"
    /\ Answer("FAILED", "NONE", 0)
    /\ UNCHANGED <<bound, table, os, ran, lives>>
\* No end of file in time: what was read is judged, and then the helper is killed.
\* Fault: nothing was executed, whatever was announced.
JudgedLateUnmarked(mark) == "FAILED"
JudgedLate(mark) == IF mark = "MARKED" THEN "UNKNOWN" ELSE "FAILED"
HandshakeLate ==
    /\ oper.phase = "HANDSHAKE" /\ oper.heard = "NOTHING"
    /\ oper' = [oper EXCEPT !.phase = "ABANDON", !.heard = JudgedLate(os[oper.p])]
    /\ UNCHANGED <<cur, row, bound, table, os, ran, lives>>
\* abandon: the helper, or what it became, is signalled and waited for; a signal that fails is
\* not noticed, and then the wait is for its own end.
AfterKill(o) ==
    CASE o = "RUNS" -> "SIGNALED"
      [] o \in {"HELPER", "MARKED", "MARKED_LATE"} -> "GONE"
      [] OTHER -> o
AbandonLaunch ==
    /\ oper.phase = "ABANDON"
    /\ oper' = [oper EXCEPT !.phase = "WAIT"]
    /\ \E o \in {os[oper.p], AfterKill(os[oper.p])} : os' = [os EXCEPT ![oper.p] = o]
    /\ UNCHANGED <<cur, row, bound, table, ran, lives>>
Waited ==
    /\ oper.phase = "WAIT" /\ os[oper.p] \in {"EXITED", "SIGNALED", "GONE"}
    /\ os' = [os EXCEPT ![oper.p] = "GONE"]
    /\ Answer(oper.heard, "NONE", 0)
    /\ UNCHANGED <<bound, table, ran, lives>>

\* supervise, and its failure: the target is killed and reaped, and nobody can say what it did.
Supervise ==
    /\ oper.phase = "HANDSHAKE" /\ oper.heard = "EXECUTED"
    /\ table' = [table EXCEPT ![oper.p] = [life |-> "RUNNING", timedOut |-> FALSE]]
    /\ Answer("COMPLETED", "RUNNING", lives.broker)
    /\ UNCHANGED <<bound, os, ran, lives>>
Unsupervised ==
    /\ oper.phase = "HANDSHAKE" /\ oper.heard = "EXECUTED"
    /\ oper' = [oper EXCEPT !.phase = "ABANDON", !.heard = "UNKNOWN"]
    /\ UNCHANGED <<cur, row, bound, table, os, ran, lives>>

\* The target ends on its own.
Exits(p) ==
    /\ os[p] = "RUNS"
    /\ os' = [os EXCEPT ![p] = "EXITED"]
    /\ UNCHANGED <<cur, row, bound, oper, table, ran, lives>>

\* reap: under the entry's lock, an exit is taken and the group cleared.
Reap(p) ==
    /\ table[p].life = "RUNNING" /\ os[p] \in {"EXITED", "SIGNALED"}
    /\ table' = [table EXCEPT ![p].life = os[p]]
    /\ os' = [os EXCEPT ![p] = "GONE"]
    /\ UNCHANGED <<cur, row, bound, oper, ran, lives>>
\* reap, past the deadline: the target ran when it was looked at, and may end before the signal;
\* a signal that fails is not noticed, and not sent again.
WallClock(p) ==
    /\ table[p].life = "RUNNING" /\ ~table[p].timedOut /\ os[p] = "RUNS"
    /\ table' = [table EXCEPT ![p].timedOut = TRUE]
    /\ \E end \in {"RUNS", "EXITED", "SIGNALED"} : os' = [os EXCEPT ![p] = end]
    /\ UNCHANGED <<cur, row, bound, oper, ran, lives>>

\* find: this generation's, and in the table.
Found == table[oper.p] # NoEntry /\ row[oper.p].gen = lives.broker

StatusGone ==
    /\ oper.phase = "TAKEN" /\ oper.tool = "status" /\ ~Found
    /\ Answer("COMPLETED", "UNOBSERVABLE", 0)
    /\ UNCHANGED <<bound, table, os, ran, lives>>
\* snapshot, under the entry's lock: what a status of the process answers with.
Snapshot(p) == [state |-> table[p].life, timedOut |-> table[p].timedOut]
\* status; the authority takes it or calls it a protocol error.
Status ==
    /\ oper.phase = "TAKEN" /\ oper.tool = "status" /\ Found
    /\ LET s == Snapshot(oper.p)
       IN Answer(IF Observed(s) THEN "COMPLETED" ELSE "FAILED", s.state, 0)
    /\ UNCHANGED <<bound, table, os, ran, lives>>

KillGone ==
    /\ oper.phase = "TAKEN" /\ oper.tool = "kill" /\ ~Found
    /\ Answer("FAILED", "UNOBSERVABLE", 0)
    /\ UNCHANGED <<bound, table, os, ran, lives>>
\* kill: under the lock, a process that has not exited; a failed signal is of unknown effect.
Kill ==
    /\ oper.phase = "TAKEN" /\ oper.tool = "kill" /\ Found
    /\ IF table[oper.p].life # "RUNNING" \/ os[oper.p] # "RUNS" THEN UNCHANGED os
       ELSE \E end \in {"EXITED", "SIGNALED"} : os' = [os EXCEPT ![oper.p] = end]
    /\ Answer("COMPLETED", "NONE", 0)
    /\ UNCHANGED <<bound, table, ran, lives>>
KillUnconfirmed ==
    /\ oper.phase = "TAKEN" /\ oper.tool = "kill" /\ Found /\ os[oper.p] = "RUNS"
    /\ \E end \in {"RUNS", "EXITED", "SIGNALED"} : os' = [os EXCEPT ![oper.p] = end]
    /\ Answer("UNKNOWN", "NONE", 0)
    /\ UNCHANGED <<bound, table, ran, lives>>

\* A dead broker's helper and targets die with it: the parent-death signal was armed, or the
\* helper finds its parent gone before it announces.  Fault: a target is armed with none.
OrphanedUnarmed(o) == IF o \in {"NONE", "RUNS"} THEN o ELSE "GONE"
Orphaned(o) == IF o = "NONE" THEN "NONE" ELSE "GONE"
LauncherDies ==
    /\ lives.broker < MaxBrokers
    /\ lives' = [lives EXCEPT !.broker = @ + 1]
    /\ oper' = NoLaunch /\ table' = [p \in Processes |-> NoEntry]
    /\ os' = [p \in Processes |-> Orphaned(os[p])]
    /\ UNCHANGED <<cur, row, bound, ran>>

Broker ==
    \/ LaunchRefused \/ SpawnHelper \/ HelperFails \/ HelperMarks \/ HelperExecutes \/ LaunchFails
    \/ HandshakeLate \/ AbandonLaunch \/ Waited \/ Supervise \/ Unsupervised \/ StatusGone \/ Status
    \/ KillGone \/ Kill \/ KillUnconfirmed
ProcessNext ==
    \/ \E tool \in Tools, p \in Processes \cup {NoProcess}, key \in LaunchKeys : Locate(tool, p, key)
    \/ Undecided \/ Intend \/ LaunchNotSent \/ SendLaunch \/ GiveUp \/ AuthorityRestarts
    \/ LauncherDies \/ Broker
    \/ \E p \in Processes : Exits(p) \/ Reap(p) \/ WallClock(p)

ProcessSpec == ProcessInit /\ [][ProcessNext]_processVars

-----------------------------------------------------------------------------
\* What is recorded of a launch is what happened, though the authority gives up while the broker
\* goes on, the handshake is late and either daemon dies: FAILED ran nothing that was announced
\* before the broker judged its handshake (for what is announced after that and before the kill,
\* see FailedExecutedNothing), RUNNING and what follows it ran, an end recorded is the end it had,
\* and a key starts one target at most (launch.rs, supervise.rs; classify and settle_process).
LaunchRecordTellsTheTruth ==
    \A p \in Processes :
        /\ row[p].state = "FAILED" => ran[p] # "YES"
        /\ row[p].state \in {"RUNNING", "EXITED", "SIGNALED", "UNOBSERVABLE"} => ran[p] = "YES"
        /\ row[p].state \in {"EXITED", "SIGNALED"} => os[p] = "GONE"
        /\ row[p].state = "NONE" => os[p] = "NONE"
        /\ Cardinality({q \in Processes : ran[q] # "NO"}) <= Cardinality(bound)

\* "`FAILED` only when the broker provably did nothing" (state/process.rs); "nothing within the
\* deadline: it has not executed (the descriptor is still open): it is killed" (launch.rs).
FailedExecutedNothing == \A p \in Processes : row[p].state = "FAILED" => ran[p] = "NO"

\* The broker sent the signal that ends the target, and it failed.
SignalFailed(p) ==
    os[p] = "RUNS" /\ (table[p].timedOut \/ (oper.phase = "WAIT" /\ oper.p = p))
\* A target never outlives its bounds: whether its launch was confirmed, given up on or lost, and
\* whoever dies, what was executed ends and is reaped, or it stands that the one signal the
\* broker sends it failed (supervise, reap, abandon and the helper's parent-death signal).
TargetEnds ==
    \A p \in Processes :
        os[p] \in {"RUNS", "EXITED", "SIGNALED"} ~> os[p] = "GONE" \/ SignalFailed(p)
=============================================================================
