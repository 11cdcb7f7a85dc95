----------------------------- MODULE ToolInvoke -----------------------------
(*************************************************************************************)
(* An invocation of a filesystem tool with an effect, in the authority               *)
(* (crates/dwkd-authority/src/state: tool_invoke and reclaim_staging of              *)
(* mod.rs, tool.rs, staging.rs): the intent and the row of the staging               *)
(* directory it may leave, in one transaction; the exchange; the outcome; and        *)
(* the reclamation of what is left, after the outcome and at every start.            *)
(*                                                                                   *)
(* The module extends StagedMutation, whose broker performs it, and follows one      *)
(* invocation: a second one has its own name for its staging directory, and to this  *)
(* one it is the concurrent writer.  Gates, policy and the run's lease refuse before *)
(* the intent: an invocation not taken.  kernel.db is synchronous.                   *)
(*************************************************************************************)
EXTENDS StagedMutation

VARIABLES
    proc,         \* "UP" while the authority's process lives
    work,         \* what it is doing with the invocation
    invocation,   \* the tool_invocation row
    staging       \* the tool_staging row: its state, or what a retained one holds

vars == <<mutationVars, proc, work, invocation, staging>>

Retained == {"DISPLACED", "EVIDENCE", "TAKEN"}
NoInvocation == [state |-> "NONE", op |-> "NONE"]

\* The rows, the namespace and the broker's job have their types, and the authority
\* has an exchange open exactly where its work waits for one.
TypeOK ==
    /\ MutationTypeOK
    /\ proc \in {"UP", "DOWN"}
    /\ work \in {"IDLE", "HANDOFF", "PERFORM", "SWEEP", "RECLAIM"}
    /\ invocation \in [state : {"NONE", "INTENT", "COMPLETED", "FAILED", "UNKNOWN"},
                       op : Operations \cup {"NONE"}]
    /\ staging \in {"NONE", "EXPECTED", "CLEARED", "REMOVED", "FOREIGN"} \cup Retained
    /\ work \in {"PERFORM", "RECLAIM"} <=> call # NoCall

Init ==
    /\ MutationInit
    /\ proc = "UP"
    /\ work = "IDLE"
    /\ invocation = NoInvocation
    /\ staging = "NONE"

BrokerUnmoved == UNCHANGED <<fsVars, writes, job>>
\* handoff: the operation of the intent, over the targets that were checked.
Order(task) == [st |-> "WAIT", task |-> task, op |-> invocation.op, ans |-> "NONE"]
Asks(task) == call' = Order(task)
Over == call' = NoCall

\* staged: every operation but a move has a staging directory.
Staged(op) == op # "MOVE"

\* What the authority resolved: the target under its name, or a vacant name.
Resolves(op) ==
    /\ IF op = "CREATE" THEN Vacant("leaf") ELSE Binds("leaf", "T")
    /\ op = "MOVE" => Vacant("dest")

\* The row written with the intent.
IntentStaging(op) == IF Staged(op) THEN "EXPECTED" ELSE "NONE"

\* A key names one invocation, whatever became of it.
KeyBound == invocation # NoInvocation
\* locate: what an invocation must pass before it is resolved.
Locate == proc = "UP" /\ work = "IDLE" /\ ~KeyBound

\* Intent::of.
Intent(op) == [state |-> "INTENT", op |-> op]

\* decide: the intent and the row, in one transaction.
Decide(op) ==
    /\ Locate
    /\ Resolves(op)
    /\ invocation' = Intent(op)
    /\ staging' = IntentStaging(op)
    /\ work' = "HANDOFF"
    /\ UNCHANGED <<proc, call>>
    /\ BrokerUnmoved

Cleared == IF staging = "EXPECTED" THEN "CLEARED" ELSE staging

\* excluded, or no descriptor could be handed over: nothing is sent.
HandoffFails ==
    /\ proc = "UP" /\ work = "HANDOFF"
    /\ invocation' = [invocation EXCEPT !.state = "FAILED"]
    /\ staging' = Cleared
    /\ work' = "IDLE"
    /\ UNCHANGED <<proc, call>>
    /\ BrokerUnmoved

Handoff ==
    /\ proc = "UP" /\ work = "HANDOFF"
    /\ work' = "PERFORM"
    /\ Asks("PERFORM")
    /\ UNCHANGED <<proc, invocation, staging>>
    /\ BrokerUnmoved

\* complete: a delivery that fits what was decided.
Delivered(ans) == ans \in {"DONE", "DEBRIS"}

\* classify: a failure only when it is provably without effect.
\* Fault: an answer that is not "done" is a failure.
ClassifyAnsweredFailed(ans) ==
    CASE Delivered(ans) -> "COMPLETED"
      [] ans \in {"NOT_SENT", "REFUSED", "UNSURE"} -> "FAILED"
      [] OTHER -> "UNKNOWN"
Classify(ans) ==
    CASE Delivered(ans) -> "COMPLETED"
      [] ans \in {"NOT_SENT", "REFUSED"} -> "FAILED"
      [] OTHER -> "UNKNOWN"

\* Fault: a refusal is taken to have left nothing.
StagingClearRefused(ans) == ans \in {"NOT_SENT", "DONE", "REFUSED"}
\* The directory is provably not left behind.
StagingClear(ans) == ans \in {"NOT_SENT", "DONE"}

\* record_outcome; then this run's rows are swept.
RecordOutcome ==
    /\ proc = "UP" /\ work = "PERFORM" /\ call.st = "DONE"
    /\ invocation' = [invocation EXCEPT !.state = Classify(call.ans)]
    /\ staging' = IF StagingClear(call.ans) THEN Cleared ELSE staging
    /\ work' = "SWEEP"
    /\ Over
    /\ UNCHANGED proc
    /\ BrokerUnmoved

\* reclaim_staging: a pending row whose outcome is recorded, unless a workload is
\* using the workspace or the directory cannot be opened.
Sweep ==
    /\ proc = "UP" /\ work = "SWEEP"
    /\ \/ staging = "EXPECTED" /\ invocation.state # "INTENT"
          /\ work' = "RECLAIM" /\ Asks("RECLAIM")
       \/ work' = "IDLE" /\ UNCHANGED call
    /\ UNCHANGED <<proc, invocation, staging>>
    /\ BrokerUnmoved

\* Another invocation of the run is over, and its sweep finds this row too.
SweepsLater ==
    /\ proc = "UP" /\ work = "IDLE" /\ staging = "EXPECTED"
    /\ work' = "SWEEP"
    /\ UNCHANGED <<proc, invocation, staging, call>>
    /\ BrokerUnmoved

\* settle: only a verdict moves the row.
Settled(ans) ==
    CASE ans = "ABSENT" -> "CLEARED"
      [] ans \in {"REMOVED", "FOREIGN"} \cup Retained -> ans
      [] OTHER -> staging
Settle ==
    /\ proc = "UP" /\ work = "RECLAIM" /\ call.st = "DONE"
    /\ staging' = Settled(call.ans)
    /\ work' = "IDLE"
    /\ Over
    /\ UNCHANGED <<proc, invocation>>
    /\ BrokerUnmoved

\* tool_invoke: one call, with a transaction at its intent and one at its outcome.
Invoke ==
    \/ \E op \in Operations : Decide(op)
    \/ HandoffFails \/ Handoff \/ RecordOutcome \/ Sweep

-----------------------------------------------------------------------------
(* Ends and starts *)

Down ==
    /\ proc' = "DOWN"
    /\ work' = "IDLE"
    /\ call' = NoCall
    /\ UNCHANGED <<invocation, staging>>

\* The authority is killed; the broker goes on with what it was told.
Crash ==
    /\ "CRASH" \in Faults
    /\ proc = "UP"
    /\ Down
    /\ job' = [job EXCEPT !.by = "NOBODY"]
    /\ UNCHANGED <<fsVars, writes>>

\* Power is cut: both processes end, and of the changes since the last fsync
\* any first part is on disk.
Survives(text) == IF text = "CACHED" THEN {"PART", "POST"} ELSE {text}
PowerCut ==
    /\ "POWER" \in Faults
    /\ \E space \in onDisk : \E text \in Survives(space.content["N"]) :
          Commits([space EXCEPT !.content = [@ EXCEPT !["N"] = text]])
    /\ Down
    /\ job' = NoJob
    /\ UNCHANGED writes

\* reconcile_open, then the sweep of a start.
Start ==
    /\ proc = "DOWN"
    /\ proc' = "UP"
    /\ invocation' = IF invocation.state = "INTENT" THEN [invocation EXCEPT !.state = "UNKNOWN"]
                     ELSE invocation
    /\ work' = "SWEEP"
    /\ UNCHANGED <<staging, call>>
    /\ BrokerUnmoved

AuthorityUnmoved == UNCHANGED <<proc, work, invocation, staging>>

Next ==
    \/ Invoke \/ SweepsLater \/ Settle
    \/ Crash \/ PowerCut \/ Start
    \/ (BrokerStep \/ WriterStep \/ GivesUp \/ BrokerDies) /\ AuthorityUnmoved

Spec == Init /\ [][Next]_vars

-----------------------------------------------------------------------------
(* Properties *)

InWorkspace(o) == Binds("leaf", o) \/ Binds("dest", o) \/ o \in ns.aside

(**************************************************************************************)
(* No object of the workspace is ever lost, whatever the writer, a death or a         *)
(* power cut does between two system calls, and whatever reclamation removes: only    *)
(* the target of a replacement, a patch or a delete goes, and then the new content,   *)
(* or for a patch the content it was edited from and nothing written since, is what   *)
(* replaced it (the table of staging.rs; mutate.rs, "Nothing is ever removed that was *)
(* not proved").                                                                      *)
(**************************************************************************************)
NothingLost ==
    /\ Exists(ns, "S")
    /\ ~Exists(ns, "T") =>
        /\ invocation.op \in {"REPLACE", "PATCH", "DELETE"}
        /\ invocation.op = "PATCH" => ns.content["T"] = "BASE"
        /\ invocation.op # "DELETE" => InWorkspace("N")
        /\ ns.applied = "YES"

(*************************************************************************************)
(* What the ledger says of an effect is true, and stays true through a power cut:    *)
(* FAILED only if the workspace is without it, COMPLETED only if it is there, or if  *)
(* the file held a patch's result already (mutate.rs, "Atomic, and durable before    *)
(* done"; tool.rs, classify).  But for a move that undid itself with another object. *)
(*************************************************************************************)
OutcomeTellsTheTruth ==
    /\ invocation.state = "FAILED" =>
        ns.applied = "NO" \/ (invocation.op = "MOVE" /\ ns.applied = "MIXED")
    /\ invocation.state = "COMPLETED" =>
        ns.applied = "YES" \/ (invocation.op = "PATCH" /\ ns.applied = "NO" /\ ~Exists(ns, "N"))

(*************************************************************************************)
(* What mutate.rs:34 and brokerp.rs:47 say of a refusal, "no persistent change", and *)
(* the authority therefore records as FAILED.                                        *)
(*************************************************************************************)
RefusalChangesNothing == invocation.state = "FAILED" => ns.applied = "NO"

(***********************************************************************************)
(* The file under a name is at every instant, after a power cut too, the whole old *)
(* content or the whole new (write_new before the exchange).                       *)
(***********************************************************************************)
NeverHalfWritten == InWorkspace("N") => ns.content["N"] \in {"CACHED", "POST"}

(*************************************************************************************)
(* No object of the workspace is lost, and none is ever seen half-written (mutate.rs *)
(* and staging.rs).                                                                  *)
(*************************************************************************************)
WorkspaceIsWhole == TypeOK /\ NothingLost /\ NeverHalfWritten

(*************************************************************************************)
(* The authority gives a row up only when the directory is gone, or is not one of    *)
(* the broker's: a row that expects a directory, or retains it, stays while there is *)
(* anything to come back for, though the answer is lost, the removal fails half-way, *)
(* or the broker finishes after nobody waits for it (staging.rs, clear and settle).  *)
(*************************************************************************************)
GivenUpMeansGone ==
    [][staging' # staging /\ staging' \in {"CLEARED", "REMOVED", "FOREIGN"} => ns.dir # "OURS"]_vars
=============================================================================
