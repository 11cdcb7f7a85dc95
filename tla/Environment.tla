----------------------------- MODULE Environment -----------------------------
(*****************************************************************************)
(* The authority's half of execution environments: one durable record per    *)
(* environment (crates/dwkd-authority/src/state/environment.rs), the         *)
(* operations that prepare, measure, destroy and reconcile them              *)
(* (environment_ops.rs), the ends of runs that take them down (mod.rs), and  *)
(* the route that prepares one for a workload (workload_route.rs).           *)
(*                                                                           *)
(* Every action that reads or writes a record is one transaction.  No        *)
(* transaction is open while a handle asks the broker, so what an operation  *)
(* read before it asked may be stale when it records the answer; the module  *)
(* extends BrokerSandbox, whose broker answers.  Which runs exist and when   *)
(* they end is module SessionLease's: here any run may be admitted once, and *)
(* any active runs may end together.  Workloads, which keep an environment   *)
(* from being reclaimed while they launch, are not modelled here.            *)
(*****************************************************************************)
EXTENDS BrokerSandbox

CONSTANTS
    Runs,            \* run ids
    MaxLive,         \* MAX_LIVE_ENVIRONMENTS
    MaxPerRun,       \* MAX_ENVIRONMENTS_PER_RUN
    MaxIncarnation   \* bound: authority starts

ASSUME EnvironmentConstants ==
    /\ MaxLive \in Nat \ {0}
    /\ MaxPerRun \in Nat \ {0}
    /\ MaxIncarnation \in Nat \ {0}

VARIABLES
    proc,            \* "UP" while the authority's process lives
    attached,        \* "YES" once attach_sandbox has set the configuration
    incarnation,     \* store_meta.incarnation
    run,             \* the runs' states
    env,             \* the environment table
    pc               \* per handle, the operation it is in

storeVars == <<incarnation, run, env>>
vars == <<proc, attached, incarnation, run, env, pc, sandboxVars>>

-----------------------------------------------------------------------------
(* Records *)

LiveStates  == {"PREPARING", "READY", "DESTROYING", "UNKNOWN"}
FinalStates == {"REFUSED", "DESTROYED", "LOST"}

NoRecord == [state |-> "NONE", run |-> "none", inc |-> 0]
Record == [state : LiveStates \cup FinalStates \cup {"NONE"},
           run : Runs \cup {"none"}, inc : 0..MaxIncarnation]

State(e) == env[e].state
Moved(table, e, state) ==
    [table EXCEPT ![e] = [state |-> state, run |-> @.run, inc |-> @.inc]]
Moves(e, state) == env' = Moved(env, e, state)

Live == {e \in Envs : State(e) \in LiveStates}
LiveOf(r) == {e \in Live : env[e].run = r}
Minted == {e \in Envs : State(e) # "NONE"}

\* What a reconciliation has left to settle: a record as it was read, and
\* the class it was found in.
Class == [env : Envs, was : LiveStates \cup FinalStates,
          class : {"UNSEEN", "RUNNING", "STOPPED", "PENDING", "MISSING", "ORPHAN"}]

\* An operation: where it is, the environment and run it is about, where a
\* destruction or measurement in it returns to, and its reconciliation.
Idle == [at |-> "IDLE", env |-> 0, run |-> "none", then |-> "IDLE", todo |-> {}, sweep |-> "NO"]
Operation ==
    [at : {"IDLE", "RECLAIM", "COUNT", "BEGIN", "ORDER", "PREPARE", "MEASURE",
           "DESTROY", "LIST", "SETTLE", "REAP"},
     env : 0..MaxEnvs, run : Runs \cup {"none"},
     then : {"IDLE", "COUNT", "SETTLE"},
     todo : SUBSET Class, sweep : {"NO", "START", "LATER", "INCOMPLETE"}]

\* The places where an operation has no exchange open.
Alone == {"IDLE", "RECLAIM", "COUNT", "BEGIN", "ORDER", "SETTLE"}

\* The records, the operations and the broker have their types, and a handle has an
\* exchange open exactly where its operation waits for one.
TypeOK ==
    /\ SandboxTypeOK
    /\ proc \in {"UP", "DOWN"}
    /\ attached \in {"YES", "NO"}
    /\ incarnation \in 0..MaxIncarnation
    /\ run \in [Runs -> {"NONE", "ACTIVE", "ENDED"}]
    /\ env \in [Envs -> Record]
    /\ pc \in [Handles -> Operation]
    /\ \A h \in Handles : pc[h].at \in Alone <=> call[h] = NoCall

Init ==
    /\ SandboxInit
    /\ proc = "DOWN"
    /\ attached = "NO"
    /\ incarnation = 0
    /\ run = [r \in Runs |-> "NONE"]
    /\ env = [e \in Envs |-> NoRecord]
    /\ pc = [h \in Handles |-> Idle]

At(h, where) == proc = "UP" /\ pc[h].at = where
Free(h) == At(h, "IDLE") /\ attached = "YES"
Answered(h, where) == At(h, where) /\ call[h].st = "DONE"

\* The handle goes on at a place of its operation, or returns to its caller.
Step(h, where) == pc' = [pc EXCEPT ![h].at = where]
Returns(h) == pc' = [pc EXCEPT ![h] = Idle]

\* A destruction or measurement is over: back to what it was part of, with
\* whether the environment is gone.
Incomplete(p) == [p EXCEPT !.at = p.then, !.sweep = IF @ = "NO" THEN @ ELSE "INCOMPLETE"]
Complete(p) == [p EXCEPT !.at = p.then]
Resume(h, p) == pc' = [pc EXCEPT ![h] = IF p.at = "IDLE" THEN Idle ELSE p]

-----------------------------------------------------------------------------
(* Starting a destruction *)

Destructible(e) == State(e) \in {"READY", "UNKNOWN", "DESTROYING"}

\* perform_destroy: the destruction is durable, the broker is asked.
PerformDestroy(h, e) ==
    /\ pc' = [pc EXCEPT ![h].at = "DESTROY", ![h].env = e]
    /\ Ask(h, "DESTROY", e)

BeginDestroy(h, e) ==
    /\ Destructible(e)
    /\ Moves(e, "DESTROYING")
    /\ PerformDestroy(h, e)

\* environment_destroy.
Destroy(h, e) ==
    /\ Free(h)
    /\ BeginDestroy(h, e)
    /\ UNCHANGED <<proc, attached, incarnation, run, broker, job, proxy, listing, runtimeVars>>

\* record_destroyed, and back.
Gone(h) == call[h].ans = "GONE"
Destroyed(h) ==
    /\ Answered(h, "DESTROY")
    /\ LET e == pc[h].env IN
       env' = IF Gone(h) /\ State(e) = "DESTROYING" THEN Moved(env, e, "DESTROYED") ELSE env
    /\ Resume(h, IF Gone(h) THEN Complete(pc[h]) ELSE Incomplete(pc[h]))
    /\ Over(h)
    /\ UNCHANGED <<proc, attached, incarnation, run, broker, job, proxy, listing, runtimeVars>>

-----------------------------------------------------------------------------
(* Runs *)

AdmitRun(r) ==
    /\ proc = "UP"
    /\ run[r] = "NONE"
    /\ run' = [run EXCEPT ![r] = "ACTIVE"]
    /\ UNCHANGED <<proc, attached, incarnation, env, pc, sandboxVars>>

\* begin_run_end over the runs one transaction ends: a preparation in flight
\* is left to its outcome.
EndedWith(R) == {e \in Envs : env[e].run \in R /\ Destructible(e)}

\* A release, or the reaping of a tenure's runs: the runs and their
\* environments end in one transaction; at most one destruction is performed
\* by the request, the others stay pending.
EndRuns(h, R) ==
    /\ At(h, "IDLE")
    /\ \A r \in R : run[r] = "ACTIVE"
    /\ run' = [r \in Runs |-> IF r \in R THEN "ENDED" ELSE run[r]]
    /\ env' = [e \in Envs |-> IF e \in EndedWith(R)
                              THEN [state |-> "DESTROYING", run |-> env[e].run, inc |-> env[e].inc]
                              ELSE env[e]]
    /\ \/ (EndedWith(R) = {} \/ attached = "NO") /\ UNCHANGED <<pc, call>>
       \/ attached = "YES" /\ \E e \in EndedWith(R) : PerformDestroy(h, e)
    /\ UNCHANGED <<proc, attached, incarnation, broker, job, proxy, listing, runtimeVars>>

-----------------------------------------------------------------------------
(* The route that prepares a run's environment *)

\* The launch is permitted and its run has no live environment.
Route(h, r) ==
    /\ Free(h)
    /\ run[r] = "ACTIVE"
    /\ LiveOf(r) = {}
    /\ Cardinality({e \in Minted : env[e].run = r}) < MaxPerRun
    /\ pc' = [pc EXCEPT ![h].at = "RECLAIM", ![h].run = r]
    /\ UNCHANGED <<proc, attached, storeVars, sandboxVars>>

\* reclaimable: one that can never run a workload again -- the oldest by the
\* wall clock, which may have jumped, so any.
Reclaimable == {e \in Envs : \/ State(e) \in {"UNKNOWN", "DESTROYING"}
                             \/ State(e) = "READY" /\ run[env[e].run] # "ACTIVE"}

Reclaim(h) ==
    /\ At(h, "RECLAIM")
    /\ \/ Reclaimable = {} /\ Step(h, "COUNT") /\ UNCHANGED <<env, call>>
       \/ \E e \in Reclaimable :
            /\ Moves(e, "DESTROYING")
            /\ pc' = [pc EXCEPT ![h].at = "DESTROY", ![h].env = e, ![h].then = "COUNT"]
            /\ Ask(h, "DESTROY", e)
    /\ UNCHANGED <<proc, attached, incarnation, run, broker, job, proxy, listing, runtimeVars>>

FullOneMore == Cardinality(Live) > MaxLive
Full == Cardinality(Live) >= MaxLive
CountLive(h) ==
    /\ At(h, "COUNT")
    /\ IF Full THEN Returns(h) ELSE Step(h, "BEGIN")
    /\ UNCHANGED <<proc, attached, storeVars, sandboxVars>>

\* begin_prepare: checked, then the intent is durable; or refused, for these
\* checks or for the run's root or grants.  The last conjunct of the guard is
\* the bound on environments.
PreparableUnchecked(r) == run[r] = "ACTIVE" /\ Minted # Envs
Preparable(r) == run[r] = "ACTIVE" /\ LiveOf(r) = {} /\ Minted # Envs
Intended(e, r) == env' = [env EXCEPT ![e] = [state |-> "PREPARING", run |-> r, inc |-> incarnation]]
BeginPrepare(h) ==
    /\ At(h, "BEGIN")
    /\ LET r == pc[h].run
           e == Cardinality(Minted) + 1
       IN \/ /\ Preparable(r)
             /\ Intended(e, r)
             /\ pc' = [pc EXCEPT ![h].at = "ORDER", ![h].env = e, ![h].then = "IDLE"]
          \/ Returns(h) /\ env' = env
    /\ UNCHANGED <<proc, attached, incarnation, run, sandboxVars>>

SendPrepare(h) ==
    /\ At(h, "ORDER")
    /\ Ask(h, "PREPARE", pc[h].env)
    /\ Step(h, "PREPARE")
    /\ UNCHANGED <<proc, attached, storeVars, broker, job, proxy, listing, runtimeVars>>

\* judge_preparation: what the answer leaves the record in.  What the broker
\* kept is still the authority's to judge.
Judged(ans) ==
    IF ans = "KEPT" THEN {"READY", "DESTROYING"}
    ELSE IF ans \in {"REFUSED", "NOT_SENT"} THEN {"REFUSED"} ELSE {"UNKNOWN"}

\* end_with_its_run, in the outcome's own transaction.
WithItsRun(r, state) ==
    IF run[r] # "ACTIVE" /\ state \in {"READY", "UNKNOWN"} THEN "DESTROYING" ELSE state

RecordPrepared(h, state) ==
    LET e == pc[h].env
        ended == WithItsRun(env[e].run, state)
    IN IF State(e) # "PREPARING"
       THEN Returns(h) /\ Over(h) /\ env' = env
       ELSE /\ Moves(e, ended)
            /\ IF ended = "DESTROYING" THEN PerformDestroy(h, e)
               ELSE Returns(h) /\ Over(h)

\* The order could not be made, or the broker answered it.
Prepared(h) ==
    /\ \/ At(h, "ORDER") /\ RecordPrepared(h, "REFUSED")
       \/ /\ Answered(h, "PREPARE")
          /\ \E state \in Judged(call[h].ans) : RecordPrepared(h, state)
    /\ UNCHANGED <<proc, attached, incarnation, run, broker, job, proxy, listing, runtimeVars>>

-----------------------------------------------------------------------------
(* Measuring *)

\* An order that cannot be made is as one that was not sent.
AskMeasure(h, e) ==
    /\ pc' = [pc EXCEPT ![h].at = "MEASURE", ![h].env = e]
    /\ Ask(h, "MEASURE", e)

MeasureEnvironment(h, e) ==
    /\ Free(h)
    /\ State(e) = "READY"
    /\ AskMeasure(h, e)
    /\ UNCHANGED <<proc, attached, storeVars, broker, job, proxy, listing, runtimeVars>>

\* Clean, it stays; anything else is drift, and it is destroyed -- unless it
\* ended since the measurement was asked for.
Measured(h) ==
    /\ Answered(h, "MEASURE")
    /\ IF call[h].ans = "CLEAN" \/ ~Destructible(pc[h].env)
       THEN Resume(h, Complete(pc[h])) /\ Over(h) /\ env' = env
       ELSE BeginDestroy(h, pc[h].env)
    /\ UNCHANGED <<proc, attached, incarnation, run, broker, job, proxy, listing, runtimeVars>>

-----------------------------------------------------------------------------
(* Reconciliation *)

Found(e, state, class) == [env |-> e, was |-> state, class |-> class]
LiveRecords == {Found(e, State(e), "UNSEEN") : e \in Live}

StartReconcile(h, sweep) ==
    /\ pc' = [pc EXCEPT ![h] = [Idle EXCEPT !.at = "LIST", !.todo = LiveRecords, !.sweep = sweep]]
    /\ Ask(h, "LIST", 0)
    /\ UNCHANGED <<proc, storeVars, broker, job, proxy, listing, runtimeVars>>

\* attach_sandbox: once per process, and reconciled at once.
Attach(h) ==
    /\ At(h, "IDLE")
    /\ attached = "NO"
    /\ attached' = "YES"
    /\ StartReconcile(h, "START")

Reconcile(h) ==
    /\ Free(h)
    /\ StartReconcile(h, "LATER")
    /\ attached' = attached

\* The runtime could not be listed completely: nothing changes.
Unobservable(h) ==
    /\ Answered(h, "LIST")
    /\ call[h].ans # "LISTED"
    /\ Returns(h)
    /\ Over(h)
    /\ UNCHANGED <<proc, attached, storeVars, broker, job, proxy, listing, runtimeVars>>

\* classify, over the live records as they were read before the listing and
\* the records, read now, of the other environments it names.
InFlight(f) == f.was = "PREPARING" /\ env[f.env].inc >= incarnation
ClassOfUnaided(f, box, aided) ==
    IF f.was \in FinalStates THEN "ORPHAN"
    ELSE IF box = "NONE" THEN "MISSING"
    ELSE IF f.was # "READY" THEN "PENDING"
    ELSE IF box = "RUNNING" THEN "RUNNING" ELSE "STOPPED"
ClassOf(f, box, aided) ==
    IF f.was \in FinalStates THEN "ORPHAN"
    ELSE IF box = "NONE" THEN (IF aided THEN "PENDING" ELSE "MISSING")
    ELSE IF f.was # "READY" THEN "PENDING"
    ELSE IF box = "RUNNING" THEN "RUNNING" ELSE "STOPPED"

Classify(h) ==
    /\ Answered(h, "LIST")
    /\ call[h].ans = "LISTED"
    /\ LET seen == listing[h]
           read == {f.env : f \in pc[h].todo}
           named == {e \in Envs : seen.box[e] # "NONE" \/ e \in seen.aid}
           records == pc[h].todo \cup
                      {Found(e, State(e), "UNSEEN") : e \in {x \in named \ read : x \in Minted}}
       IN pc' = [pc EXCEPT
                   ![h].at = "SETTLE", ![h].then = "SETTLE",
                   ![h].todo = {Found(f.env, f.was, ClassOf(f, seen.box[f.env], f.env \in seen.aid)) :
                                f \in {x \in records : ~InFlight(x)}}]
    /\ Over(h)
    /\ listing' = [listing EXCEPT ![h] = NoListing]
    /\ UNCHANGED <<proc, attached, storeVars, broker, job, proxy, runtimeVars>>

Settling(h, f) == At(h, "SETTLE") /\ f \in pc[h].todo
Settled(h, f) == [pc[h] EXCEPT !.todo = @ \ {f}]

\* A READY record's container runs: measured again, by the record as read.
SettleRunning(h, f) ==
    /\ Settling(h, f)
    /\ f.class = "RUNNING"
    /\ pc' = [pc EXCEPT ![h] = [Settled(h, f) EXCEPT !.at = "MEASURE", !.env = f.env]]
    /\ Ask(h, "MEASURE", f.env)
    /\ UNCHANGED <<proc, attached, storeVars, broker, job, proxy, listing, runtimeVars>>

SettlePending(h, f) ==
    /\ Settling(h, f)
    /\ f.class \in {"STOPPED", "PENDING"}
    /\ IF Destructible(f.env)
       THEN /\ Moves(f.env, "DESTROYING")
            /\ pc' = [pc EXCEPT ![h] = [Settled(h, f) EXCEPT !.at = "DESTROY", !.env = f.env]]
            /\ Ask(h, "DESTROY", f.env)
       ELSE /\ pc' = [pc EXCEPT ![h] = Incomplete(Settled(h, f))]
            /\ UNCHANGED <<env, call>>
    /\ UNCHANGED <<proc, attached, incarnation, run, broker, job, proxy, listing, runtimeVars>>

\* The schema's trigger: the only moves a record makes.
MovesForward(from, to) ==
    \/ from = "READY" /\ to = "LOST"
    \/ from \in {"UNKNOWN", "DESTROYING"} /\ to \in {"DESTROYED", "LOST"}

\* record_lost: a destruction that finds nothing has finished.  The update
\* has no guard of its own; the trigger refuses it when the record has ended
\* since it was read, and the reconciliation fails.
SettleMissing(h, f) ==
    /\ Settling(h, f)
    /\ f.class = "MISSING"
    /\ LET to == IF f.was = "DESTROYING" THEN "DESTROYED" ELSE "LOST" IN
       IF MovesForward(State(f.env), to)
       THEN Moves(f.env, to) /\ pc' = [pc EXCEPT ![h] = Settled(h, f)]
       ELSE Returns(h) /\ env' = env
    /\ UNCHANGED <<proc, attached, incarnation, run, sandboxVars>>

\* An ended record's containers: removed by their labels.
SettleOrphan(h, f) ==
    /\ Settling(h, f)
    /\ f.class = "ORPHAN"
    /\ pc' = [pc EXCEPT ![h] = [Settled(h, f) EXCEPT !.at = "REAP", !.env = f.env]]
    /\ Ask(h, "DESTROY", f.env)
    /\ UNCHANGED <<proc, attached, storeVars, broker, job, proxy, listing, runtimeVars>>

Reaped(h) ==
    /\ Answered(h, "REAP")
    /\ pc' = [pc EXCEPT ![h] = IF Gone(h) THEN Complete(@) ELSE Incomplete(@)]
    /\ Over(h)
    /\ UNCHANGED <<proc, attached, storeVars, broker, job, proxy, listing, runtimeVars>>

ReconcileEnds(h) ==
    /\ At(h, "SETTLE")
    /\ pc[h].todo = {}
    /\ Returns(h)
    /\ UNCHANGED <<proc, attached, storeVars, sandboxVars>>

-----------------------------------------------------------------------------
(* The process *)

\* begin_incarnation: every run is reaped, a preparation left open may have
\* made a container, and no READY environment outlives its run.
Reopened(state) == IF state = "PREPARING" THEN "UNKNOWN" ELSE state
ReapedAtStartNot(state) == state
ReapedAtStart(state) == IF state = "READY" THEN "DESTROYING" ELSE state
Start ==
    /\ proc = "DOWN"
    /\ incarnation < MaxIncarnation
    /\ proc' = "UP"
    /\ attached' = "NO"
    /\ incarnation' = incarnation + 1
    /\ run' = [r \in Runs |-> IF run[r] = "ACTIVE" THEN "ENDED" ELSE run[r]]
    /\ env' = [e \in Envs |->
                 [state |-> ReapedAtStart(Reopened(State(e))), run |-> env[e].run, inc |-> env[e].inc]]
    /\ UNCHANGED <<pc, sandboxVars>>

\* The process dies, or poisons its store and stops answering.
Die ==
    /\ proc = "UP"
    /\ proc' = "DOWN"
    /\ attached' = "NO"
    /\ pc' = [h \in Handles |-> Idle]
    /\ CallersGone
    /\ UNCHANGED <<storeVars, broker, proxy, runtimeVars>>

HandleStep(h) ==
    \/ Destroyed(h) \/ Reclaim(h) \/ CountLive(h) \/ BeginPrepare(h) \/ SendPrepare(h)
    \/ Prepared(h) \/ Measured(h) \/ Unobservable(h) \/ Classify(h) \/ Reaped(h)
    \/ ReconcileEnds(h)
    \/ \E f \in pc[h].todo : \/ SettleRunning(h, f) \/ SettlePending(h, f)
                             \/ SettleMissing(h, f) \/ SettleOrphan(h, f)

Request(h) ==
    \/ Attach(h) \/ Reconcile(h)
    \/ \E e \in Envs : Destroy(h, e) \/ MeasureEnvironment(h, e)
    \/ \E r \in Runs : Route(h, r)
    \/ \E R \in SUBSET Runs \ {{}} : EndRuns(h, R)

Next ==
    \/ Start \/ Die
    \/ \E r \in Runs : AdmitRun(r)
    \/ \E h \in Handles : HandleStep(h) \/ Request(h)
    \/ SandboxNext /\ UNCHANGED <<proc, attached, storeVars, pc>>

Spec == Init /\ [][Next]_vars

-----------------------------------------------------------------------------
(* Properties *)

\* No environment is usable in a run that has ended: a release or a reaping
\* through another handle while the broker prepares, and a restart, included
\* (environment.rs, begin_run_end, end_with_its_run, begin_reaped_at_start).
ReadyRunIsActive == \A e \in Envs : State(e) = "READY" => run[env[e].run] = "ACTIVE"

\* A run has at most one environment that is not final (environment.rs,
\* begin_prepare; workload_route.rs, routed).
OneLivePerRun == \A e, f \in Live : env[e].run = env[f].run => e = f

\* There are never more environments that are not final than the backstop of
\* the runtime's task limit allows and, the count being no part of the
\* transaction that mints, one for every other handle that may have counted
\* the same ones (workload_route.rs, routed).
LiveWithinBound == Cardinality(Live) < MaxLive + Cardinality(Handles)

\* Whatever the runtime holds or will hold, late creations included, and
\* whatever the broker is at work on, has a record, written before the broker
\* was told (environment.rs, begin_prepare; oci.rs, environment_prepare).
NothingUnrecorded ==
    \A e \in Envs :
        \/ container[e] # "NONE" \/ e \in helpers \/ e \in late \/ e \in proxy
        \/ job.env = e /\ job.op = "PREPARE"
        => e \in Minted

\* The records cover what is in the runtime, and are within their bound.
RecordsCoverTheRuntime == NothingUnrecorded /\ LiveWithinBound

\* What may be left in the runtime of an environment that is gone: nothing, or
\* a container whose creation was completed after its client was stopped, and
\* which was never started (oci.rs, abandon).
Left(e) == IF e \in tardy THEN {"NONE", "STOPPED"} ELSE {"NONE"}

\* A record that has ended tells the truth: nothing of the environment is
\* left in the runtime but a creation completed late, which a reconciliation
\* reaps, and nothing is on its way there (environment.rs, Prepared::Refused,
\* "Provably none of it remains", and classify's Missing and Orphan; oci.rs,
\* kept_or_taken_down).
EndedIsGone ==
    \A e \in Envs : State(e) \in FinalStates =>
        /\ container[e] \in Left(e)
        /\ e \notin helpers
        /\ ~(job.op = "PREPARE" /\ job.env = e)

\* A record that has ended never changes again, whatever a reconciliation
\* that read it earlier still has to settle (environment.rs, record_lost).
EndedStaysEnded ==
    [][\A e \in Envs : State(e) \in FinalStates => env'[e] = env[e]]_vars

\* The reconciliation of a start in which every destruction was proved leaves
\* nothing behind: no helper and, creations completed late apart, no container
\* of any earlier incarnation (environment_ops.rs, environment_reconcile).
SweptAtStart ==
    \A h \in DOMAIN pc :
        (pc[h].at = "SETTLE" /\ pc[h].todo = {} /\ pc[h].sweep = "START" /\ pc'[h].at = "IDLE"
         /\ proc' = "UP")
        => \A e \in Minted : env[e].inc < incarnation => container[e] \in Left(e) /\ e \notin helpers
StartSweepsAll == [][SweptAtStart]_vars
==============================================================================
