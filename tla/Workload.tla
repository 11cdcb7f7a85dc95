------------------------------- MODULE Workload -------------------------------
(*********************************************************************************)
(* The authority's workloads: one durable record per launch                      *)
(* (crates/dwkd-authority/src/state/workload.rs), with the use of the            *)
(* credential it names (secret_use/spawn.rs); the start, the collections and     *)
(* the settlement of one (workload_ops.rs, workload_route.rs); and the worker    *)
(* that parks a launch while the broker runs it (server/worker.rs).              *)
(*                                                                               *)
(* The server's one worker makes every transaction and every exchange, one       *)
(* thing at a time; the module extends WorkloadSupervisor, whose broker answers. *)
(* An environment stands for its run: here it is prepared, becomes READY, and is *)
(* destroyed when its run ends, when it is reclaimed or when a workload's ending *)
(* costs it.  How that happens in detail is module Environment's.  A launch that *)
(* the gates, the image, the budget or the fence refuse changes nothing, so a    *)
(* refusal is a launch not taken.                                                *)
(*********************************************************************************)
EXTENDS WorkloadSupervisor

CONSTANTS
    Keys,            \* idempotency keys
    Credentialed,    \* the keys whose launch names a credential
    MaxLive,         \* MAX_LIVE_ENVIRONMENTS
    MaxParked,       \* MAX_PARKED
    MaxIncarnation   \* bound: authority starts

ASSUME WorkloadConstants ==
    /\ Credentialed \subseteq Keys /\ "none" \notin Keys
    /\ MaxLive \in Nat \ {0} /\ MaxParked \in Nat \ {0} /\ MaxIncarnation \in Nat \ {0}

VARIABLES
    proc,            \* "UP" while the authority's process lives
    incarnation,     \* store_meta.incarnation
    env,             \* the environments' states
    state,           \* the workload table: states,
    keyed,           \* idempotency keys,
    placed,          \* and environments
    use,             \* the state of each workload's credential's use
    work,            \* what the worker is doing
    parked           \* per workload, the generation it is parked with, or 0

ledgerVars == <<env, state, keyed, placed, use>>
vars == <<proc, incarnation, ledgerVars, work, parked, supervisorVars>>

-----------------------------------------------------------------------------
States == {"NONE", "LAUNCHING", "COMPLETED", "FAILED", "UNKNOWN"}
Live == {e \in Envs : env[e] \in {"READY", "DESTROYING"}}
LaunchingIn(e) == {i \in Invs : state[i] = "LAUNCHING" /\ placed[i] = e}
Parked == {i \in Invs : parked[i] # 0}

\* What a workload came to, before it is recorded.
Comings == {"CLEAN", "RESIDUE", "UNKNOWN", "FAILED", "DRIFTED"}

\* A job of the worker: SETTLE before the outcome's transaction; WAIT for a
\* launch beyond the bound on parked ones.
Idle == [at |-> "IDLE", inv |-> 0, env |-> 0, gen |-> 0, came |-> "NONE"]
Work == [at : {"IDLE", "START", "COLLECT", "SETTLE", "DESTROY", "WAIT"},
         inv : 0..MaxInvs, env : 0..MaxEnvs, gen : 0..MaxGeneration,
         came : Comings \cup {"NONE"}]

\* The tables, the worker's job and the supervisor have their types.
TypeOK ==
    /\ SupervisorTypeOK
    /\ proc \in {"UP", "DOWN"}
    /\ incarnation \in 0..MaxIncarnation
    /\ env \in [Envs -> {"NONE", "READY", "DESTROYING", "DESTROYED"}]
    /\ state \in [Invs -> States]
    /\ keyed \in [Invs -> Keys \cup {"none"}]
    /\ placed \in [Invs -> 0..MaxEnvs]
    /\ use \in [Invs -> {"NONE", "INTENT", "INJECTED", "FAILED", "UNKNOWN"}]
    /\ work \in Work
    /\ parked \in [Invs -> 0..MaxGeneration]
    /\ work.at \in {"START", "COLLECT", "DESTROY"} <=> call # NoCall

Init ==
    /\ SupervisorInit
    /\ proc = "DOWN"
    /\ incarnation = 0
    /\ env = [e \in Envs |-> "NONE"]
    /\ state = [i \in Invs |-> "NONE"]
    /\ keyed = [i \in Invs |-> "none"]
    /\ placed = [i \in Invs |-> 0]
    /\ use = [i \in Invs |-> "NONE"]
    /\ work = Idle
    /\ parked = [i \in Invs |-> 0]

At(where) == proc = "UP" /\ work.at = where
Free == At("IDLE")
Answered(where) == At(where) /\ call.st = "DONE"
Over == call' = NoCall
BrokerUnmoved == UNCHANGED <<generation, job, tableVars, thread, worldVars>>

-----------------------------------------------------------------------------
(* Environments *)

\* The route prepared one: recorded, built, measured.
PrepareEnvironment(e) ==
    /\ Free /\ job = NoJob
    /\ env[e] = "NONE" /\ \A f \in 1..(e - 1) : env[f] # "NONE"
    /\ Cardinality(Live) < MaxLive
    /\ env' = [env EXCEPT ![e] = "READY"]
    /\ container' = [container EXCEPT ![e] = "UP"]
    /\ UNCHANGED <<proc, incarnation, state, keyed, placed, use, work, parked, generation, call,
                   job, tableVars, thread, alive, executed>>

\* perform_destroy.
PerformDestroy(e) ==
    /\ work' = [Idle EXCEPT !.at = "DESTROY", !.env = e]
    /\ Ask("DESTROY", 0, e, 0)

\* A run's end begins its environment's destruction, whatever runs in it.
EndRun(e) ==
    /\ Free
    /\ env[e] = "READY"
    /\ env' = [env EXCEPT ![e] = "DESTROYING"]
    /\ PerformDestroy(e)
    /\ UNCHANGED <<proc, incarnation, state, keyed, placed, use, parked>>
    /\ BrokerUnmoved

\* reclaim_one, and the start-up sweep: a destruction left pending is tried
\* again.
Reclaim(e) ==
    /\ Free
    /\ env[e] = "DESTROYING" /\ LaunchingIn(e) = {}
    /\ PerformDestroy(e)
    /\ UNCHANGED <<proc, incarnation, ledgerVars, parked>>
    /\ BrokerUnmoved

EnvironmentGone ==
    /\ Answered("DESTROY")
    /\ env' = IF call.ans = "GONE" THEN [env EXCEPT ![work.env] = "DESTROYED"] ELSE env
    /\ work' = Idle
    /\ Over
    /\ UNCHANGED <<proc, incarnation, state, keyed, placed, use, parked>>
    /\ BrokerUnmoved

-----------------------------------------------------------------------------
(* begin *)

KeyBound(k) == \E i \in Invs : keyed[i] = k
NextInv == Cardinality({i \in Invs : state[i] # "NONE"}) + 1

IdleEnvironment(e) == LaunchingIn(e) = {}

\* The rows of the workload, of its key and of its credential's use.
RecordIntent(i, k, e) ==
    /\ state' = [state EXCEPT ![i] = "LAUNCHING"]
    /\ keyed' = [keyed EXCEPT ![i] = k]
    /\ placed' = [placed EXCEPT ![i] = e]
    /\ use' = [use EXCEPT ![i] = IF k \in Credentialed THEN "INTENT" ELSE "NONE"]

\* Worker::collect, after every job: a parked launch whose ending has grown old
\* is due, and is collected before the next job.
Collected == Parked \cap spent = {}

\* The workload's intent and its credential's are durable, and the broker is
\* asked to start it.
Launch(k, e) ==
    /\ Free /\ Collected
    /\ ~KeyBound(k)
    /\ env[e] = "READY" /\ IdleEnvironment(e)
    /\ NextInv \in Invs
    /\ RecordIntent(NextInv, k, e)
    /\ work' = [Idle EXCEPT !.at = "START", !.inv = NextInv, !.env = e]
    /\ Ask("START", NextInv, e, 0)
    /\ UNCHANGED <<proc, incarnation, env, parked>>
    /\ BrokerUnmoved

-----------------------------------------------------------------------------
(* start and collect *)

Comes(came) == work' = [work EXCEPT !.at = "SETTLE", !.came = came]

\* The runtime's client, the workspace or the credential cannot be handed
\* over: nothing is sent.
OrderFails ==
    /\ At("START") /\ call.st = "WAIT"
    /\ \E came \in {"FAILED", "DRIFTED"} : Comes(came)
    /\ Over
    /\ UNCHANGED <<proc, incarnation, ledgerVars, parked>>
    /\ BrokerUnmoved

\* ending_of_start: a failure only when nothing can have run.
ProvablyWithoutEffect(ans) == ans \in {"NOT_SENT", "REFUSED"}
EndingOfStart(ans) ==
    IF ans = "DRIFTED" THEN "DRIFTED"
    ELSE IF ProvablyWithoutEffect(ans) THEN "FAILED" ELSE "UNKNOWN"

StartEnds ==
    /\ Answered("START") /\ call.ans # "STARTED"
    /\ Comes(EndingOfStart(call.ans))
    /\ Over
    /\ UNCHANGED <<proc, incarnation, ledgerVars, parked>>
    /\ BrokerUnmoved

\* The launch is parked; beyond the bound the worker waits for it.
Park ==
    /\ Answered("START") /\ call.ans = "STARTED"
    /\ IF Cardinality(Parked) < MaxParked
       THEN parked' = [parked EXCEPT ![work.inv] = call.gen] /\ work' = Idle
       ELSE work' = [work EXCEPT !.at = "WAIT", !.gen = call.gen] /\ parked' = parked
    /\ Over
    /\ UNCHANGED <<proc, incarnation, ledgerVars>>
    /\ BrokerUnmoved

\* The rest of a sandboxed process.exec, once its intent is durable.
Sandboxed == OrderFails \/ StartEnds \/ Park

\* A parked launch is due, or the one waited for is asked for again.
CollectParked(i) ==
    /\ \/ Free /\ i \in Parked
          /\ work' = [Idle EXCEPT !.at = "COLLECT", !.inv = i, !.env = placed[i]]
          /\ Ask("COLLECT", i, placed[i], parked[i])
       \/ At("WAIT") /\ i = work.inv
          /\ work' = [work EXCEPT !.at = "COLLECT"]
          /\ Ask("COLLECT", i, placed[i], work.gen)
    /\ UNCHANGED <<proc, incarnation, ledgerVars, parked>>
    /\ BrokerUnmoved

\* ending_of_collection: whatever is not an ending says nothing of a workload
\* the broker started.
EndingOfCollectionRefused(ans) ==
    CASE ans \in {"CLEAN", "RESIDUE"} -> ans
      [] ans \in {"NEVER_RAN", "NOT_SENT"} -> "FAILED"
      [] OTHER -> "UNKNOWN"
EndingOfCollection(ans) ==
    CASE ans \in {"CLEAN", "RESIDUE"} -> ans
      [] ans = "NEVER_RAN" -> "FAILED"
      [] OTHER -> "UNKNOWN"

\* Still running: collected again later, unless it is overdue, when the
\* broker is not believed.
StillRunning ==
    /\ Answered("COLLECT") /\ call.ans = "RUNNING"
    /\ work' = IF work.gen = 0 THEN Idle ELSE [work EXCEPT !.at = "WAIT"]
    /\ Over
    /\ UNCHANGED <<proc, incarnation, ledgerVars, parked>>
    /\ BrokerUnmoved

CollectionEnds ==
    /\ Answered("COLLECT")
    /\ call.ans # "RUNNING" \/ "UNSURE" \in Faults
    /\ Comes(EndingOfCollection(call.ans))
    /\ Over
    /\ UNCHANGED <<proc, incarnation, ledgerVars, parked>>
    /\ BrokerUnmoved

-----------------------------------------------------------------------------
(* record_outcome *)

Recorded(came) ==
    CASE came \in {"CLEAN", "RESIDUE"} -> "COMPLETED"
      [] came \in {"FAILED", "DRIFTED"} -> "FAILED"
      [] OTHER -> "UNKNOWN"

\* spawn::ending_of.
UseEnds(i, came) ==
    IF use[i] = "NONE" THEN "NONE"
    ELSE CASE Recorded(came) = "COMPLETED" -> "INJECTED"
           [] Recorded(came) = "FAILED" -> "FAILED"
           [] OTHER -> "UNKNOWN"

\* Whether an ending takes its environment down.
CostsEnvironmentUnknown(came) == came \in {"UNKNOWN", "DRIFTED"}
CostsEnvironment(came) == came \in {"UNKNOWN", "RESIDUE", "DRIFTED"}

\* The outcome, its credential's and the beginning of the environment's
\* destruction, in one transaction; then the destruction.
Settle ==
    /\ At("SETTLE")
    /\ LET i == work.inv
           e == placed[i]
           destroys == CostsEnvironment(work.came) /\ env[e] \in {"READY", "DESTROYING"}
       IN /\ state[i] = "LAUNCHING"
          /\ state' = [state EXCEPT ![i] = Recorded(work.came)]
          /\ use' = [use EXCEPT ![i] = UseEnds(i, work.came)]
          /\ parked' = [parked EXCEPT ![i] = 0]
          /\ IF destroys
             THEN env' = [env EXCEPT ![e] = "DESTROYING"] /\ PerformDestroy(e)
             ELSE env' = env /\ work' = Idle /\ call' = call
    /\ UNCHANGED <<proc, incarnation, keyed, placed>>
    /\ BrokerUnmoved

-----------------------------------------------------------------------------
(* The authority's process *)

\* The process ends, or the server stops: parked launches are dropped, and a
\* start the broker is serving goes on for nobody.
Crash ==
    /\ "CRASH" \in Faults
    /\ proc = "UP" /\ incarnation < MaxIncarnation
    /\ proc' = "DOWN"
    /\ work' = Idle
    /\ parked' = [i \in Invs |-> 0]
    /\ call' = NoCall
    /\ job' = [job EXCEPT !.by = "NOBODY"]
    /\ UNCHANGED <<incarnation, ledgerVars, generation, tableVars, thread, worldVars>>

\* begin_incarnation: reconcile_open of both ledgers; every run was reaped, so
\* every environment's destruction begins.
Interrupted == {i \in Invs : state[i] = "LAUNCHING"}
Start ==
    /\ proc = "DOWN"
    /\ incarnation < MaxIncarnation
    /\ proc' = "UP"
    /\ incarnation' = incarnation + 1
    /\ state' = [i \in Invs |-> IF i \in Interrupted THEN "UNKNOWN" ELSE state[i]]
    /\ use' = [i \in Invs |-> IF use[i] = "INTENT" THEN "UNKNOWN" ELSE use[i]]
    /\ env' = [e \in Envs |-> IF env[e] = "READY" THEN "DESTROYING" ELSE env[e]]
    /\ UNCHANGED <<keyed, placed, work, parked, supervisorVars>>

-----------------------------------------------------------------------------
\* An ending grows old only when the worker does not come back to collect it:
\* its jobs, the wait for a launch excepted, are far shorter than UNCOLLECTED.
Abandoned(i) == (i \notin Parked /\ work.inv # i) \/ At("WAIT")
AgeAbandoned(i) ==
    /\ Abandoned(i)
    /\ Age(i)

AuthorityStep ==
    \/ EnvironmentGone \/ Sandboxed \/ StillRunning \/ CollectionEnds \/ Settle

AuthorityUnmoved == UNCHANGED <<proc, incarnation, ledgerVars, work, parked>>

Next ==
    \/ \E e \in Envs : PrepareEnvironment(e) \/ EndRun(e) \/ Reclaim(e)
    \/ \E k \in Keys, e \in Envs : Launch(k, e)
    \/ \E i \in Invs : CollectParked(i)
    \/ AuthorityStep \/ Crash \/ Start
    \/ BrokerStep /\ AuthorityUnmoved
    \/ GiveUp /\ AuthorityUnmoved
    \/ Restarts /\ AuthorityUnmoved
    \/ \E i \in Invs : (ThreadStep(i) \/ AgeAbandoned(i)) /\ AuthorityUnmoved
    \/ \E e \in Envs : Vanishes(e) /\ AuthorityUnmoved

Spec == Init /\ [][Next]_vars

\* The worker goes on with its job; after each it collects every parked launch
\* that is due.  A stopped authority is started again.  The broker serves its
\* exchange within a deadline, and a workload's thread ends within its bound.
Fairness ==
    /\ WF_vars(AuthorityStep) /\ WF_vars(Start)
    /\ WF_vars(BrokerStep /\ AuthorityUnmoved)
    /\ \A i \in Invs : SF_vars(CollectParked(i)) /\ WF_vars(ThreadStep(i) /\ AuthorityUnmoved)

FairSpec == Spec /\ Fairness

-----------------------------------------------------------------------------
(* Properties *)

Of(k) == {i \in Invs : keyed[i] = k}
Newest(k) == CHOOSE i \in Of(k) : \A j \in Of(k) : j <= i
KeyState == [k \in Keys |-> IF Of(k) = {} THEN "NONE"
                            ELSE IF state[Newest(k)] = "LAUNCHING" THEN "OPEN"
                            ELSE state[Newest(k)]]
KeyEffect == {k \in Keys : \E i \in Of(k) : executed[i] > 0}

O == INSTANCE AtMostOnce WITH state <- KeyState, effect <- KeyEffect

(*****************************************************************************)
(* A key's launch is executed at most once, never before its intent is       *)
(* durable, never after it is recorded FAILED, and COMPLETED only if it was  *)
(* (begin, start, ending_of_start, ending_of_collection, record_outcome,     *)
(* reconcile_open and the supervisor's gate), whatever is lost or restarted. *)
(*****************************************************************************)
ImplementsAtMostOnce == O!OSpec

(********************************************************************************)
(* A READY environment that no workload is LAUNCHING in has no process of an    *)
(* earlier one, and no thread that could still start one: every ending that     *)
(* does not prove it costs the environment (destroy_reason), across restarts of *)
(* either process and starts that were given up.                                *)
(********************************************************************************)
ReadyAndIdleIsClean ==
    \A e \in Envs : env[e] = "READY" /\ LaunchingIn(e) = {} =>
        \A i \in In(e) : i \notin alive /\ thread[i] \notin {"GO", "RUNS"}

(******************************************************************************)
(* Two workloads never run in one environment at the same time, although the  *)
(* ledger's LAUNCHING row and the broker's table, which guard it, are lost at *)
(* different times (reap would end the other's processes).                    *)
(******************************************************************************)
OneRunsAtATime ==
    \A i, j \in alive : home[i] = home[j] => i = j

(***************************************************************************)
(* No workload meets another in its environment, running or left over      *)
(* (destroy_reason; the supervisor's reserve and reap).                    *)
(***************************************************************************)
NoWorkloadMeetsAnother == TypeOK /\ ReadyAndIdleIsClean /\ OneRunsAtATime

(*******************************************************************************)
(* What the store says of a credential's use agrees with what happened to it:  *)
(* INJECTED only if its program ran, FAILED only if it never did, open exactly *)
(* while its workload is (spawn::ending_of, reconcile_open).                   *)
(*******************************************************************************)
UseTellsTheTruth ==
    \A i \in Invs :
        /\ use[i] = "INJECTED" => executed[i] = 1
        /\ use[i] = "FAILED" => executed[i] = 0 /\ thread[i] # "GO"
        /\ use[i] = "INTENT" <=> state[i] = "LAUNCHING" /\ keyed[i] \in Credentialed

\* The broker that accepted launch i, once it answered, is still there.
AskedOf(i) == IF i \in Parked THEN parked[i] ELSE work.gen

(********************************************************************************)
(* An ending is lost only with its container, its broker or the authority that  *)
(* would have collected it: neither a full table (reserve, forgettable) nor the *)
(* order of starts and collections makes a finished workload UNKNOWN.           *)
(********************************************************************************)
EndingIsNotLost ==
    [][\A i \in Invs : state[i] = "LAUNCHING" /\ state'[i] = "UNKNOWN"
                        => \/ container[placed[i]] = "GONE"
                           \/ proc = "DOWN"
                           \/ AskedOf(i) # generation]_vars

(*********************************************************************************)
(* Every launch is settled: its connection is answered, or a restart records it. *)
(*********************************************************************************)
LaunchIsSettled ==
    \A i \in Invs : state[i] = "LAUNCHING" ~> state[i] # "LAUNCHING"

(*********************************************************************************)
(* The worker never has to wait for a launch: a start beyond the bound on parked *)
(* ones is refused by the broker's table (the comment in Worker::run).           *)
(*********************************************************************************)
NeverWaitsForALaunch == work.at # "WAIT"
=============================================================================
