------------------------------ MODULE MCEndings ------------------------------
(* What the daemons put on record and what must end, for TLC: a start of the authority     *)
(* after any crash of its audit log, the events of its server, its secrets, a launch of a   *)
(* workload, a process on the host.  They share no state with each other: a behaviour is of *)
(* one of them, the focus, and the others rest at a state they start in.                    *)
EXTENDS AuditLog, Server, Secrets

VARIABLES focus,
          wl_proc, wl_incarnation, wl_env, wl_state, wl_keyed, wl_placed, wl_use, wl_work,
          wl_parked, wl_generation, wl_call, wl_job, wl_table, wl_slot, wl_home, wl_spent,
          wl_thread, wl_container, wl_alive, wl_executed,
          pr_cur, pr_row, pr_bound, pr_job, pr_table, pr_os, pr_ran, pr_lives

wlVars ==
    <<wl_proc, wl_incarnation, wl_env, wl_state, wl_keyed, wl_placed, wl_use, wl_work,
      wl_parked, wl_generation, wl_call, wl_job, wl_table, wl_slot, wl_home, wl_spent,
      wl_thread, wl_container, wl_alive, wl_executed>>
prVars ==
    <<pr_cur, pr_row, pr_bound, pr_job, pr_table, pr_os, pr_ran, pr_lives>>

\* Workload with brokers that restart and containers that vanish, and with an authority that
\* is killed.
WL == INSTANCE Workload WITH
    Keys <- {"k1", "k2"}, Credentialed <- {"k1"}, MaxInvs <- 2, MaxEnvs <- 2,
    MaxSupervised <- 1, MaxGeneration <- 2, MaxLive <- 2, MaxParked <- 1,
    MaxIncarnation <- 2, Faults <- {"RESTART", "VANISH"}, proc <- wl_proc,
    incarnation <- wl_incarnation, env <- wl_env, state <- wl_state, keyed <- wl_keyed,
    placed <- wl_placed, use <- wl_use, work <- wl_work, parked <- wl_parked,
    generation <- wl_generation, call <- wl_call, job <- wl_job, table <- wl_table,
    slot <- wl_slot, home <- wl_home, spent <- wl_spent, thread <- wl_thread,
    container <- wl_container, alive <- wl_alive, executed <- wl_executed
WC == INSTANCE Workload WITH
    Keys <- {"k1", "k2"}, Credentialed <- {"k1"}, MaxInvs <- 2, MaxEnvs <- 2,
    MaxSupervised <- 1, MaxGeneration <- 2, MaxLive <- 2, MaxParked <- 1,
    MaxIncarnation <- 2, Faults <- {"CRASH"}, proc <- wl_proc,
    incarnation <- wl_incarnation, env <- wl_env, state <- wl_state, keyed <- wl_keyed,
    placed <- wl_placed, use <- wl_use, work <- wl_work, parked <- wl_parked,
    generation <- wl_generation, call <- wl_call, job <- wl_job, table <- wl_table,
    slot <- wl_slot, home <- wl_home, spent <- wl_spent, thread <- wl_thread,
    container <- wl_container, alive <- wl_alive, executed <- wl_executed
PR == INSTANCE HostProcess WITH
    Processes <- {"p", "q"}, LaunchKeys <- {"k", "l"}, TableSize <- 1, HostApproved <- TRUE,
    MaxAuthorities <- 2, MaxBrokers <- 2, cur <- pr_cur, row <- pr_row, bound <- pr_bound,
    oper <- pr_job, table <- pr_table, os <- pr_os, ran <- pr_ran, lives <- pr_lives

SE == INSTANCE MCSecrets
MCDocuments == SE!MCDocuments
MCRotations == SE!MCRotations
MCPrograms == SE!MCPrograms
MCBeginnings == SE!MCBeginnings
MCManifest == SE!MCManifest
MCMatches == SE!MCMatches
MCAsked == SE!MCAsked
MCOutputs == SE!MCOutputs
MCShapes == SE!MCShapes
ASSUME ServersConstants == ServerConstants
ASSUME ConfigurationConstants == SecretsConstants

EndingsInit ==
    /\ focus \in {"audit", "server", "secrets", "workload", "killed", "process"}
    /\ Init /\ ServerInit /\ WL!Init /\ PR!ProcessInit
    /\ SecretsInit /\ (focus = "secrets" \/ backend = (CHOOSE b \in Beginnings : TRUE).backend)
EndingsNext ==
    \/ focus = "audit" /\ Next /\ UNCHANGED <<focus, serverVars, secretsVars, wlVars, prVars>>
    \/ focus = "server" /\ ServerNext /\ UNCHANGED <<focus, vars, secretsVars, wlVars, prVars>>
    \/ focus = "secrets" /\ SecretsNext /\ UNCHANGED <<focus, vars, serverVars, wlVars, prVars>>
    \/ focus = "workload" /\ WL!Next /\ UNCHANGED <<focus, vars, serverVars, secretsVars, prVars>>
    \/ focus = "killed" /\ WC!Next /\ UNCHANGED <<focus, vars, serverVars, secretsVars, prVars>>
    \/ focus = "process" /\ PR!ProcessNext /\ UNCHANGED <<focus, vars, serverVars, secretsVars, wlVars>>

\* The fairness of each part (FairSpec of AuditLog and Workload; HostProcess's
\* broker performs its operation, and its threads reap and keep the wall clock), while it is
\* the focus.
In(part, A) == focus = part /\ A
AuditFairness == WF_vars(In("audit", Start)) /\ WF_vars(In("audit", Recovery))
Launching == focus \in {"workload", "killed"}
WorkloadFairness ==
    /\ WF_wlVars(Launching /\ WL!AuthorityStep) /\ WF_wlVars(Launching /\ WL!Start)
    /\ WF_wlVars(Launching /\ WL!BrokerStep /\ WL!AuthorityUnmoved)
    /\ \A i \in 1..2 : /\ SF_wlVars(Launching /\ WL!CollectParked(i))
                       /\ WF_wlVars(Launching /\ WL!ThreadStep(i) /\ WL!AuthorityUnmoved)
ProcessFairness ==
    /\ WF_prVars(In("process", PR!Broker))
    /\ \A p \in {"p", "q"} : /\ WF_prVars(In("process", PR!Reap(p)))
                              /\ WF_prVars(In("process", PR!WallClock(p)))
EndingsSpec ==
    /\ EndingsInit /\ [][EndingsNext]_<<focus, vars, serverVars, secretsVars, wlVars, prVars>>
    /\ AuditFairness /\ WorkloadFairness /\ ProcessFairness

-----------------------------------------------------------------------------
(* Properties *)

\* If starts are not interrupted for ever, the authority comes to serve: no state that a crash
\* leaves keeps it down (state/recover.rs).
AuthorityServes == focus = "audit" => EventuallyServes

\* An ending is lost only with its container, its broker or the authority that would have
\* collected it (supervisor reserve and forgettable; state/workload.rs, ending_of_collection).
EndingIsNotLost == WL!EndingIsNotLost

\* Every launch is settled: its connection is answered, or a restart records it
\* (state/workload.rs, record_outcome and reconcile_open).
LaunchIsSettled == WL!LaunchIsSettled

\* What was executed on the host ends and is reaped, its launch confirmed, given up on or lost
\* (process/supervise.rs).
TargetEnds == PR!TargetEnds
==============================================================================
