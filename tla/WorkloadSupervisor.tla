-------------------------- MODULE WorkloadSupervisor --------------------------
(********************************************************************************)
(* The broker's workload supervisor (crates/dwkd-broker/src/sandbox/            *)
(* supervisor.rs, and supervise, ending and the operations of mod.rs and        *)
(* oci.rs it runs): a start is answered once its workload's thread has judged   *)
(* the environment and the exchange has given it the word; the run goes on in   *)
(* the thread, and a table keeps its ending for the authority to collect.       *)
(*                                                                              *)
(* The broker serves one connection at a time; a workload's thread runs beside  *)
(* it.  The release build aborts on a panic, so a thread that dies takes the    *)
(* broker with it: Restarts.  A process runs in its environment's container,    *)
(* which the runtime keeps: it outlives the broker's thread and the client, and *)
(* ends with the container.  The environments themselves, and how their         *)
(* containers come and go, are module BrokerSandbox's: here a container is up   *)
(* or gone, and its removal is one step.                                        *)
(********************************************************************************)
EXTENDS Integers, Sequences, FiniteSets

CONSTANTS
    MaxInvs,         \* bound: invocations ever minted
    MaxEnvs,         \* bound: environments ever prepared
    MaxSupervised,   \* MAX_SUPERVISED_WORKLOADS
    MaxGeneration,   \* bound: broker generations
    Faults           \* what may go wrong, from AllFaults

\* The authority stops waiting, or an answer is lost; the broker is replaced;
\* the authority's process ends; a container is gone by itself; the runtime
\* proves nothing of an environment, an ending or what a workload left.
AllFaults == {"LOSE", "RESTART", "CRASH", "VANISH", "UNSURE"}

ASSUME SupervisorConstants ==
    /\ MaxInvs \in Nat /\ MaxEnvs \in Nat
    /\ MaxSupervised \in Nat \ {0}
    /\ MaxGeneration \in Nat \ {0}
    /\ Faults \subseteq AllFaults

VARIABLES
    generation,      \* the broker's generation
    call,            \* the authority's exchange
    job,             \* the start the broker is serving
    table,           \* the held workloads, oldest first
    slot,            \* per workload, the state of its slot
    home,            \* per workload, the environment of its slot
    spent,           \* the endings collected, or left uncollected for too long
    thread,          \* per workload, where its thread is
    container,       \* per environment, whether its container runs
    alive,           \* the workloads with a process in their container
    executed         \* how often each workload has been executed

tableVars == <<table, slot, home, spent>>
worldVars == <<container, alive, executed>>
supervisorVars == <<generation, call, job, tableVars, thread, worldVars>>

-----------------------------------------------------------------------------
Invs == 1..MaxInvs
Envs == 1..MaxEnvs

\* The endings a collection answers.
Endings == {"CLEAN", "RESIDUE", "NEVER_RAN", "UNCONFIRMED"}
Held == {table[n] : n \in 1..Len(table)}
HasEnded(i) == slot[i] \in Endings

NoCall == [st |-> "NONE", op |-> "NONE", inv |-> 0, env |-> 0, gen |-> 0, ans |-> "NONE"]
Call == [st : {"NONE", "WAIT", "SENT", "DONE"},
         op : {"NONE", "START", "COLLECT", "DESTROY"},
         inv : 0..MaxInvs, env : 0..MaxEnvs, gen : 0..MaxGeneration,
         ans : {"NONE", "NOT_SENT", "LOST", "REFUSED", "DRIFTED", "STARTED", "RUNNING", "GONE"}
               \cup Endings]

\* The exchange of a start: who waits for it, and the judgement it received.
NoJob == [inv |-> 0, env |-> 0, by |-> "NOBODY", at |-> "NONE", judged |-> "NONE"]
Job == [inv : 0..MaxInvs, env : 0..MaxEnvs, by : {"NOBODY", "AUTHORITY"},
        at : {"NONE", "RESERVE", "WAIT"},
        judged : {"NONE", "PASS", "REFUSED", "DRIFTED", "UNCONFIRMED"}]

SupervisorTypeOK ==
    /\ generation \in 1..MaxGeneration
    /\ call \in Call
    /\ job \in Job
    /\ Held \subseteq Invs /\ Len(table) <= MaxSupervised
    /\ Len(table) = Cardinality(Held)
    /\ slot \in [Invs -> {"NONE", "JUDGING", "RUNNING"} \cup Endings]
    /\ home \in [Invs -> 0..MaxEnvs]
    /\ spent \subseteq Invs
    /\ thread \in [Invs -> {"NONE", "JUDGES", "GATED", "GO", "RUNS"}]
    /\ container \in [Envs -> {"NONE", "UP", "GONE"}]
    /\ alive \subseteq Invs
    /\ executed \in [Invs -> 0..1]

SupervisorInit ==
    /\ generation = 1
    /\ call = NoCall
    /\ job = NoJob
    /\ table = <<>>
    /\ slot = [i \in Invs |-> "NONE"]
    /\ home = [i \in Invs |-> 0]
    /\ spent = {}
    /\ thread = [i \in Invs |-> "NONE"]
    /\ container = [e \in Envs |-> "NONE"]
    /\ alive = {}
    /\ executed = [i \in Invs |-> 0]

-----------------------------------------------------------------------------
(* The exchange *)

Ask(op, i, e, g) ==
    call' = [st |-> "WAIT", op |-> op, inv |-> i, env |-> e, gen |-> g, ans |-> "NONE"]

\* Answered, by this generation.
CallEnds(ans) ==
    [call EXCEPT !.st = "DONE", !.ans = ans, !.gen = IF ans = "STARTED" THEN generation ELSE 0]

\* Answered; the answer may be lost on the way.
Answers(ans) ==
    \/ call' = CallEnds(ans)
    \/ "LOSE" \in Faults /\ call' = CallEnds("LOST")

\* The authority stops waiting: before the authorisation is sent nothing can
\* have happened, after it anything can, and the start goes on for nobody.
GiveUp ==
    /\ "LOSE" \in Faults
    /\ call.st \in {"WAIT", "SENT"}
    /\ call' = CallEnds(IF call.st = "WAIT" THEN "NOT_SENT" ELSE "LOST")
    /\ job' = [job EXCEPT !.by = "NOBODY"]
    /\ UNCHANGED <<generation, tableVars, thread, worldVars>>

\* A start's exchange is over with its answer.
Reply(ans) ==
    /\ job' = NoJob
    /\ IF job.by = "AUTHORITY" THEN Answers(ans) ELSE call' = call

Accepts(op) == job = NoJob /\ call.st = "WAIT" /\ call.op = op

AcceptStart ==
    /\ Accepts("START")
    /\ job' = [inv |-> call.inv, env |-> call.env, by |-> "AUTHORITY",
               at |-> "RESERVE", judged |-> "NONE"]
    /\ call' = [call EXCEPT !.st = "SENT"]
    /\ UNCHANGED <<generation, tableVars, thread, worldVars>>

-----------------------------------------------------------------------------
(* reserve *)

InUse(i, e) == \E j \in Held : j = i \/ (home[j] = e /\ ~HasEnded(j))

\* The oldest ending that may be forgotten, or 0.
ForgettableEnded(j) == HasEnded(j)
Forgettable(j) == HasEnded(j) /\ j \in spent
Oldest ==
    LET may == {n \in 1..Len(table) : Forgettable(table[n])}
    IN  IF may = {} THEN 0 ELSE table[CHOOSE n \in may : \A m \in may : n <= m]

\* The table holds a workload once.
Without(i) ==
    LET p == CHOOSE n \in 1..Len(table) : table[n] = i
    IN  IF i \notin Held THEN table
        ELSE [n \in 1..(Len(table) - 1) |-> IF n < p THEN table[n] ELSE table[n + 1]]
Forget(i) ==
    /\ table' = Without(i)
    /\ slot' = [slot EXCEPT ![i] = "NONE"]
    /\ spent' = spent \ {i}

Full == Len(table) >= MaxSupervised
ReserveRefused == InUse(job.inv, job.env) \/ (Full /\ Oldest = 0)

Reserve ==
    /\ job.at = "RESERVE"
    /\ ~ReserveRefused
    /\ LET evicted == IF Full THEN Oldest ELSE 0 IN
       /\ table' = Append(Without(evicted), job.inv)
       /\ slot' = [i \in Invs |-> IF i = job.inv THEN "JUDGING"
                                  ELSE IF i = evicted THEN "NONE" ELSE slot[i]]
       /\ spent' = spent \ {evicted}
    /\ home' = [home EXCEPT ![job.inv] = job.env]
    /\ thread' = [thread EXCEPT ![job.inv] = "JUDGES"]
    /\ job' = [job EXCEPT !.at = "WAIT"]
    /\ UNCHANGED <<generation, call, worldVars>>

\* No slot, or the order is not admissible, or the thread could not be made:
\* nothing runs.
RefuseStart ==
    /\ job.at = "RESERVE"
    /\ Reply("REFUSED")
    /\ UNCHANGED <<generation, tableVars, thread, worldVars>>

-----------------------------------------------------------------------------
(* The workload's thread, up to the word *)

Waiting(i) == job.at = "WAIT" /\ job.inv = i

\* Held::drop: a slot without an ending is forgotten with its thread.
ThreadGone(i) ==
    /\ thread' = [thread EXCEPT ![i] = "NONE"]
    /\ Forget(i)
    /\ home' = home

JudgePasses(i) ==
    /\ thread[i] = "JUDGES" /\ Waiting(i) /\ job.judged = "NONE"
    /\ container[job.env] = "UP"
    /\ thread' = [thread EXCEPT ![i] = "GATED"]
    /\ job' = [job EXCEPT !.judged = "PASS"]
    /\ UNCHANGED <<generation, call, tableVars, worldVars>>

\* The runtime, the environment, the executable or the credential is not what
\* the start says -- or nothing proves what they are.
JudgeRefuses(i) ==
    /\ thread[i] = "JUDGES" /\ Waiting(i) /\ job.judged = "NONE"
    /\ \/ \E ans \in {"REFUSED", "DRIFTED"} : job' = [job EXCEPT !.judged = ans]
       \/ "UNSURE" \in Faults /\ job' = [job EXCEPT !.judged = "UNCONFIRMED"]
    /\ ThreadGone(i)
    /\ UNCHANGED <<generation, call, worldVars>>

\* Nobody waits for the judgement any more: whatever it is, nothing runs.
JudgesForNobody(i) ==
    /\ thread[i] = "JUDGES" /\ ~Waiting(i)
    /\ ThreadGone(i)
    /\ UNCHANGED <<generation, call, job, worldVars>>

-----------------------------------------------------------------------------
(* The exchange's half of start *)

GiveWord ==
    /\ job.at = "WAIT" /\ job.judged = "PASS"
    /\ slot' = [slot EXCEPT ![job.inv] = "RUNNING"]
    /\ thread' = [thread EXCEPT ![job.inv] = "GO"]
    /\ Reply("STARTED")
    /\ UNCHANGED <<generation, table, home, spent, worldVars>>

PassOnRefusal ==
    /\ job.at = "WAIT" /\ job.judged \in {"REFUSED", "DRIFTED", "UNCONFIRMED"}
    /\ Forget(job.inv)
    /\ Reply(job.judged)
    /\ UNCHANGED <<generation, home, thread, worldVars>>

\* Past the deadline, the word is never given: the thread's judgement finds
\* nobody.
WordGivenLate(i) == thread' = [thread EXCEPT ![i] = "GO"]
WordWithheld(i) == thread' = thread
TimeOut ==
    /\ job.at = "WAIT" /\ job.judged = "NONE"
    /\ Forget(job.inv)
    /\ WordWithheld(job.inv)
    /\ Reply("REFUSED")
    /\ UNCHANGED <<generation, home, worldVars>>

-----------------------------------------------------------------------------
(* exec_workload *)

Keeps(i, result) ==
    /\ slot' = [slot EXCEPT ![i] = result]
    /\ thread' = [thread EXCEPT ![i] = "NONE"]

In(e) == {i \in Invs : home[i] = e}

Execute(i) ==
    /\ thread[i] = "GO" /\ container[home[i]] = "UP"
    /\ executed' = [executed EXCEPT ![i] = @ + 1]
    /\ alive' = alive \cup {i}
    /\ thread' = [thread EXCEPT ![i] = "RUNS"]
    /\ UNCHANGED <<generation, call, job, tableVars, container>>

\* The runtime's client never ran.
ClientRefused(i) ==
    /\ thread[i] = "GO"
    /\ Keeps(i, "NEVER_RAN")
    /\ UNCHANGED <<generation, call, job, table, home, spent, worldVars>>

\* The container is gone: before the run began, or under it.
EndsWithout(i) ==
    /\ thread[i] \in {"GO", "RUNS"} /\ container[home[i]] = "GONE"
    /\ Keeps(i, "UNCONFIRMED")
    /\ UNCHANGED <<generation, call, job, table, home, spent, worldVars>>

\* It exited, was killed or outran its wall clock; reap ended what it left.
EndsClean(i) ==
    /\ thread[i] = "RUNS" /\ container[home[i]] = "UP"
    /\ alive' = alive \ In(home[i])
    /\ Keeps(i, "CLEAN")
    /\ UNCHANGED <<generation, call, job, table, home, spent, container, executed>>

\* reap did not prove it left nothing, or nothing proves how it ended.
EndsUnclean(i) ==
    /\ "UNSURE" \in Faults
    /\ thread[i] = "RUNS"
    /\ alive' \in {alive, alive \ In(home[i])}
    /\ \E result \in {"RESIDUE", "UNCONFIRMED"} : Keeps(i, result)
    /\ UNCHANGED <<generation, call, job, table, home, spent, container, executed>>

-----------------------------------------------------------------------------
(* collect *)

CollectMarks(i) == spent' = IF HasEnded(i) THEN spent \cup {i} ELSE spent
CollectsAsRunning(i, g) == IF i \in Held THEN slot[i] ELSE "RUNNING"
CollectsAs(i, g) ==
    IF g # generation \/ i \notin Held \/ slot[i] = "JUDGING" THEN "UNCONFIRMED"
    ELSE slot[i]

Collect ==
    /\ Accepts("COLLECT")
    /\ IF call.gen = generation /\ call.inv \in Held THEN CollectMarks(call.inv) ELSE spent' = spent
    /\ Answers(CollectsAs(call.inv, call.gen))
    /\ UNCHANGED <<generation, job, table, slot, home, thread, worldVars>>

\* UNCOLLECTED has passed since the ending of a workload nobody asks for.
Age(i) ==
    /\ i \in Held /\ HasEnded(i)
    /\ spent' = spent \cup {i}
    /\ UNCHANGED <<generation, call, job, table, slot, home, thread, worldVars>>

-----------------------------------------------------------------------------
(* The world *)

ContainerEnds(e) ==
    /\ container' = [container EXCEPT ![e] = "GONE"]
    /\ alive' = alive \ In(e)

\* environment_destroy, as far as it concerns workloads.
RemoveEnvironment ==
    /\ Accepts("DESTROY")
    /\ ContainerEnds(call.env)
    /\ Answers("GONE")
    /\ UNCHANGED <<generation, job, tableVars, thread, executed>>

RemovalFails ==
    /\ "LOSE" \in Faults
    /\ Accepts("DESTROY")
    /\ call' = CallEnds("REFUSED")
    /\ UNCHANGED <<generation, job, tableVars, thread, worldVars>>

Vanishes(e) ==
    /\ "VANISH" \in Faults
    /\ container[e] = "UP"
    /\ ContainerEnds(e)
    /\ UNCHANGED <<generation, call, job, tableVars, thread, executed>>

\* The broker is replaced: a new generation, an empty table, no threads.
\* Whatever runs in a container goes on.
Restarts ==
    /\ "RESTART" \in Faults
    /\ generation < MaxGeneration
    /\ generation' = generation + 1
    /\ job' = NoJob
    /\ call' = IF call.st = "SENT" THEN CallEnds("LOST") ELSE call
    /\ table' = <<>>
    /\ slot' = [i \in Invs |-> "NONE"]
    /\ spent' = {}
    /\ thread' = [i \in Invs |-> "NONE"]
    /\ UNCHANGED <<home, worldVars>>

BrokerStep ==
    \/ AcceptStart \/ Reserve \/ RefuseStart \/ GiveWord \/ PassOnRefusal \/ TimeOut
    \/ Collect \/ RemoveEnvironment \/ RemovalFails

ThreadStep(i) ==
    \/ JudgePasses(i) \/ JudgeRefuses(i) \/ JudgesForNobody(i)
    \/ Execute(i) \/ ClientRefused(i) \/ EndsWithout(i) \/ EndsClean(i) \/ EndsUnclean(i)
=============================================================================
