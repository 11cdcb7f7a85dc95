---------------------------- MODULE BrokerSandbox ----------------------------
(******************************************************************************)
(* The broker's execution environments: the exchange that carries an          *)
(* authorised operation to it (crates/dwkd-authority/src/broker/link.rs,      *)
(* crates/dwkd-broker/src/listener.rs and exchange/mod.rs) and what it does   *)
(* with the container runtime (crates/dwkd-broker/src/sandbox).               *)
(*                                                                            *)
(* The broker serves one connection at a time, so it has one job.  Its job    *)
(* goes on when the caller no longer waits: at the caller's deadline, or when *)
(* the caller's process is gone.  Every call of the runtime's client is one   *)
(* step, which may fail with or without its effect; the broker may be killed  *)
(* between two of them, and its listeners (the CONNECT proxies) with it.      *)
(*                                                                            *)
(* The runtime, an external service, holds at most one container of an        *)
(* environment: no environment is prepared twice, and copies of its labels    *)
(* made by someone else are left out.  Its helpers (relay and setup) are one  *)
(* thing here.  The topology is PROXY_ONLY, the one production has.           *)
(******************************************************************************)
EXTENDS Integers, FiniteSets

CONSTANTS
    Handles,      \* the authority's handles, each with at most one exchange
    MaxEnvs,      \* bound: environments ever minted
    Faults        \* what may go wrong, from AllFaults

\* A creation completes after its client is gone; containers stop; containers
\* or helpers are removed by someone else; the broker dies.
AllFaults == {"LATE", "STOPS", "VANISHES", "DEATH"}

ASSUME SandboxConstants ==
    /\ MaxEnvs \in Nat
    /\ Faults \subseteq AllFaults
    /\ IsFiniteSet(Handles)
    /\ "none" \notin Handles

VARIABLES
    broker,       \* "UP" or "DOWN"
    job,          \* the exchange the broker is serving
    container,    \* per environment, its container in the runtime
    helpers,      \* environments with a helper container
    late,         \* creations the runtime will still complete
    tardy,        \* history: the creations ever left to the runtime so; no step reads it
    proxy,        \* environments whose proxy the broker has open
    call,         \* per handle, its exchange
    listing       \* per handle, what its last listing saw

lateVars == <<late, tardy>>
runtimeVars == <<container, helpers, lateVars>>
brokerVars == <<broker, job, proxy, call, listing>>
sandboxVars == <<broker, job, proxy, call, listing, container, helpers, lateVars>>

-----------------------------------------------------------------------------
Envs == 1..MaxEnvs
Ops  == {"PREPARE", "MEASURE", "DESTROY", "LIST"}
Boxes == {"NONE", "STOPPED", "RUNNING"}

NoJob == [op |-> "NONE", env |-> 0, by |-> "none", at |-> "NONE"]
Job == [op : Ops \cup {"NONE"}, env : 0..MaxEnvs, by : Handles \cup {"none"},
        at : {"NONE", "BEGIN", "CREATE", "ABANDON", "START", "PEER", "MEASURE",
              "TEARDOWN", "REMOVE", "REMOVE_UNPROVED"}]

\* An exchange: WAIT until the broker has taken the authorisation, SENT while
\* it works, DONE with its answer.
NoCall == [st |-> "NONE", op |-> "NONE", env |-> 0, ans |-> "NONE"]
Call == [st : {"NONE", "WAIT", "SENT", "DONE"}, op : Ops \cup {"NONE"}, env : 0..MaxEnvs,
         ans : {"NONE", "NOT_SENT", "LOST", "REFUSED", "UNCONFIRMED",
                "KEPT", "CLEAN", "GONE", "LISTED"}]

NoListing == [box |-> [e \in Envs |-> "NONE"], aid |-> {}]

SandboxTypeOK ==
    /\ broker \in {"UP", "DOWN"}
    /\ job \in Job
    /\ container \in [Envs -> Boxes]
    /\ helpers \subseteq Envs
    /\ late \subseteq Envs
    /\ tardy \subseteq Envs
    /\ proxy \subseteq Envs
    /\ call \in [Handles -> Call]
    /\ listing \in [Handles -> [box : [Envs -> Boxes], aid : SUBSET Envs]]

SandboxInit ==
    /\ broker = "UP"
    /\ job = NoJob
    /\ container = [e \in Envs |-> "NONE"]
    /\ helpers = {}
    /\ late = {}
    /\ tardy = {}
    /\ proxy = {}
    /\ call = [h \in Handles |-> NoCall]
    /\ listing = [h \in Handles |-> NoListing]

-----------------------------------------------------------------------------
(* The exchange *)

\* The caller's half of perform: connect, and wait for the broker's hello.
Ask(h, op, e) ==
    call' = [call EXCEPT ![h] = [st |-> "WAIT", op |-> op, env |-> e, ans |-> "NONE"]]

Over(h) == call' = [call EXCEPT ![h] = NoCall]
Pending(h) == call[h].st \in {"WAIT", "SENT"}

Ended(h, ans) ==
    [call EXCEPT ![h] = [st |-> "DONE", op |-> @.op, env |-> @.env, ans |-> ans]]

\* The connection is accepted and its authorisation received.
Accept(h) ==
    /\ broker = "UP"
    /\ job = NoJob
    /\ call[h].st = "WAIT"
    /\ job' = [op |-> call[h].op, env |-> call[h].env, by |-> h, at |-> "BEGIN"]
    /\ call' = [call EXCEPT ![h].st = "SENT"]
    /\ UNCHANGED <<broker, proxy, listing, runtimeVars>>

\* The caller's deadline, or a broker that cannot be reached: before the
\* authorisation is sent nothing can have happened, after it anything can.
MayGiveUp(h) == Pending(h)
GiveUp(h) ==
    /\ MayGiveUp(h)
    /\ call' = Ended(h, IF call[h].st = "WAIT" THEN "NOT_SENT" ELSE "LOST")
    /\ job' = IF job.by = h THEN [job EXCEPT !.by = "none"] ELSE job
    /\ UNCHANGED <<broker, proxy, listing, runtimeVars>>

\* Every caller's process is gone; the job goes on for nobody.
CallersGone ==
    /\ call' = [h \in Handles |-> NoCall]
    /\ listing' = [h \in Handles |-> NoListing]
    /\ job' = IF job = NoJob THEN NoJob ELSE [job EXCEPT !.by = "none"]

\* The job ends with its answer, which is lost if nobody waits for it.
Reply(ans) ==
    /\ job' = NoJob
    /\ call' = IF job.by = "none" THEN call ELSE Ended(job.by, ans)

Serving(op, at) == job.op = op /\ job.at = at
Goto(at) == job' = [job EXCEPT !.at = at] /\ call' = call

OpenProxy  == proxy' = proxy \cup {job.env}
CloseProxy == proxy' = proxy \ {job.env}
Box(b) == container' = [container EXCEPT ![job.env] = b]

\* A removal that was not proved: it happened or it did not.
MaybeRemoved == container' = container \/ Box("NONE")
HelpersRemoved == helpers' = helpers \ {job.env}
HelpersMaybeRemoved == helpers' \in {helpers, helpers \ {job.env}}

\* The creation's client is gone and the runtime is still to complete it.
LeftToTheRuntime ==
    /\ "LATE" \in Faults
    /\ late' = late \cup {job.env}
    /\ tardy' = tardy \cup {job.env}

-----------------------------------------------------------------------------
(* environment_prepare *)

\* Refused before anything is made: the topology, the runtime, the image, the
\* proxy's directory.
PrepareRefused ==
    /\ Serving("PREPARE", "BEGIN")
    /\ Reply("REFUSED")
    /\ UNCHANGED <<broker, proxy, listing, runtimeVars>>

PrepareOpens ==
    /\ Serving("PREPARE", "BEGIN")
    /\ OpenProxy
    /\ Goto("CREATE")
    /\ UNCHANGED <<broker, listing, runtimeVars>>

Creates ==
    /\ Serving("PREPARE", "CREATE")
    /\ Box("STOPPED")
    /\ Goto("START")
    /\ UNCHANGED <<broker, proxy, listing, helpers, lateVars>>

\* The client never ran.
CreateRefused ==
    /\ Serving("PREPARE", "CREATE")
    /\ CloseProxy
    /\ Reply("REFUSED")
    /\ UNCHANGED <<broker, listing, runtimeVars>>

\* The client failed or was stopped: the container was not made, was made, or
\* the runtime is still to make it.
CreateFails ==
    /\ Serving("PREPARE", "CREATE")
    /\ \/ UNCHANGED <<container, lateVars>>
       \/ Box("STOPPED") /\ UNCHANGED lateVars
       \/ LeftToTheRuntime /\ container' = container
    /\ Goto("ABANDON")
    /\ UNCHANGED <<broker, proxy, listing, helpers>>

\* Whatever carries the environment's labels is removed, as far as that can
\* be proved.
Abandon ==
    /\ Serving("PREPARE", "ABANDON")
    /\ CloseProxy
    /\ \/ Box("NONE") /\ Reply("REFUSED")
       \/ MaybeRemoved /\ Reply("UNCONFIRMED")
    /\ UNCHANGED <<broker, listing, helpers, lateVars>>

Starts ==
    /\ Serving("PREPARE", "START")
    /\ container[job.env] # "NONE"
    /\ Box("RUNNING")
    /\ Goto("PEER")
    /\ UNCHANGED <<broker, proxy, listing, helpers, lateVars>>

StartFails ==
    /\ Serving("PREPARE", "START")
    /\ container' = container \/ (container[job.env] # "NONE" /\ Box("RUNNING"))
    /\ Goto("TEARDOWN")
    /\ UNCHANGED <<broker, proxy, listing, helpers, lateVars>>

\* The setup and the relay; a step that does not happen is left for the
\* measurement to show.
ConnectPeer ==
    /\ Serving("PREPARE", "PEER")
    /\ helpers' \in {helpers} \cup {helpers \cup {e} : e \in
                        {x \in {job.env} : container[x] = "RUNNING"}}
    /\ Goto("MEASURE")
    /\ UNCHANGED <<broker, proxy, listing, container, lateVars>>

\* What a measurement needs to come out clean: the container running, its one
\* relay, and this broker's own proxy behind it.
Measurable(e) == container[e] = "RUNNING" /\ e \in helpers /\ e \in proxy

Keep ==
    /\ Serving("PREPARE", "MEASURE")
    /\ Measurable(job.env)
    /\ Reply("KEPT")
    /\ UNCHANGED <<broker, proxy, listing, runtimeVars>>

\* Not clean, or not measurable.
TakeDown ==
    /\ Serving("PREPARE", "MEASURE")
    /\ Goto("TEARDOWN")
    /\ UNCHANGED <<broker, proxy, listing, runtimeVars>>

TeardownHelpers ==
    /\ Serving("PREPARE", "TEARDOWN")
    /\ \/ HelpersRemoved /\ Goto("REMOVE")
       \/ HelpersMaybeRemoved /\ Goto("REMOVE_UNPROVED")
    /\ UNCHANGED <<broker, proxy, listing, container, lateVars>>

\* A teardown that did not finish proves nothing gone.
TornDown == "REFUSED"
NotTornDownRefused == "REFUSED"
NotTornDown == "UNCONFIRMED"

TeardownRemove ==
    /\ job.op = "PREPARE"
    /\ job.at \in {"REMOVE", "REMOVE_UNPROVED"}
    /\ CloseProxy
    /\ \/ job.at = "REMOVE" /\ Box("NONE") /\ Reply(TornDown)
       \/ job.at = "REMOVE_UNPROVED" /\ Box("NONE") /\ Reply(NotTornDown)
       \/ MaybeRemoved /\ Reply(NotTornDown)
    /\ UNCHANGED <<broker, listing, helpers, lateVars>>

-----------------------------------------------------------------------------
(* environment_measure, environment_destroy, environment_list *)

Measure ==
    /\ Serving("MEASURE", "BEGIN")
    /\ \/ Measurable(job.env) /\ Reply("CLEAN")
       \/ Reply("REFUSED")
    /\ UNCHANGED <<broker, proxy, listing, runtimeVars>>

\* The runtime could not be re-proved, or a helper not removed.
DestroyFails ==
    /\ Serving("DESTROY", "BEGIN")
    /\ HelpersMaybeRemoved
    /\ CloseProxy
    /\ Reply("REFUSED")
    /\ UNCHANGED <<broker, listing, container, lateVars>>

DestroyHelpers ==
    /\ Serving("DESTROY", "BEGIN")
    /\ HelpersRemoved
    /\ Goto("REMOVE")
    /\ UNCHANGED <<broker, proxy, listing, container, lateVars>>

\* The container labelled as the environment is removed, and proved gone, or
\* was gone already.  The proxy is closed whatever the runtime managed.
DestroyRemoves ==
    /\ Serving("DESTROY", "REMOVE")
    /\ CloseProxy
    /\ \/ Box("NONE") /\ Reply("GONE")
       \/ MaybeRemoved /\ Reply("REFUSED")
    /\ UNCHANGED <<broker, listing, helpers, lateVars>>

Lists ==
    /\ Serving("LIST", "BEGIN")
    /\ \/ /\ Reply("LISTED")
          /\ listing' = IF job.by = "none" THEN listing
                        ELSE [listing EXCEPT ![job.by] = [box |-> container, aid |-> helpers]]
       \/ Reply("REFUSED") /\ listing' = listing
    /\ UNCHANGED <<broker, proxy, runtimeVars>>

-----------------------------------------------------------------------------
(* Deaths, and the runtime's own events *)

BrokerDies ==
    /\ "DEATH" \in Faults
    /\ broker = "UP"
    /\ broker' = "DOWN"
    /\ proxy' = {}
    /\ job' = NoJob
    /\ call' = IF job.by = "none" THEN call ELSE Ended(job.by, "LOST")
    /\ UNCHANGED lateVars \/ (Serving("PREPARE", "CREATE") /\ LeftToTheRuntime)
    /\ UNCHANGED <<listing, container, helpers>>

BrokerStarts ==
    /\ broker = "DOWN"
    /\ broker' = "UP"
    /\ UNCHANGED <<job, proxy, call, listing, runtimeVars>>

\* A creation whose client is gone completes.
CreatedLate(e) ==
    /\ e \in late
    /\ late' = late \ {e}
    /\ container' = [container EXCEPT ![e] = "STOPPED"]
    /\ UNCHANGED <<helpers, tardy, brokerVars>>

\* The container's init ends, or the runtime is restarted.
ContainerStops(e) ==
    /\ "STOPS" \in Faults
    /\ container[e] = "RUNNING"
    /\ container' = [container EXCEPT ![e] = "STOPPED"]
    /\ UNCHANGED <<helpers, lateVars, brokerVars>>

\* Someone else removes the container.
ContainerVanishes(e) ==
    /\ "VANISHES" \in Faults
    /\ container[e] # "NONE"
    /\ container' = [container EXCEPT ![e] = "NONE"]
    /\ UNCHANGED <<helpers, lateVars, brokerVars>>

HelpersVanish(e) ==
    /\ "VANISHES" \in Faults
    /\ e \in helpers
    /\ helpers' = helpers \ {e}
    /\ UNCHANGED <<container, lateVars, brokerVars>>

Broker ==
    \/ PrepareRefused \/ PrepareOpens \/ Creates \/ CreateRefused \/ CreateFails \/ Abandon
    \/ Starts \/ StartFails \/ ConnectPeer \/ Keep \/ TakeDown \/ TeardownHelpers
    \/ TeardownRemove \/ Measure \/ DestroyFails \/ DestroyHelpers \/ DestroyRemoves \/ Lists

Runtime == \E e \in Envs :
    CreatedLate(e) \/ ContainerStops(e) \/ ContainerVanishes(e) \/ HelpersVanish(e)

SandboxNext ==
    \/ \E h \in Handles : Accept(h) \/ GiveUp(h)
    \/ Broker \/ BrokerDies \/ BrokerStarts \/ Runtime
==============================================================================
