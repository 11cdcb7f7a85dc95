# DireWolf in TLA+

DireWolf runs untrusted agents under a small trusted kernel.  The **authority**
(`crates/dwkd-authority`) decides and remembers: it owns the sessions' leases, the
admitted runs and their capabilities, the records of environments, workloads, tool
invocations, requests and secrets, and an audit log.  The **broker**
(`crates/dwkd-broker`) acts: it is the only process that touches the workspace, the
container runtime, the network and the secrets, and it does only what one authorised
exchange tells it.  Everything hard about the system is in what the two remember of each
other when something is lost: a deadline, a restart, a power cut, a second handle.

This project models that: one module per state machine, translated from the source,
checked by TLC on small instances; theorems for every instance, proved with TLAPS.
`PROJECT.json` maps every definition to the lines it stands for, and lists the runs, the
hazards, the findings, and for every property a plausible bug that breaks it.

## 1. Inventory

### 1.1 Components, their state and their operations

| Component (source) | State it keeps | Operations | Correct if |
|---|---|---|---|
| Session leases (`state/lease.rs`) | one row per session: epoch, HELD / RELEASED / INVALIDATED, holder (incarnation, connection), expiry by the wall clock | AcquireLease, Heartbeat, ReleaseLease, invalidation at start, reaping of runs | an epoch has one writer for ever; the work of a tenure ends with it |
| Run admission (`state/admission.rs`, `query.rs`) | runs, idempotency records, id counter, configuration revision | AdmitRun in up to `PASSES` transactions around the resolver, ReleaseRun, QueryAuthority | one key admits once; a grant answered is usable at that instant |
| Audit log (`state/audit.rs`, `state/mod.rs`) | outbox and head in `kernel.db`, `audit.log`, flushed mark, poison flag, quarantine marker | transact, flush by any handle, recovery at start | the file is always a prefix of the chain; nothing answered is lost; no crash quarantines |
| Execution environments, authority (`state/environment.rs`, `environment_ops.rs`, `workload_route.rs`) | one record per environment, PREPARING … DESTROYED | prepare on demand, reclaim, measure, destroy, end with the run, reconcile with the runtime's listing | nothing runs unrecorded; an ended record means nothing is left; READY only in an active run |
| Execution environments, broker (`sandbox/*.rs`, `broker/link.rs`) | its one exchange, the containers and helpers in the runtime, open proxies | environment_prepare, _measure, _destroy, _list | a refusal means provably nothing remains |
| Workloads, authority (`state/workload*.rs`, `state/secret_use/spawn.rs`, `server/worker.rs`) | one row per launch, the use of its credential, the parked launches | launch, start, park, collect, settle, restart | a launch is executed at most once, and what is recorded of it is true |
| Workload supervisor, broker (`sandbox/supervisor.rs`) | table of held workloads, a thread each | reserve, judge, the word, execute, reap, collect | nothing runs after its start was given up; no ending forgotten before it is collected |
| Filesystem tools, authority (`state/tool.rs`, `state/staging.rs`, `tool_invoke`) | tool_invocation and tool_staging rows | intent, handoff, outcome, sweep | FAILED means no effect, COMPLETED means a durable one |
| Filesystem operations, broker (`exchange/mutate.rs`, `exchange/staging.rs`) | the staging directory of an invocation, on disk only | write, create, patch, move, delete; undo; reclamation | no object of the workspace is ever lost |
| Host processes (`state/process.rs`; broker `process/`) | process rows and the key each launch binds; the broker's table of children | spawn, status, kill, reap, wall clock | what is recorded of a process is true of it; whatever was executed ends and is reaped |
| net.http, authority (`state/net_http/`, `state/secret_use.rs`) | request and hop ledger, budgets of the run, uses of credentials | request, redirect hop, settle, end what a restart finds open | a hop is sent at most once; a budget never comes back; a credential goes only where it was decided |
| net.http, broker (broker `http/`) | none: an exchange and its worker process | resolve, dial, hand over, answer | "sent nothing" is said only of a request that was not sent |
| Secrets (`state/secrets.rs`, `state/secret_use/`, `secret/`) | rows of each handle's metadata, the rows a run is bound to, uses; in memory the values' fingerprints | accept a document, record it at a start, bind, use, hand over, redact | what is recorded is what is configured; a use is of what its run is bound to; what is returned no longer holds the value |
| Egress proxy (broker `egress/`) | connections, tunnel and resolution slots, byte budgets per environment | open, connect, relay, close | the budget is shared, not copied; closed means closed |
| Private channel (`broker/link.rs`; broker `listener.rs`, `exchange/mod.rs`; `brokerp.rs`) | one connection, its nonce, its descriptors | order, authorise, check, perform, conclude | the two ends never disagree on what a message means; a conclusion is true |
| Server (`server/`) | connections, the worker's queue, rate limiter, listener | accept, enqueue, park, audit, stop; claim the socket's name | nobody waits for ever; every refusal is on the record |
| Policy (`policy/`, `state/policy_state.rs`) | revisions, activations, the policy in force | load, compose, install, activate, evaluate | default deny; an extension only narrows |
| Capabilities, configuration (`capability/`, `state/config.rs`, `scopes.rs`, `plan.rs`) | profiles, skills, workspaces, a run's grants | install, mint, rehydrate, decide | what a run may do stays within every term of its admission |
| Resource resolvers (`resource/`) | none across calls | resolve a workspace path, resolve an executable | what is handed over is what was checked |
| Deployment (`main.rs` of both, `broker/posture.rs`, `server/`) | flags, uids, what each daemon found of its host | start, restart with other flags, meet | the daemons are separated, or each acknowledged that they are not |
| Sandbox inspection, probe and profile (broker `sandbox/inspect.rs`, `oci.rs`; `dwk-sandbox-probe`; `sandbox.rs`) | a container and the verdicts on it | ask, build, inspect, probe, judge | an environment taken for usable passed every control required of it |
| Store (`state/schema.rs` and its files) | the tables every component above writes | transactions, migration, opening | partly: the tables and their constraints are in the modules that write them; the rest is in § 7 |
| Relay, CLI, Python runtime, gates | files, formats | parsing, copying, system calls | not modelled: § 7 |

### 1.2 How they interact

* A **request** arrives on a connection; the server's one worker (several handles in
  tests and embeddings) runs it as one or more `BEGIN IMMEDIATE` transactions on
  `kernel.db`.  Nothing is held across them but what the code carries in local variables:
  every read before an exchange may be stale after it.
* An **exchange** is one authorised operation on a socket to the broker, with a deadline.
  At the deadline the authority stops waiting; the broker goes on.  It serves one
  connection at a time, so what it still does delays, and never overlaps, the next.
* A **workload** runs on a thread of the broker beside the exchanges, so its start is
  answered before it ends and its ending is collected by a later exchange.
* The **end of a run** (release, reaping at a new tenure, restart) reaches its
  environments in the same transaction, and the containers through later exchanges.
* **Every transaction** appends audit records to the outbox; they are in `audit.log`, on
  disk, before the caller is answered.

### 1.3 What is hard

Several handles on one store; a wall clock that jumps; exchanges whose answers are lost or
late; process death and power loss between any two steps, in the recovery too; a runtime
that completes a creation after its client is gone; a trusted writer that changes the same
names; restarts of authority and broker at different times; tables and counters at their
limit.  The hazards in `PROJECT.json` name the line of each and the properties that
would catch it going wrong.

## 2. Plan

The order is by what the rest relies on: the fence first, then the log every answer waits
for, then what the broker does for a run, then what decides it and what carries it.

| | Modules | Composes / refines | Status |
|---|---|---|---|
| 1 | `SessionLease`, `FencedSession`, `SessionLeaseProofs` | leases with admission; implements `FencedSession` | done, proved |
| 2 | `AuditLog`, `AuditTrail`, `AuditLogProofs` | handles, file and recovery; implements `AuditTrail` | done, proved |
| 3 | `Environment`, `BrokerSandbox`, `EnvironmentProofs` | `Environment` EXTENDS `BrokerSandbox` | done, proved |
| 4 | `Workload`, `WorkloadSupervisor`, `AtMostOnce`, `WorkloadProofs` | `Workload` EXTENDS `WorkloadSupervisor`; implements `AtMostOnce` | done, proved |
| 5 | `ToolInvoke`, `StagedMutation`, `ToolInvokeProofs` | `ToolInvoke` EXTENDS `StagedMutation` | done, proved |
| 6 | `NetHttp`, `HttpExchange`, `NetHttpProofs` | `NetHttp` EXTENDS `HttpExchange`; each hop implements `AtMostOnce` | done, proved |
| 7 | `EgressTunnels`, `SocketClaim`, `PrivateChannel`, `BrokerMessages`, `ListenerProofs` | `PrivateChannel` EXTENDS `BrokerMessages` | done, proved |
| 8 | `HostProcess`, `HostProofs`; `Server` | `Server`'s proofs are in `AuditLogProofs` | done, proved |
| 9 | `Policy`, `Capability`, `Grants`, `PathWalk`, `ExecWalk`, `Deployment`, `Assurance`, `Secrets` | `Grants` EXTENDS `Capability`; the proofs are in the modules above (§ 6) | done, proved |

## 3. The modules and the code

Conventions.  An action that touches `kernel.db` is one transaction.  An exchange is the
steps *ask* (`WAIT`), *taken by the broker* (`SENT`), *answered* (`DONE`, with what the
caller learns), and *recorded*, and the deadline may strike before each.  Definitions with
a comment "Fault:", or a name such as `ReapedAtStartNot` beside `ReapedAtStart`, are not part of the
model: each is the body a plausible bug would give its neighbour, and the mutants of
`PROJECT.json` put it there.  Booleans of the code are written as two strings.

### SessionLease, FencedSession

`lease`, `run`, `idem`, `idCounter`, `revision`, `incarnation` are the tables of the
store; `conns`, `nextConn`, `admitting` are memory and die with the process.  Callers are
arbitrary: any open connection sends any request with any epoch, key and run id at any
time, which covers lost answers, retries, delayed requests and zombie holders.  Each
transaction reads an arbitrary time, so the clock jumps either way.  An admission whose
terms name paths takes up to `Passes` passes, each fenced anew; the configuration may be
replaced between them (`Install`), and the resolver's answers are usable only for the
revision they were made for.  What the passes mint is `Grants`' business: it decides what a
run may do, not whether it exists.

`FencedSession` is the promise without clocks, connections, keys and retries: a token that
only grows, at most one writer, work opened only under the writer's token, and closed in
the very step that ends its tenure.

### AuditLog, AuditTrail

A record is its sequence number (the hash chain binds the contents to it), and its line is
two halves, so that a write can stop in the middle.  `synced` says how much of the file
survives a power loss; `kernel.db` is `synchronous = FULL`.  Handles are threads that share
the writer's mutex and the poison flag; the check of the flag, the wait for the mutex and
the work under it are separate steps.  `Recover` is `Authority::start`'s judgement of the
file (repair a torn tail, or quarantine), followed by the steps that append, sync and mark.
`AuditTrail`: what is durable grows, never beyond what is committed, and an answer follows
its record's durability.

### Environment, BrokerSandbox

`BrokerSandbox` has the broker's one job, with a step for every call of the runtime's client; each
may fail with or without its effect, and with the fault `LATE` the runtime completes a creation
after its client was stopped. `tardy`, a history variable, names the creations that were ever left
to the runtime so; `Left` says what of them may remain. `Environment` has the records, and per
handle the operation it is in with what it read before it asked: a route that reclaims, counts,
prepares; a measurement that may turn into a destruction; a reconciliation that lists, classifies
by stale records and settles one by one. Runs here are only ACTIVE or ENDED: how they end is
`SessionLease`'s. Left out: labels copied by someone else (`Ambiguous`, `Foreign`), the
`NO_NETWORK` topology of the evidence harness, and what a specification or a measurement contains.
An order that cannot be made is one that was not sent.

### Workload, WorkloadSupervisor, AtMostOnce

`WorkloadSupervisor` has the broker's table, the thread of each workload (judging, waiting for the
word, running, reaping) and the exchange it races with. The release profile aborts on a panic
(`Cargo.toml:260`), so a dying thread is a replaced broker. `Workload` has the ledger, the worker
with its parked launches, and the cost of an ending: an environment whose cleanness is not proved
is destroyed. `Worker::collect` runs after every job, so a launch comes only when no parked ending
has grown old (`Collected`). An environment stands for its run, and its preparation is one step. A
launch refused by a gate, the image, the budget or the fence changes nothing and is a launch not
taken. `AtMostOnce`: per key, an open intent before any effect, at most one effect, never after
FAILED, and COMPLETED only with it.

### ToolInvoke, StagedMutation

`StagedMutation` runs each operation in its system calls on a namespace with the target
`T`, the broker's new file `N` and another object `S`, beside a trusted writer that moves,
binds, links and edits through workspace names.  `onDisk` holds the namespaces a power cut
may leave: a directory's fsync commits every earlier change of names, as a journal does; a
file's content is `CACHED` until its own fsync; a rename is atomic.  `applied` is a ghost:
whether the effect is in this namespace, and `MIXED` when an undo put back another object.
`ToolInvoke` follows one invocation through intent, exchange, outcome and the sweeps, in
the authority; to it, a second invocation is the writer.  Only a move has a destination, only
a patch reads the content.  A directory whose mode is not yet set (`FRESH`) may be judged
foreign; a retained verdict may be outdated by a later power cut, which is safe, because a
retained directory is never removed by it.

### NetHttp, HttpExchange

A request is a chain of hops; each is located, resolved, pinned, decided again with its
addresses, recorded with its intent, performed, recorded, and followed or ended.
`HttpExchange` has the broker's side, a job per hop: the addresses judged again (`IsBlocked`,
by the form an address is written in and the block lists), the dial, the worker process with
its marker `S` immediately before the first byte, the answer, and every way it can be missing.
An exchange whose authority died goes on.  `NetHttp` has the ledger, the run's budgets, the key
that binds a request, and the credential's own intent, outcome and count.  The gates are their
verdict per origin and address; headers, bodies and TLS the flaw they find.
`Reached`, the hops whose first write was begun, is the effect `AtMostOnce` counts, with a hop
for a key: from the marker on nothing the broker sees tells whether the origin has the bytes, so a
write that fails later (`HeadBreaks`) counts as one that arrived.

### HostProcess

`process.exec`, `.status` and `.kill` in both daemons. `row` and `bound` are the authority's
tables, `oper` the operation the broker performs, `table` its children, `os` what the kernel has,
`ran`, a ghost, whether the target was executed, and `LATE` if it was announced only after the
handshake was judged. The broker reads the helper's channel, judges what it read (`HandshakeLate`),
and only then signals and waits (`AbandonLaunch`, `Waited`); the helper goes on meanwhile, so
announcement, execution, deadline, kill and death come in any order. Reaper, wall clock and kill
share the child's lock; each signal may fail, and those of the wall clock and of `abandon` are sent
once (`supervise.rs:300`, `launch.rs:140`). Left out is the window the source itself states
(`helper.rs:498`, ADR-0045 § 12): a SIGKILL by root or the broker's uid between the announcement and
`execveat` reads as an execution. Its names are apart from those of the walks (`ProcessInit`, `ProcessNext`), as `PathWalk`'s and
`PrivateChannel`'s are, so that one module of proofs can be about several. The approval a launch
needs has no production form yet: `HostApproved` lets it exist.

### PrivateChannel, BrokerMessages

`BrokerMessages` has every order the authority can make, the authorisation it becomes, what
the broker checks of it, which descriptors it carries, the results its operation can have, and
what the authority accepts of a result.  `PrivateChannel` sends one over a connection that may
be cut, late or abandoned by either side, with one connection served at a time; `wire` is a turn's
end of it, `recorded` what the authority concluded of its order, `effects` what the broker did.

### SocketClaim, Server

`SocketClaim` is the protocol both daemons share for a socket's name: directory, lock, a
connection that tests for life, removal, bind. Its actions are named apart (`ClaimInit`,
`ClaimNext`), as those of every part are that shares a run with others. `Server` has the accepting
thread, a thread per connection and the worker with its bounded queue; a request is answered,
parked, failed, or poisons the store. `ServerFairSpec` adds the fairness below. The rate limiter
counts the events it does not write.

### EgressTunnels

Handlers of one environment's proxy, each a thread, each tunnel two; a step is what lies
between two accesses to what they share.  `left` is the two byte budgets, `carried` what
crossed the sockets, and `InHand` the bytes taken from a budget and not written yet, one pair of
a connection and a number for each.  A lane of a tunnel goes from its loop's head (`Watch`) through
the read, the budget's `Take`, the look at `closing` (`Look`) and the write (`Write`) back to it.
Look and write are two steps, as in `write_watching`, and a write may take any part of its bytes, or
none within a tick, and be looked at again; `InWrite` are the bytes of the writes that have looked.
Opening and closing race with the handlers, which may outlive `close`.

### Policy, Capability, Grants

`Policy` loads sources into profiles, composes an extender with its root, installs and
activates the composition at a start, and evaluates actions with predicates that may not be
able to answer.  `Capability` has scopes, constraints and coverage, `Grants` the path from what
an operator installs, through the passes of an admission, to a stored grant that is rehydrated
and decides an action, while files, executables and secrets change outside.

### PathWalk, ExecWalk

Both resolvers in their system calls, against other processes that rename, link and unlink between
any two. A tree is a function from directory and name to an object. `PathWalk` opens component by
component, verifies each name in its directory's listing and the chain from the leaf up; `walk` is
the resolution, `gone` the names it has passed that no longer stand. `ExecWalk` trusts only
directories no other uid can re-point, follows links, hashes, and walks the canonical path again.

### Deployment

The start of either daemon from its command line: which flags it takes, which it requires of
each other, what it asks of its own uid, the owner of its directories, its ancestry and the
other's peer credentials, and what each then admits.  A command line is a function from flags
to the values given; restarts may bring other flags.

### Assurance

One environment from the authority's measurement of the workspace to the verdict, and through the
judgings after it.  Before each, a preparation, a measurement or a workload's start, the authority
reopens the path, which must still be the directory the operator bound (`binding`), measures and
judges it, and sends a bound of its own (`Specifiable`, `Specification`); a workspace that no longer
passes is drift and ends the environment (`WorkspaceDrifted`).  The broker then looks at the
container, with at most one aspect that deviates from what it was told, in the code's order: the
runtime's record, the probe's digest, the probe's report, the relays listed, the setups listed, its
own proxy (open, on its socket, in a directory the relay's alone), the relay's record, the relay's
digest.  Each look is a step, may fail, and is of what stands then: `HOST_PROXY_RELAY` is made of
four of them (`PeerParts`, `PeersVerdict`).  An aspect is a member of the record or a thing the probe
tries; `RecordAspects` and `ProbeAspects` say which control reads which.  Root may remount, change or
stop things, relays and setups come and go, and the proxy is closed or widened, at any time.
`reached` is how far the judging has come; `witnessed` is a ghost: the controls and parts of peers
that held at some moment of it.

### Secrets

The operator's document is accepted whole or not at all (`Parses`, over members that are in
their grammar or not).  A start is `Prepare` (read the document, resolve the consumers, read
what values it can), `BeginIncarnation` (reap the runs, end the open uses) and `Reconcile` (a
row for each handle that is not as its last row says), and may die between any two
(`AuthorityDies`); `serving` is the use its worker is busy with.  An
admission binds a run to the rows of the handles it is granted; a run with a wildcard is bound by
its first `Use`, in the same transaction and whatever the gates then say.  `HandOver` reads the
value, puts it in the index and in a pipe; `Park` lets the worker serve others while a launch
runs; `Return` redacts the output with the index as it is by then.  A value is a word over a few
letters, so that values overlap in an output, merge into one placeholder, are too short, cannot be
carried, or are cut by the bound.  The document and the executables are read at a start only, so
the operator changes them while the authority is down; a value may change at any time.

## 4. Runs

| Run | Instance | Shows |
|---|---|---|
| `session_lease` | 1 session, epochs to 2, times 0..1; either 2 handles, 2 subjects, 1 key, 2 digests, or 1 handle, 2 keys, 2 incarnations, 2 revisions | leases, fencing and admission through rotation, expiry, release and restart implement `FencedSession`; concurrent admissions of one key admit once; grants answered are usable |
| `environment` | 2 environments, 1 live; either 1 handle and 2 runs with a restart, or 2 handles on 1 run, or a runtime that creates late | READY needs its run, ended means gone (a creation the runtime completes late apart), nothing runs unrecorded, the bound holds, a start's sweep is complete |
| `workload` | 2 launches, 1 with a credential, 2 environments, 2 broker generations, 2 incarnations, every fault | at most one execution, truthful uses, an idle READY environment is clean |
| `endings` | six instances, one at a time: the audit log with 2 handles, batches of 2, 5 records; the server; the secrets; the workloads again with vanishing containers, and with a killed authority; 2 host processes, a table of 1, 2 lives of each daemon | the log is a prefix of the chain, the mark a lower bound, no crash quarantines, recovery is exact; transport events are accounted for; secrets are kept; and, under fairness, the authority serves, no ending is lost, launches are settled, processes end |
| `tool_invoke` | four parts, one at a time: every operation, all faults, 2 changes by the writer; the walk of a path; policies; grants | nothing lost or half-written, outcomes true, no row given up too early; and the three properties of the other parts (below) |
| `host` | eight parts, one at a time (below), the channel in two instances; net.http with 2 requests of up to 3 hops, 5 URLs, 3 origins and 10 faults | the thirteen properties of those parts |
| `audit_poisoned_writer` | 2 handles, 3 records, failures at any time | **violation**: finding 1 |
| `workload_parked` | 1 live environment, 1 parked launch, a replaced broker | **violation**: finding 2 |
| `tool_move` | no faults, 2 changes by the writer | **violation**: finding 3 |
| `net_stalled_worker` | net.http as in `host`, with a worker that may stand still | **violation**: finding 4 |
| `server_poisoned_stops` | 1 connection, every queue of length 1 | **violation**: finding 5 |
| `process_late_announcement` | 1 process, a table of 1, 2 lives of each daemon | **violation**: finding 6 |

`session_lease`, `environment`, `endings`, `tool_invoke` and `host` check several instances in
one run: a variable, `instance` or `focus`, names the one a behaviour is of, and the others do
not move. The instances share no state, so their product would only multiply what each is shown
to do. The modules of these runs EXTEND the components, so that what TLC checks is the very
definition a theorem states; `MCPolicy`, `MCGrants`, `MCSecrets`, `MCExecWalk` and `MCDeployment`
hold the values of their constants.

What these runs say of each part:

* channel: `ConcludesTheTruth`, what the authority concludes of an order is true whatever is lost
  and whoever dies, every order that passes its check has its descriptors, and every result of its
  operation is one the authority takes;
* socket: `ServingIsReachable`, daemons started at once never take the socket of one that serves,
  and one of them serves at most;
* egress: `BudgetHoldsAtTheSocket` over all tunnels at once, and `ClosedStartsNoWrite`, from the
  moment `closing` is stored no write begins, and what moves is only what writes that had looked
  before had in hand;
* net: `ReachesOnlyWhatWasDecided` at every hop, `CredentialIsAccounted`, `BudgetNeverRefills`, each
  hop implements `AtMostOnce` (`ImplementsAtMostOnce`), and `RequestEnds` under fairness;
* process: `LaunchRecordTellsTheTruth`, what is recorded of a host process is true of it, what is
  announced after the handshake was judged apart (finding 6);
* exec: `IdentityIsStable` for as long as a resolved executable is held;
* deployment: `SeparationIsAcknowledged` by each daemon in what they are not separated;
* assurance: `AdmittedWasMeasured`, every control required and each part of the peers did hold while
  it was judged, this time, and what is mounted is the directory the operator bound;
* path (`tool_invoke`): `HandedOffWasAtItsPath` at one instant of the resolution;
* policy (`tool_invoke`): `ExtensionNarrows`, an extender denies or decides as its root would;
* grants (`tool_invoke`): `AuthorityStaysWithinTerms`, whatever is installed or changes between
  passes and after;
* server (`endings`): `EventsAreAccounted`, a transport event is recorded, counted, or lost with
  the store;
* secrets (`endings`): `SecretsAreKept`, the rows are the configuration, a use is of a row that was
  never revoked and that its run is bound to, and an output loses the value it was given and
  nothing that no value or credential's shape covers.

### Bounds

* `MaxEpoch = 2` is the exhaustion of epochs as well as a rotation; `MaxRuns = 2` the
  exhaustion of ids; `MaxNow = 1`, `Ttl = 1` give a live, an expired and a revived lease,
  because every transaction picks its own time.  `MaxConns = 2` per incarnation gives the
  holder, another connection, and, with `MaxIncarnation = 2`, a connection number that is
  used again after a restart.  `Passes = 2` (3 in the code) has a first, a middle-and-last
  pass; the proofs are for any number.
* `MaxRecords = 5`, `Batch = 2`: a transaction of several records, flushed in part, by the
  other handle, before and after a recovery.
* `MaxEnvs = 2`, `MaxLive = 1`, `MaxPerRun = 2`: the bound is reached, a reclamation makes
  room, a second environment of the same run.  `MaxIncarnation = 2`: one restart, whose
  reconciliation meets what the first process left.
* `MaxSupervised = MaxParked = 1`, `MaxGeneration = 2`: table and parking full with one
  launch, while the second one comes; one replaced broker.
* `MaxWrites = 2`: a writer needs one change to take an object away and one to put another
  there, the most any check of the broker compares.
* `NetHttp`: three hops are a first, a redirected and one more than a second; the run's budget
  (3 requests, 4 bytes out, 3 in, 2 origins) is exhausted in the second request.
* `HostProcess`: a table of one is full with the first process when the second comes.
* `PrivateChannel`: every order once; two turns for two orders and one that never leaves, so
  that an abandoned exchange is served while the next one waits.
* `Server`: one connection, one peer the operator named and one it did not, every queue 1.
* `EgressTunnels`: two connections; 2 bytes up and 1 down, read in chunks of up to 2, so that a
  budget is taken whole, in part, and by two tunnels at once.  Two tunnels are as many as the grant
  allows, so the run does not exceed that bound; the theorem is for any.
* `Policy`: a root; every child of one rule or one post-condition, a grandchild, and the sets of
  files that do not load.  `Grants`: 2 profiles, 1 skill, 2 installations, 1 change of the world, 3
  passes as in the code.
* `PathWalk`: two changes by others, enough to take an object away and put another there;
  `ExecWalk`: one change, one symbolic link.  `Deployment`: three starts, so that either daemon
  restarts with other flags beside the other.
* `Assurance`: one fault (an aspect that deviates, a look that fails, or a change by root or of the
  peers) and two judgings, so that the fault falls before, within and after each.
* `Secrets`: two handles, one run, two starts, two uses and one change by the operator: a rotation
  between two uses of one handle, or a document changed between the starts.
* Faults are switched on by name so that each run has the ones its question is about;
  between them the passing runs take every action and every disjunct.
* `IoFaults = "ALONE"` excludes exactly the window of finding 1: a failing write while
  another handle waits for the mutex.  The server has one handle and never meets it.

Deadlock is not checked: with its bounds used up, or simply idle, each system may stop.
Symmetry is used only in runs without liveness.

### Fairness

* `AuditLog`: weak fairness of `Start` and of the steps of recovery.  The process's
  supervisor starts it again and a start runs on; the property says "if starts are not
  interrupted for ever".
* `Workload`: weak fairness of the worker, of a start after a crash, of the broker (each
  of its calls has a timeout) and of each workload's thread (the wall clock bounds it); strong
  fairness of collecting each parked launch, because the worker collects all that are due
  after every job, so a stream of other jobs does not starve one.
* `HostProcess`: weak fairness of the broker's operation (every step of it has a deadline), of
  each reaping (a thread blocks in `wait` for it) and of each wall clock.  None of the authority.
* `NetHttp`: weak fairness of the authority's steps, of its restart, and of each hop's
  exchange (`link.rs` and `http/worker.rs` bound every wait).
* `Server`: weak fairness of each thread of the server; it is used in the violation of
  finding 5, whose counterexample is a deadlock of two threads and no want of fairness.

## 5. Findings

1. **A handle that waits for the poisoned writer writes behind a torn line**
   (`state/mod.rs:410`, run `audit_poisoned_writer`).  `flush` checks the flag before it
   waits for the mutex, and not after.  The store is then quarantined at the next start.
   Needs two handles.
2. **The worker can wait for a whole workload** (`server/worker.rs:359`, run
   `workload_parked`): the branch its comment calls unreachable is reached when the broker
   is replaced while the bound on parked launches is used up.
3. **A refused move can have changed the workspace** (`exchange/mutate.rs:659`, run
   `tool_move`): a trusted writer replaces the object at the destination after the rename;
   the undo moves the writer's object to the source's name, its proof passes, and the
   answer is "refused: no persistent change".  `OutcomeTellsTheTruth` excepts exactly this
   (`MIXED`).  Nothing is lost by it.

4. **A hop recorded FAILED may have been sent** (broker `http/worker.rs:208`, run
   `net_stalled_worker`): the broker reads the worker's channel for the last time, and kills the
   worker after that.  A worker that stood still through its own, earlier deadline can write its
   marker and the request in between.  `host` checks everything else of the exchange with a
   worker that keeps its deadline.
5. **A poisoned server may not stop** (`server/worker.rs:324`, run `server_poisoned_stops`): the
   worker connects to its own socket to wake the acceptor while the acceptor waits for room in
   the queue the worker still holds; with the listener's backlog full each waits for the other.
6. **A launch recorded FAILED may have executed its target** (broker `process/launch.rs:236`, run
   `process_late_announcement`): the broker reads the helper's channel for the last time, finds no
   announcement, and kills after that.  A slow helper announces and executes in between: the target
   runs until the kill, and the launch is recorded FAILED, of which `launch.rs:127` says "Provably
   nothing was executed".  `LaunchRecordTellsTheTruth` excepts exactly this (`LATE`).

Some observations have no run of their own:

* `record_lost` (`state/environment.rs:735`) moves a DESTROYING record whose containers the
  listing no longer shows to DESTROYED without an exchange, so the broker's CONNECT proxy of
  that environment stays open until the broker ends, while ADR 0048 (line 105) and
  `sandbox/mod.rs:490` say that destroying an environment closes its listener.
* A reclamation that finds no directory answers ABSENT without an fsync of the parent
  (broker `exchange/staging.rs:683`).  If an earlier reclamation removed the directory and
  died before its own fsync, a power cut may bring the directory back with its row CLEARED,
  while `state/staging.rs:5` says "a crash can never leave one untracked".  The objects in it
  are not lost.

* `supervise.rs:299` sets `timed_out` after a look that found the process running, so a process
  that ends by itself in between is reported as EXITED and timed out, where `brokerp.rs:1743`
  reads as if the flag meant it was stopped.
* The index holds one value of a handle (`secret/redact/exact.rs`).  When a value is rotated and the
  handle used again while a launch with the old value still runs, the launch's output is no longer
  redacted of the old one, where `docs/SECRETS.md:181` says "output is redacted of it on return".
  `ReturnIsRedacted` excepts exactly this (`Replaced`).
* `check_use`'s refusal of a replaced secret is not reached: metadata changes at a start only, and
  every start reaps the runs that are bound to what was there before.
* The wall clock signals a process once and does not look whether it could (`supervise.rs:300`).
  Should the signal fail, the process runs on, no longer bounded, and every status of it is refused
  as one that "does not agree with itself" (`state/process.rs:1604`: timed out, and RUNNING).
  `TargetEnds` excepts exactly this (`SignalFailed`).

And one limit of the code that its server respects: the live environments are counted in
one transaction and the new one inserted in another, so every handle beyond the first can take
the count one over `MaxLive`.  `LiveWithinBound` says that this is all, for any number of
handles; for the server's one it is `MaxLive` itself.

## 6. Proofs

Eight modules hold proofs, of what is said below for every value of the constants: all safety
properties the passing runs check, and the refinements. What the proofs assume of the constants is
in named assumptions of the modules they are about (`LeaseConstants`, `SandboxConstants`,
`EnvironmentConstants`, `AuditConstants`, `SupervisorConstants`, `WorkloadConstants`,
`MutationConstants`, `HttpAssumption`, `NetAssumption`), or, for the parts that share a run, in
a definition that is a theorem's hypothesis and that the run's module assumes of its instance
(`ChannelConstants`, `ServerConstants`, `PathConstants`, `WalkConstants`, `PolicyConstants`,
`GrantsConstants`, `AssuranceConstants`, `SecretsConstants`). TLC evaluates both kinds; the
hypotheses of `ListenerProofs` on tunnels and daemons (below) are plain of the instance. They say
that bounds are naturals, those of the code not zero, that sets which are counted are finite, that
tables of constants are functions on what they are tables of, that documents, rules,
specifications and calls have their shape, and that the value that stands for nothing is nobody's.
Where a theorem excludes a fault, it is named below.

**`SessionLeaseProofs`** (3013 obligations), leases and what a run is admitted with. Of the leases
none of the invariants is inductive alone; `IInv` is their conjunction with four facts of the
tables:

* `TypeOK`, and `VacantHasNoHolder` (the schema's CHECK): only a HELD lease has a holder;
* `MintedInOrder`: exactly the ids up to the counter name runs, whose epochs never exceed
  their session's, so a new run overwrites nothing and a new epoch is above every run's;
* `ActiveRunIsCurrent`: an active run is under the current tenure, in its holder's hands;
  every action that ends a tenure must reap with the right bound to keep it;
* `TenureOwner`: every run ever admitted under the current epoch of a held lease is its
  holder's, released ones included; it is what makes `EpochHasOneWriter` inductive, for an
  admission by the holder meets earlier, ended runs of the same epoch;
* `RecordsAreMinted`: records name minted runs, so a new one is bound to no old key; it
  makes `KeyAdmitsOnce` inductive.

Theorems: `TypeCorrect`, `ActiveRunsAreFenced`, `OneWriterPerEpoch`, `OneAdmissionPerKey`;
the action properties `TenuresAdvance` and `GrantsAreUsable` (a replayed grant needs
`KeyAdmitsOnce`: the record found is the one its run was admitted under, so the sessions
agree); and `Refinement`, along `NextRefines`: each action is a step of `FencedSession` or a
stutter, a restart being a step that revokes every writer at once.

`ExtensionOnlyNarrows` (`ExtensionNarrows`) is about `Policy`, for any sources and rules.
`PolicyInv` only says that what is in force is the composition of a chain. The argument is in the
lemmas about composition and evaluation: a chain flattens to its profiles in order, the root last;
evaluation takes the first rule that matches or cannot be evaluated, and the rules an extension
puts before its root's all deny, so they deny or leave the question to what follows; its
post-conditions leave an effect or deny, and a denial is never undone. `AuthorityIsWithinTerms`
(`AuthorityStaysWithinTerms`) is about `Grants` with `Capability`. `GrantsInv` is
`CoveredByTerms`: each grant of an active run, as stored and read back, is contained in a
capability of every term of its admission, and whatever was narrowed or delegated from it in the
grant. It rests on containment being transitive and implying permission, on what minting and
minimising produce being contained in what they are made of, on text read back being what was
written, and on the arithmetic of a patch (the bytes the decision counts are those the broker's
splice leaves).

**`EnvironmentProofs`** (3293 obligations). Two invariants. `EInv` is the store's types,
`RecordsHaveRuns`, `RoutesHaveRuns` (a route keeps its run while it reclaims another's
environment), `MintedInOrder`, `ReadyRunIsActive` and `OneLivePerRun`. Every action is first shown
to do to the store one of the few things `StoreMoves` allows (a live record moves within its run,
or a new one is minted for an active run without a live one; a run that ends leaves no READY
record), and the invariant and three theorems follow from that alone: `NoReadyWithoutRun`,
`OneEnvironmentPerRun` and `EndedIsForEver`. Nothing is used of the broker, so they hold whatever
it, the runtime and the deadlines do.

`BInv` relates the records to the broker and the runtime. It turns on `Clear(e)`: nothing of e is
in the runtime, on its way there or being made, late creations apart. `Clear` is stable for every
environment that is not being prepared, which is why a stale answer, listing or plan that implied
it still does when it is used. `BInv` has, per handle, `HandleOK`: its operation fits its
exchange, what it was answered is so, what it read before a listing is as the listing says
(`Knows`), and a start's reconciliation still owes, or has cleared, everything of an earlier
incarnation (`Sweeps`); that no two handles prepare one environment (`Apart`); how far the
broker's job has come (`Serves`, `Makes`, `Removes`); and `Unminted`, `EndedClear`, `Current`,
`DownIdle`. Theorems: `EnvironmentTypes`, `EndedTellsTheTruth` (`EndedIsGone`), `RecordsCover`
(`RecordsCoverTheRuntime`), whose bound is a count: the live records, with the handles that have
counted and not minted yet, stay below `MaxLive` plus the handles; and `StartSweeps`
(`StartSweepsAll`).

**`AuditLogProofs`** (5503 obligations), what is on the record. `AuditLog` is for any number of
handles, records and batches, under `NoWaiterAtFault`: one handle, whatever fails and whenever
(the server), or several of which none waits for the writer while another's write fails. Without
it the statement is false (finding 1). `StoreIsSound` alone does not survive a step, since it does
not say what is being written. `IInv` adds:

* `MemoryIsTheProcess`, `RecoveryIsInStep`: a process that is down or recovering has opened no
  handle, and a recovery has written exactly what it counts;
* `WriterIsHeld`, `HandlesAreInStep`: the mutex is the writing handle's, and what it writes
  continues the chain where the file ends;
* `PlaceIsTheEnd`: whoever can still take the writer finds the file ending at its place.  A failed
  write breaks that, but poisons, and by the hypothesis nobody waits beside it;
* `DiskCovers`: the writer's place and every answer are on disk.

Theorems: `NoFaultLooksLikeTampering` (`StoreIsSound`), `RecoveryIsExact`, and
`LogImplementsTrail`, the refinement of `AuditTrail`.

`EventsStayAccounted` (`EventsAreAccounted`) is about `Server`, for any peers, queue, backlog and
window. The property is an equation between counts, of events that happened and of those written,
counted, queued, held and lost; `ServerInv` adds `BacklogPends` and `JobsAreAwaited` (each
connection waits in one place, with the one job it sent) and `WorkerStops` (the worker stops for
the store alone, and takes its queue along), without which a queue that is dropped could not be
balanced.

`SecretsStayKept` (`SecretsAreKept`) is about `Secrets`, for any documents, values, rotations and
outputs. `SecretsInv` has, beside the three parts of the property: `OperatorsOwn` and
`MemoryIsOfConfig` (what is in memory names entries that can be read, and indexes only what is
long enough), `RecordsAreRows`, `UsesAreUses`, `OnlyTheLastIsServed` (the worker is busy with the
last use only, and only that one has not read its value) and `ConsumersAreIndexed` (the value of a
launch that runs is the index's, unless a later use of its handle read another). Half of the proof
is about `Redact`: the spans that matched are merged until none touches another, merged spans
cover exactly what matched, and what is written between and for them has no value in it. The last
uses that a placeholder's words are told apart from those of values and outputs (`IsPlain`).

**`WorkloadProofs`** (4198 obligations), for any number of launches and environments and every
set of faults.  The notion the invariant turns on is `Finished(i)`: nothing of launch i runs, and
nothing that is still on its way can execute it, neither a start at the socket nor the broker's
job nor a thread that waits for its word.  Every answer, row and use that says "it did not run" must
imply it, and stay true while the broker goes on for nobody.  `IInv`:

* `TableIsInStep`: the supervisor's table holds each launch once, and exactly those with a slot;
* `RowsAreInStep`: launches are minted in order, each under a key of its own and in an environment
  that was prepared, and of an unminted one there is nothing anywhere;
* `ExchangeIsInStep`, `StagesAreInStep`, `HomesAreTheirs`: worker, exchange, job, thread, slot and
  container agree on how far each launch has come and where;
* `AnswerIsTrue`, `SettlementIsTrue`, `RowsAreTrue`: what was heard, what was concluded from it,
  and what is recorded are so; the three are needed one after the other, for between any two the
  broker moves;
* `OneIsOver`: of two launches of one environment, one is finished.

The broker's and the world's twenty-one actions leave the rows alone (`BrokerKeepsRows`) and keep
a finished launch finished; the authority's leave the threads alone (`AuthorityKeepsStages`), so
each group is shown to keep the other's half once. Theorems: `WorkloadsAreApart`
(`NoWorkloadMeetsAnother`), `UseIsTrue` (`UseTellsTheTruth`), and `LaunchesImplementAtMostOnce`: a
launch is `AtMostOnce`'s intent, an execution its effect, a settlement or a start of the authority
its record, and everything else a stutter.

`EndingsAreCollected` (`EndingIsNotLost`) is for runtimes and connections that answer
(`AnswersArrive`: no `LOSE`, no `UNSURE`; an ending nobody heard of is UNKNOWN in any case), and
any restarts, deaths and vanishing containers. `CollectInv`: a launch the authority `CountsOn`,
because it is parked, waited for or just started under the present broker, has a slot that no
start, judging thread or eviction takes (`EndingsAreKept`); a launch is asked for at the
generation it started in (`GenerationsAreKnown`); whatever says UNKNOWN has its reason
(`UnknownHasReason`). The step that matters is `Reserve`, which evicts the oldest ending that has
grown old: nothing counted on has, because the worker collects before the next launch
(`Collected`). The first attempt at this proof failed there: the model had let a launch come
before the collecting pass, and with two parked launches, one more than the run has, TLC shows an
ending lost by it. The code never does that, and the model no longer does.

**`NetHttpProofs`** (1650 obligations), for any URLs, addresses, budgets, verdicts of the policy,
lengths of a chain, and every fault but the worker that stands still (finding 4).  `IInv`:

* `ChainIsInStep`: the chain held in memory and the ledger agree, what was visited is pinned, and a
  credential stays with its first origin; `LinkIsInStep`: the answer awaited is this hop's and says
  what its exchange came to;
* `KeysAreApart`; `JobsAreInStep`: nothing is received that a job did not send, and its marker
  comes first;
* `AuthorisedWasDecided`, `PinsAreOne`: over what is under way at the broker and what has arrived,
  not only over what has arrived, for the broker goes on after its authority died;
* `RowsAreTrue`: a row that says nothing was sent is about a job that is over;
* `UsesAreCounted`, `ChargesAreWithin`: counters and budgets over all rows.

Theorems: `ReachesWhatWasDecided`, `CredentialsAreAccounted`, `BudgetIsNotRefilled`, and
`HopsImplementAtMostOnce`, hop by hop.

**`ToolInvokeProofs`** (3903 obligations), for every operation, any number of changes by the
writer and every fault. `IInv` (theorem `InvocationInvariant`) speaks of every namespace in
`onDisk`, since a power cut may leave any of them:

* `Disk(s)`: no object of s is lost or half-written (`Sound`), the ledger's outcome is true in s
  (`Truth`), and s is no further than the job has come (`Traced`);
* `Typed`, `Control`, `Placed`: invocation, exchange, broker's job and staging row are in step;
* `Doing`: what the job knows of the namespace that is: what it prepared, what its effect left
  where, what it proved of the target before it removes anything;
* `Reported`: what the authority has been told of the directory is so.

An answer is true only because of what `Traced` and `Doing` say of the places before it, so none
of the three properties is inductive without all of it. Theorems: `WorkspaceKept`
(`WorkspaceIsWhole`), `OutcomeTrue` (`OutcomeTellsTheTruth`), `GivenUpGone` (`GivenUpMeansGone`).

`HandedOffWasThere` (`HandedOffWasAtItsPath`) is about `PathWalk`, for any tree and path.
`PathInv`: `GoneIsBroken` (the names that no longer bind what the walk opened are those in `gone`)
and `BreakIsAhead`: if at no instant so far the whole chain stood, one of the broken names is
still to be verified, so a walk that ends has seen an instant at which it stood.

**`ListenerProofs`** (1950 obligations), what the daemons do at their sockets.

* `EgressTunnels`, for finitely many connections and any grant of naturals (`EgressConstants`).
  The budget is a sum over the connections, which is counted as the cardinality of the set of
  bytes in hand, so that taking and writing are unions and differences of finite sets.
  `BudgetIsCovered` needs `LanesAreFresh` (a tunnel begins with empty hands) and `InHandIsBounded`
  (what is in hand is finite); `TunnelsAreChecked` has each check behind the stage after it.
  The same count, of the bytes of writes that have looked, is what `ClosingStopsTheBytes` is about:
  a write moves bytes from it to the socket, and after closing no look adds to it.
  Theorems: `BudgetIsKept` (`BudgetHoldsAtTheSocket`) and `ClosingStopsTheBytes`
  (`ClosedStartsNoWrite`).
* `SocketClaim`, for any set of daemons that does not hold the string `NOBODY`.
  `ServingIsReachable` is inductive with `LockIsHeld` (from the lock on, whoever touches the name
  holds the lock) and `BoundIsOwn` (a bound name is the binder's before it listens too). Theorem:
  `ServerKeepsItsName`.
* `PrivateChannel`, for every order and any number of turns and broker incarnations. `ChannelInv`
  adds to the types `BrokerIsInStep` (how far the broker is says whether it had an effect),
  `ServedOnce` (a connection is served once, has an effect only when everything was sent, and its
  answer tells which) and `RecordIsFinal` (what is recorded as failed never left whole or was
  refused). `ProtocolAgrees` rests on `BrokerMessages` alone: for every order both daemons agree on
  kind and descriptors, and the authority accepts every result. Theorem: `ConclusionsAreTrue`
  (`ConcludesTheTruth`).

**`HostProofs`** (2550 obligations), what the daemons take of their host.

* `HostProcess`, any processes, keys, table size and lives. `PInv`: `InvocationIsInStep`,
  `JobIsInStep`, `ProcessIsInStep` (row, job, table and kernel agree on how far a process has
  come, a helper whose announcement was late included) and `KeysAreSpent`. Theorem:
  `LaunchRecordsAreTrue` (`LaunchRecordTellsTheTruth`).
* `ExecWalk`, any tree and whatever other uids do. `WalkStands`: the directories on the stack are
  trusted and each still binds the next; `FileStands`: so does the file, with the bytes hashed.
  Both are stable because only root or the authority's uid can write there. Theorem:
  `IdentityHolds` (`IdentityIsStable`).
* `Deployment`, any flags and restarts. `AuthorityIsAdmitted` and `BrokerIsAdmitted` (a running
  daemon has passed its own checks with the flags it has), `ExchangeIsMutual` (an open channel
  passed both daemons' checks of the other). Theorem: `SeparationHolds`
  (`SeparationIsAcknowledged`).
* `Assurance`, any configuration, directories and facts, any number of changes by root and
  judgings. `AskedIsJudged` (what was asked for last is the bound directory, as the authority judged
  it then), `JudgingIsOfOne` (nothing is judged before there is a container) and `PassedIsSo` (a
  control, or a part of the peers, that passed did hold at a moment of this judging). Theorem: `AdmittedIsMeasured` (`AdmittedWasMeasured`).

Every invariant and action property of the passing runs is stated by a theorem; `EndingIsNotLost`
of `endings` is an instance of what `EndingsAreCollected` states of `Workload`. `TypeCorrect`,
`OneWriterPerEpoch`, `TenuresAdvance`, `EndedIsForEver`, `EnvironmentTypes` and
`InvocationInvariant` are proved only; `ProtocolAgrees` is a part of `ConcludesTheTruth`.

Inductions over data (the length of a chain of profiles, the spans of an output, the edits of a
patch, the components of a path) are not done with the library's induction theorems, which the
provers cannot instantiate. They are done as the absence of a least counterexample in a set of
naturals, or avoided by stating a fact of all prefixes at once; recursive functions are unfolded
by a lemma each.

**Only model-checked** is liveness: `AuthorityServes`, `LaunchIsSettled`, `TargetEnds`,
`RequestEnds` (and `PoisonedServerStops`, which is violated). Fairness and ENABLED are outside
what the prover can do.

## 7. Not modelled

* Of the store: SQLite, migration, permissions and the mapping of rows to messages. Each module
  has its tables as variables, and their indexes and triggers as guards and properties. The first
  creation of the two store files is in a single step: a crash between them leaves a layout that
  every start refuses with a message naming the missing file (`state/files.rs:279`).
* Parsing and formatting: the protocol's encoding, YAML, CONNECT requests and ClientHellos,
  HTTP responses, TLS, the probe's reading of `/proc`, the runtime's command lines.  Their
  verdicts are nondeterministic inputs of the modules that use them.
* The hardening system calls, the relay (a copier whose bytes the tunnels count), the command
  line tool, the Python runtime (generated classes), evaluations and gates.
* Secrets: the keychain's and age's own input and output, and the broker's streaming redactor.  The
  shapes of credentials are a set of words.  What a use costs and when it is counted is in
  `NetHttp` and `Workload`.
* `attenuate` and `delegate` are in `Grants` as the capability library offers them to a holder; the
  authority does not call them yet.
* `ExecWalk` assumes that no other uid holds a descriptor open for writing on a file it could no
  longer open.  `PathWalk` allows what the code cannot see: a name that
  was taken away and given back while the resolution ran.
* `Assurance` lets one aspect deviate at a time: verdicts on different controls are independent
  of each other, and a conclusion only counts those that did not pass.
* In the two-handle instance of `Environment` containers do not vanish and nothing dies; the
  liveness of environment operations is not checked.
* Run taint and the rows that record a resolution; captured output of host processes.
