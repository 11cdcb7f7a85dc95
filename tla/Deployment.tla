----------------------------- MODULE Deployment -----------------------------
(***************************************************************************)
(* The two daemons as an operator deploys them: what each asks of its own  *)
(* command line, configuration file and host before it serves, what each   *)
(* asks of the other when they meet, and what the pair may then do.  Each  *)
(* daemon sees only its own flags and its own uid; that the two together   *)
(* keep the runtime, the authority, the broker and the workloads apart is  *)
(* a fact of the composition, over restarts of either with other flags.    *)
(***************************************************************************)
EXTENDS Naturals, Sequences, SequencesExt

CONSTANTS
    AuthorityLines,     \* what an authority is started with: [uid, stateOwner, args, sandbox]
    BrokerLines,        \* what a broker is started with: [uid, args]
    Uids,               \* the numeric uids; a value that is none of them is a name
    MaxUids,            \* MAX_ALLOWED_UIDS
    Hosts,              \* what the kernel reports: records, see WindowClosed and SwapProtected
    Ancestry,           \* a cgroup |-> the cgroups from it up to the root
    ROOT,               \* the uid no broker runs as
    SANDBOX_UID, RELAY_UID,
    None,
    MaxStarts           \* bound: starts of either daemon

VARIABLES
    authority,   \* [uid, config] of the running authority, or None
    broker,      \* [uid, config] of the running broker, or None
    channel,     \* an exchange is open between the two
    env,         \* what the exchange prepared: [network, bound, hygiene], or None
    worker,      \* the exchange's credential worker: [swappable], or None
    starts

deploymentVars == <<authority, broker, channel, env, worker, starts>>

DeploymentInit ==
    /\ authority = None /\ broker = None /\ channel = FALSE
    /\ env = None /\ worker = None /\ starts = 0

-----------------------------------------------------------------------------
(* A command line: each flag given |-> the values it was given, in order.  *)

Given(args, flag) == flag \in DOMAIN args
Values(args, flag) == IF Given(args, flag) THEN args[flag] ELSE <<>>
Value(args, flag) == IF Given(args, flag) THEN Head(args[flag]) ELSE None
TakesUid(args, flag) == ToSet(Values(args, flag)) \subseteq Uids
TakesAbsolute(args, flag) == Value(args, flag) \in {None, "/absolute"}

-----------------------------------------------------------------------------
(* The authority's start-up.                                               *)

\* Parsed::flag: a peer's uid and a hygiene profile are repeatable, each value
\* once; a policy file and a ceiling entry too; every other flag is given once.
ParseServeArgs(args) ==
    /\ \A f \in DOMAIN args \ {"--allow-uid", "--policy-file", "--ceiling", "--allow-unaccepted-hygiene-profile"} :
         Len(args[f]) = 1
    /\ \A f \in {"--allow-uid", "--allow-unaccepted-hygiene-profile"} : IsInjective(Values(args, f))
    /\ TakesUid(args, "--allow-uid") /\ TakesUid(args, "--broker-uid")
    /\ Len(Values(args, "--allow-uid")) <= MaxUids

\* A shipped pack, or files and the profile to compose, never both.
PolicyInput(args) ==
    \/ Given(args, "--policy-shipped") /\ ~ Given(args, "--policy-file") /\ ~ Given(args, "--policy-profile")
    \/ ~ Given(args, "--policy-shipped") /\ Given(args, "--policy-file") /\ Given(args, "--policy-profile")

\* finish: --broker-socket and --broker-uid go together, a sandbox configuration
\* needs a broker, and a kept hygiene profile needs a sandbox configuration.
FinishAuthority(args) ==
    /\ {"--state-dir", "--socket", "--allow-uid", "--mode"} \subseteq DOMAIN args
    /\ \A f \in {"--socket", "--broker-socket", "--secrets-file", "--sandbox-config"} : TakesAbsolute(args, f)
    /\ PolicyInput(args)
    /\ Given(args, "--broker-socket") <=> Given(args, "--broker-uid")
    /\ \A f \in {"--allow-shared-broker-uid", "--sandbox-config"} :
         Given(args, f) => Given(args, "--broker-uid")
    /\ Given(args, "--allow-unaccepted-hygiene-profile") => Given(args, "--sandbox-config")

\* What of it this module follows, with what the sandbox file says.
ServeConfig(args, sandbox) ==
    [peers |-> ToSet(Values(args, "--allow-uid")), brokerUid |-> Value(args, "--broker-uid"),
     ownUidPermitted |-> Given(args, "--allow-authority-uid"),
     sharedBroker |-> Given(args, "--allow-shared-broker-uid"),
     sandbox |-> IF Given(args, "--sandbox-config") THEN sandbox ELSE None,
     hygiene |-> Given(args, "--allow-unaccepted-hygiene-profile")]

\* The [workspace] table names a quota or unverified_evidence, never both, and
\* an [egress] table goes with PROXY_ONLY alone.
ParseSandbox(s) ==
    /\ (s.quota # None) # s.unverified
    /\ s.egress <=> s.network = "PROXY_ONLY"

\* A profile whose decision record is not accepted is kept only in the evidence
\* harness's environment.
WithHygieneProfiles(s, hygiene) == hygiene => s.unverified

AttachSandbox(c) ==
    c.sandbox # None => ParseSandbox(c.sandbox) /\ WithHygieneProfiles(c.sandbox, c.hygiene)

\* The authority's own uid among the peers, or a broker uid that is the
\* authority's or a peer's, is refused unless acknowledged; one process cannot
\* own the socket directory and not the state directory.
AuthorityAdmits(uid, stateOwner, c) ==
    /\ uid \in c.peers => c.ownUidPermitted
    /\ c.brokerUid \in c.peers \cup {uid} => c.sharedBroker
    /\ stateOwner = uid

StartAuthority(line) ==
    LET c == ServeConfig(line.args, line.sandbox) IN
    /\ authority = None /\ starts < MaxStarts
    /\ ParseServeArgs(line.args) /\ FinishAuthority(line.args)
    /\ AuthorityAdmits(line.uid, line.stateOwner, c) /\ AttachSandbox(c)
    /\ authority' = [uid |-> line.uid, config |-> c]
    /\ starts' = starts + 1
    /\ UNCHANGED <<broker, channel, env, worker>>

-----------------------------------------------------------------------------
(* The broker's start-up.                                                  *)

\* Every flag is given once.  A test trust anchor is admitted only with the
\* evidence's fixture resolver.
ParseBroker(args) ==
    /\ \A f \in DOMAIN args : Len(args[f]) = 1
    /\ {"--socket", "--authority-uid"} \subseteq DOMAIN args /\ TakesUid(args, "--authority-uid")
    /\ \A f \in {"--socket", "--allow-evidence-egress", "--allow-evidence-trust"} : TakesAbsolute(args, f)
    /\ Given(args, "--allow-evidence-trust") => Given(args, "--allow-evidence-egress")

\* Nothing that reduces the assurance is permitted unless the operator said so.
Acknowledged(args, flag) == Given(args, flag)
BrokerConfig(args) ==
    [authorityUid |-> Value(args, "--authority-uid"),
     sharedPermitted |-> Acknowledged(args, "--allow-shared-authority-uid"),
     traceable |-> Acknowledged(args, "--allow-traceable-workers"),
     swappable |-> Acknowledged(args, "--allow-swappable-workers"),
     evidenceTopology |-> Acknowledged(args, "--allow-evidence-topology"),
     unverifiedWorkspace |-> Acknowledged(args, "--allow-unverified-workspace"),
     evidenceEgress |-> Given(args, "--allow-evidence-egress")]

\* A workload's or a relay's uid inside its environment is the same host uid.
SandboxIdentityClash(own, c) == {own, c.authorityUid} \cap {SANDBOX_UID, RELAY_UID} # {}

\* suid_dumpable is read only for an execute-only binary; 1 starts even one of
\* those dumpable by its own uid.
ReadPosture(h) ==
    [scope |-> h.scope, executeOnly |-> h.owner = ROOT /\ ~ h.readable,
     suid |-> IF h.owner = ROOT /\ ~ h.readable THEN h.suid ELSE "not-read"]

WindowClosed(p) == p.scope \in {"1", "2", "3"} \/ (p.executeOnly /\ p.suid \in {"0", "2"})

\* No swap device, or a cgroup from the process's own up to the root that caps
\* swap at zero.  An absolute path with `..` has no ancestry.
SwapProtected(h, cgroup) == h.swapTotal = "0" \/ Ancestry[cgroup] \cap h.zeroSwap # {}

\* admit: the decision, from the facts.
BrokerAdmits(own, c, posture) ==
    /\ own = c.authorityUid => c.sharedPermitted
    /\ ~ SandboxIdentityClash(own, c)
    /\ WindowClosed(posture) \/ c.traceable

\* deployment: the facts.  A binary that cannot be found says nothing in favour.
DeploymentFits(own, c, h) ==
    BrokerAdmits(own, c,
        IF h.located THEN ReadPosture(h) ELSE [scope |-> None, executeOnly |-> FALSE, suid |-> "not-read"])

\* The evidence's fixture and trust files load, and the binary an exchange
\* worker will be started from is still the one that runs.
NetworkReady(c, h) == (c.evidenceEgress => h.fixtures) /\ ~ h.replaced

StartBroker(line) ==
    LET c == BrokerConfig(line.args) IN
    /\ broker = None /\ starts < MaxStarts
    /\ ParseBroker(line.args)
    /\ line.uid # ROOT
    /\ \E h \in Hosts : DeploymentFits(line.uid, c, h) /\ NetworkReady(c, h)
    /\ broker' = [uid |-> line.uid, config |-> c]
    /\ starts' = starts + 1
    /\ UNCHANGED <<authority, channel, env, worker>>

-----------------------------------------------------------------------------
(* What ends: a daemon that stops takes the exchange with it.              *)

CloseExchange == channel' = FALSE /\ env' = None /\ worker' = None

StopAuthority == authority # None /\ authority' = None /\ CloseExchange /\ UNCHANGED <<broker, starts>>

StopBroker == broker # None /\ broker' = None /\ CloseExchange /\ UNCHANGED <<authority, starts>>

FinishExchange == channel /\ CloseExchange /\ UNCHANGED <<authority, broker, starts>>

-----------------------------------------------------------------------------
(* The two meet: each takes the other's uid from the kernel.               *)

\* perform: the listening socket's uid decides.
AuthorityTrusts == broker.uid = authority.config.brokerUid

BrokerTrustsAnyone == TRUE

\* serve: the connecting peer's uid decides, before anything is read.
BrokerTrusts == authority.uid = broker.config.authorityUid

Connect ==
    /\ ~ channel /\ authority # None /\ broker # None
    /\ authority.config.brokerUid # None
    /\ AuthorityTrusts /\ BrokerTrusts
    /\ channel' = TRUE
    /\ UNCHANGED <<authority, broker, env, worker, starts>>

\* Whether this broker builds the environment the authority's specification
\* describes: its topology and its workspace.
Admissible(s) ==
    /\ s.network = "NO_NETWORK" => broker.config.evidenceTopology
    /\ s.unverified => broker.config.unverifiedWorkspace

Prepare ==
    LET s == authority.config.sandbox IN
    /\ channel /\ env = None /\ s # None
    /\ Admissible(s)
    /\ env' = [network |-> s.network, bounded |-> ~ s.unverified, hygiene |-> authority.config.hygiene]
    /\ UNCHANGED <<authority, broker, channel, worker, starts>>

\* The host's facts are read at every hop, never cached: the start-up window
\* for the worker's binary, and for a credential the broker's memory and then,
\* once it runs, the worker's, which root may have moved to another cgroup.
AdmitsStart(h) == broker.config.traceable \/ WindowClosed(ReadPosture(h))

AdmitsCredential(h, cgroup) == broker.config.swappable \/ SwapProtected(h, cgroup)

CredentialHop(h, moved) ==
    /\ channel /\ worker = None
    /\ AdmitsStart(h) /\ AdmitsCredential(h, h.cgroup) /\ AdmitsCredential(h, moved)
    /\ worker' = [swappable |-> ~ SwapProtected(h, h.cgroup) \/ ~ SwapProtected(h, moved)]
    /\ UNCHANGED <<authority, broker, channel, env, starts>>

-----------------------------------------------------------------------------
DeploymentNext ==
    \/ \E line \in AuthorityLines : StartAuthority(line)
    \/ \E line \in BrokerLines : StartBroker(line)
    \/ StopAuthority \/ StopBroker \/ Connect \/ Prepare \/ FinishExchange
    \/ \E h \in Hosts : \E moved \in DOMAIN Ancestry : CredentialHop(h, moved)

DeploymentSpec == DeploymentInit /\ [][DeploymentNext]_deploymentVars

-----------------------------------------------------------------------------
(* Whenever the two daemons talk, every way in which the deployment is     *)
(* less than fully separated was acknowledged by each daemon it weakens:   *)
(* the same uid on both sides by both; a peer with the broker's uid or the *)
(* authority's by the authority; no daemon has a uid a workload or a relay *)
(* has inside its environment, although only the broker ever asks; and an  *)
(* environment without its bound, without its network isolation's proxy or *)
(* with an unaccepted profile stands only where both operators said so.    *)
SeparationIsAcknowledged ==
    channel =>
        LET a == authority.config
            b == broker.config IN
        /\ authority.uid = broker.uid => a.sharedBroker /\ b.sharedPermitted
        /\ broker.uid \in a.peers => a.sharedBroker
        /\ authority.uid \in a.peers => a.ownUidPermitted
        /\ {authority.uid, broker.uid} \cap {SANDBOX_UID, RELAY_UID} = {}
        /\ broker.uid # ROOT
        /\ env # None =>
             /\ ~ env.bounded => a.sandbox.unverified /\ b.unverifiedWorkspace
             /\ env.hygiene => ~ env.bounded /\ b.unverifiedWorkspace
             /\ env.network = "NO_NETWORK" => b.evidenceTopology
        /\ worker # None => (worker.swappable => b.swappable)
=============================================================================
