------------------------------ MODULE Assurance ------------------------------
(***************************************************************************)
(* What an execution environment is worth, measured.  The broker asks the  *)
(* container runtime for a container, reads the runtime's record of it     *)
(* from the host, checks the probe inside it byte for byte, has the probe  *)
(* measure from within, looks for the relay beside it and the proxy behind *)
(* the relay, and combines the verdicts; the authority, which pins and     *)
(* measures the workspace anew before every order, judges what comes back. *)
(* The runtime may build or report a container otherwise than it was told, *)
(* the probe may not be the pinned one, and root may remount, chown, add   *)
(* or stop things between any two steps.                                   *)
(*                                                                         *)
(* A control is one SandboxInvariant.  An aspect is one thing a control    *)
(* reads: a member of the runtime's record or something the probe tries.   *)
(* An aspect is right, WRONG, or UNKNOWN (absent, of another type, not     *)
(* readable).                                                              *)
(***************************************************************************)
EXTENDS Naturals, FiniteSets

CONSTANTS
    Settings,      \* operator configurations: [network, quota, authorityMember, brokerMember],
                   \* quota Absent for unverified_evidence, a membership Absent where unreadable
    Facts,         \* what a workspace directory's filesystem can say: records, see Capacity
    Dirs,          \* the directories that may stand at the workspace's path
    Beginnings,    \* the facts they begin with: functions from Dirs to Facts
    Private,       \* the authority's own directories: [device, required], device Absent where
                   \* it cannot be looked at
    MaxWord,       \* the largest count a machine word holds
    Absent,
    MaxFaults,     \* bound: deviations of the runtime and changes by root
    MaxJudgings    \* bound: judgings of one environment

VARIABLES
    setting, path, dirs,    \* the configuration, the directory at the path, each directory's facts
    binding,                \* the directory the operator bound as the run's workspace
    spec,                   \* what the authority asked for last: [workspace, bound], or Absent
    container,              \* the container and what is beside it (Containers), or Absent
    kind, reached,          \* the judging under way and the step it has reached
    checks,                 \* the verdicts so far, one per control and one per part of the peers'
    observed,               \* the WorkspaceFacts the probe reported, or Absent
    admitted,               \* what the authority (or, for work, the broker) concluded
    witnessed,              \* what held at some moment of this judging
    faults, judgings

assuranceVars ==
    <<setting, path, dirs, binding, spec, container, kind, reached, checks, observed, admitted,
      witnessed, faults, judgings>>

-----------------------------------------------------------------------------
(* What each control reads.                                                *)

MountAspects ==
    {"Mounts", "HostConfig.Mounts", "Binds", "VolumesFrom", "VolumeDriver", "Tmpfs"}

SocketAspects == {"Mounts.Source", "HostConfig.Mounts.Source", "Binds.Source"}

NetworkAspects == {"NetworkMode", "Networks", "PortBindings", "PublishAllPorts", "ExtraHosts"}

PrivilegeAspects == {"Privileged", "SecurityOpt", "MaskedPaths", "ReadonlyPaths"}

LimitAspects ==
    {"PidsLimit", "Memory", "MemorySwap", "NanoCpus", "OomScoreAdj", "Ulimits", "OomKillDisable"}

LabelAspects == {"Labels"}

RunningAspects == {"RestartPolicy", "Status"}

ProxyAspects == {"Env"}

RecordAspects ==
    [HOST_IMAGE_PINNED |-> {"Image", "Config.Image"},
     HOST_NOT_PRIVILEGED |-> PrivilegeAspects,
     HOST_USER_NON_ROOT |-> {"User"},
     HOST_ROOT_READ_ONLY |-> {"ReadonlyRootfs"},
     HOST_CAPABILITIES_DROPPED |-> {"CapDrop", "CapAdd"},
     HOST_NO_NEW_PRIVILEGES |-> {"SecurityOpt"},
     HOST_SECCOMP_PROFILE |-> {"SecurityOpt"},
     HOST_PID_NAMESPACE_PRIVATE |-> {"PidMode"},
     HOST_IPC_NAMESPACE_PRIVATE |-> {"IpcMode"},
     HOST_UTS_NAMESPACE_PRIVATE |-> {"UTSMode"},
     HOST_USERNS_NOT_HOST |-> {"UsernsMode"},
     HOST_CGROUP_NAMESPACE_PRIVATE |-> {"CgroupnsMode"},
     HOST_NETWORK_ISOLATED |-> NetworkAspects,
     HOST_MOUNTS_EXACT |-> MountAspects,
     HOST_NO_RUNTIME_SOCKET |-> SocketAspects,
     HOST_NO_DEVICES |-> {"Devices", "DeviceCgroupRules", "DeviceRequests"},
     HOST_RESOURCE_LIMITS |-> LimitAspects,
     HOST_LABELS_EXACT |-> LabelAspects,
     HOST_RUNNING |-> RunningAspects,
     HOST_PROXY_ENVIRONMENT |-> ProxyAspects]

\* `empty` takes an absent member for an empty one, and some members may be
\* absent or null by rule: for these UNKNOWN means of another type.
RelayAspects == {"relay.Config", "relay.Mounts", "relay.Limits", "relay.Security", "relay.Namespaces"}

IdentityAspects ==
    [CONTAINER_UID_GID |-> {"Uid", "Gid", "Groups"},
     CONTAINER_CAPABILITIES_EMPTY |-> {"CapInh", "CapPrm", "CapEff", "CapBnd", "CapAmb"},
     CONTAINER_NO_NEW_PRIVILEGES |-> {"NoNewPrivs"},
     CONTAINER_SECCOMP_FILTER |-> {"Seccomp"},
     CONTAINER_SECCOMP_PROFILE_ACTIVE |-> {"process_vm_readv", "ptrace"}]

HostilityAspects ==
    [CONTAINER_KEYRING_BLOCKED |-> {"keyctl"},
     CONTAINER_MOUNT_BLOCKED |-> {"mount", "umount", "pivot_root"},
     CONTAINER_SETNS_BLOCKED |-> {"setns"},
     CONTAINER_UNSHARE_BLOCKED |-> {"unshare"},
     CONTAINER_PROC_RESTRICTED |-> {"sysrq", "kcore", "/proc/sys", "/sys"}]

PlaceAspects ==
    [CONTAINER_ROOT_READ_ONLY |-> {"/", "/.direwolf-probe-write"},
     CONTAINER_PID_NAMESPACE_PRIVATE |-> {"/proc/1/cmdline"},
     CONTAINER_DEVICES_MINIMAL |-> {"/dev", "/dev/pts"},
     CONTAINER_MOUNTS_EXPECTED |-> {"mountinfo"},
     CONTAINER_NO_RUNTIME_SOCKET |-> {"mountinfo", "sockets"}]

LimitsWithin ==
    [CONTAINER_RLIMITS |-> {"nofile", "nproc", "fsize", "core"},
     CONTAINER_CGROUP_LIMITS |-> {"memory.max", "memory.swap.max", "pids.max", "cpu.max"}]

NetworkWithin ==
    [CONTAINER_NETWORK_ISOLATED |-> {"interfaces", "routes_v4", "routes_v6", "vsock"},
     CONTAINER_PROXY_REACHABLE |-> {"proxy"},
     CONTAINER_RAW_SOCKETS_REFUSED |-> {"raw_v4", "raw_v6", "packet", "ping"}]

\* Each attempt at a fixed address is one aspect; an attempt the budget leaves
\* no time for is UNKNOWN, and the first that succeeds decides.
AttemptsWithin ==
    [CONTAINER_DIRECT_EGRESS_REFUSED |-> {"udp", "tcp", "other_ports"},
     CONTAINER_DIRECT_DNS_REFUSED |-> {"dns_udp", "dns_tcp"}]

WorkspaceWithin ==
    [CONTAINER_WORKSPACE_WRITABLE |-> {"write"},
     CONTAINER_WORKSPACE_GROUP_INHERITED |-> {"directory", "file"},
     CONTAINER_TMP_WRITABLE |-> {"tmp_write"},
     CONTAINER_TMP_FRESH |-> {"tmp_fresh"}]

ProbeAspects ==
    <<IdentityAspects, HostilityAspects, PlaceAspects, LimitsWithin, NetworkWithin, AttemptsWithin,
      WorkspaceWithin>>

RecordControls == DOMAIN RecordAspects

ProbeInvariants == UNION {DOMAIN ProbeAspects[i] : i \in DOMAIN ProbeAspects}

AspectsOf(control) ==
    IF control \in RecordControls THEN RecordAspects[control]
    ELSE LET i == CHOOSE i \in DOMAIN ProbeAspects : control \in DOMAIN ProbeAspects[i] IN ProbeAspects[i][control]

WorkspaceControls == {"HOST_WORKSPACE_IDENTITY", "HOST_WORKSPACE_OWNERSHIP", "HOST_WORKSPACE_CAPACITY"}

HostControls ==
    RecordControls \cup WorkspaceControls
        \cup {"HOST_PROBE_DIGEST", "HOST_PROXY_RELAY", "HOST_RELAY_DIGEST"}

Controls == HostControls \cup ProbeInvariants

\* HOST_PROXY_RELAY is made of parts that are looked at one after the other.
PeerParts(network) ==
    {"peer.relays", "peer.setups", "peer.proxy"}
        \cup (IF network = "PROXY_ONLY" THEN {"peer.record"} ELSE {})

\* What is looked at in one step.
Observations == (Controls \ {"HOST_PROXY_RELAY"}) \cup PeerParts("PROXY_ONLY")

ProxyOnly(control) == control \in {"HOST_RELAY_DIGEST", "CONTAINER_PROXY_REACHABLE"}

WorkspaceContract(control) ==
    control \in {"HOST_WORKSPACE_OWNERSHIP", "HOST_WORKSPACE_CAPACITY", "CONTAINER_WORKSPACE_GROUP_INHERITED"}

RequiredInvariants(network, bounded) ==
    {c \in Controls : /\ network = "PROXY_ONLY" \/ ~ ProxyOnly(c)
                      /\ bounded \/ ~ WorkspaceContract(c)}

\* A wrong part fails, an unknown one leaves the whole unobservable.
Verdict(control, aspect, how) ==
    IF aspect \notin AspectsOf(control) THEN "PASS" ELSE IF how = "WRONG" THEN "FAIL" ELSE "UNOBSERVABLE"

-----------------------------------------------------------------------------
(* The workspace: its owner, its group and its bound.                      *)

Capacity(f) ==
    IF f.unit = 0 \/ f.blocks = 0 \/ f.available > f.blocks THEN "Contradictory"
    ELSE IF f.unit * f.blocks > MaxWord THEN "Uncountable" ELSE "Bytes"

CapacityWithinQuota(bytes, quota) == bytes <= quota /\ bytes >= quota - quota \div 4

\* The device is that of no directory of the authority's own; one that must be
\* looked at and cannot be refuses too.
OnItsOwnDevice(device) ==
    \A p \in Private : IF p.device = Absent THEN ~ p.required ELSE p.device # device

\* The authority's measurement, before it asks for an environment.
WorkspaceJudge(f, quota) ==
    /\ f.owner \in {"root", "authority"}
    /\ f.group /\ f.mode
    /\ Capacity(f) = "Bytes"
    /\ CapacityWithinQuota(f.unit * f.blocks, quota)
    /\ OnItsOwnDevice(f.device)

WorkspaceBound(f, quota) == [quota |-> quota, capacity |-> f.unit * f.blocks, owner |-> f.owner]

WorkspaceOwnershipAnyOwner(f, bound) == IF f.group /\ f.mode THEN "PASS" ELSE "FAIL"

WorkspaceOwnership(f, bound) ==
    IF f.owner = bound.owner /\ f.owner # "workload" /\ f.group /\ f.mode THEN "PASS" ELSE "FAIL"

WorkspaceCapacity(f, bound) ==
    IF ~ (f.filesystemRoot /\ f.nosuid /\ f.nodev) THEN "FAIL"
    ELSE IF Capacity(f) = "Contradictory" THEN "UNOBSERVABLE"
    ELSE IF /\ Capacity(f) = "Bytes"
            /\ f.unit * f.blocks = bound.capacity
            /\ CapacityWithinQuota(f.unit * f.blocks, bound.quota) THEN "PASS" ELSE "FAIL"

\* What the probe says is mounted: which directory, and the facts of its root.
WorkspaceFacts(dir) == [identity |-> dir, root |-> dirs[dir]]

\* The three checks of the workspace as the container has it mounted.
WorkspaceChecks(facts) ==
    IF facts = Absent THEN [c \in WorkspaceControls |-> "UNOBSERVABLE"]
    ELSE LET owned == WorkspaceOwnership(facts.root, spec.bound) IN
    [HOST_WORKSPACE_IDENTITY |-> IF facts.identity = spec.workspace THEN "PASS" ELSE "FAIL",
     HOST_WORKSPACE_OWNERSHIP |->
        CASE spec.bound = Absent -> "UNOBSERVABLE"
          [] spec.bound # Absent /\ setting.brokerMember = Absent /\ owned = "PASS" -> "UNOBSERVABLE"
          [] OTHER -> IF setting.brokerMember = TRUE THEN owned ELSE "FAIL",
     HOST_WORKSPACE_CAPACITY |->
        IF spec.bound = Absent THEN "UNOBSERVABLE" ELSE WorkspaceCapacity(facts.root, spec.bound)]

-----------------------------------------------------------------------------
(* What really holds, now.                                                 *)

Contract(s) == IF s.quota = Absent THEN "UNVERIFIED_EVIDENCE" ELSE "BOUNDED"

Bounded == Contract(setting) = "BOUNDED"

Mounted == WorkspaceFacts(container.mount)

Holds(c) ==
    CASE c = "HOST_RUNNING" -> container.running /\ container.deviates \notin RunningAspects
      [] c = "HOST_PROBE_DIGEST" -> container.genuine
      [] c \in WorkspaceControls -> WorkspaceChecks(Mounted)[c] = "PASS"
      [] c = "peer.relays" -> container.relays = IF setting.network = "PROXY_ONLY" THEN 1 ELSE 0
      [] c = "peer.setups" -> ~ container.setup
      [] c = "peer.proxy" -> container.proxy = IF setting.network = "PROXY_ONLY" THEN "OPEN" ELSE "NONE"
      [] c = "peer.record" -> container.relays > 0 /\ container.deviates \notin RelayAspects
      [] c = "HOST_RELAY_DIGEST" -> container.relays = 1 /\ container.deviates # "relay.digest"
      [] c = "CONTAINER_PROXY_REACHABLE" ->
            container.relays = 1 /\ container.proxy # "NONE" /\ container.deviates # "proxy"
      [] c = "CONTAINER_WORKSPACE_GROUP_INHERITED" ->
            Mounted.root.group /\ container.deviates \notin AspectsOf(c)
      [] OTHER -> container.deviates \notin AspectsOf(c)

HoldsNow == IF container = Absent THEN {} ELSE {c \in Observations : Holds(c)}

-----------------------------------------------------------------------------
Verdicts == Observations \cup {"HOST_PROXY_RELAY"}

Unjudged == [c \in Verdicts |-> "UNOBSERVABLE"]

AssuranceInit ==
    /\ setting \in Settings
    /\ path \in Dirs /\ dirs \in Beginnings /\ binding = path
    /\ spec = Absent /\ container = Absent /\ kind = Absent /\ reached = "idle"
    /\ checks = Unjudged /\ observed = Absent /\ admitted = FALSE /\ witnessed = {}
    /\ faults = 0 /\ judgings = 0

\* Before every order the authority reopens the root by its path, which must still be the
\* directory the operator bound, and measures and judges it; an unverified_evidence workspace
\* is not judged and carries no bound.
Specifiable ==
    /\ path = binding
    /\ Bounded => WorkspaceJudge(dirs[path], setting.quota) /\ setting.authorityMember = TRUE

Specification ==
    [workspace |-> path,
     bound |-> IF Bounded THEN WorkspaceBound(dirs[path], setting.quota) ELSE Absent]

Ask ==
    /\ reached = "idle" /\ Specifiable
    /\ spec' = Specification /\ reached' = "asked"
    /\ UNCHANGED <<setting, path, dirs, binding, container, kind, checks, observed, admitted, faults, judgings>>

AllAspects ==
    UNION {AspectsOf(c) : c \in RecordControls \cup ProbeInvariants} \cup RelayAspects \cup {"relay.digest"}

\* A container as it stands: how it deviates, what it mounts and whether it runs; the relays
\* beside it, whether a setup container is left, and the broker's proxy: OPEN, WIDE where it
\* accepts but its directory is no longer the relay's alone, NONE where it does not accept on
\* the socket it bound.
Containers ==
    [deviates : AllAspects \cup {"nothing"}, how : {"WRONG", "UNKNOWN"}, mount : Dirs,
     genuine : BOOLEAN, relays : 0..2, setup : BOOLEAN, proxy : {"OPEN", "WIDE", "NONE"},
     running : BOOLEAN]

\* What a filesystem says of a directory is well formed, an operator's quota is a number, and
\* Absent is neither a container nor a bound.
AssuranceConstants ==
    /\ Beginnings \subseteq [Dirs -> Facts]
    /\ \A f \in Facts : f.unit \in Nat /\ f.blocks \in Nat
    /\ \A s \in Settings : s.quota \in Nat \cup {Absent}
    /\ Absent \notin Nat
    /\ Absent \notin Containers
    /\ Absent \notin [quota : Nat, capacity : Nat, owner : {"root", "authority"}]

\* The proxy is started, the runtime builds what the plan names, and its peer is connected;
\* the mount is of whatever stands at the path now.  One aspect may deviate, the probe may be
\* another, the setup may be left, and a relay that is withheld or does not start is not fatal.
Create ==
    /\ reached = "asked" /\ container = Absent
    /\ \E wrong \in SUBSET {"aspect", "probe", "setup", "peer"},
          deviates \in AllAspects \cup {"nothing"}, how \in {"WRONG", "UNKNOWN"} :
        /\ faults + Cardinality(wrong) <= MaxFaults
        /\ deviates = "nothing" <=> "aspect" \notin wrong
        /\ deviates = "nothing" => how = "WRONG"
        /\ container' =
             [deviates |-> deviates, how |-> how, mount |-> path, genuine |-> "probe" \notin wrong,
              relays |-> IF setting.network = "PROXY_ONLY" /\ "peer" \notin wrong THEN 1 ELSE 0,
              setup |-> "setup" \in wrong,
              proxy |-> IF setting.network = "PROXY_ONLY" THEN "OPEN" ELSE "NONE",
              running |-> TRUE]
        /\ faults' = faults + Cardinality(wrong)
    /\ kind' = "PREPARE" /\ reached' = "judging" /\ judgings' = judgings + 1
    /\ UNCHANGED <<setting, path, dirs, binding, spec, checks, observed, admitted>>

\* environment_measure and a workload's start: a READY environment is judged again, against a
\* specification made now.
JudgeAgain(again) ==
    /\ reached = "concluded" /\ container # Absent /\ judgings < MaxJudgings
    /\ Specifiable
    /\ spec' = Specification
    /\ kind' = again /\ reached' = "judging" /\ judgings' = judgings + 1
    /\ checks' = Unjudged /\ observed' = Absent /\ admitted' = FALSE
    /\ UNCHANGED <<setting, path, dirs, binding, container, faults>>

\* A workspace that cannot be specified any more is drift: nothing is asked of the broker
\* but the environment's end.
WorkspaceDrifted(again) ==
    /\ reached = "concluded" /\ container # Absent /\ judgings < MaxJudgings
    /\ ~ Specifiable
    /\ kind' = again /\ admitted' = FALSE /\ container' = Absent
    /\ UNCHANGED <<setting, path, dirs, binding, spec, reached, checks, observed, faults, judgings>>

\* A step of the judging; where the runtime does not do well what it is asked, a deviation.
Judging(step, well) ==
    /\ reached = step
    /\ well \/ faults < MaxFaults
    /\ faults' = IF well THEN faults ELSE faults + 1
    /\ UNCHANGED <<setting, path, dirs, binding, spec, container, kind, judgings, admitted>>

\* The runtime does not say its version, has no such record or cannot run the probe: a
\* preparation is taken down and a measurement drifts; a workload only fails, or is unknown.
RuntimeFails ==
    /\ \/ reached = "judging"
       \/ reached = "digested" /\ kind # "WORK" /\ checks["HOST_PROBE_DIGEST"] = "PASS"
    /\ faults < MaxFaults /\ faults' = faults + 1
    /\ reached' = "concluded" /\ admitted' = FALSE
    /\ container' \in {container, Absent} /\ (kind # "WORK" => container' = Absent)
    /\ UNCHANGED <<setting, path, dirs, binding, spec, kind, checks, observed, judgings>>

\* The runtime's record of the container, and whether it says that it runs.
Inspect ==
    /\ Judging("judging", TRUE)
    /\ checks' = [c \in Verdicts |->
                    IF c \notin RecordControls THEN checks[c]
                    ELSE IF c = "HOST_RUNNING" /\ ~ container.running THEN "FAIL"
                    ELSE Verdict(c, container.deviates, container.how)]
    /\ reached' = IF container.running /\ container.deviates # "Status" THEN "inspected" ELSE "stopped"
    /\ UNCHANGED observed

\* The probe's bytes, copied out and compared.  A copy may fail; nothing is
\* copied from a container that does not run.
ProbeDigest ==
    /\ \E read \in BOOLEAN :
        /\ Judging("inspected", read) \/ (Judging("stopped", TRUE) /\ ~ read)
        /\ checks' = [checks EXCEPT !["HOST_PROBE_DIGEST"] =
                        IF ~ read THEN "UNOBSERVABLE" ELSE IF container.genuine THEN "PASS" ELSE "FAIL"]
    /\ reached' = "digested" /\ UNCHANGED observed

\* What the probe answers of a control; the workspace's group it asks of the
\* kernel too, and the proxy through the relay.
ProbeVerdict(c) ==
    IF Holds(c) THEN "PASS"
    ELSE IF container.deviates \in AspectsOf(c) THEN Verdict(c, container.deviates, container.how)
    ELSE "FAIL"

\* What the runtime may hand over as the probe's report: how often it names
\* each control, and whether it says what is mounted.
Every == [c \in Controls |-> IF c \in ProbeInvariants THEN 1 ELSE 0]

Reports ==
    [names : {Every} \cup {[Every EXCEPT !["CONTAINER_UID_GID"] = n] : n \in {0, 2}}
                    \cup {[Every EXCEPT !["HOST_RUNNING"] = 1]},
     workspace : BOOLEAN]

\* A report names each of the container's controls at most once, and no other.
Decodes(report) == \A c \in Controls : report.names[c] <= Every[c]

\* The whole measurement: a control the report does not name is unobservable.
Reported(report) ==
    /\ observed' = IF report.workspace THEN Mounted ELSE Absent
    /\ checks' = [c \in Verdicts |->
                    IF c \in WorkspaceControls THEN WorkspaceChecks(observed')[c]
                    ELSE IF c \notin ProbeInvariants THEN checks[c]
                    ELSE IF report.names[c] = 0 THEN "UNOBSERVABLE" ELSE ProbeVerdict(c)]

\* Before work the probe only reads what is mounted.
WorkspaceNow ==
    /\ observed' = Mounted
    /\ checks' = [c \in Verdicts |->
                    IF c \in WorkspaceControls THEN WorkspaceChecks(observed')[c] ELSE checks[c]]

\* Only a probe that is the pinned one is run.  One that does not exit well,
\* whose output is cut, or that does not decode, has said nothing.
ProbeRuns == checks["HOST_PROBE_DIGEST"] = "PASS" /\ container.running

RunProbe ==
    /\ reached = "digested" /\ reached' = "probed"
    /\ \/ ProbeRuns /\ kind = "WORK" /\ Judging("digested", TRUE) /\ WorkspaceNow
       \/ /\ ProbeRuns /\ kind # "WORK"
          /\ \E report \in Reports :
                /\ Decodes(report) /\ Reported(report)
                /\ Judging("digested", report.names = Every /\ report.workspace)
       \/ Judging("digested", ~ ProbeRuns) /\ UNCHANGED <<observed, checks>>

\* The containers labelled as the environment's, by role; a listing may fail or be cut.
Listing(from, part, to) ==
    /\ reached' = to /\ UNCHANGED observed
    /\ \E listed \in BOOLEAN :
        /\ Judging(from, listed)
        /\ checks' = [checks EXCEPT ![part] =
                        IF ~ listed THEN "UNOBSERVABLE" ELSE IF Holds(part) THEN "PASS" ELSE "FAIL"]

ListRelays == Listing("probed", "peer.relays", "relays")

ListSetups == Listing("relays", "peer.setups", "setups")

\* The broker's own proxy: open, on its socket, in a directory the relay's alone; or none.
ProxyBehind ==
    /\ Judging("setups", TRUE) /\ reached' = "proxied" /\ UNCHANGED observed
    /\ checks' = [checks EXCEPT !["peer.proxy"] = IF Holds("peer.proxy") THEN "PASS" ELSE "FAIL"]

\* What is listed decides first, then the proxy, then the relay's record.
PeersVerdict(record) ==
    IF \E p \in {"peer.relays", "peer.setups"} : checks[p] = "UNOBSERVABLE" THEN "UNOBSERVABLE"
    ELSE IF \E p \in {"peer.relays", "peer.setups", "peer.proxy"} : checks[p] # "PASS" THEN "FAIL"
    ELSE IF setting.network = "PROXY_ONLY" THEN record ELSE "PASS"

\* The relay's record: exact, not so, gone, or not to be read.
RelayRecord ==
    /\ reached' = "recorded" /\ UNCHANGED observed
    /\ \E read \in BOOLEAN : Judging("proxied", read) /\
        LET record == IF ~ read THEN "UNOBSERVABLE"
                      ELSE IF Holds("peer.record") THEN "PASS"
                      ELSE IF container.relays > 0 /\ container.how = "UNKNOWN" THEN "UNOBSERVABLE"
                      ELSE "FAIL"
        IN checks' = [checks EXCEPT !["peer.record"] = record,
                                    !["HOST_PROXY_RELAY"] = PeersVerdict(record)]

\* The running relay's own file, of a relay listed once more.
RelayDigest ==
    /\ reached' = "peered" /\ UNCHANGED observed
    /\ \E listed \in BOOLEAN : Judging("recorded", listed) /\
        checks' = [checks EXCEPT !["HOST_RELAY_DIGEST"] =
                     IF ~ listed \/ setting.network # "PROXY_ONLY" THEN "UNOBSERVABLE"
                     ELSE IF Holds("HOST_RELAY_DIGEST") THEN "PASS"
                     ELSE IF container.relays = 1 /\ container.how = "UNKNOWN" THEN "UNOBSERVABLE"
                     ELSE "FAIL"]

\* The broker's own conclusion: an environment is kept only if it is clean.
Clean(c, network, bounded) == \A i \in RequiredInvariants(network, bounded) : c[i] = "PASS"

\* The authority's: measured is the declared level when nothing failed and
\* nothing went unobserved, and NONE otherwise.
Usable(c, network, bounded) ==
    {i \in RequiredInvariants(network, bounded) : c[i] # "PASS"} = {}

\* Before a workload only the host's vantage is judged again.
CleanForWork(c, network, bounded) ==
    \A i \in RequiredInvariants(network, bounded) \cap HostControls : c[i] = "PASS"

KeptIf(clean) == container' = IF clean THEN container ELSE Absent

\* What is not clean is taken down: a preparation by the broker, the others by the authority,
\* to which they have drifted.
Conclude ==
    /\ reached = "peered"
    /\ reached' = "concluded"
    /\ \/ /\ kind = "PREPARE" /\ admitted' = Usable(checks, setting.network, Bounded)
          /\ KeptIf(Clean(checks, setting.network, spec.bound # Absent))
       \/ /\ kind = "MEASURE" /\ admitted' = Usable(checks, setting.network, Bounded)
          /\ KeptIf(admitted')
       \/ /\ kind = "WORK" /\ admitted' = CleanForWork(checks, setting.network, spec.bound # Absent)
          /\ KeptIf(admitted')
    /\ UNCHANGED <<setting, path, dirs, binding, spec, kind, checks, observed, faults, judgings>>

-----------------------------------------------------------------------------
(* Root's changes, at any time.                                            *)

Fault ==
    /\ faults < MaxFaults /\ faults' = faults + 1
    /\ UNCHANGED <<setting, binding, spec, kind, reached, checks, observed, admitted, judgings>>

Remount == Fault /\ path' \in Dirs \ {path} /\ UNCHANGED <<dirs, container>>

\* A directory that stays the one it is stays on its device: an identity is both.
Alter ==
    /\ Fault
    /\ \E f \in Facts : f.device = dirs[path].device /\ dirs' = [dirs EXCEPT ![path] = f]
    /\ UNCHANGED <<path, container>>

Stops == Fault /\ container # Absent /\ container' = [container EXCEPT !.running = FALSE] /\ UNCHANGED <<path, dirs>>

\* Relays come and go, a setup container appears, the proxy's directory is opened to others,
\* or the broker is not the one that opened it.
PeersChange ==
    /\ Fault /\ container # Absent
    /\ \/ \E n \in {0, 1, 2} \ {container.relays} : container' = [container EXCEPT !.relays = n]
       \/ \E left \in BOOLEAN \ {container.setup} : container' = [container EXCEPT !.setup = left]
       \/ /\ container.proxy # "NONE"
          /\ \E p \in {"WIDE", "NONE"} : container' = [container EXCEPT !.proxy = p]
    /\ UNCHANGED <<path, dirs>>

-----------------------------------------------------------------------------
AssuranceStep ==
    \/ Ask \/ Create \/ RuntimeFails \/ Inspect \/ ProbeDigest \/ RunProbe
    \/ ListRelays \/ ListSetups \/ ProxyBehind \/ RelayRecord \/ RelayDigest \/ Conclude
    \/ \E again \in {"MEASURE", "WORK"} : JudgeAgain(again) \/ WorkspaceDrifted(again)
    \/ Remount \/ Alter \/ Stops \/ PeersChange

\* What is witnessed starts over with each judging.
AssuranceNext == AssuranceStep /\ witnessed' = (IF judgings' # judgings THEN {} ELSE witnessed) \cup HoldsNow'

AssuranceSpec == AssuranceInit /\ [][AssuranceNext]_assuranceVars

-----------------------------------------------------------------------------
(* An environment the authority takes for usable, or the broker for fit to *)
(* run a workload, is one in which every control required of it did hold   *)
(* while it was judged, this time; whose peers each were right at the      *)
(* moment they were looked at (oci.rs:602 looks at one after the other);   *)
(* whose mounted workspace is the directory the operator bound; and which, *)
(* as the probe saw it, passes the authority's own rules (its owner,       *)
(* group, quota and a device none of the authority's directories is on)    *)
(* although the authority only measured the path beforehand, and the       *)
(* broker's (a filesystem's root, nosuid, nodev) which the authority       *)
(* cannot see; and broker and authority agree: an environment is kept      *)
(* exactly if the authority will use it.                                   *)
AdmittedWasMeasured ==
    reached = "concluded" =>
        /\ kind = "PREPARE" => (admitted <=> container # Absent)
        /\ admitted =>
            /\ (RequiredInvariants(setting.network, Bounded) \ {"HOST_PROXY_RELAY"})
                   \cap (IF kind = "WORK" THEN HostControls ELSE Controls) \subseteq witnessed
            /\ PeerParts(setting.network) \subseteq witnessed
            /\ observed.identity = binding
            /\ Bounded => /\ WorkspaceJudge(observed.root, setting.quota)
                          /\ observed.root.filesystemRoot /\ observed.root.nosuid /\ observed.root.nodev
==============================================================================
