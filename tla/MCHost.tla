------------------------------- MODULE MCHost -------------------------------
(* The parts of the daemons that listen, carry, ask, execute and judge, for TLC.  They share no *)
(* state with each other, so a behaviour is of one of them, the focus, and the others rest *)
(* at a state they start in: their product would only multiply what each is shown to do.   *)
EXTENDS MCNetHttp, EgressTunnels, SocketClaim, PrivateChannel, HostProcess, ExecWalk, Deployment, Assurance

VARIABLE focus

\* The budget of the environment whose tunnels EgressTunnels has.
MCMost == [up |-> 2, down |-> 1]

\* Every order once; or two exchanges in turn, of few orders, one of which never leaves: the
\* first may be served when its authority is gone.
FewOrders ==
    {(CHOOSE o \in Orders : o.op = op /\ Check(Authorise(o))) :
        op \in {"fs_delete", "http_exchange"}}
      \cup {CHOOSE o \in Orders : ~Check(Authorise(o))}
OneOrder == CHOOSE o \in Orders : TRUE

EX == INSTANCE MCExecWalk
MCKind == EX!MCKind
MCOwner == EX!MCOwner
MCFormat == EX!MCFormat
MCFilesystem == EX!MCFilesystem
MCTarget == EX!MCTarget
MCSlots == EX!MCSlots
MCTrees == EX!MCTrees
MCModes == EX!MCModes
MCRequests == EX!MCRequests

DP == INSTANCE MCDeployment
MCAuthorityLines == DP!MCAuthorityLines
MCBrokerLines == DP!MCBrokerLines
MCHosts == DP!MCHosts
MCAncestry == DP!MCAncestry

\* Two directories that may stand at the workspace's path, whose owner, group, filesystem and
\* size are right, or wrong in one respect.
MCSettings ==
    {[network |-> "PROXY_ONLY", quota |-> 8, authorityMember |-> TRUE, brokerMember |-> b] :
        b \in {TRUE, Absent}}
    \cup {[network |-> "NO_NETWORK", quota |-> Absent, authorityMember |-> FALSE,
           brokerMember |-> FALSE]}
Good ==
    [owner |-> "root", group |-> TRUE, mode |-> TRUE, device |-> "w", filesystemRoot |-> TRUE,
     nosuid |-> TRUE, nodev |-> TRUE, unit |-> 2, blocks |-> 4, available |-> 1]
Owned == [Good EXCEPT !.owner = "authority", !.unit = 1, !.blocks = 7]
Apart == [Good EXCEPT !.filesystemRoot = FALSE, !.device = "sys"]
MCFacts ==
    {Good, Owned, Apart, [Good EXCEPT !.owner = "workload"],
     [Good EXCEPT !.group = FALSE, !.unit = 4], [Good EXCEPT !.filesystemRoot = FALSE]}
MCBeginnings ==
    {[d \in {"d1", "d2"} |-> IF d = "d1" THEN Good ELSE f] : f \in {Owned, Apart}}
MCPrivate ==
    {[device |-> "sys", required |-> TRUE], [device |-> Absent, required |-> FALSE]}

ASSUME ChannelsConstants == ChannelConstants
ASSUME WalksConstants == WalkConstants
ASSUME EvidenceConstants == AssuranceConstants

Parts == {"channel", "turns", "socket", "egress", "net", "process", "exec", "deployment", "assurance"}

\* Where a part that is not the focus rests, of the states it may start in.
AnyOf(S) == CHOOSE x \in S : TRUE
Rests(part, resting) == focus = part \/ resting
HostInit ==
    /\ focus \in Parts
    /\ order \in (IF focus = "turns" THEN [Turns -> FewOrders]
                  ELSE {[i \in Turns |-> IF i = 1 THEN o ELSE OneOrder] :
                           o \in IF focus = "channel" THEN Orders ELSE {OneOrder}})
    /\ ChannelInit
    /\ ClaimInit /\ Rests("socket", name = Free /\ directory = AnyOf(Directories))
    /\ EgressInit /\ Init /\ ProcessInit /\ DeploymentInit
    /\ ExecInit /\ Rests("exec", tree = EX!First /\ writable = AnyOf(Modes))
    /\ AssuranceInit /\ Rests("assurance", setting = AnyOf(Settings) /\ path = "d1"
                                       /\ dirs = AnyOf(Beginnings))

listenVars == <<channelVars, claimVars, egressVars>>
judgeVars == <<processVars, execVars, deploymentVars, assuranceVars>>

HostNext ==
    \/ focus \in {"channel", "turns"} /\ ChannelNext
       /\ (focus = "channel" => recorded'[2] = "OPEN" /\ wire'[2] = Unopened)
       /\ UNCHANGED <<focus, claimVars, egressVars, vars, judgeVars>>
    \/ focus = "socket" /\ ClaimNext
       /\ UNCHANGED <<focus, channelVars, egressVars, vars, judgeVars>>
    \/ focus = "egress" /\ EgressNext
       /\ UNCHANGED <<focus, channelVars, claimVars, vars, judgeVars>>
    \/ focus = "net" /\ Action
       /\ UNCHANGED <<focus, listenVars, judgeVars>>
    \/ focus = "process" /\ ProcessNext
       /\ UNCHANGED <<focus, listenVars, vars, execVars, deploymentVars, assuranceVars>>
    \/ focus = "exec" /\ ExecNext
       /\ UNCHANGED <<focus, listenVars, vars, processVars, deploymentVars, assuranceVars>>
    \/ focus = "deployment" /\ DeploymentNext
       /\ UNCHANGED <<focus, listenVars, vars, processVars, execVars, assuranceVars>>
    \/ focus = "assurance" /\ AssuranceNext
       /\ UNCHANGED <<focus, listenVars, vars, processVars, execVars, deploymentVars>>
hostVars == <<focus, listenVars, vars, judgeVars>>

\* The fairness is NetHttp's own (Spec of NetHttp.tla), of its steps when it is the focus.
InNet(A) == focus = "net" /\ A
HostSpec ==
    /\ HostInit /\ [][HostNext]_hostVars
    /\ WF_vars(InNet(AuthorityStep)) /\ WF_vars(InNet(Restart))
    /\ \A h \in HopIds :
         WF_vars(InNet(UNCHANGED <<proc, phase, chain, ledgerVars, held>> /\ ExchangeStep(h)))
=============================================================================
