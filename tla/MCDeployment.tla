---------------------------- MODULE MCDeployment ----------------------------
(* What an instance of Deployment is made of, for TLC: command lines that separate the *)
(* daemons and command lines that do not, with and without what acknowledges it.       *)
EXTENDS Naturals, Sequences, SequencesExt

CONSTANT None

Sandboxes ==
    [network : {"PROXY_ONLY", "NO_NETWORK"}, egress : {TRUE}, quota : {None, "q"},
     unverified : BOOLEAN]
    \cup [network : {"NO_NETWORK"}, egress : {FALSE}, quota : {None}, unverified : {TRUE}]
Deployed ==
    [uid : {"a", "s"}, peers : {{"r"}, {"r", "a"}, {"r", "b"}}, ownUidPermitted : BOOLEAN,
     brokerUid : {"a", "b"}, sharedBroker : BOOLEAN, sandbox : {None}, hygiene : {FALSE},
     stateOwner : {"a", "s"}]
    \cup [uid : {"a"}, peers : {{"r"}}, ownUidPermitted : {FALSE}, brokerUid : {"b"},
          sharedBroker : {FALSE}, sandbox : Sandboxes, hygiene : BOOLEAN, stateOwner : {"a"}]
Flag(flag, on) == IF on THEN flag :> <<"given">> ELSE <<>>
AuthorityArgs(c) ==
    [f \in {"--state-dir", "--mode", "--policy-shipped"} |-> <<"given">>]
    @@ [f \in {"--socket", "--broker-socket"} |-> <<"/absolute">>]
    @@ ("--allow-uid" :> SetToSeq(c.peers)) @@ ("--broker-uid" :> <<c.brokerUid>>)
    @@ Flag("--allow-authority-uid", c.ownUidPermitted)
    @@ Flag("--allow-shared-broker-uid", c.sharedBroker)
    @@ (IF c.sandbox = None THEN <<>> ELSE "--sandbox-config" :> <<"/absolute">>)
    @@ Flag("--allow-unaccepted-hygiene-profile", c.hygiene)
Line(c) ==
    [uid |-> c.uid, stateOwner |-> c.stateOwner, args |-> AuthorityArgs(c), sandbox |-> c.sandbox]
\* A line that is served, and what refuses it: a uid named twice or by name, too many of them, a
\* switch or a value given twice, a path that is relative, two policies, half a broker.
Plain == Line(CHOOSE c \in Deployed : c.uid = "a" /\ c.stateOwner = "a" /\ c.peers = {"r"}
                                         /\ c.brokerUid = "b" /\ c.sandbox = None)
Misspelled(line) ==
    {[line EXCEPT !.args = wrong @@ line.args] :
        wrong \in {"--allow-uid" :> <<"r", "r">>, "--allow-uid" :> <<"roe">>,
                   "--allow-uid" :> <<"r", "a", "b">>, "--mode" :> <<"safe", "power">>,
                   "--socket" :> <<"relative">>, "--policy-file" :> <<"p">>}}
    \cup {[line EXCEPT !.args = [f \in DOMAIN @ \ {"--broker-uid"} |-> @[f]]]}
MCAuthorityLines == {Line(c) : c \in Deployed} \cup Misspelled(Plain)

Brokers ==
    [uid : {"a", "b", "s", "root"}, authorityUid : {"a", "s"}, sharedPermitted : BOOLEAN,
     traceable : {FALSE}, swappable : BOOLEAN, evidenceTopology : {TRUE},
     unverifiedWorkspace : BOOLEAN, evidenceEgress : {TRUE}, evidenceTrust : {TRUE}]
    \cup [uid : {"b"}, authorityUid : {"a"}, sharedPermitted : {FALSE}, traceable : BOOLEAN,
          swappable : {FALSE}, evidenceTopology : BOOLEAN, unverifiedWorkspace : BOOLEAN,
          evidenceEgress : BOOLEAN, evidenceTrust : BOOLEAN]
BrokerArgs(c) ==
    ("--socket" :> <<"/absolute">>) @@ ("--authority-uid" :> <<c.authorityUid>>)
    @@ Flag("--allow-shared-authority-uid", c.sharedPermitted)
    @@ Flag("--allow-traceable-workers", c.traceable)
    @@ Flag("--allow-swappable-workers", c.swappable)
    @@ Flag("--allow-evidence-topology", c.evidenceTopology)
    @@ Flag("--allow-unverified-workspace", c.unverifiedWorkspace)
    @@ (IF c.evidenceEgress THEN "--allow-evidence-egress" :> <<"/absolute">> ELSE <<>>)
    @@ (IF c.evidenceTrust THEN "--allow-evidence-trust" :> <<"/absolute">> ELSE <<>>)
MCBrokerLines == {[uid |-> c.uid, args |-> BrokerArgs(c)] : c \in Brokers}
MCHosts ==
    [located : BOOLEAN, fixtures : {TRUE}, replaced : BOOLEAN, scope : {"0"}, owner : {"root"},
     readable : BOOLEAN, suid : {"0", "1"}, swapTotal : {"8"}, zeroSwap : {{}, {"/svc"}}, cgroup : {"/svc/b"}]
MCAncestry ==
    [x \in {"/svc", "/svc/b", "/"} |-> IF x = "/svc/b" THEN {"/svc/b", "/svc", "/"} ELSE {x, "/"}]
=============================================================================
