----------------------------- MODULE MCNetHttp -----------------------------
(* Instances of NetHttp for TLC: one origin at home, the same host at another port, *)
(* another host, and a metadata name.                                               *)
EXTENDS NetHttp

MCUrls == {"home/a", "home/b", "home:8443/a", "away/a", "metadata/a"}
MCHostOf == [u \in MCUrls |->
    CASE u \in {"home/a", "home/b", "home:8443/a"} -> "home"
      [] u = "away/a" -> "away"
      [] OTHER -> "metadata"]
MCOriginOf == [u \in MCUrls |->
    CASE u \in {"home/a", "home/b"} -> "home:443"
      [] u = "home:8443/a" -> "home:8443"
      [] u = "away/a" -> "away:443"
      [] OTHER -> "metadata:443"]

\* A request that carries the credential and one that carries a body; calls that are
\* refused before anything is resolved.
Carrying == [url |-> "home/a", method |-> "GET", cred |-> TRUE, follow |-> TRUE, flaws |-> {}]
Posting == [Carrying EXCEPT !.method = "POST", !.cred = FALSE]
MCCalls ==
    { Carrying, Posting,
      [Carrying EXCEPT !.url = "home:8443/a"],
      [Posting EXCEPT !.url = "metadata/a"] }
    \cup {[Posting EXCEPT !.flaws = {f}] : f \in {Flaws[i] : i \in 1..Len(Flaws)}}

Public == [form |-> "V4", listed |-> FALSE]
Other == [form |-> "GLOBAL", listed |-> FALSE]
MCAddresses ==
    { Public, Other, [form |-> "V4", listed |-> TRUE], [form |-> "NAT64", listed |-> TRUE],
      [form |-> "OTHER", listed |-> FALSE] }
MCDenied == {Other}

MCHopIds == Invocations \X (1..MaxHops)
MCCovered == {"home:443", "home:8443", "away:443", "metadata:443"}
MCBudget == [requests |-> 3, out |-> 4, in |-> 3, origins |-> 2]
=============================================================================
