------------------------------ MODULE NetHttp ------------------------------
(*****************************************************************************************)
(* net.http in the authority (crates/dwkd-authority/src/state/net_http, and              *)
(* the egress use of a credential in state/secret_use.rs): one request is a chain        *)
(* of hops, each decided, resolved, recorded with its intent, performed and              *)
(* recorded again before the next; a redirect is a hop decided from the start; a         *)
(* restart ends what it finds open.                                                      *)
(*                                                                                       *)
(* The module extends HttpExchange, whose broker performs a hop, and follows one run of  *)
(* one session: the authority serves one request at a time, so what changes between the  *)
(* transactions of a request is the clock -- the lease and the request's deadline -- and *)
(* what the request itself did to the run.                                               *)
(*****************************************************************************************)
EXTENDS HttpExchange, FiniteSetsExt

CONSTANTS
    Invocations,      \* invocation ids, in the order they are minted
    MaxHops,
    Keys,             \* idempotency keys
    Calls,            \* the calls a runtime makes
    Covered,          \* the origins a grant covers, for any method
    GrantRequests,    \* that grant's max_requests
    CredentialAt,     \* the origins the credential's metadata allows
    SecretUse,        \* whether secret.use is granted and allowed
    AddressRules,     \* the origins whose rule needs the address
    DeniedAddresses,  \* the addresses that rule denies
    TaintDenied,      \* the origins denied to a tainted run
    Budget            \* [requests, out, in, origins]

VARIABLES
    proc,        \* "UP" while the authority's process lives
    phase,       \* where the request being served is
    chain,       \* that request: memory, lost with the process
    request,     \* the net_request rows
    hop,         \* the net_hop rows, each with its secret_injection row
    uses,        \* how often the credential was counted as injected
    tainted,     \* the run's taint is EXTERNAL_UNTRUSTED
    held         \* the run is this epoch's, and the lease has not lapsed

ledgerVars == <<request, hop, uses, tainted>>
vars == <<exchangeVars, proc, phase, chain, ledgerVars, held>>

Flaws == <<"PLAINTEXT_UNSUPPORTED", "URL_INVALID", "HEADER_INVALID", "HEADER_FORBIDDEN",
           "BODY_NOT_PERMITTED", "SECRET_IN_REQUEST">>

ASSUME NetAssumption ==
    /\ Invocations \in SUBSET (Nat \ {0}) /\ IsFiniteSet(Invocations) /\ MaxHops \in Nat \ {0}
    /\ HopIds = Invocations \X (1..MaxHops)
    /\ "NONE" \notin Keys
    /\ Calls \subseteq [url : Urls, method : {"GET", "POST"}, cred : BOOLEAN, follow : BOOLEAN,
                        flaws : SUBSET {Flaws[i] : i \in 1..Len(Flaws)}]
    /\ Covered \cup CredentialAt \cup AddressRules \cup TaintDenied
         \subseteq {OriginOf[u] : u \in Urls}
    /\ Budget \in [requests : Nat, out : Nat, in : Nat, origins : Nat]

NoRequest == [state |-> "NONE", key |-> "NONE", origin |-> "NONE", hops |-> 0]
NoHop == [state |-> "NONE", tls |-> FALSE, origin |-> "NONE", out |-> 0, in |-> 0,
          injection |-> "NONE"]
NoChain == [inv |-> 0, key |-> "NONE", call |-> "NONE", n |-> 0, url |-> "NONE",
            method |-> "NONE", cred |-> FALSE, pins |-> <<>>, visited |-> {}, addresses |-> {}]

Init ==
    /\ ExchangeInit
    /\ proc = "UP" /\ phase = "IDLE" /\ chain = NoChain
    /\ request = [i \in Invocations |-> NoRequest]
    /\ hop = [h \in HopIds |-> NoHop]
    /\ uses = 0 /\ tainted = FALSE /\ held = TRUE

-----------------------------------------------------------------------------
(* What a hop is decided from (plan.rs, and spent, reached, within and assess of *)
(* ledger.rs).  The run's spend is its hop rows, whatever became of them.        *)

Rows == {h \in HopIds : hop[h].state # "NONE"}
Origins(H) == {hop[h].origin : h \in H}
\* The bytes that rows are charged, one pair for each.
BytesOut(H) == UNION {{h} \X (1..hop[h].out) : h \in H}
BytesIn(H) == UNION {{h} \X (1..hop[h].in) : h \in H}

\* Fault: a hop that sent nothing is refunded.
SpentSent == LET R == {h \in Rows : hop[h].state = "INTENT" \/ hop[h].tls}
             IN [requests |-> Cardinality(R), origins |-> Cardinality(Origins(R)),
                 out |-> Cardinality(BytesOut(R)), in |-> Cardinality(BytesIn(R))]
Spent == [requests |-> Cardinality(Rows), origins |-> Cardinality(Origins(Rows)),
          out |-> Cardinality(BytesOut(Rows)), in |-> Cardinality(BytesIn(Rows))]

\* charges: from the hop's own bounds, before it is sent; a credential costs the most a
\* header may hold, a response its bound and the largest head.
Charges(cred) == [out |-> IF cred THEN 2 ELSE 1, in |-> 1]

Within(url, cred) ==
    /\ Spent.requests < Budget.requests
    /\ Spent.out + Charges(cred).out <= Budget.out
    /\ Spent.in + Charges(cred).in <= Budget.in
    /\ OriginOf[url] \in Origins(Rows) \/ Spent.origins < Budget.origins

\* required: the grant covers the origin, and one more request than the run has made.
CapabilityCovers(url) == OriginOf[url] \in Covered /\ Spent.requests + 1 <= GrantRequests

\* decide_net, with an address: first match wins, and the taint rule comes first.
AddressAllowed(url, a) ==
    /\ ~(tainted /\ OriginOf[url] \in TaintDenied)
    /\ OriginOf[url] \in AddressRules => a \notin DeniedAddresses

\* decide_injection: the gate of secret.use, asked of a hop that carries the credential.
InjectionAllowed(cred) == cred => SecretUse

\* permits: every gate of every pinned address, and the injection's.
Permits(url, cred, addresses) ==
    /\ CapabilityCovers(url)
    /\ addresses # {} /\ \A a \in addresses : AddressAllowed(url, a)
    /\ InjectionAllowed(cred)

\* resolvable: nothing is resolved for what is already denied; only a rule that needs
\* the address may still be open.
Resolvable(url, cred) ==
    /\ CapabilityCovers(url)
    /\ InjectionAllowed(cred)
    /\ ~(tainted /\ OriginOf[url] \in TaintDenied)

\* prepare: the metadata's origins decide where a credential may go.
CredentialRefused(url, cred) == cred /\ OriginOf[url] \notin CredentialAt

\* standing: the fence and the run, and, for a first hop, the key in any ledger.
KeyBound(k) == \E i \in Invocations : request[i].state # "NONE" /\ request[i].key = k

\* canonicalize: the first check that fails.
Canonicalize(call) ==
    CASE call.flaws # {} -> Flaws[Min({i \in 1..Len(Flaws) : Flaws[i] \in call.flaws})]
      [] call.flaws = {} /\ NameBlocked(HostOf[call.url]) -> "ADDRESS_BLOCKED"
      [] OTHER -> "OK"

-----------------------------------------------------------------------------
(* One request.                                                            *)

Finish == phase' = "IDLE" /\ chain' = NoChain
Unmoved == UNCHANGED <<exchangeVars, proc, held>>

Minted == Cardinality({i \in Invocations : request[i].state # "NONE"})
NextInvocation == CHOOSE i \in Invocations : request[i].state = "NONE" /\
                    \A j \in Invocations : request[j].state = "NONE" => i <= j

\* locate: the refusal, or what the plan says.  A preview is the same without the key, and
\* leaves nothing behind.
Located(call, key) ==
    IF ~held THEN "STALE_EPOCH"
    ELSE IF KeyBound(key) THEN "IDEMPOTENCY_KEY_REUSED"
    ELSE IF Canonicalize(call) # "OK" THEN Canonicalize(call)
    ELSE IF CredentialRefused(call.url, call.cred) THEN "CREDENTIAL_UNAVAILABLE"
    ELSE IF ~Resolvable(call.url, call.cred) THEN "DENIED"
    ELSE IF ~Within(call.url, call.cred) THEN "BUDGET_EXHAUSTED"
    ELSE "RESOLVE"

\* net_invoke: HopRequest::first, and an empty chain.  A refused call leaves only its audit.
Invoke(call, key) ==
    /\ proc = "UP" /\ phase = "IDLE"
    /\ Minted < Cardinality(Invocations)
    /\ Located(call, key) = "RESOLVE"
    /\ phase' = "ADDRESSES"
    /\ chain' = [NoChain EXCEPT !.inv = NextInvocation, !.key = key, !.call = call,
                   !.n = 1, !.url = call.url, !.method = call.method, !.cred = call.cred]
    /\ UNCHANGED ledgerVars
    /\ Unmoved

\* end_request.
EndRequest(state, hops) ==
    request' = [request EXCEPT ![chain.inv].state = state, ![chain.inv].hops = hops]

\* net_end: the chain ends before this hop was recorded; the last response answers.
EndChain ==
    /\ EndRequest("COMPLETED", chain.n - 1)
    /\ Finish
    /\ UNCHANGED <<hop, uses, tainted>>

PinnedHost(u) == \E p \in chain.visited : HostOf[p] = HostOf[u]

\* precheck, of a later hop whose host is not pinned.
Precheck ==
    CASE ~held \/ CredentialRefused(chain.url, chain.cred) -> "HOP_DENIED"
      [] ~Resolvable(chain.url, chain.cred) -> "HOP_DENIED"
      [] ~Within(chain.url, chain.cred) -> "BUDGET_EXHAUSTED"
      [] OTHER -> "NONE"

\* net_addresses, before the resolution: why a later hop is not made.
LaterHopEnds ==
    IF chain.n = 1 THEN "NONE"
    ELSE IF NameBlocked(HostOf[chain.url]) THEN "ADDRESS_BLOCKED"
    ELSE IF PinnedHost(chain.url) THEN "NONE"
    ELSE Precheck

HopNotMade ==
    /\ proc = "UP" /\ phase = "ADDRESSES"
    /\ LaterHopEnds # "NONE"
    /\ EndChain
    /\ Unmoved

\* The whole request's deadline, read before each later hop.
RequestTimesOut ==
    /\ proc = "UP" /\ phase = "ADDRESSES" /\ chain.n > 1
    /\ EndChain
    /\ Unmoved

\* The request's pins: the addresses its first hop to the host was judged with.
Pins(u) == IF PinnedHost(u) THEN chain.pins[HostOf[u]] ELSE {}

UsePinned ==
    /\ proc = "UP" /\ phase = "ADDRESSES"
    /\ LaterHopEnds = "NONE" /\ Pins(chain.url) # {}
    /\ phase' = "INTENT"
    /\ chain' = [chain EXCEPT !.addresses = Pins(chain.url)]
    /\ UNCHANGED ledgerVars
    /\ Unmoved

\* judge_resolution: the broker's answer, judged again; or no broker.
Judged(r) ==
    CASE r.disp = "ALLOWED" -> IF Guard(r.addresses) = "ALLOWED" THEN "OK" ELSE "ADDRESS_BLOCKED"
      [] r.disp = "BLOCKED" -> "ADDRESS_BLOCKED"
      [] r.disp = "MIXED" -> "ADDRESS_MIXED"
      [] r.disp = "TIMEOUT" -> "RESOLUTION_TIMEOUT"
      [] r.disp = "UNAVAILABLE" -> "NETWORK_UNAVAILABLE"
      [] OTHER -> "RESOLUTION_FAILED"

Unavailable == [disp |-> "UNAVAILABLE", addresses |-> {}]

\* record_resolution: a first hop's failure is the request's refusal, a later one's
\* ends the chain.
Resolve ==
    /\ proc = "UP" /\ phase = "ADDRESSES"
    /\ LaterHopEnds = "NONE" /\ Pins(chain.url) = {}
    /\ \E r \in Resolutions(HostOf[chain.url]) \cup {Unavailable} :
         CASE Judged(r) = "OK" ->
                /\ phase' = "INTENT"
                /\ chain' = [chain EXCEPT !.addresses = r.addresses]
                /\ UNCHANGED ledgerVars
           [] Judged(r) # "OK" /\ chain.n = 1 ->
                Finish /\ UNCHANGED ledgerVars
           [] OTHER -> EndChain
    /\ Unmoved

\* record_intent's decision, from the start again: the run may have changed.
IntentRefused ==
    IF ~held THEN "STALE_EPOCH"
    ELSE IF chain.n = 1 /\ KeyBound(chain.key) THEN "IDEMPOTENCY_KEY_REUSED"
    ELSE IF CredentialRefused(chain.url, chain.cred) THEN "CREDENTIAL_UNAVAILABLE"
    ELSE IF ~Permits(chain.url, chain.cred, chain.addresses) THEN "DENIED"
    ELSE IF ~Within(chain.url, chain.cred) THEN "BUDGET_EXHAUSTED"
    ELSE "NONE"

IntentNotRecorded ==
    /\ proc = "UP" /\ phase = "INTENT"
    /\ IntentRefused # "NONE"
    /\ IF chain.n = 1 THEN Finish /\ UNCHANGED ledgerVars ELSE EndChain
    /\ Unmoved

This == <<chain.inv, chain.n>>

\* record_request: the request's row and its key, with its first hop.
RecordRequest ==
    request' = IF chain.n > 1 THEN request
               ELSE [request EXCEPT ![chain.inv] =
                       [state |-> "INTENT", key |-> chain.key,
                        origin |-> OriginOf[chain.url], hops |-> 0]]
\* record_hop: what the hop is charged with, and its credential's use.
RecordHop ==
    hop' = [hop EXCEPT ![This] =
              [NoHop EXCEPT !.state = "INTENT", !.origin = OriginOf[chain.url],
                 !.out = Charges(chain.cred).out, !.in = Charges(chain.cred).in,
                 !.injection = IF chain.cred THEN "INTENT" ELSE "NONE"]]
\* record_intent: the rows, in one transaction.
RecordIntent ==
    /\ proc = "UP" /\ phase = "INTENT"
    /\ IntentRefused = "NONE"
    /\ RecordRequest
    /\ RecordHop
    /\ phase' = "EXCHANGE"
    /\ chain' = [chain EXCEPT !.visited = @ \cup {chain.url},
                   !.pins = [x \in DOMAIN @ \cup {HostOf[chain.url]} |->
                               IF x = HostOf[chain.url] THEN chain.addresses ELSE @[x]]]
    /\ UNCHANGED <<uses, tainted>>
    /\ Unmoved

\* perform: the authorisation, with the addresses pinned.
Perform ==
    /\ proc = "UP" /\ phase = "EXCHANGE"
    /\ phase' = "WAIT"
    /\ link' = [NoLink EXCEPT !.hop = This, !.st = "WAIT"]
    /\ job' = [job EXCEPT ![This] =
                 [NoJob EXCEPT !.st = "RECEIVED",
                    !.spec = [url |-> chain.url, addresses |-> chain.addresses,
                              cred |-> chain.cred]]]
    /\ UNCHANGED <<received, proc, chain, ledgerVars, held>>

\* The credential could not be read or handed over, or nothing was sent to the broker.
NotSent == [tag |-> "NOT_SENT", disp |-> "NONE", status |-> "NONE", loc |-> "NONE"]

PerformFails ==
    /\ proc = "UP" /\ phase = "EXCHANGE"
    /\ link' = [hop |-> This, st |-> "DONE", ans |-> NotSent]
    /\ phase' = "WAIT"
    /\ UNCHANGED <<job, received, proc, chain, ledgerVars, held>>

-----------------------------------------------------------------------------
(* What came back (classify, hop_ending and secret_ending of mod.rs; end_hop).        *)

HopState(ans) ==
    CASE ans.tag = "DONE" /\ ans.disp = "COMPLETED" -> "COMPLETED"
      [] ans.tag = "DONE" /\ ans.disp # "COMPLETED" -> "FAILED"
      [] ans.tag \in {"REFUSED", "NOT_SENT"} -> "FAILED"
      [] OTHER -> "UNKNOWN"

\* Fault: only a complete response is a use.
SecretEndingComplete(ans) ==
    CASE ans.tag = "DONE" /\ ans.disp = "COMPLETED" -> "INJECTED"
      [] ans.tag \in {"REFUSED", "NOT_SENT"} \/ (ans.tag = "DONE" /\ ans.disp # "COMPLETED") -> "FAILED"
      [] OTHER -> "UNKNOWN"
SecretEnding(ans) ==
    CASE ans.tag = "DONE" -> "INJECTED"
      [] ans.tag \in {"REFUSED", "NOT_SENT"} -> "FAILED"
      [] OTHER -> "UNKNOWN"

\* record_outcome and count_use: only a confirmed injection is counted.
CountUse(ending) == uses' = IF ending = "INJECTED" THEN uses + 1 ELSE uses

\* end_hop, with the credential's outcome, its count, and the taint a response raises.
EndHop(ans) ==
    /\ hop' = [hop EXCEPT ![This].state = HopState(ans), ![This].tls = (ans.tag = "DONE"),
                 ![This].injection = IF chain.cred THEN SecretEnding(ans) ELSE "NONE"]
    /\ CountUse(IF chain.cred THEN SecretEnding(ans) ELSE "NONE")
    /\ tainted' = (tainted \/ ans.status # "NONE")

\* hop::next: the response is the answer, or the next hop's URL and method.
Next(ans) ==
    LET method == IF ans.status = "R303" THEN "GET" ELSE chain.method
    IN CASE ans.status = "OK" \/ ans.loc = "NONE" -> [end |-> "NONE", method |-> "NONE"]
         [] OTHER ->
              [end |-> IF ~chain.call.follow THEN "NOT_FOLLOWED"
                       ELSE IF ans.loc = "INVALID" THEN "REDIRECT_TARGET_INVALID"
                       ELSE IF ans.status = "R307" /\ chain.method = "POST"
                            THEN "REDIRECT_WOULD_RESEND_BODY"
                       ELSE IF chain.n >= MaxHops THEN "REDIRECT_LIMIT"
                       ELSE IF ans.loc \in chain.visited THEN "REDIRECT_LOOP"
                       ELSE "HOP",
               method |-> method]

\* HopRequest::next: no body, and the credential only at the request's own origin.
\* Fault: a redirect keeps the credential.
CarriesKept(url) == chain.call.cred
Carries(url) == chain.call.cred /\ OriginOf[url] = OriginOf[chain.call.url]

Answered == proc = "UP" /\ phase = "WAIT" /\ link.st = "DONE"
Over == link' = NoLink /\ UNCHANGED <<job, received, proc, held>>

SettleNext ==
    /\ Answered
    /\ HopState(link.ans) = "COMPLETED" /\ Next(link.ans).end = "HOP"
    /\ EndHop(link.ans)
    /\ phase' = "ADDRESSES"
    /\ chain' = [chain EXCEPT !.n = @ + 1, !.url = link.ans.loc,
                   !.method = Next(link.ans).method, !.cred = Carries(link.ans.loc)]
    /\ UNCHANGED <<request>>
    /\ Over

\* net_finish: the hop's outcome and the request's in one transaction.
SettleDone ==
    /\ Answered
    /\ \/ HopState(link.ans) = "COMPLETED" /\ Next(link.ans).end # "HOP"
       \/ HopState(link.ans) # "COMPLETED" /\ chain.n > 1
    /\ EndHop(link.ans)
    /\ EndRequest("COMPLETED", chain.n)
    /\ Finish
    /\ Over

\* A first hop without a response fails the request.
SettleFailed ==
    /\ Answered
    /\ HopState(link.ans) # "COMPLETED" /\ chain.n = 1
    /\ EndHop(link.ans)
    /\ EndRequest(IF HopState(link.ans) = "UNKNOWN" THEN "UNKNOWN" ELSE "FAILED", 1)
    /\ Finish
    /\ Over

-----------------------------------------------------------------------------
(* The clock, and the process.                                             *)

\* Where the lease is read: before a request, and before each decision of one.
LeaseLapses ==
    /\ held /\ proc = "UP" /\ phase \in {"IDLE", "ADDRESSES", "INTENT"}
    /\ held' = FALSE
    /\ UNCHANGED <<exchangeVars, proc, phase, chain, ledgerVars>>

Crash ==
    /\ proc = "UP" /\ "CRASH" \in Faults
    /\ proc' = "DOWN" /\ phase' = "IDLE" /\ chain' = NoChain /\ link' = NoLink
    /\ UNCHANGED <<job, received, ledgerVars, held>>

\* reconcile_open, of the ledger and of the secret uses: everything open is UNKNOWN.
\* Fault: a credential's use is left open.
EndOpenHopOnly(row) == [row EXCEPT !.state = IF @ = "INTENT" THEN "UNKNOWN" ELSE @]
EndOpen(row) ==
    [row EXCEPT !.state = IF @ = "INTENT" THEN "UNKNOWN" ELSE @,
                !.injection = IF @ = "INTENT" THEN "UNKNOWN" ELSE @]
HopsOf(i) == {h \in Rows : h[1] = i}
Restart ==
    /\ proc = "DOWN"
    /\ proc' = "UP"
    /\ hop' = [h \in HopIds |-> EndOpen(hop[h])]
    /\ request' = [i \in Invocations |->
                     IF request[i].state = "INTENT"
                     THEN [request[i] EXCEPT !.state = "UNKNOWN", !.hops = Cardinality(HopsOf(i))]
                     ELSE request[i]]
    /\ UNCHANGED <<exchangeVars, phase, chain, uses, tainted, held>>

AuthorityStep ==
    \/ HopNotMade \/ RequestTimesOut \/ UsePinned \/ Resolve \/ IntentNotRecorded \/ RecordIntent
    \/ Perform \/ PerformFails \/ SettleNext \/ SettleDone \/ SettleFailed

Action ==
    \/ \E call \in Calls, key \in Keys : Invoke(call, key)
    \/ AuthorityStep
    \/ LeaseLapses \/ Crash \/ Restart
    \/ BrokerNext /\ UNCHANGED <<proc, phase, chain, ledgerVars, held>>

\* The authority's steps take a bounded time each, an operator restarts it, and every wait
\* of the broker and its worker has a deadline.
Spec ==
    /\ Init /\ [][Action]_vars
    /\ WF_vars(AuthorityStep) /\ WF_vars(Restart)
    /\ \A h \in HopIds :
         WF_vars(ExchangeStep(h) /\ UNCHANGED <<proc, phase, chain, ledgerVars, held>>)

\* The same with workers that may stand still when the broker gives up on them.
StalledAction ==
    \/ Action
    \/ (\E h \in HopIds : Stalls(h)) /\ UNCHANGED <<proc, phase, chain, ledgerVars, held>>
StalledSpec == Init /\ [][StalledAction]_vars

-----------------------------------------------------------------------------
(* What the runs check.                                                    *)

Reached == {h \in HopIds : received[h] # <<>>}

\* A hop reaches an origin once and only as it was decided: its row is there, its request is
\* the one its key is bound to, every address it was pinned to passed the guard and the
\* policy's rule, two hops of one request to one host are pinned to the same addresses, and
\* a credential goes only to the first hop's origin (the request's key in ledger.rs; net_addresses,
\* net_intent and HopRequest::next in mod.rs; prepare in http/mod.rs).
ReachesOnlyWhatWasDecided ==
    \A h \in Reached :
        LET spec == received[h][1]
        IN /\ Len(received[h]) = 1
           /\ \A i \in Invocations : request[i].key = request[h[1]].key => i = h[1]
           /\ hop[h].state # "NONE" /\ hop[h].origin = OriginOf[spec.url]
           /\ \A a \in spec.addresses : ~IsBlocked(a)
           /\ OriginOf[spec.url] \in AddressRules => spec.addresses \cap DeniedAddresses = {}
           /\ spec.cred => OriginOf[spec.url] = request[h[1]].origin
           /\ \A g \in Reached :
                g[1] = h[1] /\ HostOf[received[g][1].url] = HostOf[spec.url]
                  => received[g][1].addresses = spec.addresses

\* A credential an origin has received is never recorded as unused, and the uses counted
\* are the injections recorded (record_outcome and count_use in secret_use.rs).
CredentialIsAccounted ==
    /\ \A h \in Reached : received[h][1].cred => hop[h].injection # "FAILED"
    /\ \A h \in HopIds : hop[h].injection = "INJECTED" => h \in Reached
    /\ uses = Cardinality({h \in HopIds : hop[h].injection = "INJECTED"})

\* Whatever failed, was lost or was left by a crash stays charged: what origins have been
\* sent, over every incarnation, is within the run's budgets (spent and within in ledger.rs).
BudgetNeverRefills ==
    /\ Cardinality(Rows) <= Budget.requests
    /\ Cardinality(BytesOut(Rows)) <= Budget.out /\ Cardinality(BytesIn(Rows)) <= Budget.in
    /\ Cardinality(Origins(Rows)) <= Budget.origins
    /\ Reached \subseteq Rows

\* A hop's row in the terms of AtMostOnce: a response that broke was one.
HopOutcome(row) ==
    CASE row.state = "INTENT" -> "OPEN"
      [] row.state = "FAILED" /\ row.tls -> "COMPLETED"
      [] OTHER -> row.state
AMO == INSTANCE AtMostOnce WITH
         Keys <- HopIds,
         state <- [h \in HopIds |-> HopOutcome(hop[h])],
         effect <- Reached
\* Every hop is sent at most once and its row tells the truth of it: a completed hop or one
\* whose response broke was sent, a failed one without a handshake never is (classify and
\* hop_ending in mod.rs, reconcile_open in ledger.rs).
ImplementsAtMostOnce == AMO!OSpec

\* "a worker that never wrote `S` sent nothing (`HTTP_WORKER_FAILED`)" (http/worker.rs): a
\* hop recorded FAILED without a handshake has reached no origin.
FailedSentNothing == \A h \in HopIds : hop[h].state = "FAILED" /\ ~hop[h].tls => h \notin Reached


\* A request whose intent is recorded ends, whatever dies, and with it every hop of it and
\* every credential's use.
RequestEnds ==
    \A i \in Invocations : request[i].state = "INTENT" ~>
        /\ request[i].state # "INTENT"
        /\ \A h \in HopIds : h[1] = i => hop[h].state # "INTENT" /\ hop[h].injection # "INTENT"
=============================================================================
