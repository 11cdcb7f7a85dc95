---------------------------- MODULE NetHttpProofs ----------------------------
(***************************************************************************)
(* Proofs about NetHttp and the exchange it extends, for any set of URLs,  *)
(* hosts, addresses and calls, any budget, any policy and any length of a  *)
(* chain.                                                                  *)
(***************************************************************************)
EXTENDS NetHttp, FiniteSetTheorems, TLAPS

-----------------------------------------------------------------------------
(* The inductive invariant *)

Outcomes == {"NONE", "INTENT", "COMPLETED", "FAILED", "UNKNOWN"}
OriginNames == {OriginOf[u] : u \in Urls} \cup {"NONE"}
RequestType == [state : Outcomes, key : Keys \cup {"NONE"}, origin : OriginNames, hops : Nat]
HopType ==
    [state : Outcomes, tls : BOOLEAN, origin : OriginNames, out : Nat, in : Nat,
     injection : {"NONE", "INTENT", "INJECTED", "FAILED", "UNKNOWN"}]
SpecType == [url : Urls \cup {"NONE"}, addresses : SUBSET Addresses, cred : BOOLEAN]
JobType ==
    [st : {"NONE", "RECEIVED", "HANDED", "MARKED", "SENT", "OVER"}, spec : SpecType, marked : BOOLEAN]
AnswerType ==
    [tag : {"NONE", "DONE", "REFUSED", "NOT_SENT", "INDETERMINATE", "LOST"},
     disp : {"NONE", "COMPLETED", "BROKEN", "EXCHANGE_UNCONFIRMED"},
     status : {"NONE", "OK", "R303", "R307"}, loc : Urls \cup {"INVALID", "NONE"}]
LinkType == [hop : HopIds \cup {<<0, 0>>}, st : {"NONE", "WAIT", "DONE"}, ans : AnswerType]

\* Types, of the ledger and of the exchange.
TypeOK ==
    /\ proc \in {"UP", "DOWN"}
    /\ phase \in {"IDLE", "ADDRESSES", "INTENT", "EXCHANGE", "WAIT"}
    /\ request \in [Invocations -> RequestType]
    /\ hop \in [HopIds -> HopType]
    /\ uses \in Nat
    /\ job \in [HopIds -> JobType]
    /\ received \in [HopIds -> {<<>>} \cup {<<s>> : s \in SpecType}]
    /\ link \in LinkType

\* A chain's fields, while a request is served.
ChainType ==
    [inv : Invocations, key : Keys, call : Calls, n : 1..MaxHops, url : Urls,
     method : {"GET", "POST"}, cred : BOOLEAN,
     pins : UNION {[D -> SUBSET Addresses] : D \in SUBSET {HostOf[u] : u \in Urls}},
     visited : SUBSET Urls, addresses : SUBSET Addresses]

Deciding == phase \in {"ADDRESSES", "INTENT"}
Exchanging == phase \in {"EXCHANGE", "WAIT"}

\* The request being served: where it stands in the ledger, and what it has pinned.
ChainIsInStep ==
    phase # "IDLE" =>
        /\ proc = "UP" /\ chain \in ChainType
        /\ Deciding /\ chain.n = 1 => request[chain.inv].state = "NONE" /\ chain.visited = {}
        /\ Exchanging \/ chain.n # 1 =>
             /\ request[chain.inv].state = "INTENT"
             /\ request[chain.inv].origin = OriginOf[chain.call.url]
        /\ chain.n = 1 => chain.url = chain.call.url
        /\ chain.cred => OriginOf[chain.url] = OriginOf[chain.call.url]
        /\ \A u \in chain.visited :
             HostOf[u] \in DOMAIN chain.pins /\ chain.pins[HostOf[u]] # {}
        /\ phase = "INTENT" /\ PinnedHost(chain.url) => chain.addresses = chain.pins[HostOf[chain.url]]
        /\ \A m \in 1..MaxHops :
             m > chain.n \/ (m = chain.n /\ Deciding) => hop[<<chain.inv, m>>].state = "NONE"
        /\ Exchanging =>
             /\ chain.url \in chain.visited /\ chain.addresses = chain.pins[HostOf[chain.url]]
             /\ OriginOf[chain.url] \in AddressRules => chain.addresses \cap DeniedAddresses = {}
             /\ hop[This].state = "INTENT" /\ hop[This].origin = OriginOf[chain.url]
             /\ ~hop[This].tls /\ hop[This].injection \in {"NONE", "INTENT"}

\* An unminted request has no rows; a minted one a key of its own.
KeysAreApart ==
    /\ \A i \in Invocations : request[i].state = "NONE" =>
         request[i].key = "NONE" /\ \A m \in 1..MaxHops : hop[<<i, m>>].state = "NONE"
    /\ \A i \in Invocations : request[i].state # "NONE" => request[i].key \in Keys
    /\ \A i, j \in Invocations :
         request[i].state # "NONE" /\ request[i].key = request[j].key => i = j

\* What a hop's exchange is about, from its authorisation on: what its job carries, and then
\* what its origin has received.
Under(h) == job[h].st \in {"RECEIVED", "HANDED", "MARKED", "SENT"}
Authorised(h) == Under(h) \/ received[h] # <<>>
SpecOf(h) == IF received[h] # <<>> THEN received[h][1] ELSE job[h].spec

\* A job and what its origin has received.
JobsAreInStep ==
    \A h \in HopIds :
        /\ job[h].st \in {"RECEIVED", "HANDED", "MARKED"} => received[h] = <<>>
        /\ job[h].st = "SENT" => received[h] = <<job[h].spec>>
        /\ (job[h].marked <=> job[h].st \in {"MARKED", "SENT"})
        /\ job[h].st \in {"HANDED", "MARKED", "SENT"} \/ received[h] # <<>> => MayGo(SpecOf(h))

\* What is authorised is what was decided.
Decided(h) ==
    /\ hop[h].state # "NONE" /\ SpecOf(h).url \in Urls
    /\ hop[h].origin = OriginOf[SpecOf(h).url]
    /\ OriginOf[SpecOf(h).url] \in AddressRules => SpecOf(h).addresses \cap DeniedAddresses = {}
    /\ SpecOf(h).cred => OriginOf[SpecOf(h).url] = request[h[1]].origin
    /\ phase # "IDLE" /\ h[1] = chain.inv =>
         SpecOf(h).url \in chain.visited
         /\ SpecOf(h).addresses = chain.pins[HostOf[SpecOf(h).url]]
AuthorisedWasDecided == \A h \in HopIds : Authorised(h) => Decided(h)
PinsAreOne ==
    \A g, h \in HopIds :
        /\ Authorised(g) /\ Authorised(h) /\ g[1] = h[1]
        /\ HostOf[SpecOf(g).url] = HostOf[SpecOf(h).url]
        => SpecOf(g).addresses = SpecOf(h).addresses

\* A row says no more than is known, and what says nothing was sent is final.
Quiet(h) == job[h].st \in {"NONE", "OVER"} /\ received[h] = <<>>
RowsAreTrue ==
    \A h \in HopIds :
        /\ hop[h].state = "NONE" => hop[h] = NoHop /\ job[h].st = "NONE" /\ received[h] = <<>>
        /\ hop[h].state = "COMPLETED" \/ hop[h].tls \/ hop[h].injection = "INJECTED" => received[h] # <<>>
        /\ (hop[h].state = "FAILED" /\ ~hop[h].tls) \/ hop[h].injection = "FAILED" => Quiet(h)
        /\ hop[h].state = "INTENT" => ~hop[h].tls

\* The answer awaited is this hop's, and says what the exchange came to.
LinkIsInStep ==
    /\ phase # "WAIT" => link = NoLink
    /\ phase = "EXCHANGE" => job[This].st = "NONE" /\ received[This] = <<>>
    /\ phase = "WAIT" =>
         /\ link.hop = This /\ link.st \in {"WAIT", "DONE"}
         /\ link.st = "WAIT" => Under(This)
         /\ link.st = "DONE" /\ link.ans.tag = "DONE" => received[This] # <<>>
         /\ link.st = "DONE" /\ link.ans.tag \in {"REFUSED", "NOT_SENT"} => Quiet(This)

\* A counted use is a recorded injection.
UsesAreCounted == uses = Cardinality({h \in HopIds : hop[h].injection = "INJECTED"})

\* Every row is charged.
ChargesAreWithin ==
    /\ Cardinality(Rows) <= Budget.requests
    /\ Cardinality(BytesOut(Rows)) <= Budget.out /\ Cardinality(BytesIn(Rows)) <= Budget.in
    /\ Cardinality(Origins(Rows)) <= Budget.origins

IInv ==
    /\ TypeOK /\ ChainIsInStep /\ KeysAreApart /\ JobsAreInStep /\ AuthorisedWasDecided
    /\ PinsAreOne /\ RowsAreTrue /\ LinkIsInStep /\ UsesAreCounted /\ ChargesAreWithin

-----------------------------------------------------------------------------
(* Counting *)

LEMMA HopsAreFinite == IsFiniteSet(HopIds) /\ \A H \in SUBSET HopIds : IsFiniteSet(H)
  <1>1. IsFiniteSet(1..MaxHops)
    BY NetAssumption, FS_Interval
  <1>2. IsFiniteSet(HopIds)
    BY <1>1, NetAssumption, FS_Product
  <1>. QED BY <1>2, FS_Subset

LEMMA HopIdParts ==
  /\ \A h \in HopIds : h[1] \in Invocations /\ h[2] \in 1..MaxHops /\ h = <<h[1], h[2]>>
  /\ \A i \in Invocations, m \in 1..MaxHops : <<i, m>> \in HopIds /\ <<i, m>>[1] = i
  BY NetAssumption

\* One element more counts one more at most.
LEMMA CountOneMore ==
  ASSUME NEW S, IsFiniteSet(S), NEW x
  PROVE  /\ Cardinality(S) \in Nat /\ Cardinality(S \cup {x}) \in Nat
         /\ Cardinality(S \cup {x}) <= Cardinality(S) + 1
         /\ x \notin S => Cardinality(S \cup {x}) = Cardinality(S) + 1
         /\ x \in S => Cardinality(S \cup {x}) = Cardinality(S)
  <1>1. /\ IsFiniteSet(S \cup {x})
        /\ Cardinality(S \cup {x}) = IF x \in S THEN Cardinality(S) ELSE Cardinality(S) + 1
    BY FS_AddElement
  <1>2. Cardinality(S) \in Nat /\ Cardinality(S \cup {x}) \in Nat
    BY <1>1, FS_CardinalityType
  <1>. QED BY <1>1, <1>2

\* The least of the ids that are free, when some is.
LEMMA SomeIdIsFree ==
  ASSUME Minted < Cardinality(Invocations)
  PROVE  NextInvocation \in Invocations /\ request[NextInvocation].state = "NONE"
  <1>. DEFINE free == {i \in Invocations : request[i].state = "NONE"}
              minted == {i \in Invocations : request[i].state # "NONE"}
  <1>1. IsFiniteSet(Invocations) /\ free \subseteq Nat
    BY NetAssumption
  <1>2. free # {}
    <2>1. Cardinality(Invocations) \in Nat
      BY <1>1, FS_CardinalityType
    <2>2. minted # Invocations
      BY <2>1 DEF Minted
    <2>. QED BY <2>2
  <1>3. \E i \in free : \A j \in free : i <= j
    <2>1. PICK i \in free : \A j \in free : ~ (<<j, i>> \in OpToRel(<, Nat))
      <3>. HIDE DEF free
      <3>. QED BY <1>1, <1>2, NatLessThanWellFounded, WFMin
    <2>2. \A j \in free : ~ (j < i)
      BY <1>1, <2>1 DEF OpToRel
    <2>. QED BY <1>1, <2>2
  <1>4. \E i \in Invocations : request[i].state = "NONE" /\
          \A j \in Invocations : request[j].state = "NONE" => i <= j
    BY <1>3
  <1>. QED BY <1>4 DEF NextInvocation

-----------------------------------------------------------------------------
(* What does not change *)

\* A step that moves no job and sends nothing.
LEMMA ExchangeSame ==
  ASSUME IInv, UNCHANGED <<job, received>>
  PROVE  /\ \A h \in HopIds : /\ SpecOf(h)' = SpecOf(h) /\ (Authorised(h)' <=> Authorised(h))
                              /\ (Quiet(h)' <=> Quiet(h)) /\ (Under(h)' <=> Under(h))
         /\ JobsAreInStep' /\ PinsAreOne'
  <1>1. \A h \in HopIds : /\ SpecOf(h)' = SpecOf(h) /\ (Authorised(h)' <=> Authorised(h))
                          /\ (Quiet(h)' <=> Quiet(h)) /\ (Under(h)' <=> Under(h))
    BY DEF SpecOf, Authorised, Quiet, Under
  <1>2. JobsAreInStep'
    BY <1>1 DEF IInv, JobsAreInStep, MayGo
  <1>3. PinsAreOne'
    BY <1>1 DEF IInv, PinsAreOne
  <1>. QED BY <1>1, <1>2, <1>3

\* A step that writes no row.
LEMMA RowsSame ==
  ASSUME IInv, UNCHANGED <<hop, uses>>
  PROVE  UsesAreCounted' /\ ChargesAreWithin'
  BY DEF IInv, UsesAreCounted, ChargesAreWithin, Rows, BytesOut, BytesIn, Origins

\* The parts of the invariant about rows, jobs and the link, when none of those moves.
LEMMA DecisionSame ==
  ASSUME IInv, UNCHANGED <<job, received, link, hop, uses>>, phase # "WAIT", phase' # "WAIT"
  PROVE  JobsAreInStep' /\ PinsAreOne' /\ RowsAreTrue' /\ UsesAreCounted' /\ ChargesAreWithin'
         /\ (phase' # "EXCHANGE" => LinkIsInStep')
  <1>1. RowsAreTrue'
    BY DEF IInv, RowsAreTrue, Quiet
  <1>2. phase' # "EXCHANGE" => LinkIsInStep'
    BY DEF IInv, LinkIsInStep
  <1>. QED BY <1>1, <1>2, ExchangeSame, RowsSame

-----------------------------------------------------------------------------
(* The authority's decisions *)

LEMMA InitInv == Init => IInv
  <1>. SUFFICES ASSUME Init PROVE IInv
    OBVIOUS
  <1>. USE DEF Init, ExchangeInit
  <1>1. NoHop \in HopType /\ NoRequest \in RequestType /\ NoSpec \in SpecType /\ NoAnswer \in AnswerType
    BY DEF NoHop, HopType, NoRequest, RequestType, NoSpec, SpecType, NoAnswer, AnswerType, Outcomes,
           OriginNames
  <1>2. NoJob \in JobType /\ NoLink \in LinkType
    BY <1>1 DEF NoJob, JobType, NoLink, LinkType
  <1>3. TypeOK
    BY <1>1, <1>2 DEF TypeOK
  <1>4. /\ \A h \in HopIds : hop[h] = NoHop /\ job[h] = NoJob /\ received[h] = <<>>
        /\ \A i \in Invocations : request[i] = NoRequest
        /\ \A i \in Invocations, m \in 1..MaxHops : <<i, m>> \in HopIds
    BY NetAssumption
  <1>5. ChainIsInStep /\ KeysAreApart
    BY <1>4, NetAssumption DEF ChainIsInStep, KeysAreApart, NoRequest, NoHop
  <1>6. JobsAreInStep /\ AuthorisedWasDecided /\ PinsAreOne
    BY <1>4 DEF JobsAreInStep, AuthorisedWasDecided, PinsAreOne, Authorised, Under, NoJob
  <1>7. RowsAreTrue /\ LinkIsInStep
    BY <1>4 DEF RowsAreTrue, LinkIsInStep, Quiet, NoHop, NoJob
  <1>8. UsesAreCounted
    <2>1. {h \in HopIds : hop[h].injection = "INJECTED"} = {}
      BY <1>4 DEF NoHop
    <2>. QED BY <2>1, FS_EmptySet DEF UsesAreCounted
  <1>9. ChargesAreWithin
    <2>1. Rows = {}
      BY <1>4 DEF Rows, NoHop
    <2>2. BytesOut(Rows) = {} /\ BytesIn(Rows) = {} /\ Origins(Rows) = {}
      BY <2>1 DEF BytesOut, BytesIn, Origins
    <2>3. Budget.requests \in Nat /\ Budget.out \in Nat /\ Budget.in \in Nat /\ Budget.origins \in Nat
      BY NetAssumption
    <2>4. Cardinality({}) = 0
      BY FS_EmptySet
    <2>5. /\ Cardinality(Rows) = 0 /\ Cardinality(BytesOut(Rows)) = 0
          /\ Cardinality(BytesIn(Rows)) = 0 /\ Cardinality(Origins(Rows)) = 0
      BY <2>1, <2>2, <2>4, Zenon
    <2>. QED BY <2>3, <2>5 DEF ChargesAreWithin
  <1>. QED BY <1>3, <1>5, <1>6, <1>7, <1>8, <1>9 DEF IInv

LEMMA InvokeInv == ASSUME IInv, NEW call \in Calls, NEW key \in Keys, Invoke(call, key) PROVE IInv'
  <1>. DEFINE i == NextInvocation
  <1>1. i \in Invocations /\ request[i].state = "NONE"
    BY SomeIdIsFree DEF Invoke
  <1>. HIDE DEF i
  <1>2. /\ proc' = "UP" /\ phase = "IDLE" /\ phase' = "ADDRESSES" /\ UNCHANGED <<job, received, link>>
        /\ UNCHANGED <<request, hop, uses>>
        /\ chain' = [NoChain EXCEPT !.inv = i, !.key = key, !.call = call, !.n = 1, !.url = call.url,
                                    !.method = call.method, !.cred = call.cred]
    BY DEF Invoke, Unmoved, exchangeVars, ledgerVars, i
  <1>3. TypeOK'
    BY <1>2 DEF IInv, TypeOK
  <1>4. call.url \in Urls /\ call.method \in {"GET", "POST"} /\ call.cred \in BOOLEAN
    BY NetAssumption
  <1>5. /\ chain'.inv = i /\ chain'.key = key /\ chain'.call = call /\ chain'.n = 1
        /\ chain'.url = call.url /\ chain'.method = call.method /\ chain'.cred = call.cred
        /\ chain'.pins = <<>> /\ chain'.visited = {} /\ chain'.addresses = {}
    BY <1>2 DEF NoChain
  <1>6. chain' \in ChainType
    <2>1. <<>> \in [{} -> SUBSET Addresses]
      OBVIOUS
    <2>2. <<>> \in UNION {[D -> SUBSET Addresses] : D \in SUBSET {HostOf[u] : u \in Urls}}
      BY <2>1
    <2>3. 1 \in 1..MaxHops
      BY NetAssumption
    <2>. QED BY <1>1, <1>2, <1>4, <2>2, <2>3 DEF ChainType, NoChain
  <1>7. ChainIsInStep'
    BY <1>1, <1>2, <1>5, <1>6, NetAssumption
       DEF ChainIsInStep, Deciding, Exchanging, IInv, KeysAreApart
  <1>8. KeysAreApart'
    BY <1>2 DEF IInv, KeysAreApart
  <1>9. AuthorisedWasDecided'
    <2>1. ASSUME NEW h \in HopIds, Authorised(h) PROVE h[1] # i
      BY <1>1, <2>1, NetAssumption DEF IInv, KeysAreApart, RowsAreTrue, Authorised, Under
    <2>. QED BY <1>2, <1>5, <2>1, ExchangeSame DEF IInv, AuthorisedWasDecided, Decided
  <1>. QED BY <1>2, <1>3, <1>7, <1>8, <1>9, DecisionSame DEF IInv

\* A request that ends with no row of its own: its memory is given up.
LEMMA NothingLeftInv ==
  ASSUME IInv, phase # "WAIT", phase' = "IDLE", UNCHANGED <<job, received, link>>,
         UNCHANGED <<request, hop, uses>>, proc' \in {"UP", "DOWN"}
  PROVE  IInv'
  <1>1. TypeOK' /\ ChainIsInStep' /\ KeysAreApart'
    BY DEF IInv, TypeOK, ChainIsInStep, KeysAreApart
  <1>2. AuthorisedWasDecided'
    BY ExchangeSame DEF IInv, AuthorisedWasDecided, Decided
  <1>. QED BY <1>1, <1>2, DecisionSame DEF IInv

\* end_request touches no key and no origin.
LEMMA EndRequestFacts ==
  ASSUME IInv, NEW state \in {"COMPLETED", "FAILED", "UNKNOWN"}, NEW hops \in Nat, phase # "IDLE",
         request' = [request EXCEPT ![chain.inv].state = state, ![chain.inv].hops = hops],
         request[chain.inv].state = "INTENT"
  PROVE  /\ request' \in [Invocations -> RequestType]
         /\ \A i \in Invocations :
              /\ request'[i].key = request[i].key /\ request'[i].origin = request[i].origin
              /\ (request'[i].state = "NONE" <=> request[i].state = "NONE")
  <1>1. request \in [Invocations -> RequestType] /\ chain.inv \in Invocations
    BY DEF IInv, TypeOK, ChainIsInStep, ChainType
  <1>2. \A i \in Invocations : request[i] \in RequestType
    BY <1>1
  <1>3. request' \in [Invocations -> RequestType]
    BY <1>1, <1>2 DEF RequestType, Outcomes
  <1>. QED BY <1>1, <1>2, <1>3 DEF RequestType, Outcomes

LEMMA EndChainInv ==
  ASSUME IInv, Deciding, chain.n # 1, EndChain, UNCHANGED <<job, received, link, proc>>
  PROVE  IInv'
  <1>1. phase' = "IDLE" /\ UNCHANGED <<hop, uses>> /\ phase # "WAIT" /\ phase # "IDLE"
    BY DEF EndChain, Finish, Deciding
  <1>2. request[chain.inv].state = "INTENT" /\ chain.n - 1 \in Nat
    BY <1>1, NetAssumption DEF IInv, ChainIsInStep, ChainType
  <1>3. request' = [request EXCEPT ![chain.inv].state = "COMPLETED", ![chain.inv].hops = chain.n - 1]
    BY DEF EndChain, EndRequest
  <1>4. /\ request' \in [Invocations -> RequestType]
        /\ \A i \in Invocations :
              /\ request'[i].key = request[i].key /\ request'[i].origin = request[i].origin
              /\ (request'[i].state = "NONE" <=> request[i].state = "NONE")
    <2>. DEFINE k == chain.n - 1
    <2>1. k \in Nat /\ request' = [request EXCEPT ![chain.inv].state = "COMPLETED", ![chain.inv].hops = k]
      BY <1>2, <1>3
    <2>. HIDE DEF k
    <2>. QED BY <1>1, <1>2, <2>1, EndRequestFacts
  <1>5. TypeOK' /\ ChainIsInStep'
    BY <1>1, <1>4 DEF IInv, TypeOK, ChainIsInStep
  <1>6. KeysAreApart'
    BY <1>1, <1>4 DEF IInv, KeysAreApart
  <1>7. AuthorisedWasDecided'
    BY <1>1, <1>4, ExchangeSame, HopIdParts DEF IInv, AuthorisedWasDecided, Decided
  <1>. QED BY <1>1, <1>5, <1>6, <1>7, DecisionSame DEF IInv

\* The addresses of the hop are found: the request's own pins, or what was judged now.
LEMMA AddressesFoundInv ==
  ASSUME IInv, phase = "ADDRESSES", phase' = "INTENT", NEW A \in SUBSET Addresses,
         chain' = [chain EXCEPT !.addresses = A],
         PinnedHost(chain.url) => A = chain.pins[HostOf[chain.url]],
         UNCHANGED <<job, received, link, proc>>, UNCHANGED <<request, hop, uses>>
  PROVE  IInv'
  <1>1. TypeOK' /\ KeysAreApart'
    BY DEF IInv, TypeOK, KeysAreApart
  <1>2. chain \in ChainType
    BY DEF IInv, ChainIsInStep
  <1>3. /\ chain' \in ChainType /\ chain'.inv = chain.inv /\ chain'.n = chain.n /\ chain'.url = chain.url
        /\ chain'.call = chain.call /\ chain'.cred = chain.cred /\ chain'.pins = chain.pins
        /\ chain'.visited = chain.visited /\ chain'.addresses = A
    BY <1>2 DEF ChainType
  <1>4. ChainIsInStep'
    BY <1>3 DEF IInv, ChainIsInStep, Deciding, Exchanging, PinnedHost
  <1>5. AuthorisedWasDecided'
    BY <1>3, ExchangeSame DEF IInv, AuthorisedWasDecided, Decided
  <1>. QED BY <1>1, <1>4, <1>5, DecisionSame DEF IInv

LEMMA UsePinnedInv == ASSUME IInv, UsePinned PROVE IInv'
  <1>1. /\ phase = "ADDRESSES" /\ phase' = "INTENT" /\ chain' = [chain EXCEPT !.addresses = Pins(chain.url)]
        /\ UNCHANGED <<job, received, link, proc>> /\ UNCHANGED <<request, hop, uses>>
        /\ Pins(chain.url) # {}
    BY DEF UsePinned, Unmoved, exchangeVars, ledgerVars
  <1>2. PinnedHost(chain.url) /\ Pins(chain.url) = chain.pins[HostOf[chain.url]]
    BY <1>1 DEF Pins
  <1>3. Pins(chain.url) \in SUBSET Addresses
    <2>1. chain \in ChainType /\ HostOf[chain.url] \in DOMAIN chain.pins
      BY <1>1, <1>2 DEF IInv, ChainIsInStep, PinnedHost
    <2>2. chain.pins \in UNION {[D -> SUBSET Addresses] : D \in SUBSET {HostOf[u] : u \in Urls}}
      BY <2>1 DEF ChainType
    <2>. QED BY <1>2, <2>1, <2>2
  <1>. DEFINE A == Pins(chain.url)
  <1>4. A \in SUBSET Addresses /\ chain' = [chain EXCEPT !.addresses = A]
        /\ (PinnedHost(chain.url) => A = chain.pins[HostOf[chain.url]])
    BY <1>1, <1>2, <1>3
  <1>. HIDE DEF A
  <1>. QED BY <1>1, <1>4, AddressesFoundInv

LEMMA ResolveInv == ASSUME IInv, Resolve PROVE IInv'
  <1>1. /\ proc = "UP" /\ phase = "ADDRESSES" /\ Pins(chain.url) = {}
        /\ UNCHANGED <<job, received, link, proc>>
    BY DEF Resolve, Unmoved, exchangeVars
  <1>2. PICK r \in Resolutions(HostOf[chain.url]) \cup {Unavailable} :
          CASE Judged(r) = "OK" ->
                 /\ phase' = "INTENT"
                 /\ chain' = [chain EXCEPT !.addresses = r.addresses]
                 /\ UNCHANGED ledgerVars
            [] Judged(r) # "OK" /\ chain.n = 1 -> Finish /\ UNCHANGED ledgerVars
            [] OTHER -> EndChain
    BY DEF Resolve
  <1>3. CASE Judged(r) = "OK"
    <2>1. r.addresses \in SUBSET Addresses
      <3>1. r.disp = "ALLOWED"
        BY <1>3 DEF Judged
      <3>2. PICK a \in SUBSET Addresses : r = [disp |-> Guard(a),
                                               addresses |-> IF Guard(a) = "ALLOWED" THEN a ELSE {}]
        BY <3>1 DEF Resolutions, Unavailable
      <3>. QED BY <3>2
    <2>2. ~PinnedHost(chain.url)
      BY <1>1 DEF IInv, ChainIsInStep, Pins, PinnedHost
    <2>3. /\ phase' = "INTENT" /\ chain' = [chain EXCEPT !.addresses = r.addresses]
          /\ UNCHANGED <<request, hop, uses>>
      BY <1>2, <1>3 DEF ledgerVars
    <2>. DEFINE A == r.addresses
    <2>4. A \in SUBSET Addresses /\ chain' = [chain EXCEPT !.addresses = A]
      BY <2>1, <2>3
    <2>. HIDE DEF A
    <2>. QED BY <1>1, <2>2, <2>3, <2>4, AddressesFoundInv
  <1>4. CASE Judged(r) # "OK" /\ chain.n = 1
    BY <1>1, <1>2, <1>4, NothingLeftInv DEF Finish, ledgerVars
  <1>5. CASE Judged(r) # "OK" /\ chain.n # 1
    BY <1>1, <1>2, <1>5, EndChainInv DEF Deciding
  <1>. QED BY <1>3, <1>4, <1>5

LEMMA NotMadeInv == ASSUME IInv, HopNotMade \/ RequestTimesOut \/ IntentNotRecorded PROVE IInv'
  <1>1. UNCHANGED <<job, received, link, proc>> /\ Deciding /\ proc = "UP" /\ phase # "IDLE"
    BY DEF HopNotMade, RequestTimesOut, IntentNotRecorded, Unmoved, exchangeVars, Deciding
  <1>2. CASE Finish /\ UNCHANGED ledgerVars
    BY <1>1, <1>2, NothingLeftInv DEF Finish, ledgerVars, Deciding
  <1>3. CASE EndChain /\ chain.n # 1
    BY <1>1, <1>3, EndChainInv
  <1>4. chain.n \in Nat
    BY <1>1, NetAssumption DEF IInv, ChainIsInStep, ChainType
  <1>. QED BY <1>2, <1>3, <1>4 DEF HopNotMade, RequestTimesOut, IntentNotRecorded, LaterHopEnds

-----------------------------------------------------------------------------
(* The intent *)

\* Where a hop is about to be recorded, nothing of it is there yet.
LEMMA HopIsNew ==
  ASSUME IInv, Deciding
  PROVE  /\ chain \in ChainType /\ chain.inv \in Invocations /\ chain.n \in 1..MaxHops
         /\ This \in HopIds /\ This = <<chain.inv, chain.n>> /\ This[1] = chain.inv
         /\ hop[This] = NoHop /\ job[This].st = "NONE" /\ received[This] = <<>>
         /\ ~Authorised(This)
  <1>1. chain \in ChainType
    BY DEF IInv, ChainIsInStep, Deciding
  <1>2. chain.inv \in Invocations /\ chain.n \in 1..MaxHops
    BY <1>1 DEF ChainType
  <1>3. This \in HopIds /\ This = <<chain.inv, chain.n>> /\ This[1] = chain.inv
    BY <1>2, HopIdParts DEF This
  <1>4. hop[This].state = "NONE"
    BY <1>2, <1>3 DEF IInv, ChainIsInStep, Deciding
  <1>5. hop[This] = NoHop /\ job[This].st = "NONE" /\ received[This] = <<>>
    BY <1>3, <1>4 DEF IInv, RowsAreTrue
  <1>. QED BY <1>1, <1>2, <1>3, <1>5 DEF Authorised, Under

LEMMA RowsBytesFinite == ASSUME IInv PROVE IsFiniteSet(BytesOut(Rows)) /\ IsFiniteSet(BytesIn(Rows))
  <1>1. IsFiniteSet(Rows) /\ \A h \in Rows : hop[h].out \in Nat /\ hop[h].in \in Nat
    BY HopsAreFinite DEF Rows, IInv, TypeOK, HopType
  <1>2. ASSUME NEW f, DOMAIN f = Rows, \A h \in Rows : f[h] \in Nat
        PROVE  IsFiniteSet(UNION {{h} \X (1..f[h]) : h \in Rows})
    <2>. DEFINE g == [h \in Rows |-> {h} \X (1..f[h])]
                T == {{h} \X (1..f[h]) : h \in Rows}
    <2>1. g \in Surjection(Rows, T)
      BY DEF Surjection
    <2>2. ASSUME NEW h \in Rows PROVE IsFiniteSet({h} \X (1..f[h]))
      <3>1. f[h] \in Nat
        BY <1>2
      <3>2. IsFiniteSet(1..f[h])
        BY <3>1, FS_Interval
      <3>3. IsFiniteSet({h})
        BY FS_Singleton
      <3>. QED BY <3>2, <3>3, FS_Product
    <2>3. \A x \in T : IsFiniteSet(x)
      BY <2>2
    <2>. HIDE DEF g, T
    <2>4. IsFiniteSet(T)
      BY <1>1, <2>1, FS_Surjection
    <2>5. IsFiniteSet(UNION T)
      BY <2>3, <2>4, FS_UNION
    <2>. QED BY <2>5 DEF T
  <1>3. IsFiniteSet(BytesOut(Rows))
    <2>. DEFINE f == [h \in Rows |-> hop[h].out]
    <2>1. IsFiniteSet(UNION {{h} \X (1..f[h]) : h \in Rows})
      BY <1>1, <1>2
    <2>2. BytesOut(Rows) = UNION {{h} \X (1..f[h]) : h \in Rows}
      BY DEF BytesOut
    <2>. QED BY <2>1, <2>2
  <1>4. IsFiniteSet(BytesIn(Rows))
    <2>. DEFINE f == [h \in Rows |-> hop[h].in]
    <2>1. IsFiniteSet(UNION {{h} \X (1..f[h]) : h \in Rows})
      BY <1>1, <1>2
    <2>2. BytesIn(Rows) = UNION {{h} \X (1..f[h]) : h \in Rows}
      BY DEF BytesIn
    <2>. QED BY <2>1, <2>2
  <1>. QED BY <1>3, <1>4

\* A row more, within what was left: the budgets are read as they are charged.
LEMMA OneRowMore ==
  ASSUME IInv, NEW t \in HopIds, hop[t] = NoHop, NEW r \in HopType, r.state = "INTENT",
         hop' = [hop EXCEPT ![t] = r],
         Spent.requests < Budget.requests,
         Spent.out + r.out <= Budget.out, Spent.in + r.in <= Budget.in,
         r.origin \in Origins(Rows) \/ Spent.origins < Budget.origins
  PROVE  ChargesAreWithin'
  <1>1. /\ hop \in [HopIds -> HopType] /\ hop'[t] = r
        /\ \A h \in HopIds \ {t} : hop'[h] = hop[h]
        /\ t \notin Rows /\ Rows' = Rows \cup {t}
    BY DEF IInv, TypeOK, Rows, NoHop
  <1>2. r.out \in Nat /\ r.in \in Nat /\ \A h \in HopIds : hop[h].out \in Nat /\ hop[h].in \in Nat
    BY <1>1 DEF HopType
  <1>3. /\ Budget.requests \in Nat /\ Budget.out \in Nat /\ Budget.in \in Nat /\ Budget.origins \in Nat
    BY NetAssumption
  <1>4. IsFiniteSet(Rows)
    BY HopsAreFinite DEF Rows
  <1>5. Cardinality(Rows') <= Budget.requests
    <2>1. Cardinality(Rows \cup {t}) <= Cardinality(Rows) + 1
          /\ Cardinality(Rows) \in Nat /\ Cardinality(Rows \cup {t}) \in Nat
      BY <1>4, CountOneMore
    <2>2. Cardinality(Rows) < Budget.requests
      BY DEF Spent
    <2>. QED BY <1>1, <1>3, <2>1, <2>2
  \* Bytes: a finite set of them, and r's, which are none of them.
  <1>6. ASSUME NEW k \in Nat, NEW S, IsFiniteSet(S), NEW b \in Nat, Cardinality(S) + k <= b
        PROVE  Cardinality(S \cup ({t} \X (1..k))) <= b
    <2>. DEFINE new == {t} \X (1..k)
    <2>1. IsFiniteSet(new) /\ Cardinality(new) = k
      <3>1. IsFiniteSet({t}) /\ Cardinality({t}) = 1
        BY FS_Singleton
      <3>2. IsFiniteSet(1..k) /\ Cardinality(1..k) = k
        BY FS_Interval
      <3>3. IsFiniteSet(new) /\ Cardinality(new) = Cardinality({t}) * Cardinality(1..k)
        BY <3>1, <3>2, FS_Product
      <3>. HIDE DEF new
      <3>. QED BY <3>1, <3>2, <3>3
    <2>. HIDE DEF new
    <2>2. IsFiniteSet(S \cup new) /\ Cardinality(S \cup new) = Cardinality(S) + k - Cardinality(S \cap new)
      BY <1>6, <2>1, FS_Union
    <2>3. Cardinality(S \cap new) \in Nat /\ Cardinality(S) \in Nat /\ Cardinality(S \cup new) \in Nat
      <3>1. IsFiniteSet(S \cap new)
        BY <1>6, FS_Subset
      <3>. QED BY <1>6, <2>2, <3>1, FS_CardinalityType
    <2>4. Cardinality(S \cup new) <= b
      BY <1>6, <2>2, <2>3
    <2>. QED BY <2>4 DEF new
  <1>7. BytesOut(Rows)' = BytesOut(Rows) \cup ({t} \X (1..r.out))
    BY <1>1 DEF BytesOut, Rows
  <1>8. BytesIn(Rows)' = BytesIn(Rows) \cup ({t} \X (1..r.in))
    BY <1>1 DEF BytesIn, Rows
  <1>9. Cardinality(BytesOut(Rows)') <= Budget.out
    <2>1. IsFiniteSet(BytesOut(Rows))
      BY RowsBytesFinite
    <2>2. Cardinality(BytesOut(Rows)) + r.out <= Budget.out
      BY DEF Spent
    <2>. QED BY <1>2, <1>3, <1>6, <1>7, <2>1, <2>2
  <1>10. Cardinality(BytesIn(Rows)') <= Budget.in
    <2>1. IsFiniteSet(BytesIn(Rows))
      BY RowsBytesFinite
    <2>2. Cardinality(BytesIn(Rows)) + r.in <= Budget.in
      BY DEF Spent
    <2>. QED BY <1>2, <1>3, <1>6, <1>8, <2>1, <2>2
  <1>11. Cardinality(Origins(Rows)') <= Budget.origins
    <2>1. Origins(Rows)' = Origins(Rows) \cup {r.origin}
      BY <1>1 DEF Origins, Rows
    <2>2. IsFiniteSet(Origins(Rows))
      <3>. DEFINE f == [h \in Rows |-> hop[h].origin]
      <3>1. f \in Surjection(Rows, Origins(Rows))
        BY DEF Surjection, Origins
      <3>. QED BY <1>4, <3>1, FS_Surjection
    <2>. DEFINE O == Origins(Rows)
    <2>. HIDE DEF O
    <2>3. /\ Cardinality(O) \in Nat /\ Cardinality(O \cup {r.origin}) \in Nat
          /\ Cardinality(O \cup {r.origin}) <= Cardinality(O) + 1
          /\ r.origin \in O => Cardinality(O \cup {r.origin}) = Cardinality(O)
      BY <2>2, CountOneMore DEF O
    <2>4. Cardinality(O) <= Budget.origins /\ (r.origin \in O \/ Cardinality(O) < Budget.origins)
      BY DEF O, Spent, IInv, ChargesAreWithin
    <2>5. Cardinality(O \cup {r.origin}) <= Budget.origins
      BY <1>3, <2>3, <2>4
    <2>. QED BY <2>1, <2>5 DEF O
  <1>. QED BY <1>5, <1>9, <1>10, <1>11 DEF ChargesAreWithin

LEMMA RecordIntentInv == ASSUME IInv, RecordIntent PROVE IInv'
  <1>. DEFINE t == This
              r == [NoHop EXCEPT !.state = "INTENT", !.origin = OriginOf[chain.url],
                      !.out = Charges(chain.cred).out, !.in = Charges(chain.cred).in,
                      !.injection = IF chain.cred THEN "INTENT" ELSE "NONE"]
              q == [state |-> "INTENT", key |-> chain.key, origin |-> OriginOf[chain.url], hops |-> 0]
              H == HostOf[chain.url]
              pins == [x \in DOMAIN chain.pins \cup {H} |-> IF x = H THEN chain.addresses ELSE chain.pins[x]]
  <1>1. /\ phase = "INTENT" /\ phase' = "EXCHANGE" /\ proc = "UP" /\ IntentRefused = "NONE"
        /\ UNCHANGED <<job, received, link, proc, uses>>
        /\ request' = IF chain.n > 1 THEN request ELSE [request EXCEPT ![chain.inv] = q]
        /\ hop' = [hop EXCEPT ![t] = r]
    BY DEF RecordIntent, RecordRequest, RecordHop, Unmoved, exchangeVars
  <1>2. /\ chain \in ChainType /\ chain.inv \in Invocations /\ chain.n \in 1..MaxHops
        /\ t \in HopIds /\ t = <<chain.inv, chain.n>> /\ t[1] = chain.inv
        /\ hop[t] = NoHop /\ job[t].st = "NONE" /\ received[t] = <<>> /\ ~Authorised(t)
    BY <1>1, HopIsNew DEF Deciding
  <1>. HIDE DEF t
  <1>3. /\ chain.n = 1 => ~KeyBound(chain.key)
        /\ Permits(chain.url, chain.cred, chain.addresses) /\ Within(chain.url, chain.cred)
    BY <1>1, <1>2 DEF IntentRefused
  <1>4. /\ chain.url \in Urls /\ chain.key \in Keys /\ chain.cred \in BOOLEAN
        /\ chain.addresses \in SUBSET Addresses /\ chain.visited \in SUBSET Urls
        /\ chain.pins \in UNION {[D -> SUBSET Addresses] : D \in SUBSET {HostOf[u] : u \in Urls}}
    BY <1>2 DEF ChainType
  <1>5. /\ r \in HopType /\ r.state = "INTENT" /\ r.origin = OriginOf[chain.url] /\ r.tls = FALSE
        /\ r.injection \in {"NONE", "INTENT"}
        /\ r.out = Charges(chain.cred).out /\ r.in = Charges(chain.cred).in
    BY <1>4 DEF NoHop, HopType, Charges, Outcomes, OriginNames
  <1>6. /\ q \in RequestType /\ q.state = "INTENT" /\ q.key = chain.key /\ q.origin = OriginOf[chain.url]
    BY <1>4 DEF RequestType, Outcomes, OriginNames
  <1>. HIDE DEF r, q
  <1>7. /\ hop \in [HopIds -> HopType] /\ hop'[t] = r /\ \A h \in HopIds \ {t} : hop'[h] = hop[h]
        /\ hop' \in [HopIds -> HopType]
    BY <1>1, <1>2, <1>5 DEF IInv, TypeOK
  <1>8. /\ request \in [Invocations -> RequestType] /\ request' \in [Invocations -> RequestType]
        /\ \A i \in Invocations \ {chain.inv} : request'[i] = request[i]
        /\ chain.n # 1 => request' = request
        /\ chain.n = 1 => request'[chain.inv] = q
    BY <1>1, <1>2, <1>6 DEF IInv, TypeOK
  <1>9. TypeOK'
    BY <1>1, <1>7, <1>8 DEF IInv, TypeOK
  <1>10. /\ chain' \in ChainType /\ chain'.inv = chain.inv /\ chain'.n = chain.n /\ chain'.url = chain.url
         /\ chain'.call = chain.call /\ chain'.cred = chain.cred /\ chain'.pins = pins
         /\ chain'.visited = chain.visited \cup {chain.url} /\ chain'.addresses = chain.addresses
    <2>1. chain' = [chain EXCEPT !.visited = chain.visited \cup {chain.url}, !.pins = pins]
      BY <1>2 DEF RecordIntent, RecordRequest, RecordHop, ChainType
    <2>2. pins \in UNION {[D -> SUBSET Addresses] : D \in SUBSET {HostOf[u] : u \in Urls}}
      <3>1. PICK D \in SUBSET {HostOf[u] : u \in Urls} : chain.pins \in [D -> SUBSET Addresses]
        BY <1>4
      <3>2. pins \in [D \cup {H} -> SUBSET Addresses] /\ D \cup {H} \in SUBSET {HostOf[u] : u \in Urls}
        BY <1>4, <3>1
      <3>. QED BY <3>2
    <2>. HIDE DEF pins
    <2>. QED BY <1>2, <1>4, <2>1, <2>2 DEF ChainType
  \* A host that is pinned keeps its addresses.
  <1>11. \A u \in chain.visited :
           HostOf[u] \in DOMAIN pins /\ pins[HostOf[u]] = chain.pins[HostOf[u]] /\ pins[HostOf[u]] # {}
    BY <1>1 DEF IInv, ChainIsInStep, PinnedHost
  <1>12. H \in DOMAIN pins /\ pins[H] = chain.addresses /\ chain.addresses # {}
    BY <1>3 DEF Permits
  <1>. HIDE DEF pins, H
  <1>13. This' = t
    BY <1>2, <1>10 DEF This
  <1>14. ChainIsInStep'
    <2>1. /\ request'[chain.inv].state = "INTENT"
          /\ request'[chain.inv].origin = OriginOf[chain.call.url]
          /\ chain.n = 1 => chain.url = chain.call.url
          /\ chain.cred => OriginOf[chain.url] = OriginOf[chain.call.url]
      BY <1>1, <1>6, <1>8 DEF IInv, ChainIsInStep
    <2>2. \A m \in 1..MaxHops : m > chain.n => hop'[<<chain.inv, m>>].state = "NONE"
      BY <1>1, <1>2, <1>7, HopIdParts DEF IInv, ChainIsInStep
    <2>3. OriginOf[chain.url] \in AddressRules => chain.addresses \cap DeniedAddresses = {}
      BY <1>3 DEF Permits, AddressAllowed
    <2>4. \A u \in chain'.visited : HostOf[u] \in DOMAIN chain'.pins /\ chain'.pins[HostOf[u]] # {}
      BY <1>10, <1>11, <1>12 DEF H
    <2>5. chain'.pins[HostOf[chain.url]] = chain.addresses
      BY <1>10, <1>12 DEF H
    <2>. QED BY <1>1, <1>5, <1>7, <1>10, <1>13, <2>1, <2>2, <2>3, <2>4, <2>5
             DEF ChainIsInStep, Deciding, Exchanging
  <1>15. KeysAreApart'
    <2>1. chain.n # 1 => request[chain.inv].state # "NONE"
      BY <1>1 DEF IInv, ChainIsInStep
    <2>2. \A i \in Invocations : request'[i].state = "NONE" => request[i].state = "NONE" /\ i # chain.inv
      BY <1>6, <1>8, <2>1
    <2>3. \A i \in Invocations, m \in 1..MaxHops : i # chain.inv => hop'[<<i, m>>] = hop[<<i, m>>]
      BY <1>2, <1>7, HopIdParts
    <2>4. \A i \in Invocations : request'[i].state = "NONE" =>
            request'[i].key = "NONE" /\ \A m \in 1..MaxHops : hop'[<<i, m>>].state = "NONE"
      BY <1>8, <2>2, <2>3 DEF IInv, KeysAreApart
    <2>5. \A i \in Invocations : request'[i].state # "NONE" => request'[i].key \in Keys
      BY <1>4, <1>6, <1>8 DEF IInv, KeysAreApart
    <2>6. chain.n = 1 => \A i \in Invocations : request[i].key # chain.key
      BY <1>3, <1>4, NetAssumption DEF KeyBound, IInv, KeysAreApart
    <2>7. \A i, j \in Invocations :
            request'[i].state # "NONE" /\ request'[i].key = request'[j].key => i = j
      BY <1>6, <1>8, <2>6 DEF IInv, KeysAreApart
    <2>. QED BY <2>4, <2>5, <2>7 DEF KeysAreApart
  <1>16. AuthorisedWasDecided'
    <2>. SUFFICES ASSUME NEW h \in HopIds, Authorised(h) PROVE Decided(h)'
      BY <1>1, ExchangeSame DEF AuthorisedWasDecided
    <2>1. h # t /\ hop'[h] = hop[h] /\ SpecOf(h)' = SpecOf(h) /\ Decided(h)
      BY <1>1, <1>2, <1>7, ExchangeSame DEF IInv, AuthorisedWasDecided
    <2>2. request'[h[1]].origin = request[h[1]].origin
      <3>1. CASE h[1] = chain.inv /\ chain.n = 1
        <4>1. request[chain.inv].state = "NONE"
          BY <1>1, <3>1 DEF IInv, ChainIsInStep, Deciding
        <4>2. hop[h].state = "NONE"
          BY <3>1, <4>1, HopIdParts DEF IInv, KeysAreApart
        <4>. QED BY <2>1, <4>2 DEF Decided
      <3>2. CASE h[1] # chain.inv \/ chain.n # 1
        BY <1>8, <3>2, HopIdParts
      <3>. QED BY <3>1, <3>2
    <2>3. h[1] = chain.inv => /\ SpecOf(h).url \in chain'.visited
                              /\ SpecOf(h).addresses = chain'.pins[HostOf[SpecOf(h).url]]
      BY <1>1, <1>10, <1>11, <2>1 DEF Decided
    <2>. QED BY <1>10, <2>1, <2>2, <2>3 DEF Decided
  <1>17. RowsAreTrue'
    BY <1>1, <1>2, <1>5, <1>7 DEF IInv, RowsAreTrue, Quiet
  <1>18. LinkIsInStep'
    BY <1>1, <1>2, <1>13 DEF IInv, LinkIsInStep
  <1>19. UsesAreCounted'
    <2>1. hop[t].injection # "INJECTED" /\ hop'[t].injection # "INJECTED"
      BY <1>2, <1>5, <1>7 DEF NoHop
    <2>2. {h \in HopIds : hop'[h].injection = "INJECTED"} = {h \in HopIds : hop[h].injection = "INJECTED"}
      BY <1>7, <2>1
    <2>. QED BY <1>1, <2>2 DEF IInv, UsesAreCounted
  <1>20. ChargesAreWithin'
    <2>1. /\ Spent.requests < Budget.requests
          /\ Spent.out + r.out <= Budget.out /\ Spent.in + r.in <= Budget.in
          /\ r.origin \in Origins(Rows) \/ Spent.origins < Budget.origins
      BY <1>3, <1>5 DEF Within
    <2>. QED BY <1>1, <1>2, <1>5, <2>1, OneRowMore
  <1>. QED BY <1>1, <1>9, <1>14, <1>15, <1>16, <1>17, <1>18, <1>19, <1>20, ExchangeSame DEF IInv

-----------------------------------------------------------------------------
(* The exchange *)

\* The hop that is exchanged, and its row.
LEMMA HopIsOpen ==
  ASSUME IInv, Exchanging
  PROVE  /\ chain \in ChainType /\ chain.inv \in Invocations /\ chain.n \in 1..MaxHops
         /\ chain.url \in Urls /\ chain.addresses \in SUBSET Addresses /\ chain.cred \in BOOLEAN
         /\ This \in HopIds /\ This[1] = chain.inv /\ This = <<chain.inv, chain.n>>
         /\ hop[This].state = "INTENT" /\ hop[This].origin = OriginOf[chain.url]
         /\ ~hop[This].tls /\ hop[This].injection \in {"NONE", "INTENT"}
         /\ request[chain.inv].state = "INTENT" /\ proc = "UP" /\ phase # "IDLE"
  <1>1. chain \in ChainType
    BY DEF IInv, ChainIsInStep, Exchanging
  <1>2. /\ chain.inv \in Invocations /\ chain.n \in 1..MaxHops
        /\ chain.url \in Urls /\ chain.addresses \in SUBSET Addresses /\ chain.cred \in BOOLEAN
    BY <1>1 DEF ChainType
  <1>3. This \in HopIds /\ This[1] = chain.inv /\ This = <<chain.inv, chain.n>>
    BY <1>2, HopIdParts DEF This
  <1>. QED BY <1>1, <1>2, <1>3 DEF IInv, ChainIsInStep, Exchanging

LEMMA PerformInv == ASSUME IInv, Perform PROVE IInv'
  <1>00. Exchanging
    BY DEF Perform, Exchanging
  <1>0. PICK t \in HopIds : t = This
    BY <1>00, HopIsOpen
  <1>. DEFINE s == [url |-> chain.url, addresses |-> chain.addresses, cred |-> chain.cred]
              j == [NoJob EXCEPT !.st = "RECEIVED", !.spec = s]
              k == [NoLink EXCEPT !.hop = This, !.st = "WAIT"]
  <1>1. /\ phase = "EXCHANGE" /\ phase' = "WAIT" /\ link' = k /\ job' = [job EXCEPT ![t] = j]
        /\ UNCHANGED <<received, proc, chain, request, hop, uses>> /\ Exchanging
    BY <1>0 DEF Perform, ledgerVars, Exchanging
  <1>2. /\ chain.url \in Urls /\ chain.addresses \in SUBSET Addresses /\ chain.cred \in BOOLEAN
        /\ t \in HopIds /\ t[1] = chain.inv /\ hop[t].state = "INTENT"
        /\ hop[t].origin = OriginOf[chain.url] /\ ~hop[t].tls /\ hop[t].injection \in {"NONE", "INTENT"}
    BY <1>0, <1>1, HopIsOpen
  <1>3. s \in SpecType /\ s.url = chain.url /\ s.addresses = chain.addresses /\ s.cred = chain.cred
    BY <1>2 DEF SpecType
  <1>. HIDE DEF s
  <1>4. j \in JobType /\ j.st = "RECEIVED" /\ j.spec = s /\ j.marked = FALSE
    BY <1>3 DEF NoJob, JobType
  <1>5. k \in LinkType /\ k.hop = t /\ k.st = "WAIT"
    BY <1>0, <1>2 DEF NoLink, NoAnswer, LinkType, AnswerType
  <1>6. This' = t
    BY <1>0, <1>1 DEF This
  <1>. HIDE DEF j, k
  <1>7. job'[t] = j /\ \A h \in HopIds \ {t} : job'[h] = job[h]
    BY <1>1, <1>2 DEF IInv, TypeOK
  <1>8. TypeOK'
    BY <1>1, <1>4, <1>5 DEF IInv, TypeOK
  <1>9. received[t] = <<>> /\ job[t].st = "NONE"
    BY <1>0, <1>1 DEF IInv, LinkIsInStep
  <1>10. ChainIsInStep' /\ KeysAreApart'
    BY <1>1 DEF IInv, ChainIsInStep, KeysAreApart, Deciding, Exchanging, This
  <1>11. /\ \A h \in HopIds \ {t} : /\ SpecOf(h)' = SpecOf(h) /\ (Authorised(h)' <=> Authorised(h))
                                    /\ (Quiet(h)' <=> Quiet(h)) /\ (Under(h)' <=> Under(h))
         /\ SpecOf(t)' = s /\ Authorised(t)' /\ Under(t)'
    BY <1>1, <1>4, <1>7, <1>9 DEF SpecOf, Authorised, Quiet, Under
  <1>12. JobsAreInStep'
    BY <1>1, <1>4, <1>7, <1>9, <1>11 DEF IInv, JobsAreInStep, MayGo
  <1>13. /\ chain.url \in chain.visited /\ chain.addresses = chain.pins[HostOf[chain.url]]
         /\ OriginOf[chain.url] \in AddressRules => chain.addresses \cap DeniedAddresses = {}
         /\ chain.cred => OriginOf[chain.url] = request[chain.inv].origin
    BY <1>1 DEF IInv, ChainIsInStep
  <1>14. AuthorisedWasDecided'
    BY <1>1, <1>2, <1>3, <1>11, <1>13 DEF IInv, AuthorisedWasDecided, Decided
  <1>15. PinsAreOne'
    <2>1. ASSUME NEW h \in HopIds \ {t}, Authorised(h), h[1] = t[1],
                 HostOf[SpecOf(h).url] = HostOf[s.url]
          PROVE  SpecOf(h).addresses = s.addresses
      BY <1>1, <1>2, <1>3, <1>13, <2>1 DEF IInv, AuthorisedWasDecided, Decided
    <2>. QED BY <1>11, <2>1 DEF IInv, PinsAreOne
  <1>16. RowsAreTrue'
    BY <1>1, <1>2, <1>7, <1>11 DEF IInv, RowsAreTrue
  <1>17. LinkIsInStep'
    BY <1>1, <1>5, <1>6, <1>11 DEF LinkIsInStep
  <1>. QED BY <1>1, <1>8, <1>10, <1>12, <1>14, <1>15, <1>16, <1>17, RowsSame DEF IInv

LEMMA PerformFailsInv == ASSUME IInv, PerformFails PROVE IInv'
  <1>1. /\ phase = "EXCHANGE" /\ phase' = "WAIT" /\ link' = [hop |-> This, st |-> "DONE", ans |-> NotSent]
        /\ UNCHANGED <<job, received, proc, chain, request, hop, uses>> /\ Exchanging
    BY DEF PerformFails, ledgerVars, Exchanging
  <1>2. This \in HopIds /\ This' = This
    BY <1>1, HopIsOpen DEF This
  <1>3. link' \in LinkType /\ link'.hop = This /\ link'.st = "DONE" /\ link'.ans.tag = "NOT_SENT"
    BY <1>1, <1>2 DEF LinkType, AnswerType, NotSent
  <1>4. TypeOK'
    BY <1>1, <1>3 DEF IInv, TypeOK
  <1>5. ChainIsInStep' /\ KeysAreApart'
    BY <1>1 DEF IInv, ChainIsInStep, KeysAreApart, Deciding, Exchanging, This
  <1>6. AuthorisedWasDecided'
    BY <1>1, ExchangeSame DEF IInv, AuthorisedWasDecided, Decided
  <1>7. RowsAreTrue'
    BY <1>1 DEF IInv, RowsAreTrue, Quiet
  <1>8. LinkIsInStep'
    BY <1>1, <1>2, <1>3 DEF IInv, LinkIsInStep, Quiet
  <1>. QED BY <1>1, <1>4, <1>5, <1>6, <1>7, <1>8, ExchangeSame, RowsSame DEF IInv

\* A step of the broker or of the link that starts no exchange: one or more jobs move on, an
\* origin may be sent what its job carries, and an answer may arrive.
LEMMA ExchangeMoves ==
  ASSUME IInv, UNCHANGED <<proc, phase, chain, request, hop, uses>>,
         job' \in [HopIds -> JobType], link' \in LinkType,
         received' \in [HopIds -> {<<>>} \cup {<<s>> : s \in SpecType}],
         \A h \in HopIds : /\ Authorised(h)' => Authorised(h) /\ SpecOf(h)' = SpecOf(h)
                           /\ Quiet(h) => Quiet(h)'
                           /\ received[h] # <<>> => received'[h] # <<>>
                           /\ job[h].st = "NONE" => job'[h].st = "NONE",
         JobsAreInStep', LinkIsInStep'
  PROVE  IInv'
  <1>1. TypeOK' /\ ChainIsInStep' /\ KeysAreApart'
    BY DEF IInv, TypeOK, ChainIsInStep, KeysAreApart, Deciding, Exchanging, This, PinnedHost
  <1>2. AuthorisedWasDecided'
    BY DEF IInv, AuthorisedWasDecided, Decided
  <1>3. PinsAreOne'
    BY DEF IInv, PinsAreOne
  <1>4. RowsAreTrue'
    <2>1. \A h \in HopIds : job[h].st = "NONE" /\ received[h] = <<>> =>
            job'[h].st = "NONE" /\ received'[h] = <<>>
      BY DEF Quiet
    <2>. QED BY <2>1 DEF IInv, RowsAreTrue
  <1>. QED BY <1>1, <1>2, <1>3, <1>4, RowsSame DEF IInv

\* What the authority keeps while the broker works.
Apart == <<proc, phase, chain, ledgerVars, held>>

\* A job ends with an answer that says what it came to.
LEMMA DeliverInv ==
  ASSUME IInv, UNCHANGED Apart, NEW h \in HopIds, NEW ans \in AnswerType, Under(h), Deliver(h, ans),
         UNCHANGED received, ans.tag = "DONE" => received[h] # <<>>,
         ans.tag \in {"REFUSED", "NOT_SENT"} => received[h] = <<>>
  PROVE  IInv'
  <1>. DEFINE j == [NoJob EXCEPT !.st = "OVER"]
  <1>1. /\ UNCHANGED <<proc, phase, chain, request, hop, uses>> /\ job' = [job EXCEPT ![h] = j]
        /\ link' = IF link.hop = h /\ link.st = "WAIT"
                   THEN [link EXCEPT !.st = "DONE", !.ans = ans] ELSE link
    BY DEF Apart, ledgerVars, Deliver
  <1>2. j \in JobType /\ j.st = "OVER" /\ j.marked = FALSE
    BY DEF NoJob, JobType, NoSpec, SpecType
  <1>. HIDE DEF j
  <1>3. /\ job' \in [HopIds -> JobType] /\ job'[h] = j /\ \A g \in HopIds \ {h} : job'[g] = job[g]
        /\ received' \in [HopIds -> {<<>>} \cup {<<s>> : s \in SpecType}]
    BY <1>1, <1>2 DEF IInv, TypeOK
  <1>4. link \in LinkType /\ link' \in LinkType
    BY <1>1 DEF IInv, TypeOK, LinkType
  <1>5. /\ \A g \in HopIds : /\ Authorised(g)' => Authorised(g) /\ SpecOf(g)' = SpecOf(g)
                             /\ Quiet(g) => Quiet(g)'
                             /\ received[g] # <<>> => received'[g] # <<>>
                             /\ job[g].st = "NONE" => job'[g].st = "NONE"
        /\ \A g \in HopIds \ {h} : Under(g)' <=> Under(g)
    BY <1>2, <1>3 DEF Authorised, SpecOf, Quiet, Under
  <1>6. JobsAreInStep'
    <2>. SUFFICES ASSUME NEW g \in HopIds PROVE
            /\ job'[g].st \in {"RECEIVED", "HANDED", "MARKED"} => received'[g] = <<>>
            /\ job'[g].st = "SENT" => received'[g] = <<job'[g].spec>>
            /\ (job'[g].marked <=> job'[g].st \in {"MARKED", "SENT"})
            /\ job'[g].st \in {"HANDED", "MARKED", "SENT"} \/ received'[g] # <<>> => MayGo(SpecOf(g))'
      BY DEF JobsAreInStep
    <2>1. CASE g = h
      BY <1>2, <1>3, <1>5, <2>1 DEF IInv, JobsAreInStep, MayGo, Authorised
    <2>2. CASE g # h
      BY <1>3, <1>5, <2>2 DEF IInv, JobsAreInStep, MayGo, Authorised, Under
    <2>. QED BY <2>1, <2>2
  <1>7. LinkIsInStep'
    <2>1. phase # "WAIT" => link' = NoLink
      BY <1>1 DEF IInv, LinkIsInStep, NoLink
    <2>2. This' = This
      BY <1>1 DEF This
    <2>3. phase = "EXCHANGE" => This \in HopIds /\ This # h
      BY HopIsOpen DEF Exchanging, IInv, LinkIsInStep, Under
    <2>4. CASE phase = "WAIT"
      <3>1. PICK t \in HopIds : t = This
        BY <2>4, HopIsOpen DEF Exchanging
      <3>2. link.hop = t /\ link.st \in {"WAIT", "DONE"} /\ link'.hop = t
            /\ link'.st \in {"WAIT", "DONE"}
        BY <1>1, <1>4, <2>4, <3>1 DEF IInv, LinkIsInStep, LinkType
      <3>3. CASE h = t /\ link.st = "WAIT"
        <4>1. link'.st = "DONE" /\ link'.ans = ans
          BY <1>1, <1>4, <3>2, <3>3 DEF LinkType
        <4>2. received[h] = <<>> => Quiet(h)'
          BY <1>2, <1>3 DEF Quiet
        <4>. QED BY <1>1, <2>2, <2>4, <3>1, <3>2, <3>3, <4>1, <4>2 DEF LinkIsInStep
      <3>4. CASE h # t \/ link.st # "WAIT"
        <4>1. link' = link
          BY <1>1, <3>2, <3>4
        <4>2. /\ link.st = "WAIT" => Under(t)'
              /\ link.st = "DONE" /\ link.ans.tag = "DONE" => received'[t] # <<>>
              /\ link.st = "DONE" /\ link.ans.tag \in {"REFUSED", "NOT_SENT"} => Quiet(t)'
          BY <1>5, <2>4, <3>1, <3>4 DEF IInv, LinkIsInStep
        <4>. QED BY <1>1, <2>2, <2>4, <3>1, <3>2, <4>1, <4>2 DEF LinkIsInStep
      <3>. QED BY <3>3, <3>4
    <2>5. CASE phase # "WAIT"
      BY <1>1, <1>3, <2>1, <2>2, <2>3, <2>5 DEF IInv, LinkIsInStep
    <2>. QED BY <2>4, <2>5
  <1>. QED BY <1>1, <1>3, <1>4, <1>5, <1>6, <1>7, ExchangeMoves

\* A job moves on, with nothing sent or with what it carries sent.
LEMMA AdvanceInv ==
  ASSUME IInv, UNCHANGED Apart, NEW h \in HopIds, NEW j \in JobType, Under(h),
         job' = [job EXCEPT ![h] = j], UNCHANGED link, j.spec = job[h].spec,
         \/ /\ j.st = "HANDED" /\ ~j.marked /\ received[h] = <<>> /\ received' = received
         \/ /\ j.st = "MARKED" /\ j.marked /\ received[h] = <<>> /\ received' = received
         \/ /\ j.st = "SENT" /\ j.marked /\ received[h] = <<>>
            /\ received' = [received EXCEPT ![h] = <<job[h].spec>>],
         MayGo(job[h].spec)
  PROVE  IInv'
  <1>1. UNCHANGED <<proc, phase, chain, request, hop, uses>>
    BY DEF Apart, ledgerVars
  <1>2. job[h] \in JobType /\ job[h].spec \in SpecType
    BY DEF IInv, TypeOK, JobType
  <1>3. /\ job' \in [HopIds -> JobType] /\ job'[h] = j /\ \A g \in HopIds \ {h} : job'[g] = job[g]
        /\ received' \in [HopIds -> {<<>>} \cup {<<s>> : s \in SpecType}]
        /\ \A g \in HopIds \ {h} : received'[g] = received[g]
        /\ received'[h] = <<>> \/ received'[h] = <<job[h].spec>>
        /\ j.st = "SENT" => received'[h] = <<job[h].spec>>
        /\ j.st # "SENT" => received'[h] = <<>>
    BY <1>2 DEF IInv, TypeOK
  <1>4. /\ SpecOf(h)' = SpecOf(h) /\ SpecOf(h) = job[h].spec /\ Authorised(h) /\ Under(h)' /\ ~Quiet(h)
    BY <1>3 DEF SpecOf, Authorised, Under, Quiet
  <1>5. \A g \in HopIds \ {h} :
          /\ SpecOf(g)' = SpecOf(g) /\ (Authorised(g)' <=> Authorised(g))
          /\ (Quiet(g)' <=> Quiet(g)) /\ (Under(g)' <=> Under(g))
    BY <1>3 DEF SpecOf, Authorised, Under, Quiet
  <1>6. \A g \in HopIds : /\ Authorised(g)' => Authorised(g) /\ SpecOf(g)' = SpecOf(g)
                          /\ Quiet(g) => Quiet(g)'
                          /\ received[g] # <<>> => received'[g] # <<>>
                          /\ job[g].st = "NONE" => job'[g].st = "NONE"
    BY <1>3, <1>4, <1>5 DEF Under
  <1>7. JobsAreInStep'
    <2>. SUFFICES ASSUME NEW g \in HopIds PROVE
            /\ job'[g].st \in {"RECEIVED", "HANDED", "MARKED"} => received'[g] = <<>>
            /\ job'[g].st = "SENT" => received'[g] = <<job'[g].spec>>
            /\ (job'[g].marked <=> job'[g].st \in {"MARKED", "SENT"})
            /\ job'[g].st \in {"HANDED", "MARKED", "SENT"} \/ received'[g] # <<>> => MayGo(SpecOf(g))'
      BY DEF JobsAreInStep
    <2>1. CASE g = h
      BY <1>3, <1>4, <2>1 DEF MayGo
    <2>2. CASE g # h
      BY <1>3, <1>5, <2>2 DEF IInv, JobsAreInStep, MayGo
    <2>. QED BY <2>1, <2>2
  <1>8. LinkIsInStep'
    <2>1. This' = This
      BY <1>1 DEF This
    <2>2. phase \in {"EXCHANGE", "WAIT"} => This \in HopIds
      BY HopIsOpen DEF Exchanging
    <2>3. CASE phase \notin {"EXCHANGE", "WAIT"}
      BY <1>1, <2>3 DEF IInv, LinkIsInStep
    <2>4. CASE phase \in {"EXCHANGE", "WAIT"}
      <3>1. PICK t \in HopIds : t = This
        BY <2>2, <2>4
      <3>2. phase = "EXCHANGE" => t # h
        BY <3>1 DEF IInv, LinkIsInStep, Under
      <3>3. phase = "EXCHANGE" => job'[t].st = "NONE" /\ received'[t] = <<>>
        BY <1>3, <3>1, <3>2 DEF IInv, LinkIsInStep
      <3>4. phase = "WAIT" =>
              /\ link.st = "WAIT" => Under(t)'
              /\ link.st = "DONE" /\ link.ans.tag = "DONE" => received'[t] # <<>>
              /\ link.st = "DONE" /\ link.ans.tag \in {"REFUSED", "NOT_SENT"} => Quiet(t)'
        BY <1>4, <1>5, <1>6, <3>1 DEF IInv, LinkIsInStep
      <3>. QED BY <1>1, <2>1, <3>1, <3>3, <3>4 DEF IInv, LinkIsInStep
    <2>. QED BY <2>3, <2>4
  <1>9. link' \in LinkType
    BY DEF IInv, TypeOK
  <1>. QED BY <1>1, <1>3, <1>6, <1>7, <1>8, <1>9, ExchangeMoves

LEMMA AnswersAreTyped ==
  /\ Refused \in AnswerType /\ Refused.tag = "REFUSED"
  /\ Indeterminate \in AnswerType /\ Indeterminate.tag = "INDETERMINATE"
  /\ Lost \in AnswerType /\ Lost.tag = "LOST"
  /\ \A spec \in SpecType : \A a \in Answers(spec) : a \in AnswerType /\ a.tag = "DONE"
  <1>1. /\ Refused \in AnswerType /\ Refused.tag = "REFUSED"
        /\ Indeterminate \in AnswerType /\ Indeterminate.tag = "INDETERMINATE"
        /\ Lost \in AnswerType /\ Lost.tag = "LOST"
    BY DEF Refused, Indeterminate, Lost, AnswerType
  <1>2. ASSUME NEW spec \in SpecType, NEW a \in Answers(spec) PROVE a \in AnswerType /\ a.tag = "DONE"
    <2>1. PICK disp \in {"COMPLETED", "BROKEN"}, status \in {"NONE", "OK", "R303", "R307"},
               loc \in Urls \cup {"INVALID", "NONE"} : a = Response(disp, status, loc)
      BY DEF Answers, HeadBreaks, BodyBreaks, Kept
    <2>. QED BY <2>1 DEF Response, AnswerType
  <1>. QED BY <1>1, <1>2

LEMMA ExchangeStepInv ==
  ASSUME IInv, UNCHANGED Apart, NEW h \in HopIds, ExchangeStep(h) PROVE IInv'
  <1>1. job \in [HopIds -> JobType] /\ job[h] \in JobType /\ job[h].spec \in SpecType
        /\ job[h].marked \in BOOLEAN
    BY DEF IInv, TypeOK, JobType
  <1>2. /\ job[h].st \in {"RECEIVED", "HANDED", "MARKED"} => received[h] = <<>>
        /\ job[h].st = "SENT" => received[h] # <<>>
        /\ (job[h].marked <=> job[h].st \in {"MARKED", "SENT"})
        /\ job[h].st \in {"HANDED", "MARKED"} => MayGo(job[h].spec)
    BY DEF IInv, JobsAreInStep, SpecOf
  <1>3. CASE BrokerRefuses(h) \/ WorkerRefuses(h)
    BY <1>2, <1>3, AnswersAreTyped, DeliverInv DEF BrokerRefuses, WorkerRefuses, Under
  <1>4. CASE OriginAnswers(h)
    <2>1. PICK a \in Answers(job[h].spec) : Deliver(h, a)
      BY <1>4 DEF OriginAnswers
    <2>2. a \in AnswerType /\ a.tag = "DONE" /\ Under(h) /\ received[h] # <<>> /\ UNCHANGED received
      BY <1>1, <1>2, <1>4, AnswersAreTyped DEF OriginAnswers, Under
    <2>. QED BY <2>1, <2>2, DeliverInv
  <1>5. CASE WorkerDies(h)
    <2>. DEFINE a == Unanswered(job[h].marked)
    <2>1. Deliver(h, a) /\ Under(h) /\ UNCHANGED received
      BY <1>5 DEF WorkerDies, Under
    <2>2. /\ a \in AnswerType /\ a.tag # "DONE"
          /\ a.tag \in {"REFUSED", "NOT_SENT"} => received[h] = <<>>
      BY <1>2, <1>5, AnswersAreTyped DEF WorkerDies, Unanswered
    <2>. HIDE DEF a
    <2>. QED BY <2>1, <2>2, DeliverInv
  <1>6. CASE HandOver(h)
    <2>. DEFINE j == [job[h] EXCEPT !.st = "HANDED"]
    <2>1. job' = [job EXCEPT ![h] = j] /\ UNCHANGED <<link, received>> /\ Under(h)
          /\ MayGo(job[h].spec) /\ received[h] = <<>>
      BY <1>1, <1>2, <1>6 DEF HandOver, Advance, Under
    <2>2. j \in JobType /\ j.st = "HANDED" /\ j.spec = job[h].spec /\ ~j.marked
      BY <1>1, <1>2, <1>6 DEF HandOver, JobType
    <2>. HIDE DEF j
    <2>. QED BY <2>1, <2>2, AdvanceInv
  <1>7. CASE Mark(h)
    <2>. DEFINE j == [job[h] EXCEPT !.st = "MARKED", !.marked = TRUE]
    <2>1. job' = [job EXCEPT ![h] = j] /\ UNCHANGED <<link, received>> /\ Under(h)
          /\ MayGo(job[h].spec) /\ received[h] = <<>>
      BY <1>1, <1>2, <1>7 DEF Mark, Under
    <2>2. j \in JobType /\ j.st = "MARKED" /\ j.spec = job[h].spec /\ j.marked
      BY <1>1 DEF JobType
    <2>. HIDE DEF j
    <2>. QED BY <2>1, <2>2, AdvanceInv
  <1>8. CASE Send(h)
    <2>. DEFINE j == [job[h] EXCEPT !.st = "SENT"]
    <2>1. job' = [job EXCEPT ![h] = j] /\ UNCHANGED link /\ Under(h) /\ MayGo(job[h].spec)
          /\ received[h] = <<>>
      BY <1>1, <1>2, <1>8 DEF Send, Under
    <2>2. received' = [received EXCEPT ![h] = <<job[h].spec>>]
      <3>1. Append(<<>>, job[h].spec) = <<job[h].spec>>
        OBVIOUS
      <3>2. received \in [HopIds -> {<<>>} \cup {<<s>> : s \in SpecType}]
        BY DEF IInv, TypeOK
      <3>3. received' = [received EXCEPT ![h] = Append(received[h], job[h].spec)]
        BY <1>8, <3>2 DEF Send
      <3>. QED BY <2>1, <3>1, <3>3
    <2>3. j \in JobType /\ j.st = "SENT" /\ j.spec = job[h].spec /\ j.marked
      BY <1>1, <1>2, <1>8 DEF Send, JobType
    <2>. HIDE DEF j
    <2>. QED BY <2>1, <2>2, <2>3, AdvanceInv
  <1>. QED BY <1>3, <1>4, <1>5, <1>6, <1>7, <1>8 DEF ExchangeStep

\* The authority's exchange breaks, and every job with it or none.
LEMMA LinkLostInv ==
  ASSUME IInv, UNCHANGED Apart, UNCHANGED received,
         link' = link \/ (link.st = "WAIT" /\ link' = [link EXCEPT !.st = "DONE", !.ans = Lost]),
         \/ UNCHANGED job
         \/ /\ job' = [h \in HopIds |->
                        IF job[h].st = "NONE" THEN NoJob ELSE [NoJob EXCEPT !.st = "OVER"]]
            /\ link.st = "WAIT" => link' # link
  PROVE  IInv'
  <1>1. UNCHANGED <<proc, phase, chain, request, hop, uses>>
    BY DEF Apart, ledgerVars
  <1>2. /\ link \in LinkType /\ link' \in LinkType /\ link'.hop = link.hop
        /\ link' # link => link.st = "WAIT" /\ link'.st = "DONE" /\ link'.ans.tag = "LOST"
    BY AnswersAreTyped DEF IInv, TypeOK, LinkType
  <1>3. NoJob \in JobType /\ [NoJob EXCEPT !.st = "OVER"] \in JobType
    BY DEF NoJob, JobType, NoSpec, SpecType
  <1>4. /\ job' \in [HopIds -> JobType]
        /\ received' \in [HopIds -> {<<>>} \cup {<<s>> : s \in SpecType}]
        /\ \A h \in HopIds : \/ job'[h] = job[h]
                             \/ /\ job'[h].st \in {"NONE", "OVER"} /\ ~job'[h].marked
                                /\ job[h].st = "NONE" => job'[h].st = "NONE"
    <2>. DEFINE over == [NoJob EXCEPT !.st = "OVER"]
    <2>1. NoJob.st = "NONE" /\ ~NoJob.marked /\ over.st = "OVER" /\ ~over.marked /\ over \in JobType
      BY <1>3 DEF NoJob
    <2>2. job' = job \/ job' = [h \in HopIds |-> IF job[h].st = "NONE" THEN NoJob ELSE over]
      OBVIOUS
    <2>. HIDE DEF over
    <2>. QED BY <1>3, <2>1, <2>2 DEF IInv, TypeOK
  <1>5. \A h \in HopIds : /\ Authorised(h)' => Authorised(h) /\ SpecOf(h)' = SpecOf(h)
                          /\ Quiet(h) => Quiet(h)'
                          /\ received[h] # <<>> => received'[h] # <<>>
                          /\ job[h].st = "NONE" => job'[h].st = "NONE"
    BY <1>4 DEF Authorised, SpecOf, Quiet, Under
  <1>6. JobsAreInStep'
    <2>. SUFFICES ASSUME NEW g \in HopIds PROVE
            /\ job'[g].st \in {"RECEIVED", "HANDED", "MARKED"} => received'[g] = <<>>
            /\ job'[g].st = "SENT" => received'[g] = <<job'[g].spec>>
            /\ (job'[g].marked <=> job'[g].st \in {"MARKED", "SENT"})
            /\ job'[g].st \in {"HANDED", "MARKED", "SENT"} \/ received'[g] # <<>> => MayGo(SpecOf(g))'
      BY DEF JobsAreInStep
    <2>1. CASE job'[g] = job[g]
      <3>1. SpecOf(g)' = SpecOf(g)
        BY <2>1 DEF SpecOf
      <3>. QED BY <2>1, <3>1 DEF IInv, JobsAreInStep, MayGo
    <2>2. CASE job'[g] # job[g]
      <3>1. received'[g] # <<>> => SpecOf(g)' = SpecOf(g)
        BY DEF SpecOf
      <3>. QED BY <1>4, <2>2, <3>1 DEF IInv, JobsAreInStep, MayGo
    <2>. QED BY <2>1, <2>2
  <1>7. LinkIsInStep'
    <2>1. This' = This
      BY <1>1 DEF This
    <2>2. phase # "WAIT" => link' = NoLink
      BY <1>2 DEF IInv, LinkIsInStep, NoLink
    <2>3. phase \in {"EXCHANGE", "WAIT"} => This \in HopIds
      BY HopIsOpen DEF Exchanging
    <2>4. CASE phase \notin {"EXCHANGE", "WAIT"}
      BY <1>1, <2>2, <2>4 DEF LinkIsInStep
    <2>5. CASE phase \in {"EXCHANGE", "WAIT"}
      <3>1. PICK t \in HopIds : t = This
        BY <2>3, <2>5
      <3>2. phase = "EXCHANGE" => job'[t].st = "NONE" /\ received'[t] = <<>>
        BY <1>5, <3>1 DEF IInv, LinkIsInStep
      <3>3. phase = "WAIT" =>
              /\ link'.hop = t /\ link'.st \in {"WAIT", "DONE"}
              /\ link'.st = "WAIT" => Under(t)'
              /\ link'.st = "DONE" /\ link'.ans.tag = "DONE" => received'[t] # <<>>
              /\ link'.st = "DONE" /\ link'.ans.tag \in {"REFUSED", "NOT_SENT"} => Quiet(t)'
        <4>1. CASE link' = link
          <5>1. link.st = "WAIT" => UNCHANGED job
            BY <4>1
          <5>2. link.st = "WAIT" => (Under(t)' <=> Under(t))
            BY <5>1 DEF Under
          <5>. QED BY <1>5, <3>1, <4>1, <5>2 DEF IInv, LinkIsInStep
        <4>2. CASE link' # link
          BY <1>2, <3>1, <4>2 DEF IInv, LinkIsInStep
        <4>. QED BY <4>1, <4>2
      <3>. QED BY <1>1, <2>1, <2>2, <3>1, <3>2, <3>3 DEF LinkIsInStep
    <2>. QED BY <2>4, <2>5
  <1>. QED BY <1>1, <1>2, <1>4, <1>5, <1>6, <1>7, ExchangeMoves

LEMMA BrokerNextInv == ASSUME IInv, BrokerNext, UNCHANGED Apart PROVE IInv'
  <1>1. CASE \E h \in HopIds : ExchangeStep(h)
    BY <1>1, ExchangeStepInv
  <1>2. CASE BrokerDies
    <2>1. link.st = "WAIT" => [link EXCEPT !.st = "DONE", !.ans = Lost] # link
      BY DEF IInv, TypeOK, LinkType
    <2>. QED BY <1>2, <2>1, LinkLostInv DEF BrokerDies
  <1>3. CASE ChannelLost
    BY <1>3, LinkLostInv DEF ChannelLost
  <1>. QED BY <1>1, <1>2, <1>3 DEF BrokerNext

-----------------------------------------------------------------------------
(* What came back *)

\* Rows whose charges stand: a step that ends some of them.
LEMMA ChargesStand ==
  ASSUME IInv, \A h \in HopIds : /\ hop'[h].state = "NONE" <=> hop[h].state = "NONE"
                                 /\ hop'[h].origin = hop[h].origin
                                 /\ hop'[h].out = hop[h].out /\ hop'[h].in = hop[h].in
  PROVE  ChargesAreWithin'
  <1>1. Rows' = Rows
    BY DEF Rows
  <1>2. BytesOut(Rows)' = BytesOut(Rows) /\ BytesIn(Rows)' = BytesIn(Rows) /\ Origins(Rows)' = Origins(Rows)
    BY <1>1 DEF BytesOut, BytesIn, Origins, Rows
  <1>. QED BY <1>1, <1>2 DEF IInv, ChargesAreWithin

\* end_hop: the row of the hop that was answered says what the answer proves, and a use is
\* counted with it.
LEMMA EndHopFacts ==
  ASSUME IInv, Answered, EndHop(link.ans), Over
  PROVE  /\ hop' \in [HopIds -> HopType] /\ uses' \in Nat
         /\ \A h \in HopIds : /\ hop'[h].state = "NONE" <=> hop[h].state = "NONE"
                              /\ hop'[h].origin = hop[h].origin
                              /\ h # This => hop'[h] = hop[h]
         /\ hop'[This].state = HopState(link.ans)
         /\ JobsAreInStep' /\ PinsAreOne' /\ RowsAreTrue' /\ UsesAreCounted' /\ ChargesAreWithin'
  <1>. DEFINE ans == link.ans
              ending == IF chain.cred THEN SecretEnding(ans) ELSE "NONE"
              r == [hop[This] EXCEPT !.state = HopState(ans), !.tls = (ans.tag = "DONE"),
                                     !.injection = ending]
  <1>1. phase = "WAIT" /\ Exchanging /\ link.st = "DONE"
    BY DEF Answered, Exchanging
  <1>2. PICK t \in HopIds : t = This
    BY <1>1, HopIsOpen
  <1>3. /\ hop[t].state = "INTENT" /\ ~hop[t].tls /\ hop[t].injection \in {"NONE", "INTENT"}
        /\ chain.cred \in BOOLEAN
    BY <1>1, <1>2, HopIsOpen
  <1>4. /\ ans.tag = "DONE" => received[t] # <<>>
        /\ ans.tag \in {"REFUSED", "NOT_SENT"} => Quiet(t)
    BY <1>1, <1>2 DEF IInv, LinkIsInStep
  <1>5. hop \in [HopIds -> HopType] /\ hop[t] \in HopType /\ uses \in Nat
    BY DEF IInv, TypeOK
  <1>6. /\ hop' = [hop EXCEPT ![t] = r] /\ uses' = (IF ending = "INJECTED" THEN uses + 1 ELSE uses)
        /\ UNCHANGED <<job, received>>
    BY <1>2, <1>5 DEF EndHop, CountUse, Over, HopType
  <1>7. /\ HopState(ans) \in {"COMPLETED", "FAILED", "UNKNOWN"}
        /\ HopState(ans) = "COMPLETED" => ans.tag = "DONE"
        /\ HopState(ans) = "FAILED" => ans.tag = "DONE" \/ ans.tag \in {"REFUSED", "NOT_SENT"}
        /\ ending \in {"NONE", "INJECTED", "FAILED", "UNKNOWN"}
        /\ ending = "INJECTED" => ans.tag = "DONE"
        /\ ending = "FAILED" => ans.tag \in {"REFUSED", "NOT_SENT"}
    BY DEF HopState, SecretEnding
  <1>. HIDE DEF ans, ending
  <1>8. /\ r \in HopType /\ r.state = HopState(ans) /\ (r.tls <=> ans.tag = "DONE")
        /\ r.injection = ending /\ r.origin = hop[t].origin /\ r.out = hop[t].out /\ r.in = hop[t].in
    BY <1>2, <1>5, <1>7 DEF HopType, Outcomes
  <1>. HIDE DEF r
  <1>9. hop' \in [HopIds -> HopType] /\ hop'[t] = r /\ \A h \in HopIds \ {t} : hop'[h] = hop[h]
    BY <1>5, <1>6, <1>8
  <1>10. uses' \in Nat
    BY <1>5, <1>6
  <1>11. \A h \in HopIds : /\ hop'[h].state = "NONE" <=> hop[h].state = "NONE"
                           /\ hop'[h].origin = hop[h].origin
                           /\ hop'[h].out = hop[h].out /\ hop'[h].in = hop[h].in
    BY <1>3, <1>7, <1>8, <1>9
  <1>12. RowsAreTrue'
    <2>. SUFFICES ASSUME NEW h \in HopIds PROVE
            /\ hop'[h].state = "NONE" => hop'[h] = NoHop /\ job'[h].st = "NONE" /\ received'[h] = <<>>
            /\ hop'[h].state = "COMPLETED" \/ hop'[h].tls \/ hop'[h].injection = "INJECTED" =>
                 received'[h] # <<>>
            /\ (hop'[h].state = "FAILED" /\ ~hop'[h].tls) \/ hop'[h].injection = "FAILED" => Quiet(h)'
            /\ hop'[h].state = "INTENT" => ~hop'[h].tls
      BY DEF RowsAreTrue
    <2>1. CASE h = t
      <3>1. Quiet(t)' <=> Quiet(t)
        BY <1>6, ExchangeSame
      <3>. QED BY <1>4, <1>6, <1>7, <1>8, <1>9, <2>1, <3>1 DEF ans
    <2>2. CASE h # t
      BY <1>6, <1>9, <2>2 DEF IInv, RowsAreTrue, Quiet
    <2>. QED BY <2>1, <2>2
  <1>13. UsesAreCounted'
    <2>. DEFINE U == {h \in HopIds : hop[h].injection = "INJECTED"}
                V == {h \in HopIds : hop'[h].injection = "INJECTED"}
    <2>1. IsFiniteSet(U) /\ t \notin U
      BY <1>3, HopsAreFinite
    <2>2. ending = "INJECTED" => V = U \cup {t}
      BY <1>8, <1>9
    <2>3. ending # "INJECTED" => V = U
      BY <1>3, <1>8, <1>9
    <2>4. uses = Cardinality(U)
      BY DEF IInv, UsesAreCounted
    <2>. HIDE DEF U, V
    <2>5. Cardinality(U \cup {t}) = Cardinality(U) + 1
      BY <2>1, CountOneMore
    <2>6. uses' = Cardinality(V)
      BY <1>6, <2>2, <2>3, <2>4, <2>5
    <2>. QED BY <2>6 DEF UsesAreCounted, V
  <1>. QED BY <1>2, <1>6, <1>8, <1>9, <1>10, <1>11, <1>12, <1>13, ExchangeSame, ChargesStand DEF ans

\* A request that ends with its last hop.
LEMMA SettledInv ==
  ASSUME IInv, Answered, EndHop(link.ans), Over, NEW state \in {"COMPLETED", "FAILED", "UNKNOWN"},
         NEW n \in Nat, EndRequest(state, n), phase' = "IDLE"
  PROVE  IInv'
  <1>1. phase = "WAIT" /\ Exchanging /\ phase # "IDLE"
    BY DEF Answered, Exchanging
  <1>2. request[chain.inv].state = "INTENT"
    BY <1>1, HopIsOpen
  <1>3. /\ request' \in [Invocations -> RequestType]
        /\ \A i \in Invocations :
              /\ request'[i].key = request[i].key /\ request'[i].origin = request[i].origin
              /\ (request'[i].state = "NONE" <=> request[i].state = "NONE")
    BY <1>1, <1>2, EndRequestFacts DEF EndRequest
  <1>4. UNCHANGED <<job, received, proc>> /\ link' = NoLink
    BY DEF Over
  <1>5. NoLink \in LinkType
    BY DEF NoLink, NoAnswer, LinkType, AnswerType
  <1>6. TypeOK' /\ ChainIsInStep'
    BY <1>3, <1>4, <1>5, EndHopFacts DEF IInv, TypeOK, ChainIsInStep
  <1>7. KeysAreApart'
    BY <1>3, EndHopFacts, HopIdParts DEF IInv, KeysAreApart
  <1>8. AuthorisedWasDecided'
    BY <1>3, <1>4, EndHopFacts, ExchangeSame, HopIdParts DEF IInv, AuthorisedWasDecided, Decided
  <1>9. LinkIsInStep'
    BY <1>4 DEF LinkIsInStep
  <1>. QED BY <1>6, <1>7, <1>8, <1>9, EndHopFacts DEF IInv

LEMMA SettleEndInv == ASSUME IInv, SettleDone \/ SettleFailed PROVE IInv'
  <1>1. Answered /\ EndHop(link.ans) /\ Over /\ phase' = "IDLE"
    BY DEF SettleDone, SettleFailed, Finish
  <1>2. chain.n \in Nat
    BY <1>1, HopIsOpen, NetAssumption DEF Answered, Exchanging
  <1>3. CASE SettleDone
    BY <1>1, <1>2, <1>3, SettledInv DEF SettleDone
  <1>4. CASE SettleFailed
    <2>. DEFINE state == IF HopState(link.ans) = "UNKNOWN" THEN "UNKNOWN" ELSE "FAILED"
    <2>1. EndRequest(state, 1) /\ state \in {"COMPLETED", "FAILED", "UNKNOWN"}
      BY <1>4 DEF SettleFailed
    <2>. HIDE DEF state
    <2>. QED BY <1>1, <2>1, SettledInv
  <1>. QED BY <1>3, <1>4

\* A redirect: the next hop has no row, keeps the pins, and the credential only at home.
LEMMA SettleNextInv == ASSUME IInv, SettleNext PROVE IInv'
  <1>1. /\ Answered /\ EndHop(link.ans) /\ Over /\ Next(link.ans).end = "HOP" /\ phase' = "ADDRESSES"
        /\ request' = request
        /\ chain' = [chain EXCEPT !.n = @ + 1, !.url = link.ans.loc, !.method = Next(link.ans).method,
                                  !.cred = Carries(link.ans.loc)]
    BY DEF SettleNext
  <1>2. phase = "WAIT" /\ Exchanging
    BY <1>1 DEF Answered, Exchanging
  <1>3. /\ chain \in ChainType /\ chain.inv \in Invocations /\ chain.n \in 1..MaxHops
        /\ This \in HopIds /\ This = <<chain.inv, chain.n>>
    BY <1>2, HopIsOpen
  <1>4. /\ link.ans \in AnswerType /\ link.ans.loc \in Urls /\ chain.n < MaxHops
        /\ Next(link.ans).method \in {"GET", "POST"} /\ link.ans.status # "OK"
    <2>1. link.ans \in AnswerType
      BY DEF IInv, TypeOK, LinkType
    <2>2. chain.method \in {"GET", "POST"}
      BY <1>3 DEF ChainType
    <2>3. ~(link.ans.status = "OK" \/ link.ans.loc = "NONE")
      BY <1>1 DEF Next
    <2>4. /\ ~(chain.n >= MaxHops) /\ link.ans.loc # "INVALID"
          /\ Next(link.ans).method = (IF link.ans.status = "R303" THEN "GET" ELSE chain.method)
      BY <1>1, <2>3 DEF Next
    <2>5. link.ans.loc \in Urls
      BY <2>1, <2>3, <2>4 DEF AnswerType
    <2>. QED BY <1>3, <2>1, <2>2, <2>3, <2>4, <2>5, NetAssumption
  <1>5. Carries(link.ans.loc) \in BOOLEAN
        /\ (Carries(link.ans.loc) => OriginOf[link.ans.loc] = OriginOf[chain.call.url])
    <2>1. chain.call.cred \in BOOLEAN
      BY <1>3, NetAssumption DEF ChainType
    <2>. QED BY <2>1 DEF Carries
  <1>6. /\ chain' \in ChainType /\ chain'.inv = chain.inv /\ chain'.n = chain.n + 1
        /\ chain'.url = link.ans.loc /\ chain'.call = chain.call /\ chain'.cred = Carries(link.ans.loc)
        /\ chain'.pins = chain.pins /\ chain'.visited = chain.visited
    <2>1. chain.n + 1 \in 1..MaxHops
      BY <1>3, <1>4, NetAssumption
    <2>. QED BY <1>1, <1>3, <1>4, <1>5, <2>1 DEF ChainType
  <1>7. /\ UNCHANGED <<job, received, proc>> /\ link' = NoLink /\ NoLink \in LinkType
    BY <1>1 DEF Over, NoLink, NoAnswer, LinkType, AnswerType
  <1>8. TypeOK'
    BY <1>1, <1>7, EndHopFacts DEF IInv, TypeOK
  <1>9. ChainIsInStep'
    <2>1. \A m \in 1..MaxHops : m >= chain.n + 1 => hop'[<<chain.inv, m>>].state = "NONE"
      BY <1>1, <1>2, <1>3, EndHopFacts, HopIdParts DEF IInv, ChainIsInStep
    <2>2. chain'.n # 1
      BY <1>3, <1>6
    <2>3. \A m \in 1..MaxHops : m > chain'.n \/ m = chain'.n => hop'[<<chain'.inv, m>>].state = "NONE"
      BY <1>3, <1>6, <2>1
    <2>4. chain'.cred => OriginOf[chain'.url] = OriginOf[chain'.call.url]
      BY <1>5, <1>6
    <2>5. /\ request'[chain'.inv].state = "INTENT" /\ proc' = "UP"
          /\ request'[chain'.inv].origin = OriginOf[chain'.call.url]
          /\ \A u \in chain'.visited : HostOf[u] \in DOMAIN chain'.pins /\ chain'.pins[HostOf[u]] # {}
      BY <1>1, <1>2, <1>6, <1>7 DEF IInv, ChainIsInStep
    <2>. QED BY <1>1, <1>6, <2>2, <2>3, <2>4, <2>5 DEF ChainIsInStep, Exchanging
  <1>10. KeysAreApart'
    BY <1>1, EndHopFacts, HopIdParts DEF IInv, KeysAreApart
  <1>11. AuthorisedWasDecided'
    BY <1>1, <1>2, <1>6, <1>7, EndHopFacts, ExchangeSame DEF IInv, AuthorisedWasDecided, Decided
  <1>12. LinkIsInStep'
    BY <1>1, <1>7 DEF LinkIsInStep
  <1>. QED BY <1>1, <1>8, <1>9, <1>10, <1>11, <1>12, EndHopFacts DEF IInv

-----------------------------------------------------------------------------
(* The clock, and the process *)

LEMMA LeaseLapsesInv == ASSUME IInv, UNCHANGED <<exchangeVars, proc, phase, chain, ledgerVars>> PROVE IInv'
  <1>1. UNCHANGED <<job, received, link, proc, phase, chain, request, hop, uses>>
    BY DEF exchangeVars, ledgerVars
  <1>2. TypeOK' /\ ChainIsInStep' /\ KeysAreApart'
    BY <1>1 DEF IInv, TypeOK, ChainIsInStep, KeysAreApart, Deciding, Exchanging, This, PinnedHost
  <1>3. AuthorisedWasDecided'
    BY <1>1, ExchangeSame DEF IInv, AuthorisedWasDecided, Decided
  <1>4. RowsAreTrue' /\ LinkIsInStep'
    BY <1>1 DEF IInv, RowsAreTrue, LinkIsInStep, Quiet, Under, This
  <1>. QED BY <1>1, <1>2, <1>3, <1>4, ExchangeSame, RowsSame DEF IInv

LEMMA CrashInv == ASSUME IInv, Crash PROVE IInv'
  <1>1. /\ UNCHANGED <<job, received, request, hop, uses>> /\ proc' = "DOWN" /\ phase' = "IDLE"
        /\ link' = NoLink
    BY DEF Crash, ledgerVars
  <1>2. NoLink \in LinkType
    BY DEF NoLink, NoAnswer, LinkType, AnswerType
  <1>3. TypeOK' /\ ChainIsInStep' /\ KeysAreApart' /\ LinkIsInStep'
    BY <1>1, <1>2 DEF IInv, TypeOK, ChainIsInStep, KeysAreApart, LinkIsInStep
  <1>4. AuthorisedWasDecided'
    BY <1>1, ExchangeSame DEF IInv, AuthorisedWasDecided, Decided
  <1>5. RowsAreTrue'
    BY <1>1 DEF IInv, RowsAreTrue, Quiet
  <1>. QED BY <1>1, <1>3, <1>4, <1>5, ExchangeSame, RowsSame DEF IInv

\* What a restart does to a row.
LEMMA EndOpenRow ==
  ASSUME NEW row \in HopType
  PROVE  /\ EndOpen(row) \in HopType
         /\ EndOpen(row).state = (IF row.state = "INTENT" THEN "UNKNOWN" ELSE row.state)
         /\ EndOpen(row).injection = (IF row.injection = "INTENT" THEN "UNKNOWN" ELSE row.injection)
         /\ EndOpen(row).tls = row.tls /\ EndOpen(row).origin = row.origin
         /\ EndOpen(row).out = row.out /\ EndOpen(row).in = row.in
         /\ row = NoHop => EndOpen(row) = NoHop
  <1>. DEFINE st == IF row.state = "INTENT" THEN "UNKNOWN" ELSE row.state
              inj == IF row.injection = "INTENT" THEN "UNKNOWN" ELSE row.injection
  <1>1. EndOpen(row) = [row EXCEPT !.state = st, !.injection = inj]
    BY DEF EndOpen, HopType
  <1>2. st \in Outcomes /\ inj \in {"NONE", "INTENT", "INJECTED", "FAILED", "UNKNOWN"}
    BY DEF HopType, Outcomes
  <1>3. row = NoHop => EndOpen(row) = NoHop
    <2>1. row = NoHop => st = "NONE" /\ inj = "NONE"
      BY DEF NoHop
    <2>2. row.state = "NONE" /\ row.injection = "NONE" =>
            [row EXCEPT !.state = "NONE", !.injection = "NONE"] = row
      BY DEF HopType
    <2>3. row = NoHop => row.state = "NONE" /\ row.injection = "NONE"
      BY DEF NoHop
    <2>. HIDE DEF st, inj
    <2>. QED BY <1>1, <2>1, <2>2, <2>3
  <1>. HIDE DEF st, inj
  <1>4. /\ [row EXCEPT !.state = st, !.injection = inj] \in HopType
        /\ [row EXCEPT !.state = st, !.injection = inj].state = st
        /\ [row EXCEPT !.state = st, !.injection = inj].injection = inj
        /\ [row EXCEPT !.state = st, !.injection = inj].tls = row.tls
        /\ [row EXCEPT !.state = st, !.injection = inj].origin = row.origin
        /\ [row EXCEPT !.state = st, !.injection = inj].out = row.out
        /\ [row EXCEPT !.state = st, !.injection = inj].in = row.in
    BY <1>2 DEF HopType
  <1>. QED BY <1>1, <1>3, <1>4 DEF st, inj

LEMMA RestartInv == ASSUME IInv, Restart PROVE IInv'
  <1>1. /\ proc = "DOWN" /\ proc' = "UP" /\ UNCHANGED <<job, received, link, phase, chain, uses>>
        /\ hop' = [h \in HopIds |-> EndOpen(hop[h])]
    BY DEF Restart, exchangeVars
  <1>2. phase = "IDLE" /\ phase' = "IDLE"
    BY <1>1 DEF IInv, ChainIsInStep
  <1>3. /\ hop \in [HopIds -> HopType] /\ \A h \in HopIds : hop[h] \in HopType
        /\ \A h \in HopIds : hop'[h] = EndOpen(hop[h])
        /\ hop' \in [HopIds -> HopType]
    BY <1>1, EndOpenRow DEF IInv, TypeOK
  <1>4. /\ request' \in [Invocations -> RequestType]
        /\ \A i \in Invocations :
             /\ request'[i].key = request[i].key /\ request'[i].origin = request[i].origin
             /\ (request'[i].state = "NONE" <=> request[i].state = "NONE")
    <2>. DEFINE n(i) == Cardinality(HopsOf(i))
    <2>1. ASSUME NEW i \in Invocations PROVE n(i) \in Nat
      <3>1. HopsOf(i) \in SUBSET HopIds
        BY DEF HopsOf, Rows
      <3>. QED BY <3>1, HopsAreFinite, FS_CardinalityType
    <2>2. request' = [i \in Invocations |-> IF request[i].state = "INTENT"
                        THEN [request[i] EXCEPT !.state = "UNKNOWN", !.hops = n(i)] ELSE request[i]]
      BY DEF Restart
    <2>. HIDE DEF n
    <2>3. \A i \in Invocations : request[i] \in RequestType
      BY DEF IInv, TypeOK
    <2>. QED BY <2>1, <2>2, <2>3 DEF RequestType, Outcomes
  <1>5. \A h \in HopIds : /\ hop'[h].state = "NONE" <=> hop[h].state = "NONE"
                          /\ hop'[h].origin = hop[h].origin
                          /\ hop'[h].out = hop[h].out /\ hop'[h].in = hop[h].in
    BY <1>3, EndOpenRow
  <1>6. TypeOK' /\ ChainIsInStep'
    BY <1>1, <1>2, <1>3, <1>4 DEF IInv, TypeOK, ChainIsInStep
  <1>7. KeysAreApart'
    BY <1>4, <1>5, HopIdParts DEF IInv, KeysAreApart
  <1>8. AuthorisedWasDecided'
    BY <1>1, <1>2, <1>4, <1>5, ExchangeSame, HopIdParts DEF IInv, AuthorisedWasDecided, Decided
  <1>9. RowsAreTrue'
    BY <1>1, <1>3, EndOpenRow DEF IInv, RowsAreTrue, Quiet
  <1>10. LinkIsInStep'
    BY <1>1, <1>2 DEF IInv, LinkIsInStep
  <1>11. UsesAreCounted'
    <2>1. {h \in HopIds : hop'[h].injection = "INJECTED"} = {h \in HopIds : hop[h].injection = "INJECTED"}
      BY <1>3, EndOpenRow
    <2>. QED BY <1>1, <2>1 DEF IInv, UsesAreCounted
  <1>. QED BY <1>1, <1>5, <1>6, <1>7, <1>8, <1>9, <1>10, <1>11, ExchangeSame, ChargesStand DEF IInv

-----------------------------------------------------------------------------
(* Theorems *)

LEMMA ActionInv == IInv /\ [Action]_vars => IInv'
  <1>. SUFFICES ASSUME IInv, [Action]_vars PROVE IInv'
    OBVIOUS
  <1>1. CASE UNCHANGED vars
    BY <1>1, LeaseLapsesInv DEF vars
  <1>2. ASSUME NEW call \in Calls, NEW key \in Keys, Invoke(call, key) PROVE IInv'
    BY <1>2, InvokeInv
  <1>3. CASE AuthorityStep
    BY <1>3, NotMadeInv, UsePinnedInv, ResolveInv, RecordIntentInv, PerformInv, PerformFailsInv,
       SettleNextInv, SettleEndInv DEF AuthorityStep
  <1>4. CASE LeaseLapses \/ Crash \/ Restart
    BY <1>4, LeaseLapsesInv, CrashInv, RestartInv DEF LeaseLapses
  <1>5. CASE BrokerNext /\ UNCHANGED <<proc, phase, chain, ledgerVars, held>>
    BY <1>5, BrokerNextInv DEF Apart
  <1>. QED BY <1>1, <1>2, <1>3, <1>4, <1>5 DEF Action

\* The inductive invariant holds of every behaviour of the authority and its broker (net_http
\* in dwkd-authority, http in dwkd-broker).
THEOREM InductiveInvariant == Spec => []IInv
  BY InitInv, ActionInv, PTL DEF Spec

LEMMA GuardedIsOpen == ASSUME NEW A, Guard(A) = "ALLOWED" PROVE \A a \in A : ~IsBlocked(a)
  BY DEF Guard

\* For any policy, guard, chain and failure: what an origin receives was decided, once, under a
\* key of its own, at addresses that passed the guard and the rule and are the same for every
\* hop to the host, and with a credential only at the request's own origin (net_addresses,
\* net_intent and HopRequest::next in net_http/mod.rs; prepare in http/mod.rs).
THEOREM ReachesWhatWasDecided == Spec => []ReachesOnlyWhatWasDecided
  <1>1. IInv => ReachesOnlyWhatWasDecided
    <2>. SUFFICES ASSUME IInv, NEW h \in Reached
                  PROVE  LET spec == received[h][1]
                         IN /\ Len(received[h]) = 1
                            /\ \A i \in Invocations : request[i].key = request[h[1]].key => i = h[1]
                            /\ hop[h].state # "NONE" /\ hop[h].origin = OriginOf[spec.url]
                            /\ \A a \in spec.addresses : ~IsBlocked(a)
                            /\ OriginOf[spec.url] \in AddressRules =>
                                 spec.addresses \cap DeniedAddresses = {}
                            /\ spec.cred => OriginOf[spec.url] = request[h[1]].origin
                            /\ \A g \in Reached :
                                 g[1] = h[1] /\ HostOf[received[g][1].url] = HostOf[spec.url]
                                   => received[g][1].addresses = spec.addresses
      BY DEF ReachesOnlyWhatWasDecided
    <2>1. /\ h \in HopIds /\ received[h] # <<>> /\ Authorised(h) /\ SpecOf(h) = received[h][1]
          /\ \A g \in Reached : g \in HopIds /\ Authorised(g) /\ SpecOf(g) = received[g][1]
      BY DEF Reached, Authorised, SpecOf
    <2>2. Len(received[h]) = 1
      BY <2>1 DEF IInv, TypeOK
    <2>3. Decided(h)
      BY <2>1 DEF IInv, AuthorisedWasDecided
    <2>4. \A i \in Invocations : request[i].key = request[h[1]].key => i = h[1]
      <3>1. request[h[1]].state # "NONE" /\ h[1] \in Invocations
        BY <2>1, <2>3, HopIdParts DEF Decided, IInv, KeysAreApart
      <3>. QED BY <3>1 DEF IInv, KeysAreApart
    <2>5. \A a \in SpecOf(h).addresses : ~IsBlocked(a)
      BY <2>1, GuardedIsOpen DEF IInv, JobsAreInStep, MayGo
    <2>6. \A g \in Reached : g[1] = h[1] /\ HostOf[SpecOf(g).url] = HostOf[SpecOf(h).url]
                               => SpecOf(g).addresses = SpecOf(h).addresses
      BY <2>1 DEF IInv, PinsAreOne
    <2>. QED BY <2>1, <2>2, <2>3, <2>4, <2>5, <2>6 DEF Decided
  <1>. QED BY <1>1, InductiveInvariant, PTL

\* A credential an origin has received is never recorded as unused, and the uses counted are the
\* injections recorded, however exchanges break and whoever dies (record_outcome and count_use
\* in secret_use.rs).
THEOREM CredentialsAreAccounted == Spec => []CredentialIsAccounted
  <1>1. IInv => CredentialIsAccounted
    BY DEF IInv, RowsAreTrue, UsesAreCounted, CredentialIsAccounted, Reached, Quiet
  <1>. QED BY <1>1, InductiveInvariant, PTL

\* Nothing that was charged is given back: for any budget, over every incarnation of both
\* daemons, the rows are within it and whatever was sent has one (spent and within in
\* ledger.rs).
THEOREM BudgetIsNotRefilled == Spec => []BudgetNeverRefills
  <1>1. IInv => BudgetNeverRefills
    BY DEF IInv, RowsAreTrue, ChargesAreWithin, BudgetNeverRefills, Reached, Rows
  <1>. QED BY <1>1, InductiveInvariant, PTL

-----------------------------------------------------------------------------
(* NetHttp implements AtMostOnce, hop by hop *)

OutcomeOf == [h \in HopIds |-> HopOutcome(hop[h])]

\* A step that neither writes a row nor sends anything.
LEMMA NothingToMap ==
  ASSUME UNCHANGED <<hop, received>> PROVE UNCHANGED <<OutcomeOf, Reached>>
  BY DEF OutcomeOf, Reached, HopOutcome

LEMMA RecordIntentMaps == ASSUME IInv, RecordIntent PROVE \E h \in HopIds : AMO!Intend(h)
  <1>1. phase = "INTENT" /\ UNCHANGED received
    BY DEF RecordIntent, RecordRequest, RecordHop, Unmoved, exchangeVars
  <1>2. PICK t \in HopIds : t = This
    BY <1>1, HopIsNew DEF Deciding
  <1>3. hop[t] = NoHop /\ hop \in [HopIds -> HopType]
    BY <1>1, <1>2, HopIsNew DEF Deciding, IInv, TypeOK
  <1>4. hop'[t].state = "INTENT" /\ \A h \in HopIds \ {t} : hop'[h] = hop[h]
    BY <1>2, <1>3 DEF RecordIntent, RecordRequest, RecordHop, NoHop
  <1>5. HopOutcome(hop[t]) = "NONE" /\ HopOutcome(hop'[t]) = "OPEN"
    BY <1>3, <1>4 DEF HopOutcome, NoHop
  <1>6. OutcomeOf' = [OutcomeOf EXCEPT ![t] = "OPEN"] /\ OutcomeOf[t] = "NONE"
    BY <1>4, <1>5 DEF OutcomeOf
  <1>7. UNCHANGED Reached
    BY <1>1 DEF Reached
  <1>. QED BY <1>6, <1>7 DEF AMO!Intend, OutcomeOf

LEMMA SendMaps ==
  ASSUME IInv, NEW h \in HopIds, Send(h), UNCHANGED hop PROVE AMO!Happen(h)
  <1>1. job[h].st = "MARKED" /\ received[h] = <<>> /\ received \in [HopIds -> {<<>>} \cup {<<s>> : s \in SpecType}]
    BY DEF Send, IInv, JobsAreInStep, TypeOK
  <1>2. received'[h] # <<>> /\ \A g \in HopIds \ {h} : received'[g] = received[g]
    BY <1>1 DEF Send
  <1>3. Reached' = Reached \cup {h} /\ h \notin Reached
    BY <1>1, <1>2 DEF Reached
  <1>4. hop[h] \in HopType /\ hop[h].state \in Outcomes
    BY DEF IInv, TypeOK, HopType
  <1>5. /\ hop[h].state # "NONE" /\ hop[h].state # "COMPLETED"
        /\ hop[h].state # "FAILED"
    BY <1>1 DEF IInv, RowsAreTrue, Quiet
  <1>6. HopOutcome(hop[h]) \in {"OPEN", "UNKNOWN"}
    BY <1>4, <1>5 DEF HopOutcome, Outcomes
  <1>7. OutcomeOf' = OutcomeOf /\ OutcomeOf[h] \in {"OPEN", "UNKNOWN"}
    BY <1>6 DEF OutcomeOf
  <1>. QED BY <1>3, <1>7 DEF AMO!Happen, OutcomeOf

LEMMA SettleMaps ==
  ASSUME IInv, Answered, EndHop(link.ans), Over PROVE \E K \in SUBSET HopIds : AMO!Record(K)
  <1>1. phase = "WAIT" /\ Exchanging /\ link.st = "DONE" /\ UNCHANGED received
    BY DEF Answered, Exchanging, Over
  <1>2. PICK t \in HopIds : t = This
    BY <1>1, HopIsOpen
  <1>3. hop[t].state = "INTENT" /\ hop[t] \in HopType /\ hop \in [HopIds -> HopType]
    BY <1>1, <1>2, HopIsOpen DEF IInv, TypeOK
  <1>4. /\ hop'[t].state = HopState(link.ans) /\ (hop'[t].tls <=> link.ans.tag = "DONE")
        /\ \A h \in HopIds \ {t} : hop'[h] = hop[h]
    BY <1>2, <1>3 DEF EndHop, HopType
  <1>5. /\ link.ans.tag = "DONE" => received[t] # <<>>
        /\ link.ans.tag \in {"REFUSED", "NOT_SENT"} => received[t] = <<>>
    BY <1>1, <1>2 DEF IInv, LinkIsInStep, Quiet
  <1>. DEFINE o == HopOutcome(hop'[t])
              new == [k \in {t} |-> o]
  <1>6. \/ o = "COMPLETED" /\ t \in Reached
        \/ o = "FAILED" /\ t \notin Reached
        \/ o = "UNKNOWN"
    BY <1>4, <1>5 DEF HopOutcome, HopState, Reached
  <1>7. OutcomeOf[t] = "OPEN"
    BY <1>3 DEF OutcomeOf, HopOutcome
  <1>8. OutcomeOf' = [k \in HopIds |-> IF k \in {t} THEN new[k] ELSE OutcomeOf[k]]
    BY <1>4 DEF OutcomeOf
  <1>9. UNCHANGED Reached
    BY <1>1 DEF Reached
  <1>10. new \in [{t} -> {"COMPLETED", "FAILED", "UNKNOWN"}] /\ new[t] = o
    BY <1>6
  <1>. HIDE DEF o, new
  <1>11. \A k \in {t} : AMO!Truthful(k, new[k])
    BY <1>6, <1>10 DEF AMO!Truthful
  <1>12. AMO!Record({t})
    BY <1>7, <1>8, <1>9, <1>10, <1>11 DEF AMO!Record, OutcomeOf
  <1>. QED BY <1>12

LEMMA RestartMaps == ASSUME IInv, Restart PROVE \E K \in SUBSET HopIds : AMO!Record(K)
  <1>. DEFINE K == {h \in HopIds : OutcomeOf[h] = "OPEN"}
              new == [k \in K |-> "UNKNOWN"]
  <1>1. UNCHANGED received /\ \A h \in HopIds : hop[h] \in HopType /\ hop'[h] = EndOpen(hop[h])
    BY DEF Restart, exchangeVars, IInv, TypeOK
  <1>2. \A h \in HopIds : HopOutcome(hop'[h]) = (IF HopOutcome(hop[h]) = "OPEN" THEN "UNKNOWN"
                                                 ELSE HopOutcome(hop[h]))
    BY <1>1, EndOpenRow DEF HopOutcome, HopType, Outcomes
  <1>3. OutcomeOf' = [k \in HopIds |-> IF k \in K THEN new[k] ELSE OutcomeOf[k]]
    BY <1>2 DEF OutcomeOf
  <1>4. UNCHANGED Reached
    BY <1>1 DEF Reached
  <1>5. new \in [K -> {"COMPLETED", "FAILED", "UNKNOWN"}] /\ \A k \in K : AMO!Truthful(k, new[k])
    BY DEF AMO!Truthful
  <1>6. K \in SUBSET HopIds /\ \A k \in K : OutcomeOf[k] = "OPEN"
    OBVIOUS
  <1>. HIDE DEF K, new
  <1>7. AMO!Record(K)
    BY <1>3, <1>4, <1>5, <1>6 DEF AMO!Record, OutcomeOf
  <1>. QED BY <1>6, <1>7

LEMMA RecordSteps == ASSUME NEW K \in SUBSET HopIds, AMO!Record(K) PROVE AMO!ONext
  BY DEF AMO!Record, AMO!ONext

LEMMA StepMaps == IInv /\ [Action]_vars => [AMO!ONext]_(AMO!oVars)
  <1>. SUFFICES ASSUME IInv, [Action]_vars PROVE AMO!ONext \/ UNCHANGED <<OutcomeOf, Reached>>
    BY DEF AMO!oVars, OutcomeOf
  <1>1. CASE UNCHANGED vars
    BY <1>1, NothingToMap DEF vars, exchangeVars, ledgerVars
  <1>2. ASSUME NEW call \in Calls, NEW key \in Keys, Invoke(call, key) PROVE UNCHANGED <<hop, received>>
    BY <1>2 DEF Invoke, Unmoved, exchangeVars, ledgerVars
  <1>3. CASE \/ HopNotMade \/ RequestTimesOut \/ UsePinned \/ Resolve \/ IntentNotRecorded
             \/ Perform \/ PerformFails
    <2>1. UNCHANGED <<hop, received>>
      BY <1>3 DEF HopNotMade, RequestTimesOut, UsePinned, Resolve, IntentNotRecorded, Perform,
                  PerformFails, EndChain, Finish, Unmoved, exchangeVars, ledgerVars
    <2>. QED BY <2>1, NothingToMap
  <1>4. CASE RecordIntent
    BY <1>4, RecordIntentMaps DEF AMO!ONext
  <1>5. CASE SettleNext \/ SettleDone \/ SettleFailed
    BY <1>5, SettleMaps, RecordSteps DEF SettleNext, SettleDone, SettleFailed
  <1>6. CASE LeaseLapses \/ Crash
    BY <1>6, NothingToMap DEF LeaseLapses, Crash, exchangeVars, ledgerVars
  <1>7. CASE Restart
    BY <1>7, RestartMaps, RecordSteps
  <1>8. CASE BrokerNext /\ UNCHANGED <<proc, phase, chain, ledgerVars, held>>
    <2>1. UNCHANGED hop
      BY <1>8 DEF ledgerVars
    <2>2. ASSUME NEW h \in HopIds, Send(h) PROVE AMO!ONext
      BY <2>1, <2>2, SendMaps DEF AMO!ONext
    <2>3. (\E h \in HopIds : Send(h)) \/ UNCHANGED received
      BY <1>8 DEF BrokerNext, ExchangeStep, BrokerRefuses, HandOver, WorkerRefuses, Mark,
                  OriginAnswers, WorkerDies, BrokerDies, ChannelLost
    <2>. QED BY <2>1, <2>2, <2>3, NothingToMap
  <1>. QED BY <1>1, <1>2, <1>3, <1>4, <1>5, <1>6, <1>7, <1>8, NothingToMap DEF Action, AuthorityStep

\* Every hop is sent at most once, after its intent, and its row tells the truth of it: net.http
\* with its broker and its worker implements the abstract ledger (classify and hop_ending in
\* net_http/mod.rs, reconcile_open in ledger.rs).
THEOREM HopsImplementAtMostOnce == Spec => ImplementsAtMostOnce
  <1>1. Init => AMO!OInit
    BY NetAssumption DEF Init, ExchangeInit, AMO!OInit, HopOutcome, NoHop, Reached
  <1>. QED BY <1>1, StepMaps, InductiveInvariant, PTL DEF Spec, ImplementsAtMostOnce, AMO!OSpec
=============================================================================
