---------------------------- MODULE HttpExchange ----------------------------
(**********************************************************************************)
(* net.http in the broker (crates/dwkd-broker/src/http): one resolution of a      *)
(* host, and one exchange per hop.  The broker judges the pinned addresses        *)
(* again and dials; a worker process it has vouched for does the rest, says S     *)
(* on its control channel immediately before the first byte of the request, and   *)
(* answers.  What the broker concludes, it concludes from that channel.           *)
(*                                                                                *)
(* A hop's exchange is a job of its own, named by its hop: one whose authority is *)
(* gone, or stopped waiting, goes on.  The request has its effect when its first  *)
(* byte is written.  Names, headers, bodies and TLS are their verdicts.           *)
(**********************************************************************************)
EXTENDS Naturals, Sequences, FiniteSets

CONSTANTS
    HopIds,      \* an invocation and a hop's number
    Urls,
    HostOf,      \* a URL's host
    OriginOf,    \* a URL's host and port
    Addresses,   \* what names resolve to: a form, and whether a listed range holds it
    MetadataNames,
    Faults       \* what may go wrong between the processes

VARIABLES
    job,         \* per hop, its exchange in the broker
    received,    \* per hop, what the origin was sent, in order
    link         \* the authority's open exchange: the hop, and what came back

exchangeVars == <<job, received, link>>

\* How an address is written, as the guard tells them apart: IPv4, the two IPv6 forms that
\* embed one, global unicast, and everything else.
AddressForms == {"V4", "NAT64", "6TO4", "GLOBAL", "OTHER"}

ASSUME HttpAssumption ==
    /\ \A a \in Addresses : a.form \in AddressForms /\ a.listed \in BOOLEAN
    /\ DOMAIN HostOf = Urls /\ DOMAIN OriginOf = Urls
    /\ \A u, v \in Urls : OriginOf[u] = OriginOf[v] => HostOf[u] = HostOf[v]
    /\ Faults \subseteq {"HOST", "SWAP", "SPELLING", "DIAL", "VOUCH", "TLS", "RESPONSE", "DEATH",
                    "LOSE", "CRASH"}

\* What an exchange can come to.  DONE is a response: complete or broken, the status if
\* one arrived, and the redirect it asks for.  Why a refusal refused is wording.
Response(disp, status, loc) == [tag |-> "DONE", disp |-> disp, status |-> status, loc |-> loc]
Refused == [tag |-> "REFUSED", disp |-> "NONE", status |-> "NONE", loc |-> "NONE"]
Indeterminate == [tag |-> "INDETERMINATE", disp |-> "EXCHANGE_UNCONFIRMED", status |-> "NONE",
                  loc |-> "NONE"]
Lost == [tag |-> "LOST", disp |-> "NONE", status |-> "NONE", loc |-> "NONE"]
NoAnswer == [tag |-> "NONE", disp |-> "NONE", status |-> "NONE", loc |-> "NONE"]
NoSpec == [url |-> "NONE", addresses |-> {}, cred |-> FALSE]
NoJob == [st |-> "NONE", spec |-> NoSpec, marked |-> FALSE]
NoLink == [hop |-> <<0, 0>>, st |-> "NONE", ans |-> NoAnswer]

-----------------------------------------------------------------------------
\* guard::blocked: an address that embeds an IPv4 address is judged by that one, and of
\* IPv6 only global unicast is reachable at all.
IsBlocked(a) == a.form = "OTHER" \/ a.listed

\* guard::judge, of both daemons: an answer with a blocked address is refused whole.
Guard(answer) ==
    LET refused == {a \in answer : IsBlocked(a)}
    IN CASE answer = {} -> "EMPTY"
         [] answer # {} /\ refused = answer -> "BLOCKED"
         [] refused # {} /\ refused # answer -> "MIXED"
         [] OTHER -> "ALLOWED"

NameBlocked(host) == host \in MetadataNames

\* Client::resolve: the dispositions a resolution can have, with what it names.
Resolutions(host) ==
    IF NameBlocked(host) THEN {[disp |-> "BLOCKED", addresses |-> {}]}
    ELSE {[disp |-> d, addresses |-> {}] : d \in {"FAILED", "TIMEOUT"}}
         \cup {[disp |-> Guard(a),
                addresses |-> IF Guard(a) = "ALLOWED" THEN a ELSE {}] : a \in SUBSET Addresses}

-----------------------------------------------------------------------------
ExchangeInit ==
    /\ job = [h \in HopIds |-> NoJob]
    /\ received = [h \in HopIds |-> <<>>]
    /\ link = NoLink

Advance(h, st) == job' = [job EXCEPT ![h].st = st]

\* The broker's outcome reaches the authority if it still waits for this hop.
Deliver(h, ans) ==
    /\ job' = [job EXCEPT ![h] = [NoJob EXCEPT !.st = "OVER"]]
    /\ link' = IF link.hop = h /\ link.st = "WAIT"
               THEN [link EXCEPT !.st = "DONE", !.ans = ans] ELSE link

\* Client::exchange and prepare: the broker's own judgement of where the hop may go.
MayGo(spec) == ~NameBlocked(HostOf[spec.url]) /\ Guard(spec.addresses) = "ALLOWED"

\* WorkerPolicy: the host's own posture, read before every hop; a credential asks more.
HostRefuses(spec) == "HOST" \in Faults \/ (spec.cred /\ "SWAP" \in Faults)
\* hand_on: the bytes of the secret are not those of a header's value.
Unspelled(spec) == spec.cred /\ "SPELLING" \in Faults
\* dial: no pinned address answers in time.
Undialled(spec) == "DIAL" \in Faults
\* vouched: the worker's own report, and what the kernel says of it.
Unvouched(spec) == "VOUCH" \in Faults

\* Nothing was handed over.
BrokerRefuses(h) ==
    /\ job[h].st = "RECEIVED"
    /\ \/ ~MayGo(job[h].spec) \/ HostRefuses(job[h].spec) \/ Unspelled(job[h].spec)
       \/ Undialled(job[h].spec) \/ Unvouched(job[h].spec)
    /\ Deliver(h, Refused)
    /\ UNCHANGED received

\* The connection and the credential's pipe go to a worker that was vouched for.
HandOver(h) ==
    /\ job[h].st = "RECEIVED" /\ MayGo(job[h].spec)
    /\ Advance(h, "HANDED")
    /\ UNCHANGED <<received, link>>

\* converse, before the first byte: no handshake, or a request that cannot be rendered.
WorkerRefuses(h) ==
    /\ job[h].st = "HANDED" /\ "TLS" \in Faults
    /\ Deliver(h, Refused)
    /\ UNCHANGED received

\* Conversation::send: the broker hears it first; unheard, nothing is sent.
Mark(h) ==
    /\ job[h].st = "HANDED"
    /\ job' = [job EXCEPT ![h].st = "MARKED", ![h].marked = TRUE]
    /\ UNCHANGED <<received, link>>

\* The write is begun: from its first byte on the origin may have the request, which is what
\* received says.  One that fails or is late afterwards ends as a head that breaks (HeadBreaks).
Send(h) ==
    /\ job[h].st = "MARKED"
    /\ job' = [job EXCEPT ![h].st = "SENT"]
    /\ received' = [received EXCEPT ![h] = Append(@, job[h].spec)]
    /\ UNCHANGED link

\* judge_head and keep: a Location that holds the credential is dropped whole; one that
\* is not spelled as a URL comes back raw, for the authority to judge.
Kept(loc, echoed, cred) == IF echoed /\ cred THEN "NONE" ELSE loc

\* head and framing: malformed, ambiguous or late before the status is known.
HeadBreaks == {Response("BROKEN", "NONE", "NONE") : x \in Faults \cap {"RESPONSE"}}
\* body: encoded, malformed or late after it.
BodyBreaks == {Response("BROKEN", "OK", "NONE") : x \in Faults \cap {"RESPONSE"}}

\* What a response comes to.  Only a complete one carries a Location.
Answers(spec) ==
    {Response("COMPLETED", s, IF s = "OK" THEN "NONE" ELSE Kept(l, e, spec.cred)) :
        s \in {"OK", "R303", "R307"}, l \in Urls \cup {"INVALID", "NONE"}, e \in BOOLEAN}
    \cup HeadBreaks \cup BodyBreaks

\* The worker answers and exits; read_answer to the end of the channel, and parse_answer.
OriginAnswers(h) ==
    /\ job[h].st = "SENT"
    /\ \E a \in Answers(job[h].spec) : Deliver(h, a)
    /\ UNCHANGED received

\* No answer: what a worker that marked may have sent is not known.
\* Fault: a worker that died without an answer sent nothing.
UnansweredRefused(marked) == Refused
Unanswered(marked) == IF marked THEN Indeterminate ELSE Refused

\* The worker dies, or overruns and is killed: its channel ends without an answer.
WorkerDies(h) ==
    /\ job[h].st \in {"HANDED", "MARKED", "SENT"} /\ "DEATH" \in Faults
    /\ Deliver(h, Unanswered(job[h].marked))
    /\ UNCHANGED received

\* read_answer gives up on a worker that has not marked, and kills it only after: in
\* between the worker still runs, and nothing it writes is read.  Its handshake's
\* deadline ends before the broker's grace, so it takes a worker that stood still.
StopReading(h) ==
    /\ job[h].st = "HANDED"
    /\ Advance(h, "UNREAD")
    /\ UNCHANGED <<received, link>>

SendUnread(h) ==
    /\ job[h].st = "UNREAD" /\ received[h] = <<>>
    /\ received' = [received EXCEPT ![h] = Append(@, job[h].spec)]
    /\ UNCHANGED <<job, link>>

Abandon(h) ==
    /\ job[h].st = "UNREAD"
    /\ Deliver(h, Unanswered(job[h].marked))
    /\ UNCHANGED received

\* The broker dies and its workers with it; the authority's exchange breaks.
BrokerDies ==
    /\ "DEATH" \in Faults
    /\ \E h \in HopIds : job[h].st \notin {"NONE", "OVER"}
    /\ job' = [h \in HopIds |->
                 IF job[h].st = "NONE" THEN NoJob ELSE [NoJob EXCEPT !.st = "OVER"]]
    /\ link' = IF link.st = "WAIT" THEN [link EXCEPT !.st = "DONE", !.ans = Lost] ELSE link
    /\ UNCHANGED received

\* The channel breaks, or its deadline passes, with the authorisation sent.
ChannelLost ==
    /\ link.st = "WAIT" /\ "LOSE" \in Faults
    /\ link' = [link EXCEPT !.st = "DONE", !.ans = Lost]
    /\ UNCHANGED <<job, received>>

ExchangeStep(h) ==
    \/ BrokerRefuses(h) \/ HandOver(h) \/ WorkerRefuses(h) \/ Mark(h) \/ Send(h)
    \/ OriginAnswers(h) \/ WorkerDies(h)

\* A worker that stands still while the broker gives up on it.
Stalls(h) == StopReading(h) \/ SendUnread(h) \/ Abandon(h)

BrokerNext == (\E h \in HopIds : ExchangeStep(h)) \/ BrokerDies \/ ChannelLost
=============================================================================
