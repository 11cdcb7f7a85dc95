--------------------------- MODULE PrivateChannel ---------------------------
(*******************************************************************************************)
(* One exchange on one connection (dwkd-authority/src/broker: link.rs and                  *)
(* mod.rs; dwkd-broker/src: listener.rs serve, exchange/mod.rs, nonce.rs): the             *)
(* authority connects, is greeted with the connection's channel, sends one                 *)
(* authorisation with its descriptors and reads one outcome; the broker serves one         *)
(* connection at a time and executes what names its channel and carries exactly the        *)
(* descriptors of its kind.  Either side gives up at its deadline, and either may die.     *)
(*                                                                                         *)
(* Two orders in turn: an abandoned exchange may still be served while the next one waits  *)
(* in the backlog.  An operation that is performed has its effect, or refuses having none. *)
(*******************************************************************************************)
EXTENDS BrokerMessages

CONSTANTS
    Turns,       \* the orders made, 1..n
    Ordered,     \* the orders to choose from
    Incarnations \* bound: starts of the broker

VARIABLES
    order,       \* per turn, the order
    wire,        \* per turn, the connection: how far each side is, what is in it
    listener,    \* "UP", the incarnation, channels issued, the turn being served
    effects,     \* the turns whose operation was performed
    recorded     \* per turn, what the authority concludes

channelVars == <<order, wire, listener, effects, recorded>>

\* What the constants are: turn 0 is none, and so is the object "NONE".
ChannelConstants ==
    /\ Turns \subseteq Nat \ {0} /\ Ordered \subseteq Orders
    /\ MaxBytes \in Nat /\ Nil \notin Inodes

NoChannel == <<0, 0>>
Unopened == [st |-> "NONE", channel |-> NoChannel, sent |-> "NOTHING", fds |-> 0, answer |-> "NONE",
         done |-> [op |-> "NONE"]]
Open(i) == [Unopened EXCEPT !.st = "QUEUED"]

ChannelInit ==
    /\ order \in [Turns -> Ordered]
    /\ wire = [i \in Turns |-> Unopened]
    /\ listener = [up |-> TRUE, gen |-> 1, issued |-> 0, at |-> 0, phase |-> "ACCEPT"]
    /\ effects = {}
    /\ recorded = [i \in Turns |-> "OPEN"]

\* The turn whose exchange the authority is in: one at a time.
Turn(i) == recorded[i] = "OPEN" /\ \A j \in Turns : j < i => recorded[j] # "OPEN"

\* BrokerError: before or after the authorisation left, and whether it provably did nothing.
\* Fault: an exchange that broke off did nothing.
ConcludesUnanswered(sent, failure) ==
    IF failure \in {"REFUSED", "UNREACHABLE"} THEN "FAILED" ELSE "UNKNOWN"
Concludes(sent, failure) ==
    IF sent = "NOTHING" \/ failure = "REFUSED" THEN "FAILED" ELSE "UNKNOWN"

End(i, result) ==
    /\ recorded' = [recorded EXCEPT ![i] = result]
    /\ wire' = [wire EXCEPT ![i].st = IF wire[i].st = "NONE" THEN "NONE" ELSE "CLOSED"]

\* perform: nothing listens, or the kernel says it is not the broker's uid.
Unreachable(i) ==
    /\ Turn(i) /\ wire[i].st = "NONE"
    /\ End(i, Concludes("NOTHING", "UNREACHABLE"))
    /\ UNCHANGED <<order, listener, effects>>

Reach(i) ==
    /\ Turn(i) /\ wire[i].st = "NONE" /\ listener.up
    /\ wire' = [wire EXCEPT ![i] = Open(i)]
    /\ UNCHANGED <<order, listener, effects, recorded>>

\* authorise and encode: an order that does not pass the protocol's own check never leaves.
Unencodable(i) ==
    /\ Turn(i) /\ wire[i].st = "GREETED" /\ wire[i].sent = "NOTHING"
    /\ ~Check(Authorise(order[i]))
    /\ End(i, Concludes("NOTHING", "PROTOCOL"))
    /\ UNCHANGED <<order, listener, effects>>

\* send_with_descriptors: the descriptors go with the first bytes.  The control buffer is
\* made for two, and three fit only as its alignment leaves room.
ControlFits(n) == IF n <= 2 THEN {TRUE} ELSE BOOLEAN

SendWithDescriptors(i) ==
    /\ Turn(i) /\ wire[i].st = "GREETED" /\ wire[i].sent = "NOTHING"
    /\ Check(Authorise(order[i]))
    /\ TRUE \in ControlFits(Len(Descriptors(order[i])))
    /\ \E part \in {"SOME", "ALL"} :
         wire' = [wire EXCEPT ![i].sent = part, ![i].fds = Len(Descriptors(order[i]))]
    /\ UNCHANGED <<order, listener, effects, recorded>>

\* A send that fails is after sending, though nothing may have left.
SendFails(i) ==
    /\ Turn(i) /\ wire[i].st = "GREETED" /\ wire[i].sent \in {"NOTHING", "SOME"}
    /\ Check(Authorise(order[i]))
    /\ End(i, Concludes("SOME", "UNREACHABLE"))
    /\ UNCHANGED <<order, listener, effects>>

\* read_body and the outcome's own checks, then deliver.
ReadOutcome(i) ==
    /\ Turn(i) /\ wire[i].answer # "NONE" /\ wire[i].sent = "ALL"
    /\ End(i, CASE wire[i].answer = "DONE" ->
                     IF Accepted(order[i], wire[i].done) THEN "COMPLETED"
                     ELSE Concludes("ALL", "PROTOCOL")
                [] wire[i].answer = "REFUSED" -> Concludes("ALL", "REFUSED")
                [] OTHER -> Concludes("ALL", "INDETERMINATE"))
    /\ UNCHANGED <<order, listener, effects>>

\* The deadline, or a channel the broker closed.
Deadline(i) ==
    /\ Turn(i) /\ wire[i].st # "NONE" /\ wire[i].answer = "NONE"
    /\ End(i, Concludes(wire[i].sent, "UNREACHABLE"))
    /\ UNCHANGED <<order, listener, effects>>

-----------------------------------------------------------------------------
(* The broker.                                                             *)

\* Accepted once, whether or not the authority is still there; peer, then Channels::issue.
Waiting == {i \in Turns : wire[i].st \in {"QUEUED", "CLOSED"} /\ wire[i].channel = NoChannel}

\* serve and serve_one: the hello.
Greet ==
    /\ listener.up /\ listener.at = 0
    /\ \E i \in Waiting :
          /\ \A j \in Waiting : i <= j
          /\ listener' = [listener EXCEPT !.at = i, !.issued = @ + 1, !.phase = "RECEIVE"]
          /\ wire' = [wire EXCEPT ![i].channel = <<listener.gen, listener.issued + 1>>,
                        ![i].st = IF @ = "QUEUED" THEN "GREETED" ELSE @]
    /\ UNCHANGED <<order, effects, recorded>>

At == wire[listener.at]

\* receive fails: the peer is gone, the frame is not whole, or the deadline passed.
ReceiveFails ==
    /\ listener.up /\ listener.phase = "RECEIVE" /\ At.sent # "ALL"
    /\ listener' = [listener EXCEPT !.at = 0, !.phase = "ACCEPT"]
    /\ UNCHANGED <<order, wire, effects, recorded>>

\* execute: the channel, the count of descriptors that arrived, and then the operation.
\* Descriptors::exactly closes every one of any other count.
Executable ==
    /\ At.channel = <<listener.gen, listener.issued>>
    /\ At.fds = KindDescriptors(MessageKind(order[listener.at]))
    /\ DecodesMessage(Authorise(order[listener.at]))

Outcome(a, d) ==
    /\ wire' = [wire EXCEPT ![listener.at].answer = a, ![listener.at].done = d]
    /\ listener' = [listener EXCEPT !.at = 0, !.phase = "ACCEPT"]

RefuseOrder ==
    /\ listener.up /\ listener.phase = "RECEIVE" /\ At.sent = "ALL"
    /\ Outcome("REFUSED", [op |-> "NONE"])
    /\ UNCHANGED <<order, effects, recorded>>

PerformOrder ==
    /\ listener.up /\ listener.phase = "RECEIVE" /\ At.sent = "ALL" /\ Executable
    /\ effects' = effects \cup {listener.at}
    /\ listener' = [listener EXCEPT !.phase = "PERFORMED"]
    /\ UNCHANGED <<order, wire, recorded>>

AnswerDone ==
    /\ listener.up /\ listener.phase = "PERFORMED"
    /\ \E d \in Done(order[listener.at]) : Outcome("DONE", d)
    /\ UNCHANGED <<order, effects, recorded>>

AnswerIndeterminate ==
    /\ listener.up /\ listener.phase = "PERFORMED"
    /\ Outcome("INDETERMINATE", [op |-> "NONE"])
    /\ UNCHANGED <<order, effects, recorded>>

\* The kernel closes what a dead broker held; its backlog goes with its socket.
ListenerDies ==
    /\ listener.up
    /\ listener' = [listener EXCEPT !.up = FALSE, !.at = 0, !.phase = "ACCEPT"]
    /\ wire' = [i \in Turns |->
                  IF wire[i].channel = NoChannel /\ wire[i].st # "NONE"
                  THEN [wire[i] EXCEPT !.channel = <<listener.gen, 0>>] ELSE wire[i]]
    /\ UNCHANGED <<order, effects, recorded>>

ListenerStarts ==
    /\ ~listener.up /\ listener.gen < Incarnations
    /\ listener' = [listener EXCEPT !.up = TRUE, !.gen = @ + 1, !.issued = 0]
    /\ UNCHANGED <<order, wire, effects, recorded>>

Authority(i) ==
    \/ Unreachable(i) \/ Reach(i) \/ Unencodable(i) \/ SendWithDescriptors(i) \/ SendFails(i)
    \/ ReadOutcome(i) \/ Deadline(i)

ChannelNext ==
    \/ \E i \in Turns : Authority(i)
    \/ Greet \/ ReceiveFails \/ RefuseOrder \/ PerformOrder \/ AnswerDone \/ AnswerIndeterminate
    \/ ListenerDies \/ ListenerStarts
ChannelSpec == ChannelInit /\ [][ChannelNext]_channelVars

-----------------------------------------------------------------------------
\* Nothing recorded as done was not, and nothing recorded as without effect was.
EffectsAreTold ==
    \A i \in Turns :
        /\ recorded[i] = "COMPLETED" => i \in effects
        /\ recorded[i] = "FAILED" => i \notin effects

\* The two daemons agree on the protocol: every order that passes its check carries the
\* descriptors of its kind, and every result its operation can have is one the authority
\* takes, so that a broker that answered done is never recorded as an unknown outcome
\* (authorise and deliver in link.rs; Authorisation::check; observe, search and mutate).
DaemonsAgree ==
    \A i \in Turns :
        /\ Check(Authorise(order[i]))
             => Len(Descriptors(order[i])) = KindDescriptors(MessageKind(order[i]))
        /\ wire[i].answer = "DONE" => Accepted(order[i], wire[i].done)

\* Whatever is lost between the daemons, and whoever dies, the authority never records an order
\* as done that was not, nor as without effect one that was; and every answer the broker can give
\* to an order is one the authority takes, so that a done it receives does not become unknown for
\* want of agreement (BrokerError::provably_without_effect, link::perform, exchange::serve_one).
ConcludesTheTruth == EffectsAreTold /\ DaemonsAgree
=============================================================================
