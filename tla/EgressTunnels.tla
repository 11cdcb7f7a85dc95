---------------------------- MODULE EgressTunnels ----------------------------
(**************************************************************************************)
(* One environment's CONNECT proxy (dwkd-broker/src/egress): the relay's              *)
(* connections, each a request that is checked, resolved, judged, answered 200,       *)
(* shown to name its own target, dialled, and carried both ways against byte budgets  *)
(* that all tunnels of the environment share; and the proxy's opening and closing     *)
(* under them.                                                                        *)
(*                                                                                    *)
(* Every connection is a thread and every tunnel two; a step is what lies between two *)
(* accesses to what they share.                                                       *)
(**************************************************************************************)
EXTENDS Naturals, Integers, FiniteSets, FiniteSetsExt

CONSTANTS
    Connections,    \* connections from the relay
    Destinations,   \* host and port pairs a process may ask for
    Granted,        \* EgressGrant.targets
    BlockedNames,   \* targets whose name the guard blocks
    MaxTunnels,     \* EgressGrant.max_tunnels
    MaxHandlers,    \* RELAY_MAX_CONNECTIONS
    MaxResolving,   \* RESOLVER_MAX_IN_FLIGHT
    Most,           \* max_upload_bytes and max_download_bytes, by direction
    MaxChunk,       \* bound: bytes one read returns
    MaxProxies      \* bound: times the proxy is opened

VARIABLES
    proxy,          \* the entry in Proxies.open, and its accepting thread
    dir,            \* the environment's directory, and its socket's, on disk
    conn,           \* per connection, its handler
    left,           \* Context.upload and Context.download
    carried,        \* bytes written each way, at the sockets
    resolving,      \* IN_FLIGHT
    opened          \* proxies opened so far

egressVars == <<proxy, dir, conn, left, carried, resolving, opened>>

Directions == {"up", "down"}
Looping == [at |-> "LOOP", n |-> 0, over |-> FALSE]
NoConnection ==
    [st |-> "NONE", target |-> "NONE", pinned |-> {}, name |-> "NONE", early |-> 0,
     ending |-> FALSE, lane |-> [d \in Directions |-> Looping]]

\* Context::new.
Fresh == left' = Most /\ carried' = [d \in Directions |-> 0]

EgressInit ==
    /\ proxy = "CLOSED" /\ dir = "ABSENT" /\ opened = 0 /\ resolving = 0
    /\ conn = [c \in Connections |-> NoConnection]
    /\ left = Most /\ carried = [d \in Directions |-> 0]

-----------------------------------------------------------------------------
(* The proxy.                                                              *)

\* start and listen: a directory that is there already, or one that cannot be made, refuses.
Start ==
    /\ proxy = "CLOSED" /\ dir = "ABSENT" /\ opened < MaxProxies
    /\ \A c \in Connections : conn[c] = NoConnection
    /\ proxy' = "OPEN" /\ dir' = "SOCKET" /\ opened' = opened + 1
    /\ Fresh /\ UNCHANGED <<conn, resolving>>

\* Handling::take, in accept.
Handlers == {c \in Connections : conn[c].st # "NONE"}
Accept(c) ==
    /\ proxy = "OPEN" /\ conn[c].st = "NONE" /\ Cardinality(Handlers) < MaxHandlers
    /\ conn' = [conn EXCEPT ![c].st = "REQUEST"]
    /\ UNCHANGED <<proxy, dir, left, carried, resolving, opened>>

Closing == proxy = "CLOSING"
\* close, as far as the join of the accepting thread.
Close ==
    /\ proxy = "OPEN" /\ proxy' = "CLOSING"
    /\ UNCHANGED <<dir, conn, left, carried, resolving, opened>>
\* The handlers ended, or CLOSE_WAIT passed.
CloseDone ==
    /\ Closing
    /\ proxy' = IF Handlers = {} THEN "CLOSED" ELSE "ABANDONED"
    /\ dir' = "ABSENT"
    /\ UNCHANGED <<conn, left, carried, resolving, opened>>
LastHandlerGone ==
    /\ proxy = "ABANDONED" /\ Handlers = {} /\ proxy' = "CLOSED"
    /\ UNCHANGED <<dir, conn, left, carried, resolving, opened>>
Told == proxy \in {"CLOSING", "ABANDONED"}

\* The broker dies and starts: its threads are gone, and clear_stale removes what it left.
ClearStale(at) == IF at = "SOCKET" THEN "ABSENT" ELSE at
BrokerRestarts ==
    /\ proxy # "CLOSED"
    /\ proxy' = "CLOSED" /\ dir' = ClearStale(dir) /\ resolving' = 0
    /\ conn' = [c \in Connections |-> NoConnection]
    /\ UNCHANGED <<left, carried, opened>>

-----------------------------------------------------------------------------
(* connection.                                                             *)

\* EgressGrant::permits.
GrantPermits(target) == target \in Granted
\* Held: a slot from the grant's check to the connection's end.
Tunnels == {c \in Connections : conn[c].st \notin {"NONE", "REQUEST"}}
\* guard::judge: an answer is taken whole.
AnswerJudged(answer) == answer # {} /\ answer \subseteq {"PUBLIC"}

\* refuse, or the connection closed: a timeout, the environment closing, a malformed request
\* or hello, a failed resolution or connection.
Ends(c) ==
    /\ conn[c].st \in {"REQUEST", "RESOLVING", "HELLO", "DIAL"}
    /\ conn' = [conn EXCEPT ![c] = NoConnection]
    /\ UNCHANGED <<proxy, dir, left, carried, resolving, opened>>

\* The request's target, the grant, the name and the slot; and Slot::take, for its resolution.
Request(c) ==
    /\ conn[c].st = "REQUEST" /\ Cardinality(Tunnels) < MaxTunnels /\ resolving < MaxResolving
    /\ \E target \in Destinations :
         /\ GrantPermits(target) /\ target \notin BlockedNames
         /\ conn' = [conn EXCEPT ![c].st = "RESOLVING", ![c].target = target]
    /\ resolving' = resolving + 1
    /\ UNCHANGED <<proxy, dir, left, carried, opened>>
\* within: the answer in time, judged, pinned, and 200 written.
Resolved(c) ==
    /\ conn[c].st = "RESOLVING" /\ resolving > 0
    /\ resolving' = resolving - 1
    /\ \E answer \in SUBSET {"PUBLIC", "BLOCKED"} :
         conn' = [conn EXCEPT ![c] = IF AnswerJudged(answer) THEN [@ EXCEPT !.st = "HELLO", !.pinned = answer]
                                     ELSE NoConnection]
    /\ UNCHANGED <<proxy, dir, left, carried, opened>>
\* A resolution nobody waits for any more gives its slot back when it ends.
LateResolution ==
    /\ resolving > Cardinality({c \in Connections : conn[c].st = "RESOLVING"})
    /\ resolving' = resolving - 1
    /\ UNCHANGED <<proxy, dir, conn, left, carried, opened>>

\* server_name and host_name: one name, without ECH; whether the budget could pay for the bytes
\* that carried it is looked at before anything is dialled.
Hello(c) ==
    /\ conn[c].st = "HELLO"
    /\ \E name \in Destinations, early \in 1..MaxChunk :
         /\ name = conn[c].target /\ early <= left["up"]
         /\ conn' = [conn EXCEPT ![c].st = "DIAL", ![c].name = name, ![c].early = early]
    /\ UNCHANGED <<proxy, dir, left, carried, resolving, opened>>

\* Budget::spend: all of it, or none.  Fault: what was left when it was looked at is trusted.
SpendTrusted(bytes) == left' = [left EXCEPT !["up"] = IF @ < bytes THEN 0 ELSE @ - bytes]
Spend(bytes) == bytes <= left["up"] /\ left' = [left EXCEPT !["up"] = @ - bytes]
Dial(c) ==
    /\ conn[c].st = "DIAL"
    /\ Spend(conn[c].early)
    /\ conn' = [conn EXCEPT ![c].st = "EARLY", ![c].early = 0,
                            ![c].lane["up"] = [at |-> "HAND", n |-> conn[c].early, over |-> FALSE]]
    /\ UNCHANGED <<proxy, dir, carried, resolving, opened>>

-----------------------------------------------------------------------------
(* pump and carry; write_watching, of the early bytes and of a lane's.     *)

\* A lane moves; `ends` is fail.  While the early bytes are written there is no tunnel yet:
\* written, they open it, and a failure ends the connection.
Moved(r, d, lane, ends) ==
    [r EXCEPT !.st = IF lane = Looping THEN "PUMP" ELSE @, !.lane[d] = lane, !.ending = @ \/ ends]
Lane(c, d, lane, ends) ==
    conn' = [conn EXCEPT ![c] = IF @.st = "EARLY" /\ ends THEN NoConnection
                                ELSE Moved(@, d, lane, ends)]
Returned == [Looping EXCEPT !.at = "DONE"]
LaneCarries(c, d) == conn[c].st = "PUMP" \/ (conn[c].st = "EARLY" /\ d = "up")
IsAt(c, d, at) == LaneCarries(c, d) /\ conn[c].lane[d].at = at

\* The loop's head: the tunnel's ending, the clocks and closing, and room for one byte more
\* than is left.
Watch(c, d) ==
    /\ IsAt(c, d, "LOOP") /\ ~conn[c].ending /\ ~Told
    /\ Lane(c, d, [at |-> "READING", n |-> Min({left[d] + 1, MaxChunk}), over |-> FALSE], FALSE)
    /\ UNCHANGED <<proxy, dir, left, carried, resolving, opened>>
\* The read, which waits for a tick at most.
Read(c, d) ==
    /\ IsAt(c, d, "READING")
    /\ \/ \E n \in 1..conn[c].lane[d].n :
              Lane(c, d, [at |-> "READ", n |-> n, over |-> FALSE], FALSE)
       \/ Lane(c, d, Looping, FALSE)
    /\ UNCHANGED <<proxy, dir, left, carried, resolving, opened>>
\* The end of file, which half-closes, or a failed read; at the loop's head, a tunnel that has
\* ended, the clocks or the environment closing.
Return(c, d) ==
    /\ LaneCarries(c, d) /\ conn[c].lane[d].at \in {"LOOP", "READING"}
    /\ \E ends \in BOOLEAN :
         /\ conn[c].lane[d].at = "LOOP" => ends \/ conn[c].ending
         /\ Lane(c, d, Returned, ends)
    /\ UNCHANGED <<proxy, dir, left, carried, resolving, opened>>
\* Budget::take: as much as is left; nothing ends the tunnel.
Take(c, d) ==
    /\ IsAt(c, d, "READ")
    /\ LET n == conn[c].lane[d].n
           allowed == Min({left[d], n})
       IN /\ left' = [left EXCEPT ![d] = @ - allowed]
          /\ IF allowed = 0 THEN Lane(c, d, Returned, TRUE)
             ELSE Lane(c, d, [at |-> "HAND", n |-> allowed, over |-> allowed < n], FALSE)
    /\ UNCHANGED <<proxy, dir, carried, resolving, opened>>

\* expired, before every write: the environment closing ends the tunnel, and so may the clocks.
\* Fault: only the clocks do.
MayGoOnUnlooked == TRUE
MayGoOn == ~Told
Look(c, d) ==
    /\ IsAt(c, d, "HAND")
    /\ \/ MayGoOn /\ Lane(c, d, [conn[c].lane[d] EXCEPT !.at = "WRITING"], FALSE)
       \/ Lane(c, d, Returned, TRUE)
    /\ UNCHANGED <<proxy, dir, left, carried, resolving, opened>>
\* The write itself, later: it waits for a tick at most and writes some of the bytes or none, or
\* fails.  What it leaves is looked at again; past the budget, the tunnel ends with the last.
Write(c, d) ==
    /\ IsAt(c, d, "WRITING")
    /\ LET lane == conn[c].lane[d]
       IN \/ \E written \in 0..lane.n :
               /\ carried' = [carried EXCEPT ![d] = @ + written]
               /\ IF written < lane.n
                  THEN Lane(c, d, [lane EXCEPT !.at = "HAND", !.n = @ - written], FALSE)
                  ELSE Lane(c, d, IF lane.over THEN Returned ELSE Looping, lane.over)
          \/ carried' = carried /\ Lane(c, d, Returned, TRUE)
    /\ UNCHANGED <<proxy, dir, left, resolving, opened>>
\* Both directions have returned: serve, and the slots.
Served(c) ==
    /\ conn[c].st = "PUMP" /\ \A d \in Directions : conn[c].lane[d].at = "DONE"
    /\ conn' = [conn EXCEPT ![c] = NoConnection]
    /\ UNCHANGED <<proxy, dir, left, carried, resolving, opened>>

EgressNext ==
    \/ Start \/ Close \/ CloseDone \/ LastHandlerGone \/ BrokerRestarts \/ LateResolution
    \/ \E c \in Connections :
         \/ Accept(c) \/ Ends(c) \/ Request(c) \/ Resolved(c) \/ Hello(c) \/ Dial(c) \/ Served(c)
         \/ \E d \in Directions :
              \/ Watch(c, d) \/ Read(c, d) \/ Return(c, d) \/ Take(c, d)
              \/ Look(c, d) \/ Write(c, d)

EgressSpec == EgressInit /\ [][EgressNext]_egressVars

-----------------------------------------------------------------------------
\* What a connection has taken from a budget and not written yet, and what all of them have:
\* one pair for every byte.
TakenBy(c, d) ==
    IF conn[c].lane[d].at \in {"HAND", "WRITING"} THEN conn[c].lane[d].n ELSE 0
InHand(d) == UNION {{c} \X (1..TakenBy(c, d)) : c \in Connections}

\* The budget holds at the socket, for all tunnels together and however their looks at what is
\* left, their reads and their spending interleave: bytes written, bytes in hand and bytes left
\* never exceed the grant; and a tunnel that carries any is to a granted target, by a judged
\* address, for the name its own hello carries (tunnel.rs: connection, carry, Budget).
BudgetHoldsAtTheSocket ==
    /\ \A d \in Directions : carried[d] + Cardinality(InHand(d)) + left[d] <= Most[d]
    /\ \A c \in Connections : conn[c].st \in {"EARLY", "PUMP"} =>
         /\ conn[c].target \in Granted \ BlockedNames /\ conn[c].name = conn[c].target
         /\ conn[c].pinned = {"PUBLIC"}
    /\ Cardinality(Tunnels) <= MaxTunnels

\* Of those, the bytes of a write that has looked and not returned.
WritingBy(c, d) == IF conn[c].lane[d].at = "WRITING" THEN conn[c].lane[d].n ELSE 0
InWrite(d) == UNION {{c} \X (1..WritingBy(c, d)) : c \in Connections}

\* Once an environment's proxy is told to close, no write begins, in tunnels that are open, being
\* dialled or resolved: the bytes still written either way are those of writes that had looked
\* at closing before it was stored, a chunk for each at most, and what such a write leaves is
\* never written; though close itself waits CLOSE_WAIT at most and leaves slower handlers
\* behind (expired and write_watching in tunnel.rs; close in proxy.rs).
ClosedStartsNoWrite ==
    [][Told => \A d \in Directions :
         carried'[d] + Cardinality(InWrite(d)') <= carried[d] + Cardinality(InWrite(d))]_egressVars
=============================================================================
