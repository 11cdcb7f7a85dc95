------------------------------- MODULE Server -------------------------------
(**************************************************************************************)
(* The authority's server (dwkd-authority/src/server): the accepting thread, a        *)
(* thread for each connection, and one worker that owns the authority and takes its   *)
(* jobs from a bounded queue.  It is about the three kinds of thread waiting for each *)
(* other, and about the record of what was refused; what a request does is the other  *)
(* modules' business, and here it is answered, parked, failed, or poisons the store.  *)
(**************************************************************************************)
EXTENDS Naturals, Sequences, FiniteSets

CONSTANTS
    Peers,            \* processes that connect
    Allowed,          \* those whose uid the operator named
    MaxConnections,   \* MAX_CONNECTIONS
    QueueDepth,       \* QUEUE_DEPTH
    Backlog,          \* connections the kernel holds for the listener
    PerWindow,        \* AUDIT_PER_WINDOW
    MaxEvents         \* bound: transport events before peers fall silent

ServerConstants == IsFiniteSet(Peers) /\ PerWindow \in Nat

VARIABLES
    backlog,     \* connections not accepted yet
    acceptor,    \* the accepting thread: WAIT, DONE, or the class it is sending
    conn,        \* per peer, its connection
    queue,       \* the worker's jobs
    worker,      \* RUN, WAKE (its loop has ended), DONE (its queue is gone)
    parked,      \* launches that wait, by peer
    store,       \* OPEN or POISONED; Shutdown.stopping is the latter
    bucket,      \* RateLimiter.buckets, and whether the window has passed
    tally        \* per class: events so far, records written, counts recorded, events lost

serverVars == <<backlog, acceptor, conn, queue, worker, parked, store, bucket, tally>>

Classes == {"PEER", "LIMIT", "PROTOCOL"}
NoBucket == [written |-> 0, suppressed |-> 0, over |-> FALSE]

ServerInit ==
    /\ backlog = <<>> /\ acceptor = "WAIT" /\ conn = [p \in Peers |-> "NONE"]
    /\ queue = <<>> /\ worker = "RUN" /\ parked = {} /\ store = "OPEN"
    /\ bucket = [k \in Classes |-> NoBucket]
    /\ tally = [k \in Classes |-> [events |-> 0, written |-> 0, counted |-> 0, lost |-> 0]]

Stopping == store = "POISONED"
Happens(k) == tally' = [tally EXCEPT ![k].events = @ + 1]
Quiet == MaxEvents <= tally["PEER"].events + tally["LIMIT"].events + tally["PROTOCOL"].events

\* A blocking send waits for room while the worker's queue exists, and fails once it is gone.
Sends(job) ==
    \/ worker # "DONE" /\ Len(queue) < QueueDepth /\ queue' = Append(queue, job)
    \/ worker = "DONE" /\ UNCHANGED queue

-----------------------------------------------------------------------------
(* accept.                                                                 *)

Connect(p) ==
    /\ conn[p] = "NONE" /\ acceptor # "DONE" /\ Len(backlog) < Backlog /\ ~Quiet
    /\ backlog' = Append(backlog, p) /\ conn' = [conn EXCEPT ![p] = "PENDING"]
    /\ UNCHANGED <<acceptor, queue, worker, parked, store, bucket, tally>>

\* ActiveGuard: a slot until the connection's thread ends.
Active == {p \in Peers : conn[p] \notin {"NONE", "PENDING"}}
\* PeerPolicy::allows, then the limit, before a byte is read.
Refusal(p) ==
    IF p \notin Allowed THEN "PEER"
    ELSE IF Cardinality(Active) >= MaxConnections THEN "LIMIT" ELSE "NONE"

Accept ==
    /\ acceptor = "WAIT" /\ backlog # <<>> /\ ~Stopping
    /\ LET p == Head(backlog)
           k == Refusal(p)
       IN IF k = "NONE"
          THEN conn' = [conn EXCEPT ![p] = "ARRIVED"] /\ UNCHANGED <<acceptor, tally>>
          ELSE conn' = [conn EXCEPT ![p] = "NONE"] /\ acceptor' = k /\ Happens(k)
    /\ backlog' = Tail(backlog)
    /\ UNCHANGED <<queue, worker, parked, store, bucket>>
\* No credentials, or no thread for it: closed, or refused like one over the limit.
AcceptFails ==
    /\ acceptor = "WAIT" /\ backlog # <<>> /\ ~Stopping /\ ~Quiet
    /\ conn' = [conn EXCEPT ![Head(backlog)] = "NONE"]
    /\ \/ UNCHANGED <<acceptor, tally>>
       \/ Head(backlog) \in Allowed /\ acceptor' = "LIMIT" /\ Happens("LIMIT")
    /\ backlog' = Tail(backlog)
    /\ UNCHANGED <<queue, worker, parked, store, bucket>>
\* The first connection it sees after the stop, the worker's own or a peer's, ends it.
AcceptorReturns ==
    /\ acceptor = "WAIT" /\ backlog # <<>> /\ Stopping
    /\ acceptor' = "DONE" /\ backlog' = <<>>
    /\ conn' = [p \in Peers |-> IF conn[p] = "PENDING" THEN "NONE" ELSE conn[p]]
    /\ UNCHANGED <<queue, worker, parked, store, bucket, tally>>
AcceptorAudits ==
    /\ acceptor \in Classes
    /\ Sends([kind |-> "AUDIT", class |-> acceptor, peer |-> "NONE"])
    /\ tally' = [tally EXCEPT ![acceptor].lost = IF worker = "DONE" THEN @ + 1 ELSE @]
    /\ acceptor' = "WAIT"
    /\ UNCHANGED <<backlog, conn, worker, parked, store, bucket>>

-----------------------------------------------------------------------------
(* Connection::run.                                                        *)

Goto(p, at) == conn' = [conn EXCEPT ![p] = at]

\* serve: one holder for the connection, from the worker.
AskHolder(p) ==
    /\ conn[p] = "ARRIVED"
    /\ Sends([kind |-> "CONNECT", class |-> "NONE", peer |-> p]) /\ Goto(p, "HOLDER")
    /\ UNCHANGED <<backlog, acceptor, worker, parked, store, bucket, tally>>

\* What arrives next, as FrameReader::next, decode_frame and classify see it.
Kinds == {"HANDSHAKE", "HANDSHAKE_UNSUPPORTED", "REQUEST", "REQUEST_OTHER_VERSION", "NOT_A_REQUEST",
          "UNREADABLE"}
\* protocol::step: what a message does to a connection.
Step(phase, kind) ==
    CASE phase = "AWAITING" /\ kind = "HANDSHAKE" -> "ACCEPT"
      [] phase = "ESTABLISHED" /\ kind = "REQUEST" -> "DISPATCH"
      [] OTHER -> "VIOLATION"
Receive(p) ==
    /\ conn[p] \in {"AWAITING", "ESTABLISHED"}
    /\ \E kind \in Kinds : LET s == Step(conn[p], kind)
         IN \/ s = "ACCEPT" /\ Goto(p, "ESTABLISHED") /\ UNCHANGED tally
            \/ s = "DISPATCH" /\ Goto(p, "REQUEST") /\ UNCHANGED tally
            \/ s = "VIOLATION" /\ ~Quiet /\ Goto(p, "VIOLATION") /\ Happens("PROTOCOL")
    /\ UNCHANGED <<backlog, acceptor, queue, worker, parked, store, bucket>>
\* The end of the stream, a deadline, or an answer that could not be written: no verdict.
Leaves(p) ==
    /\ conn[p] \in {"AWAITING", "ESTABLISHED"} /\ Goto(p, "NONE")
    /\ UNCHANGED <<backlog, acceptor, queue, worker, parked, store, bucket, tally>>
\* dispatch: the connection's thread waits for the answer.
Dispatch(p) ==
    /\ conn[p] = "REQUEST"
    /\ Sends([kind |-> "DISPATCH", class |-> "NONE", peer |-> p]) /\ Goto(p, "WAITING")
    /\ UNCHANGED <<backlog, acceptor, worker, parked, store, bucket, tally>>
ConnectionAudits(p) ==
    /\ conn[p] = "VIOLATION"
    /\ Sends([kind |-> "AUDIT", class |-> "PROTOCOL", peer |-> "NONE"])
    /\ tally' = [tally EXCEPT !["PROTOCOL"].lost = IF worker = "DONE" THEN @ + 1 ELSE @]
    /\ Goto(p, "NONE")
    /\ UNCHANGED <<backlog, acceptor, worker, parked, store, bucket>>
\* A reply dropped with the worker's queue and its parked launches: Failure::Stopped.
Abandoned(p) ==
    /\ conn[p] \in {"HOLDER", "WAITING"} /\ worker = "DONE" /\ Goto(p, "NONE")
    /\ UNCHANGED <<backlog, acceptor, queue, worker, parked, store, bucket, tally>>

-----------------------------------------------------------------------------
(* Worker::run.                                                            *)

Takes(kind) == worker = "RUN" /\ queue # <<>> /\ Head(queue).kind = kind /\ queue' = Tail(queue)
\* The loop ends with the iteration that poisoned the store.
Iterates == worker' = IF store' = "POISONED" THEN "WAKE" ELSE worker
\* failure: a poisoned store stops the server; anything else is this operation's alone.
Fails == store' \in {"OPEN", "POISONED"}

GiveHolder ==
    /\ Takes("CONNECT") /\ Goto(Head(queue).peer, "AWAITING")
    /\ UNCHANGED <<backlog, acceptor, worker, parked, store, bucket, tally>>
\* dispatch_parkable.
AnswerRequest ==
    /\ Takes("DISPATCH")
    /\ LET p == Head(queue).peer
       IN \/ Goto(p, "ESTABLISHED") /\ UNCHANGED <<store, parked>>
          \/ Goto(p, "NONE") /\ Fails /\ UNCHANGED parked
          \/ parked' = parked \cup {p} /\ UNCHANGED <<store, conn>>
    /\ Iterates
    /\ UNCHANGED <<backlog, acceptor, bucket, tally>>
\* collect: a launch that is due and has ended.
Collect ==
    /\ worker = "RUN"
    /\ \E p \in parked :
         /\ parked' = parked \ {p}
         /\ \/ Goto(p, "ESTABLISHED") /\ UNCHANGED store
            \/ Goto(p, "NONE") /\ Fails
    /\ Iterates
    /\ UNCHANGED <<backlog, acceptor, queue, bucket, tally>>

\* roll: a window that has passed is started afresh, and what it withheld is counted.
\* Fault: it is started afresh first, and what it withheld is read after.
RolledFirst(b) == [due |-> 0, b |-> IF b.over THEN NoBucket ELSE b]
Rolled(b) == IF b.over THEN [due |-> b.suppressed, b |-> NoBucket] ELSE [due |-> 0, b |-> b]
\* admit: the count that is due, then the event itself if its window has room.
Admitted(b) ==
    LET r == Rolled(b)
        write == r.b.written < PerWindow
    IN [due |-> r.due, write |-> write,
        b |-> IF write THEN [r.b EXCEPT !.written = @ + 1] ELSE [r.b EXCEPT !.suppressed = @ + 1]]

\* record_transport_event, for the count and for the event: each may fail, and poison the store.
Recorded(k, due, one) ==
    \E counted \in {0, due}, written \in {0, one} :
        LET lost == (due - counted) + (one - written)
        IN /\ tally' = [tally EXCEPT ![k].counted = @ + counted, ![k].written = @ + written,
                                     ![k].lost = @ + lost]
           /\ IF lost = 0 THEN UNCHANGED store ELSE Fails

AuditEvent ==
    /\ Takes("AUDIT")
    /\ LET k == Head(queue).class
           a == Admitted(bucket[k])
       IN /\ bucket' = [bucket EXCEPT ![k] = a.b]
          /\ Recorded(k, a.due, IF a.write THEN 1 ELSE 0)
    /\ Iterates
    /\ UNCHANGED <<backlog, acceptor, conn, parked>>
\* due, at the end of every iteration and at least every TICK.
Due(k) ==
    /\ worker = "RUN" /\ bucket[k].over
    /\ bucket' = [bucket EXCEPT ![k] = Rolled(@).b]
    /\ Recorded(k, Rolled(bucket[k]).due, 0)
    /\ Iterates
    /\ UNCHANGED <<backlog, acceptor, conn, queue, parked>>
WindowPasses(k) ==
    /\ bucket[k] # NoBucket /\ ~bucket[k].over
    /\ bucket' = [bucket EXCEPT ![k].over = TRUE]
    /\ UNCHANGED <<backlog, acceptor, conn, queue, worker, parked, store, tally>>

\* wake: a connection to its own listener, which blocks while the backlog is full; the queue and
\* the parked launches are dropped after it.
Reports(jobs, k) == {i \in DOMAIN jobs : jobs[i].kind = "AUDIT" /\ jobs[i].class = k}
InQueue(k) == Cardinality(Reports(queue, k))
Wake ==
    /\ worker = "WAKE" /\ (acceptor = "DONE" \/ Len(backlog) < Backlog)
    /\ backlog' = IF acceptor = "DONE" THEN backlog ELSE Append(backlog, "WORKER")
    /\ worker' = "DONE" /\ queue' = <<>> /\ parked' = {}
    /\ tally' = [k \in Classes |-> [tally[k] EXCEPT !.lost = @ + InQueue(k)]]
    /\ UNCHANGED <<acceptor, conn, store, bucket>>

Worker == GiveHolder \/ AnswerRequest \/ AuditEvent \/ Wake
Threads ==
    \/ Accept \/ AcceptorReturns \/ AcceptorAudits \/ Worker
    \/ \E p \in Peers : AskHolder(p) \/ Dispatch(p) \/ ConnectionAudits(p) \/ Abandoned(p)
ServerNext ==
    \/ Threads \/ AcceptFails \/ Collect
    \/ \E p \in Peers : Connect(p) \/ Receive(p) \/ Leaves(p)
    \/ \E k \in Classes : Due(k) \/ WindowPasses(k)

ServerSpec == ServerInit /\ [][ServerNext]_serverVars

\* Every thread that can go on does.
ServerFairSpec ==
    /\ ServerInit /\ [][ServerNext]_serverVars
    /\ WF_serverVars(Accept) /\ WF_serverVars(AcceptorReturns)
    /\ WF_serverVars(AcceptorAudits) /\ WF_serverVars(Worker)
    /\ \A p \in Peers :
        WF_serverVars(AskHolder(p) \/ Dispatch(p) \/ ConnectionAudits(p) \/ Abandoned(p))

-----------------------------------------------------------------------------
\* Every transport event is on the record, in itself or in a count, or still on its way: the
\* limit withholds none silently, whichever of admit and due rolls a window, and however the
\* threads that report them interleave.  Only a record that failed, or a stopped server, loses
\* one (RateLimiter and Worker::record in server/worker.rs).
EventsAreAccounted ==
    \A k \in Classes :
        /\ tally[k].events = tally[k].written + tally[k].counted + tally[k].lost + bucket[k].suppressed
                               + InQueue(k) + (IF acceptor = k THEN 1 ELSE 0)
                               + (IF k = "PROTOCOL" THEN Cardinality({p \in Peers : conn[p] = "VIOLATION"}) ELSE 0)
        /\ bucket[k].written <= PerWindow /\ (bucket[k].suppressed > 0 => bucket[k].written = PerWindow)

\* A server whose store is poisoned stops: its accepting thread and its worker end
\* (connection.rs: "the server stops if the store is poisoned").
PoisonedServerStops == (store = "POISONED") ~> (acceptor = "DONE" /\ worker = "DONE")
=============================================================================
