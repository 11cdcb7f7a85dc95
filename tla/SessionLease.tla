---------------------------- MODULE SessionLease ----------------------------
(****************************************************************************)
(* Session leases, epoch fencing and run admission of the authority         *)
(* (crates/dwkd-authority/src/state: lease.rs, admission.rs, query.rs and   *)
(* the operations of mod.rs that run them).                                 *)
(*                                                                          *)
(* kernel.db is the store: every action below that reads or writes it is    *)
(* one BEGIN IMMEDIATE transaction, so it is one step.  Several handles may *)
(* be open onto one store, so an admission, which is up to Passes           *)
(* transactions with the filesystem resolver run between them, interleaves  *)
(* with every other operation.  Callers are arbitrary: an open connection   *)
(* may send any request with any epoch, key and run id at any time, which   *)
(* covers lost answers, retries, delayed requests and zombies.  The wall    *)
(* clock may jump either way between two transactions, so each reads any    *)
(* time t at all.  A crash, or a poisoned store, loses everything that is   *)
(* not in the store.                                                        *)
(*                                                                          *)
(* The environments a run's end tears down are the business of module       *)
(* Environment, which holds what each end of a run does to them.            *)
(****************************************************************************)
EXTENDS Integers, FiniteSets

CONSTANTS
    Sessions,       \* session ids
    Subjects,       \* authenticated subjects: the peers' uids
    Keys,           \* idempotency keys
    Digests,        \* digests of the canonical AdmitRun request
    Handles,        \* open handles onto the store (one in the server)
    MaxEpoch,       \* MAX_EPOCH: the largest epoch the wire carries
    MaxRuns,        \* MAX_ID_COUNTER: how many run ids can be minted
    Passes,         \* admission::PASSES
    Ttl,            \* lease_ttl_ms
    MaxConns,       \* bound: connections accepted per incarnation
    MaxIncarnation, \* bound: authority starts
    MaxNow,         \* bound: the wall clock
    MaxRevision     \* bound: configuration revisions the operator installs

ASSUME LeaseConstants ==
    /\ MaxEpoch \in Nat \ {0}
    /\ MaxRuns \in Nat
    /\ Passes \in Nat \ {0}
    /\ Ttl \in Nat \ {0}
    /\ MaxConns \in Nat
    /\ MaxIncarnation \in Nat
    /\ MaxNow \in Nat
    /\ MaxRevision \in Nat

VARIABLES
    proc,           \* "UP": the authority is started and its store is not poisoned
    incarnation,    \* store_meta.incarnation
    nextConn,       \* Shared::next_connection
    conns,          \* the open connections' caller contexts
    lease,          \* session_lease, one row per session
    idCounter,      \* store_meta.id_counter
    run,            \* the run table
    idem,           \* admission_idempotency
    revision,       \* profiles and skills in force; 0: no profile installed
    admitting,      \* per handle, the admission between its passes
    reply           \* what the last step answered, if it answered

storeVars == <<incarnation, lease, idCounter, run, idem, revision>>
vars == <<proc, nextConn, conns, admitting, reply, storeVars>>

-----------------------------------------------------------------------------
(* Types *)

Epochs    == 1..MaxEpoch
RunIds    == 1..MaxRuns
Holder    == [inc : Nat, conn : Nat]
Caller    == [subject : Subjects, inc : Nat, conn : Nat \ {0}]
NoCaller  == [subject |-> "none", inc |-> 0, conn |-> 0]
NoHolder  == [inc |-> 0, conn |-> 0]

\* A lease row; state "NONE" is the absence of one.
Lease == [epoch : 0..MaxEpoch,
          state : {"NONE", "HELD", "RELEASED", "INVALIDATED"},
          holder : Caller \cup {NoCaller},
          expires : Nat,
          last : Holder]
Held(e, c, x, last) ==
    [epoch |-> e, state |-> "HELD", holder |-> c, expires |-> x, last |-> last]
Vacated(l, state, last) ==
    [epoch |-> l.epoch, state |-> state, holder |-> NoCaller, expires |-> 0, last |-> last]
NoLease == [epoch |-> 0, state |-> "NONE", holder |-> NoCaller,
            expires |-> 0, last |-> NoHolder]

\* A run row; "by" is the caller whose request admitted it (the audit record
\* run.admitted has it), state "NONE" an id not yet minted.
Run == [state : {"NONE", "ACTIVE", "RELEASED", "REAPED"},
        session : Sessions \cup {"none"}, epoch : 0..MaxEpoch,
        by : Caller \cup {NoCaller}]
NoRun == [state |-> "NONE", session |-> "none", epoch |-> 0, by |-> NoCaller]

IdemRow == [subject : Subjects, session : Sessions, key : Keys,
            digest : Digests, run : RunIds]

\* An AdmitRun request; its terms are CONCRETE when one names a path or an
\* executable that the resolver must canonicalise.
AdmitRequest == [caller : Caller, session : Sessions, epoch : Epochs,
                 key : Keys, digest : Digests, terms : {"CONCRETE", "SYMBOLIC"}]
NoAdmission == [pass |-> 0]
Admitting   == [req : AdmitRequest, pass : 1..Passes, resolved : 0..MaxRevision]

\* An answer: of a refusal or an acknowledgement its kind, of a grant also
\* whom it was answered, for which session and epoch, and the run it grants.
NoReply == [op |-> "None", result |-> "None"]
Answer(op, result) == [op |-> op, result |-> result]
Grant(op, c, s, e, r) == [op |-> op, result |-> "GRANT", to |-> c,
                          session |-> s, epoch |-> e, run |-> r]

-----------------------------------------------------------------------------
(* The fence *)

HolderOf(c) == [inc |-> c.inc, conn |-> c.conn]

Times == 0..MaxNow

Live(l, t) == l.state = "HELD" /\ l.expires > t

\* The lease is another connection's, and live.
HeldByOther(l, c, t) == Live(l, t) /\ HolderOf(l.holder) # HolderOf(c)

Exhausted(l) == l.epoch >= MaxEpoch

NextEpoch(l) == l.epoch + 1


\* Whether lease l is live, held by c, at epoch e, at time t.
FencedOk(l, c, e, t) == Live(l, t) /\ l.epoch = e /\ l.holder = c

Fence(c, s, e, t) == FencedOk(lease[s], c, e, t)

\* A run row, ended.
Ended(x, state) == [state |-> state, session |-> x.session, epoch |-> x.epoch, by |-> x.by]

\* Fault: the bound is one too low, so the tenure that ends keeps its runs.
ReapOffByOne(s, below) ==
    [r \in RunIds |->
        IF run[r].session = s /\ run[r].state = "ACTIVE" /\ run[r].epoch < below - 1
        THEN Ended(run[r], "REAPED")
        ELSE run[r]]

\* Every active run of session s admitted below an epoch is REAPED.
Reap(s, below) ==
    [r \in RunIds |->
        IF run[r].session = s /\ run[r].state = "ACTIVE" /\ run[r].epoch < below
        THEN Ended(run[r], "REAPED")
        ELSE run[r]]

-----------------------------------------------------------------------------
Init ==
    /\ proc = "DOWN"
    /\ incarnation = 0
    /\ nextConn = 0
    /\ conns = {}
    /\ lease = [s \in Sessions |-> NoLease]
    /\ idCounter = 0
    /\ run = [r \in RunIds |-> NoRun]
    /\ idem = {}
    /\ revision = 0
    /\ admitting = [h \in Handles |-> NoAdmission]
    /\ reply = NoReply

-----------------------------------------------------------------------------
(* The process *)

\* Authority::start: a new incarnation, in one transaction that ends what the
\* previous process held.  No connection exists yet.
Start ==
    /\ proc = "DOWN"
    /\ incarnation < MaxIncarnation
    /\ proc' = "UP"
    /\ incarnation' = incarnation + 1
    /\ nextConn' = 0
    /\ lease' = [s \in Sessions |->
                    IF lease[s].state = "HELD"
                    THEN Vacated(lease[s], "INVALIDATED", HolderOf(lease[s].holder))
                    ELSE lease[s]]
    /\ run' = [r \in RunIds |->
                    IF run[r].state = "ACTIVE"
                    THEN Ended(run[r], "REAPED")
                    ELSE run[r]]
    /\ UNCHANGED <<conns, idCounter, idem, revision, admitting>>
    /\ reply' = NoReply

\* The process dies, or its store is poisoned and the server stops: the
\* connections and every operation between two transactions are gone.
Crash ==
    /\ proc = "UP"
    /\ proc' = "DOWN"
    /\ conns' = {}
    /\ admitting' = [h \in Handles |-> NoAdmission]
    /\ reply' = NoReply
    /\ UNCHANGED <<nextConn, storeVars>>

\* Authority::connect: a fresh holder for an accepted connection.
Connect(u) ==
    /\ proc = "UP"
    /\ nextConn < MaxConns
    /\ nextConn' = nextConn + 1
    /\ conns' = conns \cup {[subject |-> u, inc |-> incarnation, conn |-> nextConn + 1]}
    /\ reply' = NoReply
    /\ UNCHANGED <<proc, admitting, storeVars>>

\* A connection ends.  Its lease stays held until it expires: the authority
\* is not told.  A request of it that a handle is serving is served on.
Disconnect(c) ==
    /\ conns' = conns \ {c}
    /\ reply' = NoReply
    /\ UNCHANGED <<proc, nextConn, admitting, storeVars>>

\* The operator installs a profile or a skill.
Install ==
    /\ proc = "UP"
    /\ revision < MaxRevision
    /\ revision' = revision + 1
    /\ reply' = NoReply
    /\ UNCHANGED <<proc, nextConn, conns, admitting,
                   incarnation, lease, idCounter, run, idem>>

-----------------------------------------------------------------------------
(* Leases *)

Acquire(c, s, t) ==
    LET l == lease[s] IN
    /\ proc = "UP"
    /\ \/ /\ HeldByOther(l, c, t)
          /\ reply' = Answer("AcquireLease", "LEASE_HELD")
          /\ UNCHANGED <<lease, run>>
       \/ /\ ~HeldByOther(l, c, t)
          /\ Exhausted(l)
          /\ reply' = Answer("AcquireLease", "ERROR")
          /\ UNCHANGED <<lease, run>>
       \/ /\ ~HeldByOther(l, c, t)
          /\ ~Exhausted(l)
          /\ lease' = [lease EXCEPT ![s] = Held(NextEpoch(l), c, t + Ttl, l.last)]
          /\ run' = Reap(s, NextEpoch(l))
          /\ reply' = Answer("AcquireLease", "DONE")
    /\ UNCHANGED <<proc, nextConn, conns, admitting, incarnation, idCounter, idem, revision>>

Heartbeat(c, s, e, t) ==
    /\ proc = "UP"
    /\ \/ /\ Fence(c, s, e, t)
          /\ lease' = [lease EXCEPT ![s] =
                Held(lease[s].epoch, lease[s].holder, t + Ttl, lease[s].last)]
          /\ reply' = Answer("Heartbeat", "DONE")
       \/ /\ ~Fence(c, s, e, t)
          /\ lease' = lease
          /\ reply' = Answer("Heartbeat", "STALE_EPOCH")
    /\ UNCHANGED <<proc, nextConn, conns, admitting, incarnation, idCounter, run, idem, revision>>

\* The release of epoch e by c has happened already.
ReleasedBy(l, c, e) == l.state = "RELEASED" /\ l.epoch = e /\ l.last = HolderOf(c)

ReleaseLease(c, s, e, t) ==
    /\ proc = "UP"
    /\ \/ /\ Fence(c, s, e, t)
          /\ lease' = [lease EXCEPT ![s] = Vacated(lease[s], "RELEASED", HolderOf(c))]
          /\ run' = Reap(s, e + 1)
          /\ reply' = Answer("ReleaseLease", "DONE")
       \/ /\ ~Fence(c, s, e, t)
          /\ ReleasedBy(lease[s], c, e)
          /\ reply' = Answer("ReleaseLease", "DONE")
          /\ UNCHANGED <<lease, run>>
       \/ /\ ~Fence(c, s, e, t)
          /\ ~ReleasedBy(lease[s], c, e)
          /\ reply' = Answer("ReleaseLease", "STALE_EPOCH")
          /\ UNCHANGED <<lease, run>>
    /\ UNCHANGED <<proc, nextConn, conns, admitting, incarnation, idCounter, idem, revision>>

-----------------------------------------------------------------------------
(* Admission *)

\* Fault: the records of ended runs are collected.
RecordedLive(q) == {i \in idem : /\ i.subject = q.caller.subject
                                 /\ i.session = q.session
                                 /\ i.key = q.key
                                 /\ run[i.run].state = "ACTIVE"}

\* The idempotency record in the request's scope.
Recorded(q) == {i \in idem : /\ i.subject = q.caller.subject
                             /\ i.session = q.session
                             /\ i.key = q.key}

\* The pass answers: the admission is over.
Answered(h, result) ==
    /\ admitting' = [admitting EXCEPT ![h] = NoAdmission]
    /\ reply' = Answer("AdmitRun", result)

Granted(h, q, r) ==
    /\ admitting' = [admitting EXCEPT ![h] = NoAdmission]
    /\ reply' = Grant("AdmitRun", q.caller, q.session, q.epoch, r)

NothingAdmitted == UNCHANGED <<lease, idCounter, run, idem>>

\* Fault: a matching digest is enough to replay the recorded grant.
ReplayedEnded(h, q, i) ==
    \/ i.digest # q.digest /\ Answered(h, "IDEMPOTENCY_CONFLICT")
    \/ i.digest = q.digest /\ Granted(h, q, i.run)

\* The answer when the key is recorded: a conflict, a spent key, a store that
\* contradicts itself, or the recorded grant.
Replayed(h, q, i) ==
    LET r == run[i.run] IN
    \/ i.digest # q.digest /\ Answered(h, "IDEMPOTENCY_CONFLICT")
    \/ /\ i.digest = q.digest
       /\ \/ r.state # "ACTIVE" /\ Answered(h, "ADMISSION_ENDED")
          \/ r.state = "ACTIVE" /\ r.epoch # q.epoch /\ Answered(h, "ERROR")
          \/ r.state = "ACTIVE" /\ r.epoch = q.epoch /\ Granted(h, q, i.run)

\* The resolver's answers cannot be used in this pass: they are for another
\* revision's paths, and a further pass may still ask for these.
MustResolve(a) ==
    a.req.terms = "CONCRETE" /\ a.resolved # revision /\ a.pass < Passes

MintedRun == idCounter + 1

\* The run row, and the record that binds its key to it.
Persist(q) ==
    /\ idCounter' = MintedRun
    /\ run' = [run EXCEPT ![MintedRun] =
                    [state |-> "ACTIVE", session |-> q.session,
                     epoch |-> q.epoch, by |-> q.caller]]
    /\ idem' = idem \cup {[subject |-> q.caller.subject, session |-> q.session,
                           key |-> q.key, digest |-> q.digest, run |-> MintedRun]}

\* A first admission: the profile, the resolver's answers, then minting.
FirstAdmission(h, a) ==
    \/ /\ revision = 0
       /\ Answered(h, "UNKNOWN_AGENT_PROFILE")
       /\ NothingAdmitted
    \/ /\ revision # 0
       /\ MustResolve(a)
       /\ admitting' = [admitting EXCEPT ![h] =
                [req |-> a.req, pass |-> a.pass + 1, resolved |-> revision]]
       /\ reply' = NoReply
       /\ NothingAdmitted
    \/ /\ revision # 0
       /\ ~MustResolve(a)
       /\ \/ idCounter < MaxRuns /\ Granted(h, a.req, MintedRun)
             /\ Persist(a.req) /\ lease' = lease
          \/ idCounter >= MaxRuns /\ Answered(h, "ERROR") /\ NothingAdmitted

\* Fault: only the first pass is fenced.
PassFenceOnce(a, t) == a.pass > 1 \/ Fence(a.req.caller, a.req.session, a.req.epoch, t)
PassFence(a, t) == Fence(a.req.caller, a.req.session, a.req.epoch, t)

\* One pass of AdmitRun: the fence before anything else, then the record, and
\* only for an unrecorded key the rest.
Pass(h, a, t) ==
    /\ proc = "UP"
    /\ \/ ~PassFence(a, t) /\ Answered(h, "STALE_EPOCH") /\ NothingAdmitted
       \/ PassFence(a, t) /\ (\E i \in Recorded(a.req) : Replayed(h, a.req, i)) /\ NothingAdmitted
       \/ PassFence(a, t) /\ Recorded(a.req) = {} /\ FirstAdmission(h, a)
    /\ UNCHANGED <<proc, nextConn, conns, incarnation, revision>>

\* A handle takes an AdmitRun request: the first pass.
AdmitRun(h, q, t) ==
    /\ admitting[h] = NoAdmission
    /\ Pass(h, [req |-> q, pass |-> 1, resolved |-> 0], t)

\* A further pass, with what the resolver answered since the last.
AdmitPass(h, t) ==
    /\ admitting[h] # NoAdmission
    /\ Pass(h, admitting[h], t)

-----------------------------------------------------------------------------
(* Runs *)

\* The run is c's own, active, in session s under epoch e.
OwnActive(c, s, r, e) ==
    /\ run[r].session = s
    /\ run[r].by.subject = c.subject
    /\ run[r].epoch = e
    /\ run[r].state = "ACTIVE"

ReleaseRun(c, s, r, e, t) ==
    /\ proc = "UP"
    /\ \/ /\ ~Fence(c, s, e, t)
          /\ reply' = Answer("ReleaseRun", "STALE_EPOCH")
          /\ run' = run
       \/ /\ Fence(c, s, e, t)
          /\ reply' = Answer("ReleaseRun", "DONE")
          /\ run' = IF OwnActive(c, s, r, e)
                    THEN [run EXCEPT ![r] = Ended(run[r], "RELEASED")]
                    ELSE run
    /\ UNCHANGED <<proc, nextConn, conns, admitting, incarnation, lease, idCounter, idem, revision>>

QueryAuthority(c, s, r, e, t) ==
    /\ proc = "UP"
    /\ reply' = IF ~Fence(c, s, e, t) THEN Answer("QueryAuthority", "STALE_EPOCH")
                ELSE IF ~OwnActive(c, s, r, e) THEN Answer("QueryAuthority", "UNKNOWN_RUN")
                ELSE IF run[r].by.inc # incarnation THEN Answer("QueryAuthority", "ERROR")
                ELSE Grant("QueryAuthority", c, s, e, r)
    /\ UNCHANGED <<proc, nextConn, conns, admitting, storeVars>>

-----------------------------------------------------------------------------
\* A request of an open connection.
Request(c, t) ==
    \E s \in Sessions :
        \/ Acquire(c, s, t)
        \/ \E e \in Epochs :
            \/ Heartbeat(c, s, e, t)
            \/ ReleaseLease(c, s, e, t)
            \/ \E r \in RunIds : ReleaseRun(c, s, r, e, t) \/ QueryAuthority(c, s, r, e, t)
            \/ \E h \in Handles, k \in Keys, d \in Digests, p \in {"CONCRETE", "SYMBOLIC"} :
                AdmitRun(h, [caller |-> c, session |-> s, epoch |-> e,
                             key |-> k, digest |-> d, terms |-> p], t)

Next ==
    \/ Start \/ Crash \/ Install
    \/ \E u \in Subjects : Connect(u)
    \/ \E c \in conns : Disconnect(c) \/ \E t \in Times : Request(c, t)
    \/ \E h \in Handles, t \in Times : AdmitPass(h, t)

Spec == Init /\ [][Next]_vars

-----------------------------------------------------------------------------
(* Properties *)

\* The store's rows have their columns' types.
TypeOK ==
    /\ proc \in {"UP", "DOWN"}
    /\ incarnation \in Nat
    /\ nextConn \in Nat
    /\ conns \subseteq Caller
    /\ lease \in [Sessions -> Lease]
    /\ idCounter \in 0..MaxRuns
    /\ run \in [RunIds -> Run]
    /\ idem \subseteq IdemRow
    /\ revision \in 0..MaxRevision
    /\ admitting \in [Handles -> Admitting \cup {NoAdmission}]

\* A run is active only while the lease it was admitted under is the session's
\* current tenure, not given back and not invalidated, and in the hands of the
\* very connection that had it admitted.  admission::recorded and query rely
\* on it: an active run under another epoch is "a store that contradicts
\* itself".
ActiveRunIsCurrent ==
    \A r \in RunIds : run[r].state = "ACTIVE" =>
        LET l == lease[run[r].session] IN
        /\ l.state = "HELD"
        /\ l.epoch = run[r].epoch
        /\ l.holder = run[r].by

\* An epoch of a session is one writer's for ever: no two connections, of the
\* same incarnation or across restarts, ever had runs admitted under it.
EpochHasOneWriter ==
    \A r1, r2 \in RunIds :
        /\ run[r1].state # "NONE" /\ run[r2].state # "NONE"
        /\ run[r1].session = run[r2].session
        /\ run[r1].epoch = run[r2].epoch
        => run[r1].by = run[r2].by

\* One key admits at most once, permanently: a subject's key in a session is
\* bound to one run, a run to one key, and every run was admitted under one.
KeyAdmitsOnce ==
    /\ \A i, j \in idem :
        (\/ i.subject = j.subject /\ i.session = j.session /\ i.key = j.key
         \/ i.run = j.run) => i = j
    /\ \A r \in RunIds : run[r].state # "NONE" =>
        \E i \in idem : i.run = r /\ i.session = run[r].session
                                  /\ i.subject = run[r].by.subject

\* A session's epoch never goes back, and a connection that becomes the holder
\* begins a tenure at an epoch no tenure ever had.
NewTenureNewEpoch ==
    [][\A s \in Sessions :
        /\ lease'[s].epoch >= lease[s].epoch
        /\ (lease'[s].state = "HELD"
              /\ (lease[s].state # "HELD" \/ lease'[s].holder # lease[s].holder))
           => lease'[s].epoch > lease[s].epoch]_vars

\* A grant is only ever answered, minted or replayed or queried, for a run the
\* caller can use: active, in the answered session and epoch, with the caller
\* the holder of the session's lease; and a later pass never mints for a caller
\* fenced since an earlier one.
GrantAnsweredIsUsable ==
    [][reply' # reply /\ reply'.result = "GRANT" =>
        LET r == reply'.run
            l == lease'[reply'.session] IN
        /\ run'[r].state = "ACTIVE"
        /\ run'[r].session = reply'.session
        /\ run'[r].epoch = reply'.epoch
        /\ l.holder = reply'.to /\ l.state = "HELD"]_vars

\* The lease holder as the writer, the epoch as the fencing token, the runs as
\* the work.
AbstractState(state) ==
    IF state = "NONE" THEN "NONE" ELSE IF state = "ACTIVE" THEN "OPEN" ELSE "CLOSED"

AbstractRun(x) == [state |-> AbstractState(x.state), session |-> x.session,
                   token |-> x.epoch, writer |-> x.by]

F == INSTANCE FencedSession WITH
    Works    <- RunIds,
    Writers  <- Caller,
    NoWriter <- NoCaller,
    MaxToken <- MaxEpoch,
    token    <- [s \in Sessions |-> lease[s].epoch],
    writer   <- [s \in Sessions |-> lease[s].holder],
    work     <- [r \in RunIds |-> AbstractRun(run[r])]

\* The store's leases, runs and admissions implement the fenced session: the
\* runs of a tenure end in the very step that ends it, whichever way it ends,
\* and no run is admitted but under the token its writer holds.
ImplementsFencedSession == F!FSpec
=============================================================================
