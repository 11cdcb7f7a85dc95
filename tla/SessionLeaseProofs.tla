------------------------- MODULE SessionLeaseProofs -------------------------
(***************************************************************************)
(* Proofs about SessionLease, and after it about Policy and Grants, for    *)
(* every value of their constants.                                         *)
(***************************************************************************)
EXTENDS SessionLease, Policy, Grants, FiniteSetTheorems, SequenceTheorems, TLAPS

-----------------------------------------------------------------------------
(* Type correctness *)

LEMMA InitTypeOK == Init => TypeOK
  <1>. SUFFICES ASSUME Init PROVE TypeOK
    OBVIOUS
  <1>. USE LeaseConstants DEF LeaseConstants, Init
  <1>1. NoLease \in Lease
    BY DEF NoLease, Lease, NoHolder, Holder
  <1>2. NoRun \in Run
    BY DEF NoRun, Run
  <1>. QED BY <1>1, <1>2 DEF TypeOK

LEMMA ReapType ==
  ASSUME TypeOK, NEW s, NEW n
  PROVE  Reap(s, n) \in [RunIds -> Run]
  BY DEF TypeOK, Reap, Run, Ended

LEMMA AcquireType ==
  ASSUME TypeOK, NEW c \in Caller, NEW s \in Sessions, NEW t \in Times, Acquire(c, s, t)
  PROVE  TypeOK'
  <1>. USE LeaseConstants DEF TypeOK, LeaseConstants
  <1>1. lease' \in [Sessions -> Lease]
    BY DEF Acquire, Exhausted, NextEpoch, Held, Lease, Times
  <1>2. run' \in [RunIds -> Run]
    BY ReapType DEF Acquire
  <1>. QED BY <1>1, <1>2 DEF Acquire

LEMMA HeartbeatType ==
  ASSUME TypeOK, NEW c \in Caller, NEW s \in Sessions, NEW e \in Epochs, NEW t \in Times,
         Heartbeat(c, s, e, t)
  PROVE  TypeOK'
  <1>. USE LeaseConstants DEF TypeOK, LeaseConstants
  <1>1. lease' \in [Sessions -> Lease]
    BY DEF Heartbeat, Fence, FencedOk, Live, Held, Lease, Times
  <1>. QED BY <1>1 DEF Heartbeat

LEMMA ReleaseLeaseType ==
  ASSUME TypeOK, NEW c \in Caller, NEW s \in Sessions, NEW e \in Epochs, NEW t \in Times,
         ReleaseLease(c, s, e, t)
  PROVE  TypeOK'
  <1>. USE LeaseConstants DEF TypeOK, LeaseConstants
  <1>1. lease' \in [Sessions -> Lease]
    BY DEF ReleaseLease, Vacated, Lease, HolderOf, Holder, Caller
  <1>2. run' \in [RunIds -> Run]
    BY ReapType DEF ReleaseLease
  <1>. QED BY <1>1, <1>2 DEF ReleaseLease

LEMMA PassType ==
  ASSUME TypeOK, NEW h \in Handles, NEW a \in Admitting, NEW t \in Times, Pass(h, a, t)
  PROVE  TypeOK'
  <1>. USE LeaseConstants DEF TypeOK, LeaseConstants
  <1>0. a.req \in AdmitRequest
    BY DEF Admitting
  <1>1. admitting' \in [Handles -> Admitting \cup {NoAdmission}]
    <2>1. ASSUME NEW result, Answered(h, result) PROVE admitting' \in [Handles -> Admitting \cup {NoAdmission}]
      BY <2>1 DEF Answered
    <2>2. ASSUME NEW r, Granted(h, a.req, r) PROVE admitting' \in [Handles -> Admitting \cup {NoAdmission}]
      BY <2>2 DEF Granted
    <2>3. ASSUME NEW i, Replayed(h, a.req, i) PROVE admitting' \in [Handles -> Admitting \cup {NoAdmission}]
      BY <2>1, <2>2, <2>3 DEF Replayed
    <2>4. ASSUME FirstAdmission(h, a) PROVE admitting' \in [Handles -> Admitting \cup {NoAdmission}]
      <3>1. CASE MustResolve(a) /\ reply' = NoReply
                 /\ admitting' = [admitting EXCEPT ![h] =
                        [req |-> a.req, pass |-> a.pass + 1, resolved |-> revision]]
        BY <3>1 DEF MustResolve, Admitting
      <3>. QED BY <2>1, <2>2, <2>4, <3>1 DEF FirstAdmission
    <2>. QED BY <2>1, <2>3, <2>4 DEF Pass
  <1>2. /\ idCounter' \in 0..MaxRuns
        /\ run' \in [RunIds -> Run]
        /\ idem' \subseteq IdemRow
        /\ lease' = lease
    <2>1. CASE NothingAdmitted
      BY <2>1 DEF NothingAdmitted
    <2>2. CASE idCounter < MaxRuns /\ Persist(a.req) /\ lease' = lease
      <3>1. MintedRun \in RunIds
        BY <2>2 DEF MintedRun, RunIds
      <3>. QED
        BY <1>0, <2>2, <3>1 DEF Persist, Run, IdemRow, AdmitRequest, Epochs, RunIds, Caller
    <2>. QED BY <2>1, <2>2 DEF Pass, FirstAdmission
  <1>. QED BY <1>1, <1>2 DEF Pass

LEMMA StartType ==
  ASSUME TypeOK, Start
  PROVE  TypeOK'
  <1>. USE LeaseConstants DEF TypeOK, LeaseConstants
  <1>1. lease' \in [Sessions -> Lease]
    <2>. SUFFICES ASSUME NEW s \in Sessions PROVE lease'[s] \in Lease
      BY DEF Start
    <2>1. HolderOf(lease[s].holder) \in Holder
      BY DEF Lease, HolderOf, Holder, Caller, NoCaller
    <2>. QED BY <2>1 DEF Start, Vacated, Lease
  <1>2. run' \in [RunIds -> Run]
    BY DEF Start, Run, Ended
  <1>. QED BY <1>1, <1>2 DEF Start

LEMMA NextTypeOK == TypeOK /\ [Next]_vars => TypeOK'
  <1>. SUFFICES ASSUME TypeOK, [Next]_vars PROVE TypeOK'
    OBVIOUS
  <1>. USE LeaseConstants
  <1>1. CASE Start
    BY <1>1, StartType
  <1>2. CASE Crash
    BY <1>2 DEF TypeOK, Crash, storeVars
  <1>3. CASE Install
    BY <1>3 DEF TypeOK, Install
  <1>4. ASSUME NEW u \in Subjects, Connect(u) PROVE TypeOK'
    BY <1>4 DEF TypeOK, Connect, Caller, storeVars
  <1>5. ASSUME NEW c \in conns, Disconnect(c) PROVE TypeOK'
    BY <1>5 DEF TypeOK, Disconnect, storeVars
  <1>6. ASSUME NEW c \in conns, NEW t \in Times, Request(c, t) PROVE TypeOK'
    <2>0. c \in Caller
      BY DEF TypeOK
    <2>1. ASSUME NEW s \in Sessions, NEW e \in Epochs, NEW r \in RunIds,
                 ReleaseRun(c, s, r, e, t)
          PROVE  TypeOK'
      BY <2>1 DEF TypeOK, ReleaseRun, Run, Ended
    <2>2. ASSUME NEW s \in Sessions, NEW e \in Epochs, NEW r \in RunIds,
                 QueryAuthority(c, s, r, e, t)
          PROVE  TypeOK'
      BY <2>2 DEF TypeOK, QueryAuthority, storeVars
    <2>3. ASSUME NEW s \in Sessions, NEW e \in Epochs, NEW h \in Handles, NEW k \in Keys,
                 NEW d \in Digests, NEW p \in {"CONCRETE", "SYMBOLIC"},
                 AdmitRun(h, [caller |-> c, session |-> s, epoch |-> e,
                              key |-> k, digest |-> d, terms |-> p], t)
          PROVE  TypeOK'
      <3>. DEFINE q == [caller |-> c, session |-> s, epoch |-> e,
                        key |-> k, digest |-> d, terms |-> p]
      <3>1. [req |-> q, pass |-> 1, resolved |-> 0] \in Admitting
        BY <2>0 DEF Admitting, AdmitRequest
      <3>. QED BY <2>3, <3>1, PassType DEF AdmitRun
    <2>. QED BY <1>6, <2>0, <2>1, <2>2, <2>3, AcquireType, HeartbeatType, ReleaseLeaseType
             DEF Request
  <1>7. ASSUME NEW h \in Handles, NEW t \in Times, AdmitPass(h, t) PROVE TypeOK'
    <2>1. admitting[h] \in Admitting
      BY <1>7 DEF TypeOK, AdmitPass
    <2>. QED BY <1>7, <2>1, PassType DEF AdmitPass
  <1>8. CASE UNCHANGED vars
    BY <1>8 DEF TypeOK, vars, storeVars
  <1>. QED BY <1>1, <1>2, <1>3, <1>4, <1>5, <1>6, <1>7, <1>8 DEF Next

\* The store's rows keep their types: no run id outside the id space, no epoch
\* past the wire's last.
THEOREM TypeCorrect == Spec => []TypeOK
  BY InitTypeOK, NextTypeOK, PTL DEF Spec

-----------------------------------------------------------------------------
(* The inductive invariant *)

\* Ids are minted in order: exactly those up to the counter name a run, and
\* such a run has a session, an epoch and an admitting connection.
MintedInOrder ==
    \A r \in RunIds :
        /\ run[r].state # "NONE" <=> r <= idCounter
        /\ run[r].state # "NONE" =>
            /\ run[r].session \in Sessions
            /\ run[r].by \in Caller
            /\ run[r].epoch <= lease[run[r].session].epoch

\* While a lease is held, every run ever admitted under its current epoch was
\* admitted by its holder: what makes EpochHasOneWriter inductive.
TenureOwner ==
    \A r \in RunIds :
        LET l == lease[run[r].session] IN
        (run[r].state # "NONE" /\ l.state = "HELD" /\ run[r].epoch = l.epoch)
            => run[r].by = l.holder

\* Every record names a minted run.
RecordsAreMinted == \A i \in idem : i.run <= idCounter

\* Only a held lease has a holder (the schema's CHECK).
VacantHasNoHolder == \A s \in Sessions : lease[s].state # "HELD" => lease[s].holder = NoCaller

IInv ==
    /\ TypeOK
    /\ VacantHasNoHolder
    /\ MintedInOrder
    /\ ActiveRunIsCurrent
    /\ TenureOwner
    /\ EpochHasOneWriter
    /\ RecordsAreMinted
    /\ KeyAdmitsOnce

-----------------------------------------------------------------------------
(* The store tables in a step that leaves them alone *)

LEMMA TablesUnchanged ==
  ASSUME IInv, TypeOK', UNCHANGED <<lease, idCounter, run, idem>>
  PROVE  IInv'
  BY DEF IInv, VacantHasNoHolder, MintedInOrder, ActiveRunIsCurrent, TenureOwner,
         EpochHasOneWriter, RecordsAreMinted, KeyAdmitsOnce

LEMMA InitIInv == Init => IInv
  <1>. SUFFICES ASSUME Init PROVE IInv
    OBVIOUS
  <1>. USE LeaseConstants DEF LeaseConstants, Init, NoRun, NoLease
  <1>1. TypeOK
    BY InitTypeOK
  <1>2. MintedInOrder /\ VacantHasNoHolder
    BY DEF MintedInOrder, VacantHasNoHolder, RunIds
  <1>3. ActiveRunIsCurrent /\ TenureOwner /\ EpochHasOneWriter
    BY DEF ActiveRunIsCurrent, TenureOwner, EpochHasOneWriter
  <1>4. RecordsAreMinted /\ KeyAdmitsOnce
    BY DEF RecordsAreMinted, KeyAdmitsOnce
  <1>. QED BY <1>1, <1>2, <1>3, <1>4 DEF IInv

\* A step that only ends runs, and moves leases so that what stays active
\* stays current: acquiring, releasing and starting are such steps.
LEMMA EndingStep ==
  ASSUME IInv, TypeOK', UNCHANGED <<idCounter, idem>>,
         \A r \in RunIds :
            /\ run'[r].session = run[r].session
            /\ run'[r].epoch = run[r].epoch
            /\ run'[r].by = run[r].by
            /\ run'[r].state # "NONE" <=> run[r].state # "NONE",
         \A s \in Sessions :
            /\ lease'[s].epoch >= lease[s].epoch
            /\ lease'[s].state = "HELD" /\ lease'[s].epoch = lease[s].epoch =>
                    lease[s].state = "HELD" /\ lease'[s].holder = lease[s].holder,
         ActiveRunIsCurrent', VacantHasNoHolder'
  PROVE  IInv'
  <1>. USE LeaseConstants DEF LeaseConstants
  <1>0. /\ \A s \in Sessions : lease[s].epoch \in Nat /\ lease'[s].epoch \in Nat
        /\ \A r \in RunIds : run[r].epoch \in Nat
    BY DEF IInv, TypeOK, Lease, Run
  <1>1. MintedInOrder'
    BY <1>0 DEF IInv, MintedInOrder
  <1>2. TenureOwner'
    <2>. SUFFICES ASSUME NEW r \in RunIds,
                         run'[r].state # "NONE",
                         lease'[run'[r].session].state = "HELD",
                         run'[r].epoch = lease'[run'[r].session].epoch
                  PROVE  run'[r].by = lease'[run'[r].session].holder
      BY DEF TenureOwner
    <2>1. run[r].session \in Sessions /\ run[r].epoch <= lease[run[r].session].epoch
      BY DEF IInv, MintedInOrder
    <2>2. lease'[run[r].session].epoch = lease[run[r].session].epoch
      BY <1>0, <2>1
    <2>. QED BY <2>1, <2>2 DEF IInv, TenureOwner
  <1>3. EpochHasOneWriter'
    BY DEF IInv, EpochHasOneWriter
  <1>4. RecordsAreMinted'
    BY DEF IInv, RecordsAreMinted
  <1>5. KeyAdmitsOnce'
    BY DEF IInv, KeyAdmitsOnce
  <1>. QED BY <1>1, <1>2, <1>3, <1>4, <1>5 DEF IInv

LEMMA AcquireIInv ==
  ASSUME IInv, NEW c \in Caller, NEW s \in Sessions, NEW t \in Times, Acquire(c, s, t)
  PROVE  IInv'
  <1>. USE LeaseConstants DEF LeaseConstants
  <1>0. TypeOK'
    BY AcquireType DEF IInv
  <1>1. CASE UNCHANGED <<lease, run>>
    BY <1>0, <1>1, TablesUnchanged DEF Acquire
  <1>2. CASE /\ lease' = [lease EXCEPT ![s] =
                    Held(NextEpoch(lease[s]), c, t + Ttl, lease[s].last)]
             /\ run' = Reap(s, NextEpoch(lease[s]))
    <2>1. UNCHANGED <<idCounter, idem>>
      BY DEF Acquire
    <2>2. \A r \in RunIds :
            /\ run'[r].session = run[r].session
            /\ run'[r].epoch = run[r].epoch
            /\ run'[r].by = run[r].by
            /\ run'[r].state # "NONE" <=> run[r].state # "NONE"
            /\ run'[r].state = "ACTIVE" => run[r].state = "ACTIVE"
            /\ run'[r].state = "ACTIVE" /\ run[r].session = s => ~(run[r].epoch < NextEpoch(lease[s]))
      BY <1>2 DEF Reap, Ended
    <2>3. \A x \in Sessions :
            /\ x # s => lease'[x] = lease[x]
            /\ lease'[s].epoch = lease[s].epoch + 1
      BY <1>2 DEF IInv, TypeOK, Held, NextEpoch
    <2>4. \A x \in Sessions : lease[x].epoch \in Nat
      BY DEF IInv, TypeOK, Lease
    <2>5. ActiveRunIsCurrent'
      <3>. SUFFICES ASSUME NEW r \in RunIds, run'[r].state = "ACTIVE"
                    PROVE  /\ lease'[run'[r].session].state = "HELD"
                           /\ lease'[run'[r].session].epoch = run'[r].epoch
                           /\ lease'[run'[r].session].holder = run'[r].by
        BY DEF ActiveRunIsCurrent
      <3>1. run[r].state = "ACTIVE" /\ run[r].session \in Sessions
        BY <2>2 DEF IInv, MintedInOrder
      <3>2. run[r].session # s
        BY <2>2, <2>4, <3>1 DEF IInv, ActiveRunIsCurrent, NextEpoch
      <3>. QED BY <2>2, <2>3, <3>1, <3>2 DEF IInv, ActiveRunIsCurrent
    <2>6. VacantHasNoHolder'
      BY <1>2 DEF IInv, TypeOK, VacantHasNoHolder, Held
    <2>. QED BY <1>0, <2>1, <2>2, <2>3, <2>4, <2>5, <2>6, EndingStep
  <1>. QED BY <1>1, <1>2 DEF Acquire

LEMMA ReleaseLeaseIInv ==
  ASSUME IInv, NEW c \in Caller, NEW s \in Sessions, NEW e \in Epochs, NEW t \in Times,
         ReleaseLease(c, s, e, t)
  PROVE  IInv'
  <1>. USE LeaseConstants DEF LeaseConstants
  <1>0. TypeOK'
    BY ReleaseLeaseType DEF IInv
  <1>1. CASE UNCHANGED <<lease, run>>
    BY <1>0, <1>1, TablesUnchanged DEF ReleaseLease
  <1>2. CASE /\ Fence(c, s, e, t)
             /\ lease' = [lease EXCEPT ![s] = Vacated(lease[s], "RELEASED", HolderOf(c))]
             /\ run' = Reap(s, e + 1)
    <2>1. UNCHANGED <<idCounter, idem>>
      BY DEF ReleaseLease
    <2>2. \A r \in RunIds :
            /\ run'[r].session = run[r].session
            /\ run'[r].epoch = run[r].epoch
            /\ run'[r].by = run[r].by
            /\ run'[r].state # "NONE" <=> run[r].state # "NONE"
            /\ run'[r].state = "ACTIVE" => run[r].state = "ACTIVE"
            /\ run'[r].state = "ACTIVE" /\ run[r].session = s => ~(run[r].epoch < e + 1)
      BY <1>2 DEF Reap, Ended
    <2>3. \A x \in Sessions :
            /\ x # s => lease'[x] = lease[x]
            /\ lease'[s].epoch = lease[s].epoch
            /\ lease'[s].state = "RELEASED"
      BY <1>2 DEF IInv, TypeOK, Vacated
    <2>4. \A x \in Sessions : lease[x].epoch \in Nat
      BY DEF IInv, TypeOK, Lease
    <2>5. lease[s].epoch = e
      BY <1>2 DEF Fence, FencedOk
    <2>6. ActiveRunIsCurrent'
      <3>. SUFFICES ASSUME NEW r \in RunIds, run'[r].state = "ACTIVE"
                    PROVE  /\ lease'[run'[r].session].state = "HELD"
                           /\ lease'[run'[r].session].epoch = run'[r].epoch
                           /\ lease'[run'[r].session].holder = run'[r].by
        BY DEF ActiveRunIsCurrent
      <3>1. run[r].state = "ACTIVE" /\ run[r].session \in Sessions
        BY <2>2 DEF IInv, MintedInOrder
      <3>2. run[r].session # s
        BY <2>2, <2>4, <2>5, <3>1 DEF IInv, ActiveRunIsCurrent
      <3>. QED BY <2>2, <2>3, <3>1, <3>2 DEF IInv, ActiveRunIsCurrent
    <2>7. VacantHasNoHolder'
      BY <1>2 DEF IInv, TypeOK, VacantHasNoHolder, Vacated
    <2>. QED BY <1>0, <2>1, <2>2, <2>3, <2>4, <2>6, <2>7, EndingStep
  <1>. QED BY <1>1, <1>2 DEF ReleaseLease

LEMMA HeartbeatIInv ==
  ASSUME IInv, NEW c \in Caller, NEW s \in Sessions, NEW e \in Epochs, NEW t \in Times,
         Heartbeat(c, s, e, t)
  PROVE  IInv'
  <1>. USE LeaseConstants DEF LeaseConstants
  <1>0. TypeOK'
    BY HeartbeatType DEF IInv
  <1>1. UNCHANGED <<idCounter, run, idem>>
    BY DEF Heartbeat
  <1>2. \A x \in Sessions : /\ lease'[x].epoch = lease[x].epoch
                            /\ lease'[x].state = lease[x].state
                            /\ lease'[x].holder = lease[x].holder
    BY DEF Heartbeat, Fence, FencedOk, Live, Held, IInv, TypeOK
  <1>3. ActiveRunIsCurrent'
    BY <1>1, <1>2 DEF IInv, ActiveRunIsCurrent, MintedInOrder
  <1>4. \A x \in Sessions : lease[x].epoch \in Nat
    BY DEF IInv, TypeOK, Lease
  <1>5. VacantHasNoHolder'
    BY <1>2 DEF IInv, VacantHasNoHolder
  <1>. QED BY <1>0, <1>1, <1>2, <1>3, <1>4, <1>5, EndingStep

LEMMA StartIInv ==
  ASSUME IInv, Start
  PROVE  IInv'
  <1>. USE LeaseConstants DEF LeaseConstants
  <1>0. TypeOK'
    BY StartType DEF IInv
  <1>1. UNCHANGED <<idCounter, idem>>
    BY DEF Start
  <1>2. \A r \in RunIds :
            /\ run'[r].session = run[r].session
            /\ run'[r].epoch = run[r].epoch
            /\ run'[r].by = run[r].by
            /\ run'[r].state # "NONE" <=> run[r].state # "NONE"
            /\ run'[r].state # "ACTIVE"
    BY DEF Start, Ended
  <1>3. \A x \in Sessions : /\ lease'[x].epoch = lease[x].epoch
                            /\ lease'[x].state # "HELD"
    BY DEF Start, Vacated
  <1>4. \A x \in Sessions : lease[x].epoch \in Nat
    BY DEF IInv, TypeOK, Lease
  <1>5. ActiveRunIsCurrent'
    BY <1>2 DEF ActiveRunIsCurrent
  <1>6. VacantHasNoHolder'
    BY DEF IInv, VacantHasNoHolder, Start, Vacated
  <1>. QED BY <1>0, <1>1, <1>2, <1>3, <1>4, <1>5, <1>6, EndingStep

LEMMA ReleaseRunIInv ==
  ASSUME IInv, TypeOK', NEW c \in Caller, NEW s \in Sessions, NEW r \in RunIds,
         NEW e \in Epochs, NEW t \in Times, ReleaseRun(c, s, r, e, t)
  PROVE  IInv'
  <1>. USE LeaseConstants DEF LeaseConstants
  <1>1. UNCHANGED <<idCounter, idem, lease>>
    BY DEF ReleaseRun
  <1>2. \A x \in RunIds :
            /\ run'[x].session = run[x].session
            /\ run'[x].epoch = run[x].epoch
            /\ run'[x].by = run[x].by
            /\ run'[x].state # "NONE" <=> run[x].state # "NONE"
            /\ run'[x].state = "ACTIVE" => run[x].state = "ACTIVE"
    BY DEF ReleaseRun, OwnActive, Ended, IInv, TypeOK
  <1>3. ActiveRunIsCurrent'
    BY <1>1, <1>2 DEF IInv, ActiveRunIsCurrent
  <1>4. \A x \in Sessions : lease[x].epoch \in Nat
    BY DEF IInv, TypeOK, Lease
  <1>5. VacantHasNoHolder'
    BY <1>1 DEF IInv, VacantHasNoHolder
  <1>. QED BY <1>1, <1>2, <1>3, <1>4, <1>5, EndingStep

LEMMA PersistIInv ==
  ASSUME IInv, TypeOK', NEW q \in AdmitRequest, NEW t \in Times,
         Fence(q.caller, q.session, q.epoch, t), Recorded(q) = {},
         idCounter < MaxRuns, Persist(q), lease' = lease
  PROVE  IInv'
  <1>. USE LeaseConstants DEF LeaseConstants
  <1>. DEFINE n == MintedRun
  <1>1. n \in RunIds /\ n = idCounter + 1 /\ idCounter \in Nat
    BY DEF IInv, TypeOK, MintedRun, RunIds
  <1>2. /\ run'[n] = [state |-> "ACTIVE", session |-> q.session,
                      epoch |-> q.epoch, by |-> q.caller]
        /\ \A r \in RunIds : r # n => run'[r] = run[r]
        /\ idCounter' = n
    BY <1>1 DEF IInv, TypeOK, Persist
  <1>3. /\ q.session \in Sessions /\ q.caller \in Caller /\ q.epoch \in Epochs
        /\ lease[q.session].state = "HELD"
        /\ lease[q.session].epoch = q.epoch
        /\ lease[q.session].holder = q.caller
    BY DEF AdmitRequest, Fence, FencedOk, Live
  <1>4. run[n].state = "NONE" /\ \A r \in RunIds : run[r].state # "NONE" => r # n
    BY <1>1 DEF IInv, MintedInOrder
  <1>12. VacantHasNoHolder'
    BY DEF IInv, VacantHasNoHolder
  <1>5. MintedInOrder'
    <2>. SUFFICES ASSUME NEW r \in RunIds
                  PROVE  /\ run'[r].state # "NONE" <=> r <= idCounter'
                         /\ run'[r].state # "NONE" =>
                                /\ run'[r].session \in Sessions
                                /\ run'[r].by \in Caller
                                /\ run'[r].epoch <= lease'[run'[r].session].epoch
      BY DEF MintedInOrder
    <2>1. CASE r = n
      BY <1>1, <1>2, <1>3, <2>1 DEF Epochs
    <2>2. CASE r # n
      BY <1>1, <1>2, <2>2 DEF IInv, MintedInOrder, RunIds
    <2>. QED BY <2>1, <2>2
  <1>6. ActiveRunIsCurrent'
    BY <1>2, <1>3 DEF IInv, ActiveRunIsCurrent
  <1>7. TenureOwner'
    BY <1>2, <1>3 DEF IInv, TenureOwner
  <1>8. EpochHasOneWriter'
    BY <1>2, <1>3, <1>4 DEF IInv, EpochHasOneWriter, TenureOwner
  <1>. DEFINE new == [subject |-> q.caller.subject, session |-> q.session,
                      key |-> q.key, digest |-> q.digest, run |-> n]
  <1>9. idem' = idem \cup {new}
    BY DEF Persist
  <1>10. RecordsAreMinted'
    BY <1>1, <1>2, <1>9 DEF IInv, TypeOK, IdemRow, RunIds, RecordsAreMinted
  <1>11. KeyAdmitsOnce'
    <2>1. \A i \in idem : i.run # n
      BY <1>1 DEF IInv, TypeOK, RecordsAreMinted, IdemRow, RunIds
    <2>2. \A i \in idem : ~(i.subject = new.subject /\ i.session = new.session /\ i.key = new.key)
      BY DEF Recorded
    <2>3. \A i, j \in idem' :
            (\/ i.subject = j.subject /\ i.session = j.session /\ i.key = j.key
             \/ i.run = j.run) => i = j
      BY <1>9, <2>1, <2>2 DEF IInv, KeyAdmitsOnce
    <2>4. \A r \in RunIds : run'[r].state # "NONE" =>
            \E i \in idem' : i.run = r /\ i.session = run'[r].session
                                       /\ i.subject = run'[r].by.subject
      <3>. SUFFICES ASSUME NEW r \in RunIds, run'[r].state # "NONE"
                    PROVE \E i \in idem' : i.run = r /\ i.session = run'[r].session
                                                    /\ i.subject = run'[r].by.subject
        OBVIOUS
      <3>1. CASE r = n
        <4>1. new \in idem' /\ new.run = r
          BY <1>9, <3>1
        <4>2. new.session = run'[r].session /\ new.subject = run'[r].by.subject
          BY <1>2, <3>1
        <4>. QED BY <4>1, <4>2
      <3>2. CASE r # n
        BY <1>2, <1>9, <3>2 DEF IInv, KeyAdmitsOnce
      <3>. QED BY <3>1, <3>2
    <2>. QED BY <2>3, <2>4 DEF KeyAdmitsOnce
  <1>. QED BY <1>5, <1>6, <1>7, <1>8, <1>10, <1>11, <1>12 DEF IInv

LEMMA PassIInv ==
  ASSUME IInv, NEW h \in Handles, NEW a \in Admitting, NEW t \in Times, Pass(h, a, t)
  PROVE  IInv'
  <1>0. TypeOK'
    BY PassType DEF IInv
  <1>1. CASE NothingAdmitted
    BY <1>0, <1>1, TablesUnchanged DEF NothingAdmitted
  <1>2. CASE /\ PassFence(a, t) /\ Recorded(a.req) = {}
             /\ idCounter < MaxRuns /\ Persist(a.req) /\ lease' = lease
    <2>1. a.req \in AdmitRequest
      BY DEF Admitting
    <2>. QED BY <1>0, <1>2, <2>1, PersistIInv DEF PassFence
  <1>. QED BY <1>1, <1>2 DEF Pass, FirstAdmission

LEMMA NextIInv == IInv /\ [Next]_vars => IInv'
  <1>. SUFFICES ASSUME IInv, [Next]_vars PROVE IInv'
    OBVIOUS
  <1>0. TypeOK'
    BY NextTypeOK DEF IInv
  <1>1. CASE Start
    BY <1>1, StartIInv
  <1>2. CASE Crash
    BY <1>0, <1>2, TablesUnchanged DEF Crash, storeVars
  <1>3. CASE Install
    BY <1>0, <1>3, TablesUnchanged DEF Install
  <1>4. ASSUME NEW u \in Subjects, Connect(u) PROVE IInv'
    BY <1>0, <1>4, TablesUnchanged DEF Connect, storeVars
  <1>5. ASSUME NEW c \in conns, Disconnect(c) PROVE IInv'
    BY <1>0, <1>5, TablesUnchanged DEF Disconnect, storeVars
  <1>6. ASSUME NEW c \in conns, NEW t \in Times, Request(c, t) PROVE IInv'
    <2>0. c \in Caller
      BY DEF IInv, TypeOK
    <2>1. ASSUME NEW s \in Sessions, NEW e \in Epochs, NEW r \in RunIds,
                 QueryAuthority(c, s, r, e, t)
          PROVE  IInv'
      BY <1>0, <2>1, TablesUnchanged DEF QueryAuthority, storeVars
    <2>2. ASSUME NEW s \in Sessions, NEW e \in Epochs, NEW h \in Handles, NEW k \in Keys,
                 NEW d \in Digests, NEW p \in {"CONCRETE", "SYMBOLIC"},
                 AdmitRun(h, [caller |-> c, session |-> s, epoch |-> e,
                              key |-> k, digest |-> d, terms |-> p], t)
          PROVE  IInv'
      <3>. DEFINE q == [caller |-> c, session |-> s, epoch |-> e,
                        key |-> k, digest |-> d, terms |-> p]
      <3>1. [req |-> q, pass |-> 1, resolved |-> 0] \in Admitting
        BY <2>0, LeaseConstants DEF LeaseConstants, Admitting, AdmitRequest
      <3>. QED BY <2>2, <3>1, PassIInv DEF AdmitRun
    <2>. QED BY <1>0, <1>6, <2>0, <2>1, <2>2,
                AcquireIInv, HeartbeatIInv, ReleaseLeaseIInv, ReleaseRunIInv DEF Request
  <1>7. ASSUME NEW h \in Handles, NEW t \in Times, AdmitPass(h, t) PROVE IInv'
    <2>1. admitting[h] \in Admitting
      BY <1>7 DEF IInv, TypeOK, AdmitPass
    <2>. QED BY <1>7, <2>1, PassIInv DEF AdmitPass
  <1>8. CASE UNCHANGED vars
    BY <1>0, <1>8, TablesUnchanged DEF vars, storeVars
  <1>. QED BY <1>1, <1>2, <1>3, <1>4, <1>5, <1>6, <1>7, <1>8 DEF Next

LEMMA InductiveInvariant == Spec => []IInv
  BY InitIInv, NextIInv, PTL DEF Spec

-----------------------------------------------------------------------------
(* The safety theorems *)

\* A run is active only under its session's current tenure, and in the hands
\* of the connection that had it admitted: a zombie has no active run.
THEOREM ActiveRunsAreFenced == Spec => []ActiveRunIsCurrent
  <1>1. IInv => ActiveRunIsCurrent
    BY DEF IInv
  <1>. QED BY <1>1, InductiveInvariant, PTL

\* No epoch of a session ever had two writers, whatever the clock, the
\* connections and the restarts did.
THEOREM OneWriterPerEpoch == Spec => []EpochHasOneWriter
  <1>1. IInv => EpochHasOneWriter
    BY DEF IInv
  <1>. QED BY <1>1, InductiveInvariant, PTL

\* An idempotency key admits at most one run, for ever.
THEOREM OneAdmissionPerKey == Spec => []KeyAdmitsOnce
  <1>1. IInv => KeyAdmitsOnce
    BY DEF IInv
  <1>. QED BY <1>1, InductiveInvariant, PTL

-----------------------------------------------------------------------------
(* The implementation of the fenced session *)

LEMMA AbstractEnded ==
  ASSUME NEW x, NEW state \in {"RELEASED", "REAPED"}
  PROVE  AbstractRun(Ended(x, state)) = F!Closed(AbstractRun(x))
  BY DEF AbstractRun, AbstractState, Ended, F!Closed

LEMMA AbstractOpen ==
  ASSUME NEW x
  PROVE  /\ AbstractRun(x).state = "OPEN" <=> x.state = "ACTIVE"
         /\ AbstractRun(x).state = "NONE" <=> x.state = "NONE"
         /\ AbstractRun(x).session = x.session
  BY DEF AbstractRun, AbstractState

\* A step that leaves leases and runs alone is a stutter of the abstraction.
LEMMA Stutters ==
  ASSUME UNCHANGED <<lease, run>>
  PROVE  UNCHANGED F!fvars
  BY DEF F!fvars

LEMMA AcquireGrants ==
  ASSUME IInv, NEW c \in Caller, NEW s \in Sessions, NEW t \in Times, Acquire(c, s, t)
  PROVE  F!Grant(s) \/ UNCHANGED F!fvars
  <1>. USE LeaseConstants DEF LeaseConstants
  <1>1. CASE UNCHANGED <<lease, run>>
    BY <1>1, Stutters
  <1>2. CASE /\ ~Exhausted(lease[s])
             /\ lease' = [lease EXCEPT ![s] =
                    Held(NextEpoch(lease[s]), c, t + Ttl, lease[s].last)]
             /\ run' = Reap(s, NextEpoch(lease[s]))
    <2>1. lease[s].epoch \in Nat /\ lease[s].epoch < MaxEpoch
      BY <1>2 DEF Exhausted, IInv, TypeOK, Lease
    <2>2. \A x \in Sessions :
            lease'[x] = IF x = s THEN Held(lease[s].epoch + 1, c, t + Ttl, lease[s].last)
                                 ELSE lease[x]
      BY <1>2 DEF NextEpoch, IInv, TypeOK
    <2>3. \A r \in RunIds : run[r].state = "ACTIVE" /\ run[r].session = s =>
                                run[r].epoch = lease[s].epoch
      BY DEF IInv, ActiveRunIsCurrent
    <2>4. \A r \in RunIds :
            run'[r] = IF run[r].session = s /\ run[r].state = "ACTIVE"
                      THEN Ended(run[r], "REAPED") ELSE run[r]
      BY <1>2, <2>1, <2>3 DEF Reap, NextEpoch
    <2>5. [x \in Sessions |-> lease'[x].epoch]
            = [[x \in Sessions |-> lease[x].epoch] EXCEPT ![s] = lease[s].epoch + 1]
      <3>1. \A x \in Sessions : lease'[x].epoch
                = IF x = s THEN lease[s].epoch + 1 ELSE lease[x].epoch
        BY <2>2 DEF Held
      <3>. QED BY <3>1
    <2>6. [x \in Sessions |-> lease'[x].holder]
            = [[x \in Sessions |-> lease[x].holder] EXCEPT ![s] = c]
      <3>1. \A x \in Sessions : lease'[x].holder = IF x = s THEN c ELSE lease[x].holder
        BY <2>2 DEF Held
      <3>. QED BY <3>1
    <2>7. F!CloseAll(s) = [r \in RunIds |-> AbstractRun(run'[r])]
      <3>1. \A r \in RunIds : AbstractRun(run'[r])
                = IF run[r].session = s /\ run[r].state = "ACTIVE"
                  THEN F!Closed(AbstractRun(run[r])) ELSE AbstractRun(run[r])
        BY <2>4, AbstractEnded
      <3>2. \A r \in RunIds :
                AbstractRun(run[r]).state = "OPEN" /\ AbstractRun(run[r]).session = s
                    <=> run[r].session = s /\ run[r].state = "ACTIVE"
        BY AbstractOpen
      <3>. QED BY <3>1, <3>2 DEF F!CloseAll, F!IsOpen
    <2>. QED BY <2>1, <2>5, <2>6, <2>7 DEF F!Grant
  <1>. QED BY <1>1, <1>2 DEF Acquire

LEMMA ReleaseRevokes ==
  ASSUME IInv, NEW c \in Caller, NEW s \in Sessions, NEW e \in Epochs, NEW t \in Times,
         ReleaseLease(c, s, e, t)
  PROVE  F!Revoke(s) \/ UNCHANGED F!fvars
  <1>. USE LeaseConstants DEF LeaseConstants
  <1>1. CASE UNCHANGED <<lease, run>>
    BY <1>1, Stutters
  <1>2. CASE /\ Fence(c, s, e, t)
             /\ lease' = [lease EXCEPT ![s] = Vacated(lease[s], "RELEASED", HolderOf(c))]
             /\ run' = Reap(s, e + 1)
    <2>1. lease[s].epoch = e /\ lease[s].holder = c /\ e \in Nat
      BY <1>2 DEF Fence, FencedOk, Epochs
    <2>2. \A x \in Sessions :
            lease'[x] = IF x = s THEN Vacated(lease[s], "RELEASED", HolderOf(c)) ELSE lease[x]
      BY <1>2 DEF IInv, TypeOK
    <2>3. \A r \in RunIds : run[r].state = "ACTIVE" /\ run[r].session = s => run[r].epoch = e
      BY <2>1 DEF IInv, ActiveRunIsCurrent
    <2>4. \A r \in RunIds :
            run'[r] = IF run[r].session = s /\ run[r].state = "ACTIVE"
                      THEN Ended(run[r], "REAPED") ELSE run[r]
      BY <1>2, <2>1, <2>3 DEF Reap
    <2>5. [x \in Sessions |-> lease'[x].epoch] = [x \in Sessions |-> lease[x].epoch]
      BY <2>2 DEF Vacated
    <2>6. [x \in Sessions |-> lease'[x].holder]
            = [[x \in Sessions |-> lease[x].holder] EXCEPT ![s] = NoCaller]
      <3>1. \A x \in Sessions : lease'[x].holder = IF x = s THEN NoCaller ELSE lease[x].holder
        BY <2>2 DEF Vacated
      <3>. QED BY <3>1
    <2>7. F!CloseAll(s) = [r \in RunIds |-> AbstractRun(run'[r])]
      <3>1. \A r \in RunIds : AbstractRun(run'[r])
                = IF run[r].session = s /\ run[r].state = "ACTIVE"
                  THEN F!Closed(AbstractRun(run[r])) ELSE AbstractRun(run[r])
        BY <2>4, AbstractEnded
      <3>2. \A r \in RunIds :
                AbstractRun(run[r]).state = "OPEN" /\ AbstractRun(run[r]).session = s
                    <=> run[r].session = s /\ run[r].state = "ACTIVE"
        BY AbstractOpen
      <3>. QED BY <3>1, <3>2 DEF F!CloseAll, F!IsOpen
    <2>8. c # NoCaller
      BY DEF Caller, NoCaller
    <2>. QED BY <2>1, <2>5, <2>6, <2>7, <2>8 DEF F!Revoke
  <1>. QED BY <1>1, <1>2 DEF ReleaseLease

LEMMA StartRevokesAll ==
  ASSUME IInv, Start
  PROVE  F!RevokeAll
  <1>1. \A x \in Sessions :
            lease'[x] = IF lease[x].state = "HELD"
                        THEN Vacated(lease[x], "INVALIDATED", HolderOf(lease[x].holder))
                        ELSE lease[x]
    BY DEF Start
  <1>2. \A r \in RunIds :
            run'[r] = IF run[r].state = "ACTIVE" THEN Ended(run[r], "REAPED") ELSE run[r]
    BY DEF Start
  <1>0. \A x \in Sessions : lease'[x].epoch = lease[x].epoch /\ lease'[x].holder = NoCaller
    <2>1. SUFFICES ASSUME NEW x \in Sessions
                   PROVE  lease'[x].epoch = lease[x].epoch /\ lease'[x].holder = NoCaller
      OBVIOUS
    <2>2. CASE lease[x].state = "HELD"
      <3>1. lease'[x] = Vacated(lease[x], "INVALIDATED", HolderOf(lease[x].holder))
        BY <1>1, <2>2
      <3>. QED BY <3>1 DEF Vacated
    <2>3. CASE lease[x].state # "HELD"
      <3>1. lease'[x] = lease[x]
        BY <1>1, <2>3
      <3>. QED BY <2>3, <3>1 DEF IInv, VacantHasNoHolder
    <2>. QED BY <2>2, <2>3
  <1>3. [x \in Sessions |-> lease'[x].epoch] = [x \in Sessions |-> lease[x].epoch]
    BY <1>0
  <1>4. [x \in Sessions |-> lease'[x].holder] = [x \in Sessions |-> NoCaller]
    BY <1>0
  <1>5. \A r \in RunIds : AbstractRun(run'[r])
            = IF AbstractRun(run[r]).state = "OPEN"
              THEN F!Closed(AbstractRun(run[r])) ELSE AbstractRun(run[r])
    <2>1. SUFFICES ASSUME NEW r \in RunIds
                   PROVE  AbstractRun(run'[r])
                            = IF AbstractRun(run[r]).state = "OPEN"
                              THEN F!Closed(AbstractRun(run[r])) ELSE AbstractRun(run[r])
      OBVIOUS
    <2>2. AbstractRun(run[r]).state = "OPEN" <=> run[r].state = "ACTIVE"
      BY AbstractOpen
    <2>3. CASE run[r].state = "ACTIVE"
      <3>1. run'[r] = Ended(run[r], "REAPED")
        BY <1>2, <2>3
      <3>2. AbstractRun(Ended(run[r], "REAPED")) = F!Closed(AbstractRun(run[r]))
        BY AbstractEnded
      <3>. QED BY <2>2, <2>3, <3>1, <3>2
    <2>4. CASE run[r].state # "ACTIVE"
      <3>1. run'[r] = run[r]
        BY <1>2, <2>4
      <3>. QED BY <2>2, <2>4, <3>1
    <2>. QED BY <2>3, <2>4
  <1>6. [r \in RunIds |-> AbstractRun(run'[r])]
        = [r \in RunIds |-> IF AbstractRun(run[r]).state = "OPEN"
                            THEN F!Closed(AbstractRun(run[r])) ELSE AbstractRun(run[r])]
    BY <1>5
  <1>. QED BY <1>3, <1>4, <1>6 DEF F!RevokeAll

LEMMA PersistOpens ==
  ASSUME IInv, NEW q \in AdmitRequest, NEW t \in Times,
         Fence(q.caller, q.session, q.epoch, t),
         idCounter < MaxRuns, Persist(q), lease' = lease
  PROVE  F!Open(MintedRun, q.session)
  <1>. USE LeaseConstants DEF LeaseConstants
  <1>. DEFINE n == MintedRun
  <1>1. n \in RunIds /\ n = idCounter + 1 /\ idCounter \in Nat
    BY DEF IInv, TypeOK, MintedRun, RunIds
  <1>2. \A r \in RunIds :
            run'[r] = IF r = n THEN [state |-> "ACTIVE", session |-> q.session,
                                     epoch |-> q.epoch, by |-> q.caller]
                               ELSE run[r]
    BY <1>1 DEF IInv, TypeOK, Persist
  <1>3. /\ q.session \in Sessions /\ q.caller \in Caller
        /\ lease[q.session].epoch = q.epoch
        /\ lease[q.session].holder = q.caller
    BY DEF AdmitRequest, Fence, FencedOk
  <1>4. run[n].state = "NONE"
    BY <1>1 DEF IInv, MintedInOrder
  <1>5. q.caller # NoCaller
    BY <1>3 DEF Caller, NoCaller
  <1>6. AbstractRun(run'[n]) = [state |-> "OPEN", session |-> q.session,
                                token |-> q.epoch, writer |-> q.caller]
    BY <1>1, <1>2 DEF AbstractRun, AbstractState
  <1>7. [r \in RunIds |-> AbstractRun(run'[r])]
        = [[r \in RunIds |-> AbstractRun(run[r])] EXCEPT ![n] = AbstractRun(run'[n])]
    BY <1>1, <1>2
  <1>8. AbstractRun(run[n]).state = "NONE"
    BY <1>4, AbstractOpen
  <1>. QED BY <1>1, <1>3, <1>5, <1>6, <1>7, <1>8 DEF F!Open

LEMMA ReleaseRunCloses ==
  ASSUME IInv, NEW c \in Caller, NEW s \in Sessions, NEW r \in RunIds,
         NEW e \in Epochs, NEW t \in Times, ReleaseRun(c, s, r, e, t)
  PROVE  F!Close(r) \/ UNCHANGED F!fvars
  <1>1. CASE run' = run
    BY <1>1, Stutters DEF ReleaseRun
  <1>2. CASE OwnActive(c, s, r, e) /\ run' = [run EXCEPT ![r] = Ended(run[r], "RELEASED")]
    <2>1. \A x \in RunIds :
            run'[x] = IF x = r THEN Ended(run[r], "RELEASED") ELSE run[x]
      BY <1>2 DEF IInv, TypeOK
    <2>2. [x \in RunIds |-> AbstractRun(run'[x])]
          = [[x \in RunIds |-> AbstractRun(run[x])] EXCEPT ![r] = F!Closed(AbstractRun(run[r]))]
      BY <2>1, AbstractEnded
    <2>3. AbstractRun(run[r]).state = "OPEN"
      BY <1>2, AbstractOpen DEF OwnActive
    <2>4. UNCHANGED lease
      BY DEF ReleaseRun
    <2>. QED BY <2>2, <2>3, <2>4 DEF F!Close
  <1>. QED BY <1>1, <1>2 DEF ReleaseRun

LEMMA HeartbeatStutters ==
  ASSUME IInv, NEW c \in Caller, NEW s \in Sessions, NEW e \in Epochs, NEW t \in Times,
         Heartbeat(c, s, e, t)
  PROVE  UNCHANGED F!fvars
  <1>1. \A x \in Sessions :
            lease'[x].epoch = lease[x].epoch /\ lease'[x].holder = lease[x].holder
    BY DEF Heartbeat, IInv, TypeOK, Held
  <1>2. run' = run
    BY DEF Heartbeat
  <1>3. [x \in Sessions |-> lease'[x].epoch] = [x \in Sessions |-> lease[x].epoch]
    BY <1>1
  <1>4. [x \in Sessions |-> lease'[x].holder] = [x \in Sessions |-> lease[x].holder]
    BY <1>1
  <1>. QED BY <1>2, <1>3, <1>4 DEF F!fvars

LEMMA PassOpens ==
  ASSUME IInv, NEW h \in Handles, NEW a \in Admitting, NEW t \in Times, Pass(h, a, t)
  PROVE  (\E s \in Sessions, r \in RunIds : F!Open(r, s)) \/ UNCHANGED F!fvars
  <1>. USE LeaseConstants DEF LeaseConstants
  <1>1. CASE NothingAdmitted
    BY <1>1, Stutters DEF NothingAdmitted
  <1>2. CASE /\ PassFence(a, t) /\ idCounter < MaxRuns
             /\ Persist(a.req) /\ lease' = lease
    <2>1. a.req \in AdmitRequest
      BY DEF Admitting
    <2>2. a.req.session \in Sessions
      BY <2>1 DEF AdmitRequest
    <2>3. MintedRun \in RunIds
      BY <1>2 DEF IInv, TypeOK, MintedRun, RunIds
    <2>4. F!Open(MintedRun, a.req.session)
      BY <1>2, <2>1, PersistOpens DEF PassFence
    <2>. QED BY <2>2, <2>3, <2>4
  <1>. QED BY <1>1, <1>2 DEF Pass, FirstAdmission

\* Every step of the authority is a step of the fenced session or a stutter.
LEMMA NextRefines == IInv /\ [Next]_vars => [F!FNext]_(F!fvars)
  <1>. SUFFICES ASSUME IInv, [Next]_vars
                PROVE  F!FNext \/ UNCHANGED F!fvars
    OBVIOUS
  <1>0. conns \subseteq Caller
    BY DEF IInv, TypeOK
  <1>1. CASE Start
    BY <1>1, StartRevokesAll DEF F!FNext
  <1>2. CASE Crash \/ Install
    BY <1>2, Stutters DEF Crash, Install, storeVars
  <1>3. CASE \E u \in Subjects : Connect(u)
    BY <1>3, Stutters DEF Connect, storeVars
  <1>4. CASE \E c \in conns : Disconnect(c)
    BY <1>4, Stutters DEF Disconnect, storeVars
  <1>5. ASSUME NEW c \in conns, NEW t \in Times, Request(c, t)
        PROVE  F!FNext \/ UNCHANGED F!fvars
    <2>. c \in Caller
      BY <1>0
    <2>1. PICK s \in Sessions :
            \/ Acquire(c, s, t)
            \/ \E e \in Epochs :
                \/ Heartbeat(c, s, e, t)
                \/ ReleaseLease(c, s, e, t)
                \/ \E r \in RunIds : ReleaseRun(c, s, r, e, t) \/ QueryAuthority(c, s, r, e, t)
                \/ \E h \in Handles, k \in Keys, d \in Digests, p \in {"CONCRETE", "SYMBOLIC"} :
                    AdmitRun(h, [caller |-> c, session |-> s, epoch |-> e,
                                 key |-> k, digest |-> d, terms |-> p], t)
      BY <1>5 DEF Request
    <2>2. CASE Acquire(c, s, t)
      BY <2>2, AcquireGrants DEF F!FNext
    <2>3. ASSUME NEW e \in Epochs, Heartbeat(c, s, e, t)
          PROVE  UNCHANGED F!fvars
      BY <2>3, HeartbeatStutters
    <2>4. ASSUME NEW e \in Epochs, ReleaseLease(c, s, e, t)
          PROVE  F!FNext \/ UNCHANGED F!fvars
      BY <2>4, ReleaseRevokes DEF F!FNext
    <2>5. ASSUME NEW e \in Epochs, NEW r \in RunIds, ReleaseRun(c, s, r, e, t)
          PROVE  F!FNext \/ UNCHANGED F!fvars
      BY <2>5, ReleaseRunCloses DEF F!FNext
    <2>6. ASSUME NEW e \in Epochs, NEW r \in RunIds, QueryAuthority(c, s, r, e, t)
          PROVE  UNCHANGED F!fvars
      BY <2>6, Stutters DEF QueryAuthority, storeVars
    <2>7. ASSUME NEW e \in Epochs, NEW h \in Handles, NEW k \in Keys, NEW d \in Digests,
                 NEW p \in {"CONCRETE", "SYMBOLIC"},
                 AdmitRun(h, [caller |-> c, session |-> s, epoch |-> e,
                              key |-> k, digest |-> d, terms |-> p], t)
          PROVE  F!FNext \/ UNCHANGED F!fvars
      <3>. DEFINE q == [caller |-> c, session |-> s, epoch |-> e,
                        key |-> k, digest |-> d, terms |-> p]
                  a == [req |-> q, pass |-> 1, resolved |-> 0]
      <3>1. q \in AdmitRequest
        BY DEF AdmitRequest
      <3>2. a \in Admitting
        BY <3>1, LeaseConstants DEF Admitting, LeaseConstants
      <3>3. Pass(h, a, t)
        BY <2>7 DEF AdmitRun
      <3>. HIDE DEF a, q
      <3>. QED BY <3>2, <3>3, PassOpens DEF F!FNext
    <2>. QED BY <2>1, <2>2, <2>3, <2>4, <2>5, <2>6, <2>7
  <1>6. ASSUME NEW h \in Handles, NEW t \in Times, AdmitPass(h, t)
        PROVE  F!FNext \/ UNCHANGED F!fvars
    <2>1. admitting[h] \in Admitting
      BY <1>6 DEF AdmitPass, IInv, TypeOK
    <2>. QED BY <1>6, <2>1, PassOpens DEF AdmitPass, F!FNext
  <1>7. CASE UNCHANGED vars
    BY <1>7, Stutters DEF vars, storeVars
  <1>. QED BY <1>1, <1>2, <1>3, <1>4, <1>5, <1>6, <1>7 DEF Next

LEMMA InitRefines == Init => F!FInit
  BY DEF Init, F!FInit, F!Unopened, NoLease, NoRun, AbstractRun, AbstractState

\* The authority's leases, runs and admissions implement the fenced session,
\* for any number of sessions, subjects, handles, keys and passes.
THEOREM Refinement == Spec => ImplementsFencedSession
  <1>. QED BY InitRefines, NextRefines, InductiveInvariant, PTL
           DEF Spec, ImplementsFencedSession, F!FSpec
-----------------------------------------------------------------------------
(* What a step may never do *)

LEMMA AcquireAdvances ==
  ASSUME TypeOK, NEW c \in Caller, NEW s \in Sessions, NEW t \in Times, Acquire(c, s, t),
         NEW x \in Sessions
  PROVE  \/ lease'[x] = lease[x]
         \/ lease'[x].epoch > lease[x].epoch
  <1>1. CASE UNCHANGED <<lease, run>>
    BY <1>1
  <1>2. CASE lease' = [lease EXCEPT ![s] = Held(NextEpoch(lease[s]), c, t + Ttl, lease[s].last)]
    <2>1. lease[s].epoch \in Int
      BY LeaseConstants DEF LeaseConstants, TypeOK, Lease
    <2>2. CASE x = s
      BY <1>2, <2>1, <2>2 DEF TypeOK, Held, NextEpoch
    <2>3. CASE x # s
      BY <1>2, <2>3 DEF TypeOK
    <2>. QED BY <2>2, <2>3
  <1>. QED BY <1>1, <1>2 DEF Acquire

\* Steps other than an acquisition keep every epoch, and make no one a holder.
LEMMA OthersKeep ==
  ASSUME TypeOK, NEW x \in Sessions,
         \/ Start
         \/ \E c \in Caller, s \in Sessions, e \in Epochs, t \in Times :
                Heartbeat(c, s, e, t) \/ ReleaseLease(c, s, e, t)
         \/ lease' = lease
  PROVE  /\ lease'[x].epoch = lease[x].epoch
         /\ lease'[x].state = "HELD" => lease[x].state = "HELD" /\ lease'[x].holder = lease[x].holder
  <1>1. CASE Start
    BY <1>1 DEF Start, TypeOK, Vacated
  <1>2. ASSUME NEW c \in Caller, NEW s \in Sessions, NEW e \in Epochs, NEW t \in Times,
               Heartbeat(c, s, e, t)
        PROVE  /\ lease'[x].epoch = lease[x].epoch
               /\ lease'[x].state = "HELD" => lease[x].state = "HELD" /\ lease'[x].holder = lease[x].holder
    BY <1>2 DEF Heartbeat, TypeOK, Held, Fence, FencedOk, Live
  <1>3. ASSUME NEW c \in Caller, NEW s \in Sessions, NEW e \in Epochs, NEW t \in Times,
               ReleaseLease(c, s, e, t)
        PROVE  /\ lease'[x].epoch = lease[x].epoch
               /\ lease'[x].state = "HELD" => lease[x].state = "HELD" /\ lease'[x].holder = lease[x].holder
    BY <1>3 DEF ReleaseLease, TypeOK, Vacated
  <1>. QED BY <1>1, <1>2, <1>3

LEMMA PassKeepsLease ==
  ASSUME NEW h, NEW a, NEW t, Pass(h, a, t)
  PROVE  lease' = lease
  BY DEF Pass, NothingAdmitted, FirstAdmission

LEMMA LeaseSteps ==
  ASSUME TypeOK, [Next]_vars
  PROVE  \/ \E c \in Caller, s \in Sessions, t \in Times : Acquire(c, s, t)
         \/ Start
         \/ \E c \in Caller, s \in Sessions, e \in Epochs, t \in Times :
                Heartbeat(c, s, e, t) \/ ReleaseLease(c, s, e, t)
         \/ lease' = lease
  <1>0. conns \subseteq Caller
    BY DEF TypeOK
  <1>1. CASE Crash \/ Install \/ (\E u \in Subjects : Connect(u)) \/ (\E c \in conns : Disconnect(c))
    BY <1>1 DEF Crash, Install, Connect, Disconnect, storeVars
  <1>2. CASE \E h \in Handles, t \in Times : AdmitPass(h, t)
    BY <1>2, PassKeepsLease DEF AdmitPass
  <1>3. ASSUME NEW c \in conns, NEW t \in Times, Request(c, t)
        PROVE  \/ \E s \in Sessions : Acquire(c, s, t)
               \/ \E s \in Sessions, e \in Epochs : Heartbeat(c, s, e, t) \/ ReleaseLease(c, s, e, t)
               \/ lease' = lease
    <2>1. ASSUME NEW s \in Sessions, NEW e \in Epochs, NEW r \in RunIds,
                 ReleaseRun(c, s, r, e, t) \/ QueryAuthority(c, s, r, e, t)
          PROVE  lease' = lease
      BY <2>1 DEF ReleaseRun, QueryAuthority, storeVars
    <2>2. ASSUME NEW h \in Handles, NEW q, AdmitRun(h, q, t)
          PROVE  lease' = lease
      BY <2>2, PassKeepsLease DEF AdmitRun
    <2>. QED BY <1>3, <2>1, <2>2 DEF Request
  <1>4. CASE UNCHANGED vars
    BY <1>4 DEF vars, storeVars
  <1>. QED BY <1>0, <1>1, <1>2, <1>3, <1>4 DEF Next

\* A session's epoch never goes back, and whoever becomes the holder of its lease
\* does so at an epoch no tenure ever had (lease.rs, acquire), for any clock and
\* any number of restarts.
THEOREM TenuresAdvance == Spec => NewTenureNewEpoch
  <1>1. TypeOK /\ [Next]_vars =>
          [\A s \in Sessions :
            /\ lease'[s].epoch >= lease[s].epoch
            /\ (lease'[s].state = "HELD"
                  /\ (lease[s].state # "HELD" \/ lease'[s].holder # lease[s].holder))
               => lease'[s].epoch > lease[s].epoch]_vars
    <2>. SUFFICES ASSUME TypeOK, [Next]_vars, NEW s \in Sessions
                  PROVE  /\ lease'[s].epoch >= lease[s].epoch
                         /\ (lease'[s].state = "HELD"
                               /\ (lease[s].state # "HELD" \/ lease'[s].holder # lease[s].holder))
                            => lease'[s].epoch > lease[s].epoch
      OBVIOUS
    <2>0. TypeOK'
      BY NextTypeOK
    <2>1. lease[s].epoch \in Int /\ lease'[s].epoch \in Int
      BY <2>0, LeaseConstants DEF LeaseConstants, TypeOK, Lease
    <2>2. CASE \E c \in Caller, x \in Sessions, t \in Times : Acquire(c, x, t)
      <3>1. lease'[s] = lease[s] \/ lease'[s].epoch > lease[s].epoch
        BY <2>2, AcquireAdvances
      <3>. QED BY <2>1, <3>1
    <2>3. CASE \/ Start
               \/ \E c \in Caller, x \in Sessions, e \in Epochs, t \in Times :
                      Heartbeat(c, x, e, t) \/ ReleaseLease(c, x, e, t)
               \/ lease' = lease
      <3>1. /\ lease'[s].epoch = lease[s].epoch
            /\ lease'[s].state = "HELD" => lease[s].state = "HELD" /\ lease'[s].holder = lease[s].holder
        BY <2>3, OthersKeep
      <3>. QED BY <2>1, <3>1
    <2>. QED BY <2>2, <2>3, LeaseSteps
  <1>. QED BY <1>1, TypeCorrect, PTL DEF Spec, NewTenureNewEpoch
\* The run and the lease a grant is answered for, after the step.
Usable(g) ==
    /\ run'[g.run].state = "ACTIVE"
    /\ run'[g.run].session = g.session
    /\ run'[g.run].epoch = g.epoch
    /\ lease'[g.session].holder = g.to /\ lease'[g.session].state = "HELD"

LEMMA ReplayUsable ==
  ASSUME IInv, NEW h, NEW q \in AdmitRequest, NEW t, Fence(q.caller, q.session, q.epoch, t),
         NEW i \in Recorded(q), Replayed(h, q, i), NothingAdmitted, reply'.result = "GRANT"
  PROVE  Usable(reply')
  <1>1. /\ reply' = Grant("AdmitRun", q.caller, q.session, q.epoch, i.run)
        /\ run[i.run].state = "ACTIVE" /\ run[i.run].epoch = q.epoch
    BY DEF Replayed, Answered, Answer, Granted
  <1>2. i \in idem /\ i.session = q.session /\ i.run \in RunIds
    BY DEF Recorded, IInv, TypeOK, IdemRow
  <1>3. PICK j \in idem : j.run = i.run /\ j.session = run[i.run].session
    BY <1>1, <1>2 DEF IInv, KeyAdmitsOnce
  <1>4. j = i
    BY <1>2, <1>3 DEF IInv, KeyAdmitsOnce
  <1>5. /\ reply'.run = i.run /\ reply'.session = q.session
        /\ reply'.epoch = q.epoch /\ reply'.to = q.caller
    BY <1>1 DEF Grant
  <1>. QED BY <1>1, <1>2, <1>3, <1>4, <1>5 DEF Usable, NothingAdmitted, Fence, FencedOk, Live

LEMMA MintUsable ==
  ASSUME IInv, NEW h, NEW q \in AdmitRequest, NEW t, Fence(q.caller, q.session, q.epoch, t),
         idCounter < MaxRuns, Granted(h, q, MintedRun), Persist(q), lease' = lease
  PROVE  Usable(reply')
  <1>1. MintedRun \in RunIds
    BY LeaseConstants DEF LeaseConstants, IInv, TypeOK, MintedRun, RunIds
  <1>2. run'[MintedRun] = [state |-> "ACTIVE", session |-> q.session,
                           epoch |-> q.epoch, by |-> q.caller]
    BY <1>1 DEF IInv, TypeOK, Persist
  <1>3. /\ reply'.run = MintedRun /\ reply'.session = q.session
        /\ reply'.epoch = q.epoch /\ reply'.to = q.caller
    BY DEF Granted, Grant
  <1>. QED BY <1>2, <1>3 DEF Usable, Fence, FencedOk, Live

LEMMA PassUsable ==
  ASSUME IInv, NEW h, NEW a \in Admitting, NEW t, Pass(h, a, t), reply'.result = "GRANT"
  PROVE  Usable(reply')
  <1>0. a.req \in AdmitRequest
    BY DEF Admitting
  <1>1. ASSUME NEW result, Answered(h, result), result # "GRANT" PROVE FALSE
    BY <1>1 DEF Answered, Answer
  <1>2. CASE ~PassFence(a, t) /\ Answered(h, "STALE_EPOCH") /\ NothingAdmitted
    BY <1>1, <1>2
  <1>3. CASE PassFence(a, t) /\ (\E i \in Recorded(a.req) : Replayed(h, a.req, i)) /\ NothingAdmitted
    BY <1>0, <1>3, ReplayUsable DEF PassFence
  <1>4. CASE PassFence(a, t) /\ FirstAdmission(h, a)
    <2>1. CASE reply' = NoReply
      BY <2>1 DEF NoReply
    <2>2. CASE idCounter < MaxRuns /\ Granted(h, a.req, MintedRun)
               /\ Persist(a.req) /\ lease' = lease
      BY <1>0, <1>4, <2>2, MintUsable DEF PassFence
    <2>. QED BY <1>1, <1>4, <2>1, <2>2 DEF FirstAdmission
  <1>. QED BY <1>2, <1>3, <1>4 DEF Pass

LEMMA QueryUsable ==
  ASSUME IInv, NEW c, NEW s \in Sessions, NEW r \in RunIds, NEW e, NEW t,
         QueryAuthority(c, s, r, e, t), reply'.result = "GRANT"
  PROVE  Usable(reply')
  <1>1. /\ Fence(c, s, e, t) /\ OwnActive(c, s, r, e)
        /\ reply' = Grant("QueryAuthority", c, s, e, r)
    BY DEF QueryAuthority, Answer
  <1>2. reply'.run = r /\ reply'.session = s /\ reply'.epoch = e /\ reply'.to = c
    BY <1>1 DEF Grant
  <1>. QED BY <1>1, <1>2 DEF QueryAuthority, storeVars, Usable, OwnActive, Fence, FencedOk, Live

\* A grant is answered only for a run its caller can use at that instant: one
\* minted, replayed or queried, however many transactions its admission took and
\* whatever happened between them (admission.rs, admit; query.rs).
THEOREM GrantsAreUsable == Spec => GrantAnsweredIsUsable
  <1>1. IInv /\ [Next]_vars =>
          [reply' # reply /\ reply'.result = "GRANT" =>
            LET r == reply'.run
                l == lease'[reply'.session] IN
            /\ run'[r].state = "ACTIVE"
            /\ run'[r].session = reply'.session
            /\ run'[r].epoch = reply'.epoch
            /\ l.holder = reply'.to /\ l.state = "HELD"]_vars
    <2>. SUFFICES ASSUME IInv, [Next]_vars, reply' # reply, reply'.result = "GRANT"
                  PROVE  Usable(reply')
      BY DEF Usable
    <2>0. conns \subseteq Caller
      BY DEF IInv, TypeOK
    <2>1. CASE reply' = NoReply
      BY <2>1 DEF NoReply
    <2>2. ASSUME NEW h \in Handles, NEW t \in Times, AdmitPass(h, t) PROVE Usable(reply')
      <3>1. admitting[h] \in Admitting
        BY <2>2 DEF IInv, TypeOK, AdmitPass
      <3>. QED BY <2>2, <3>1, PassUsable DEF AdmitPass
    <2>3. ASSUME NEW c \in conns, NEW t \in Times, Request(c, t) PROVE Usable(reply')
      <3>0. c \in Caller
        BY <2>0
      <3>1. ASSUME NEW s \in Sessions,
                   \/ Acquire(c, s, t)
                   \/ \E e \in Epochs :
                       \/ Heartbeat(c, s, e, t)
                       \/ ReleaseLease(c, s, e, t)
                       \/ \E r \in RunIds : ReleaseRun(c, s, r, e, t)
            PROVE  FALSE
        BY <3>1 DEF Acquire, Heartbeat, ReleaseLease, ReleaseRun, Answer
      <3>2. ASSUME NEW s \in Sessions, NEW e \in Epochs, NEW h \in Handles, NEW k \in Keys,
                   NEW d \in Digests, NEW p \in {"CONCRETE", "SYMBOLIC"},
                   AdmitRun(h, [caller |-> c, session |-> s, epoch |-> e,
                                key |-> k, digest |-> d, terms |-> p], t)
            PROVE  Usable(reply')
        <4>. DEFINE a == [req |-> [caller |-> c, session |-> s, epoch |-> e,
                                   key |-> k, digest |-> d, terms |-> p],
                          pass |-> 1, resolved |-> 0]
        <4>1. a \in Admitting
          BY <3>0, LeaseConstants DEF LeaseConstants, Admitting, AdmitRequest
        <4>2. Pass(h, a, t)
          BY <3>2 DEF AdmitRun
        <4>. HIDE DEF a
        <4>. QED BY <4>1, <4>2, PassUsable
      <3>. QED BY <2>3, <3>1, <3>2, QueryUsable DEF Request
    <2>. QED BY <2>1, <2>2, <2>3 DEF Next, Start, Crash, Install, Connect, Disconnect, vars
  <1>. QED BY <1>1, InductiveInvariant, PTL DEF Spec, GrantAnsweredIsUsable

-----------------------------------------------------------------------------
(* Induction and recursion over the naturals, with sets in the place of predicates *)

LEMMA LeastNatural ==
    ASSUME NEW T \in SUBSET Nat, T # {}
    PROVE  \E n \in T : \A m \in T : n <= m
  <1>1. PICK R : R = OpToRel(<, Nat)
    BY Zenon
  <1>2. IsWellFoundedOn(R, Nat)
    BY <1>1, NatLessThanWellFounded, Zenon
  <1>3. PICK n \in T : \A m \in T : ~ (<<m, n>> \in R)
    BY <1>2, WFMin
  <1>4. \A m \in T : ~(m < n)
    BY <1>1, <1>3 DEF OpToRel
  <1>. QED BY <1>3, <1>4

LEMMA InductionOn ==
    ASSUME NEW T, 0 \in T, \A n \in Nat : n \in T => n + 1 \in T
    PROVE  Nat \subseteq T
  <1>. SUFFICES ASSUME Nat \ T # {} PROVE FALSE
    OBVIOUS
  <1>1. PICK n \in Nat \ T : \A m \in Nat \ T : n <= m
    BY LeastNatural
  <1>2. n # 0 /\ n - 1 \in Nat /\ n - 1 \in T
    BY <1>1
  <1>. QED BY <1>1, <1>2

\* A step from each natural to the next, within a set, has a sequence of values that follows it.
Steps(f, S, base, step) ==
    f \in [Nat -> S] /\ f[0] = base /\ \A n \in Nat : f[n + 1] = step[<<n, f[n]>>]
LEMMA RecursionExists ==
    ASSUME NEW S, NEW base \in S, NEW step \in [Nat \X S -> S]
    PROVE  \E f : Steps(f, S, base, step)
  <1>. DEFINE Follows(g, n) == /\ g \in [0..n -> S] /\ g[0] = base
                               /\ \A k \in 0..n : k < n => g[k + 1] = step[<<k, g[k]>>]
  <1>1. \A n \in Nat : \E g : Follows(g, n)
    <2>. DEFINE T == {n \in Nat : \E g : Follows(g, n)}
    <2>1. 0 \in T
      <3>1. Follows([k \in 0..0 |-> base], 0)
        OBVIOUS
      <3>. QED BY <3>1
    <2>2. ASSUME NEW n \in Nat, n \in T PROVE n + 1 \in T
      <3>1. PICK g : Follows(g, n)
        BY <2>2
      <3>2. PICK h : h = [k \in 0..(n + 1) |-> IF k <= n THEN g[k] ELSE step[<<n, g[n]>>]]
        OBVIOUS
      <3>3. g[n] \in S /\ <<n, g[n]>> \in Nat \X S /\ step[<<n, g[n]>>] \in S
        BY <3>1
      <3>4. h \in [0..(n + 1) -> S]
        BY <3>1, <3>2, <3>3
      <3>5. h[0] = base
        BY <3>1, <3>2
      <3>6. ASSUME NEW k \in 0..(n + 1), k < n + 1 PROVE h[k + 1] = step[<<k, h[k]>>]
        <4>1. CASE k < n
          <5>1. k \in 0..n /\ k + 1 \in 0..(n + 1) /\ k + 1 <= n
            BY <4>1
          <5>2. h[k + 1] = g[k + 1] /\ h[k] = g[k]
            BY <3>2, <4>1, <5>1
          <5>. QED BY <3>1, <4>1, <5>1, <5>2
        <4>2. CASE k = n
          BY <3>2, <4>2
        <4>. QED BY <3>6, <4>1, <4>2
      <3>. QED BY <3>4, <3>5, <3>6
    <2>. HIDE DEF T
    <2>3. Nat \subseteq T
      BY <2>1, <2>2, InductionOn
    <2>. QED BY <2>3 DEF T
  <1>2. ASSUME NEW g, NEW h, NEW n \in Nat, NEW m \in Nat, Follows(g, n), Follows(h, m)
        PROVE  \A k \in Nat : k <= n /\ k <= m => g[k] = h[k]
    <2>. DEFINE T == {k \in Nat : k <= n /\ k <= m => g[k] = h[k]}
    <2>1. 0 \in T
      BY <1>2
    <2>2. ASSUME NEW k \in Nat, k \in T PROVE k + 1 \in T
      <3>. SUFFICES ASSUME k + 1 <= n, k + 1 <= m PROVE g[k + 1] = h[k + 1]
        OBVIOUS
      <3>1. k \in 0..n /\ k \in 0..m /\ k < n /\ k < m /\ g[k] = h[k]
        BY <2>2
      <3>. QED BY <1>2, <3>1
    <2>. HIDE DEF T
    <2>3. Nat \subseteq T
      BY <2>1, <2>2, InductionOn
    <2>. QED BY <2>3 DEF T
  <1>. DEFINE G(n) == CHOOSE g : Follows(g, n)
  <1>3. \A n \in Nat : Follows(G(n), n)
    BY <1>1
  <1>. HIDE DEF G, Follows
  <1>4. PICK f : f = [n \in Nat |-> G(n)[n]]
    OBVIOUS
  <1>5. f \in [Nat -> S] /\ f[0] = base
    BY <1>3, <1>4 DEF Follows
  <1>6. ASSUME NEW n \in Nat PROVE f[n + 1] = step[<<n, f[n]>>]
    <2>1. Follows(G(n), n) /\ Follows(G(n + 1), n + 1)
      BY <1>3
    <2>2. G(n)[n] = G(n + 1)[n]
      BY <1>2, <2>1
    <2>3. G(n + 1)[n + 1] = step[<<n, G(n + 1)[n]>>]
      BY <2>1 DEF Follows
    <2>. QED BY <1>4, <2>2, <2>3
  <1>. QED BY <1>5, <1>6 DEF Steps

\* The same, for a recursive function on an interval.
StepsOn(f, n, S, base, step) ==
    /\ f \in [0..n -> S]
    /\ f = [i \in 0..n |-> IF i = 0 THEN base ELSE step[<<i, f[i - 1]>>]]
LEMMA RecursionOn ==
    ASSUME NEW S, NEW n \in Nat, NEW base \in S, NEW step \in [Nat \X S -> S]
    PROVE  \E f : StepsOn(f, n, S, base, step)
  <1>1. PICK next : next = [p \in Nat \X S |-> step[<<p[1] + 1, p[2]>>]]
    OBVIOUS
  <1>2. next \in [Nat \X S -> S]
    BY <1>1
  <1>3. PICK f \in [Nat -> S] : f[0] = base /\ \A k \in Nat : f[k + 1] = next[<<k, f[k]>>]
    <2>1. \E f : Steps(f, S, base, next)
      BY <1>2, RecursionExists, Zenon
    <2>. QED BY <2>1 DEF Steps
  <1>4. PICK g : g = [i \in 0..n |-> f[i]]
    OBVIOUS
  <1>5. ASSUME NEW i \in 0..n, i # 0 PROVE f[i] = step[<<i, g[i - 1]>>]
    <2>1. i - 1 \in Nat /\ (i - 1) + 1 = i /\ i - 1 \in 0..n
      BY <1>5
    <2>2. f[i] = next[<<i - 1, f[i - 1]>>]
      BY <1>3, <2>1
    <2>3. <<i - 1, f[i - 1]>> \in Nat \X S
      BY <1>3, <2>1
    <2>. QED BY <1>1, <1>4, <2>1, <2>2, <2>3
  <1>6. g \in [0..n -> S]
    BY <1>3, <1>4
  <1>7. g = [i \in 0..n |-> IF i = 0 THEN base ELSE step[<<i, g[i - 1]>>]]
    BY <1>3, <1>4, <1>5
  <1>. QED BY <1>6, <1>7 DEF StepsOn

-----------------------------------------------------------------------------
(* What the postconditions leave of an effect *)

Outcomes == Effects \cup {"UNEVALUABLE"}

LEMMA PostconditionedIs ==
    ASSUME NEW post, post.effect \in Effects, NEW e \in Outcomes, NEW a, NEW c
    PROVE  /\ Postconditioned(post, e, a, c) \in {e, "UNEVALUABLE", Meet(e, post.effect)}
           /\ Postconditioned(post, e, a, c) \in Outcomes
           /\ e \in {"DENY", "UNEVALUABLE"} =>
                Postconditioned(post, e, a, c) \in {"DENY", "UNEVALUABLE"}
           /\ post.effect = "DENY" => Postconditioned(post, e, a, c) \in {e, "DENY", "UNEVALUABLE"}
  <1>1. e # "UNEVALUABLE" =>
            Postconditioned(post, e, a, c) \in {e, "UNEVALUABLE", Meet(e, post.effect)}
    BY DEF Postconditioned
  <1>2. e = "UNEVALUABLE" => Postconditioned(post, e, a, c) = e
    BY DEF Postconditioned
  <1>3. e \in Effects => /\ Meet(e, post.effect) \in Effects
                         /\ e = "DENY" => Meet(e, post.effect) = "DENY"
                         /\ post.effect = "DENY" => Meet(e, post.effect) = "DENY"
    BY DEF Effects, Meet, NarrowerOrEqual, Authority
  <1>. QED BY <1>1, <1>2, <1>3 DEF Outcomes

Follows(after, posts, effect, a, c) ==
    /\ after \in [0..Len(posts) -> Outcomes]
    /\ after[0] = effect
    /\ \A i \in 1..Len(posts) : after[i] = Postconditioned(posts[i], after[i - 1], a, c)

Leaves(after, posts, effect, a, c) ==
    Follows(after, posts, effect, a, c) /\ EffectAfter(posts, effect, a, c) = after[Len(posts)]

LEMMA EffectAfterIs ==
    ASSUME NEW P, NEW posts \in Seq(P), \A i \in 1..Len(posts) : posts[i].effect \in Effects,
           NEW effect \in Outcomes, NEW a, NEW c
    PROVE  \E after : Leaves(after, posts, effect, a, c)
  <1>. DEFINE Def(f) == [i \in 0..Len(posts) |->
                          IF i = 0 THEN effect ELSE Postconditioned(posts[i], f[i - 1], a, c)]
  <1>1. PICK n \in Nat : n = Len(posts)
    OBVIOUS
  <1>2. PICK step : step = [p \in Nat \X Outcomes |->
                      IF p[1] \in 1..n THEN Postconditioned(posts[p[1]], p[2], a, c) ELSE p[2]]
    OBVIOUS
  <1>3. step \in [Nat \X Outcomes -> Outcomes]
    <2>1. \A p \in Nat \X Outcomes : step[p] \in Outcomes
      BY <1>1, <1>2, PostconditionedIs
    <2>. QED BY <1>2, <2>1
  <1>4. PICK g \in [0..n -> Outcomes] :
            g = [i \in 0..n |-> IF i = 0 THEN effect ELSE step[<<i, g[i - 1]>>]]
    <2>1. \E g : StepsOn(g, n, Outcomes, effect, step)
      BY <1>3, RecursionOn, Zenon
    <2>. QED BY <2>1 DEF StepsOn
  <1>5. \A i \in 0..n : i # 0 => step[<<i, g[i - 1]>>] = Postconditioned(posts[i], g[i - 1], a, c)
    <2>. TAKE i \in 0..n
    <2>. HAVE i # 0
    <2>1. i - 1 \in 0..n /\ i \in 1..n /\ i \in Nat
      OBVIOUS
    <2>2. <<i, g[i - 1]>> \in Nat \X Outcomes
      BY <1>4, <2>1
    <2>. QED BY <1>2, <2>1, <2>2
  <1>6. g = Def(g)
    BY <1>1, <1>4, <1>5
  <1>. HIDE DEF Def
  <1>7. PICK f : f = CHOOSE h : h = Def(h)
    OBVIOUS
  <1>8. f = Def(f)
    BY <1>6, <1>7
  <1>9. EffectAfter(posts, effect, a, c) = f[Len(posts)]
    BY <1>7 DEF EffectAfter, Def
  <1>10. \A i \in 0..n : f[i] = IF i = 0 THEN effect ELSE Postconditioned(posts[i], f[i - 1], a, c)
    BY <1>1, <1>8 DEF Def
  <1>11. \A i \in Nat : i <= n => f[i] \in Outcomes
    <2>. DEFINE T == {i \in Nat : i <= n => f[i] \in Outcomes}
    <2>1. 0 \in T
      BY <1>10
    <2>2. ASSUME NEW i \in Nat, i \in T PROVE i + 1 \in T
      <3>. SUFFICES ASSUME i + 1 <= n PROVE f[i + 1] \in Outcomes
        OBVIOUS
      <3>1. f[i] \in Outcomes /\ i + 1 \in 0..n /\ i + 1 # 0 /\ (i + 1) - 1 = i
        BY <2>2
      <3>2. f[i + 1] = Postconditioned(posts[i + 1], f[i], a, c)
        BY <1>10, <3>1
      <3>3. posts[i + 1].effect \in Effects
        BY <1>1, <3>1
      <3>. QED BY <3>1, <3>2, <3>3, PostconditionedIs
    <2>. HIDE DEF T
    <2>3. Nat \subseteq T
      BY <2>1, <2>2, InductionOn
    <2>. QED BY <2>3 DEF T
  <1>12. DOMAIN f = 0..n /\ f = [i \in 0..n |-> f[i]]
    BY <1>1, <1>8 DEF Def
  <1>13. Follows(f, posts, effect, a, c)
    BY <1>1, <1>10, <1>11, <1>12 DEF Follows
  <1>. QED BY <1>9, <1>13 DEF Leaves

\* A denial, or an evaluation that ended, is never undone.
LEMMA DenyStays ==
    ASSUME NEW P, NEW posts \in Seq(P), \A i \in 1..Len(posts) : posts[i].effect \in Effects,
           NEW effect, NEW a, NEW c, NEW after, Follows(after, posts, effect, a, c),
           NEW k \in 0..Len(posts), after[k] \in {"DENY", "UNEVALUABLE"}
    PROVE  after[Len(posts)] \in {"DENY", "UNEVALUABLE"}
  <1>1. PICK n \in Nat : n = Len(posts)
    OBVIOUS
  <1>. DEFINE T == {i \in Nat : k + i <= n => after[k + i] \in {"DENY", "UNEVALUABLE"}}
  <1>2. 0 \in T
    BY <1>1
  <1>3. ASSUME NEW i \in Nat, i \in T PROVE i + 1 \in T
    <2>. SUFFICES ASSUME k + (i + 1) <= n PROVE after[k + (i + 1)] \in {"DENY", "UNEVALUABLE"}
      OBVIOUS
    <2>1. PICK j \in 1..n : j = k + (i + 1) /\ j - 1 = k + i /\ j - 1 \in 0..n
      BY <1>1
    <2>2. after[j - 1] \in {"DENY", "UNEVALUABLE"}
      BY <1>3, <2>1
    <2>3. after[j] = Postconditioned(posts[j], after[j - 1], a, c)
      BY <1>1, <2>1 DEF Follows
    <2>4. posts[j].effect \in Effects /\ after[j - 1] \in Outcomes
      BY <1>1, <2>1, <2>2 DEF Outcomes, Effects
    <2>5. after[j] \in {"DENY", "UNEVALUABLE"}
      BY <2>2, <2>3, <2>4, PostconditionedIs
    <2>. QED BY <2>1, <2>5
  <1>. HIDE DEF T
  <1>4. n - k \in T
    <2>1. Nat \subseteq T
      BY <1>2, <1>3, InductionOn
    <2>. QED BY <1>1, <2>1
  <1>. QED BY <1>1, <1>4 DEF T

\* The postconditions of an extension leave an effect as it was, or deny.
LEMMA ExtensionDenies ==
    ASSUME NEW P, NEW front \in Seq(P), NEW rest \in Seq(P),
           \A i \in 1..Len(front) : front[i].effect = "DENY",
           NEW effect \in Outcomes, NEW a, NEW c, NEW after,
           Follows(after, front \o rest, effect, a, c)
    PROVE  after[Len(front)] \in {effect, "DENY", "UNEVALUABLE"}
  <1>1. PICK n \in Nat : n = Len(front)
    OBVIOUS
  <1>. DEFINE T == {i \in Nat : i <= n => after[i] \in {effect, "DENY", "UNEVALUABLE"}}
  <1>2. 0 \in T
    BY DEF Follows
  <1>3. ASSUME NEW i \in Nat, i \in T PROVE i + 1 \in T
    <2>. SUFFICES ASSUME i + 1 <= n PROVE after[i + 1] \in {effect, "DENY", "UNEVALUABLE"}
      OBVIOUS
    <2>1. PICK j \in 1..n : j = i + 1 /\ j - 1 = i
      BY <1>1
    <2>2. after[j - 1] \in {effect, "DENY", "UNEVALUABLE"} /\ after[j - 1] \in Outcomes
      BY <1>3, <2>1 DEF Outcomes, Effects
    <2>3. j \in 1..Len(front \o rest) /\ (front \o rest)[j] = front[j] /\ front[j].effect = "DENY"
      BY <1>1, <2>1
    <2>4. after[j] = Postconditioned(front[j], after[j - 1], a, c)
      BY <2>3 DEF Follows
    <2>5. after[j] \in {after[j - 1], "DENY", "UNEVALUABLE"}
      BY <2>2, <2>3, <2>4, PostconditionedIs DEF Effects
    <2>. QED BY <2>1, <2>2, <2>5
  <1>. HIDE DEF T
  <1>4. n \in T
    BY <1>2, <1>3, InductionOn
  <1>. QED BY <1>1, <1>4 DEF T

\* What follows them does to an effect they left alone what it does on its own.
SameEnd(after, alone, front, rest) == after[Len(front \o rest)] = alone[Len(rest)]
LEMMA RestIsItself ==
    ASSUME NEW P, NEW front \in Seq(P), NEW rest \in Seq(P),
           NEW effect, NEW a, NEW c, NEW after, NEW alone,
           Follows(after, front \o rest, effect, a, c), Follows(alone, rest, effect, a, c),
           after[Len(front)] = effect
    PROVE  SameEnd(after, alone, front, rest)
  <1>1. PICK n \in Nat, m \in Nat : n = Len(front) /\ m = Len(rest)
    OBVIOUS
  <1>2. Len(front \o rest) = n + m
    BY <1>1
  <1>. DEFINE T == {i \in Nat : i <= m => after[n + i] = alone[i]}
  <1>3. 0 \in T
    BY <1>1 DEF Follows
  <1>4. ASSUME NEW i \in Nat, i \in T PROVE i + 1 \in T
    <2>. SUFFICES ASSUME i + 1 <= m PROVE after[n + (i + 1)] = alone[i + 1]
      OBVIOUS
    <2>1. PICK j \in 1..m, k \in 1..(n + m) :
            j = i + 1 /\ k = n + (i + 1) /\ j - 1 = i /\ k - 1 = n + i /\ k = n + j
      BY <1>1
    <2>2. after[k - 1] = alone[j - 1]
      BY <1>4, <2>1
    <2>3. (front \o rest)[k] = rest[j]
      BY <1>1, <2>1
    <2>4. after[k] = Postconditioned((front \o rest)[k], after[k - 1], a, c)
      BY <1>2, <2>1 DEF Follows
    <2>5. alone[j] = Postconditioned(rest[j], alone[j - 1], a, c)
      BY <1>1, <2>1 DEF Follows
    <2>. QED BY <2>1, <2>2, <2>3, <2>4, <2>5
  <1>. HIDE DEF T
  <1>5. m \in T
    BY <1>3, <1>4, InductionOn
  <1>. QED BY <1>1, <1>2, <1>5 DEF T, SameEnd

-----------------------------------------------------------------------------
(* The first rule that decides *)

LEMMA EarliestIs ==
    ASSUME NEW S \in SUBSET Nat, S # {}
    PROVE  Earliest(S) \in S /\ \A j \in S : Earliest(S) <= j
  BY LeastNatural DEF Earliest

LEMMA EarliestUnique ==
    ASSUME NEW S \in SUBSET Nat, NEW i \in S, \A j \in S : i <= j PROVE Earliest(S) = i
  <1>1. PICK e : e = Earliest(S)
    OBVIOUS
  <1>2. e \in S /\ e <= i /\ i <= e
    BY <1>1, EarliestIs
  <1>3. e \in Nat /\ i \in Nat
    BY <1>2
  <1>. QED BY <1>1, <1>2, <1>3

\* What these rules and postconditions decide is a denial, or what those decide alone.
Narrower(rules, posts, rulesAlone, postsAlone, a, c) ==
    LET d == Evaluate([rules |-> rules, posts |-> posts], a, c)
    IN d.effect = "DENY" \/ d = Evaluate([rules |-> rulesAlone, posts |-> postsAlone], a, c)

\* A policy of rules that all deny, followed by those of another, under postconditions that only
\* deny, followed by those of the other, denies or decides as the other.
LEMMA SplitNarrows ==
    ASSUME NEW R, NEW P, NEW deny \in Seq(R), NEW rules \in Seq(R),
           NEW front \in Seq(P), NEW posts \in Seq(P),
           \A i \in 1..Len(deny) : deny[i].effect = "DENY",
           \A i \in 1..Len(front) : front[i].effect = "DENY",
           \A i \in 1..Len(rules) : rules[i].effect \in Effects,
           \A i \in 1..Len(posts) : posts[i].effect \in Effects,
           NEW a, NEW c
    PROVE  Narrower(deny \o rules, front \o posts, rules, posts, a, c)
  <1>1. PICK policy : policy = [rules |-> deny \o rules, posts |-> front \o posts]
    OBVIOUS
  <1>2. PICK alone : alone = [rules |-> rules, posts |-> posts]
    OBVIOUS
  <1>. SUFFICES \/ Evaluate(policy, a, c).effect = "DENY"
                \/ Evaluate(policy, a, c) = Evaluate(alone, a, c)
    BY <1>1, <1>2 DEF Narrower
  <1>3. PICK found : found = FirstMatch(policy, a, c)
    OBVIOUS
  <1>4. /\ deny \o rules \in Seq(R) /\ front \o posts \in Seq(P)
        /\ Len(deny \o rules) = Len(deny) + Len(rules)
        /\ Len(front \o posts) = Len(front) + Len(posts)
        /\ Len(deny) \in Nat /\ Len(rules) \in Nat /\ Len(front) \in Nat /\ Len(posts) \in Nat
    OBVIOUS
  <1>5. found \subseteq 1..Len(deny \o rules) /\ found \in SUBSET Nat
    BY <1>1, <1>3, <1>4 DEF FirstMatch
  <1>6. \A i \in 1..Len(front \o posts) : (front \o posts)[i].effect \in Effects
    BY <1>4 DEF Effects
  <1>7. CASE found = {}
    BY <1>3, <1>7 DEF Evaluate, Unmatched
  <1>8. CASE found # {}
    <2>1. PICK k : k = Earliest(found)
      OBVIOUS
    <2>2. k \in found /\ k \in 1..Len(deny \o rules) /\ k \in Nat /\ \A j \in found : k <= j
      BY <1>5, <1>8, <2>1, EarliestIs
    <2>3. PICK rule, effect : rule = (deny \o rules)[k] /\ effect = EffectAfter(front \o posts, rule.effect, a, c)
      OBVIOUS
    <2>4. Evaluate(policy, a, c) =
            IF Applies(rule, a, c) = "UNEVALUABLE" \/ effect = "UNEVALUABLE" THEN NotEvaluated
            ELSE [effect |-> effect, evaluated |-> TRUE,
                  approval |-> IF effect = "REQUIRE_APPROVAL" THEN rule.approval ELSE "NONE",
                  obligations |-> IF effect = "DENY" THEN {} ELSE rule.obligations]
      BY <1>1, <1>3, <1>8, <2>1, <2>3 DEF Evaluate
    <2>5. effect \in {"DENY", "UNEVALUABLE"} => Evaluate(policy, a, c).effect = "DENY"
      BY <2>4 DEF NotEvaluated
    <2>6. rule.effect \in Effects /\ rule.effect \in Outcomes
      <3>1. CASE k <= Len(deny)
        BY <1>4, <2>2, <2>3, <3>1 DEF Effects, Outcomes
      <3>2. CASE k > Len(deny)
        <4>1. k - Len(deny) \in 1..Len(rules) /\ (deny \o rules)[k] = rules[k - Len(deny)]
          BY <1>4, <2>2, <3>2
        <4>. QED BY <2>3, <4>1 DEF Outcomes
      <3>. QED BY <1>4, <2>2, <3>1, <3>2
    <2>7. PICK after : /\ Follows(after, front \o posts, rule.effect, a, c)
                       /\ effect = after[Len(front \o posts)]
      <3>1. \E f : Leaves(f, front \o posts, rule.effect, a, c)
        BY <1>4, <1>6, <2>6, EffectAfterIs
      <3>. QED BY <2>3, <3>1 DEF Leaves
    <2>8. CASE k <= Len(deny)
      <3>1. rule.effect = "DENY"
        BY <1>4, <2>2, <2>3, <2>8
      <3>2. after[0] \in {"DENY", "UNEVALUABLE"} /\ 0 \in 0..Len(front \o posts)
        BY <1>4, <2>7, <3>1 DEF Follows
      <3>3. effect \in {"DENY", "UNEVALUABLE"}
        BY <1>4, <1>6, <2>7, <3>2, DenyStays
      <3>. QED BY <2>5, <3>3
    <2>9. CASE k > Len(deny)
      <3>1. PICK j : j = k - Len(deny)
        OBVIOUS
      <3>2. j \in 1..Len(rules) /\ rule = rules[j]
        BY <1>4, <2>2, <2>3, <2>9, <3>1
      <3>3. after[Len(front)] \in {rule.effect, "DENY", "UNEVALUABLE"}
        BY <2>6, <2>7, ExtensionDenies
      <3>4. CASE after[Len(front)] # rule.effect
        <4>1. after[Len(front)] \in {"DENY", "UNEVALUABLE"} /\ Len(front) \in 0..Len(front \o posts)
          BY <1>4, <3>3, <3>4
        <4>2. effect \in {"DENY", "UNEVALUABLE"}
          BY <1>4, <1>6, <2>7, <4>1, DenyStays
        <4>. QED BY <2>5, <4>2
      <3>5. CASE after[Len(front)] = rule.effect
        <4>1. PICK own : /\ Follows(own, posts, rule.effect, a, c)
                         /\ EffectAfter(posts, rule.effect, a, c) = own[Len(posts)]
          <5>1. \E f : Leaves(f, posts, rule.effect, a, c)
            BY <2>6, EffectAfterIs
          <5>. QED BY <5>1 DEF Leaves
        <4>2. effect = EffectAfter(posts, rule.effect, a, c)
          <5>1. after[Len(front \o posts)] = own[Len(posts)]
            <6>1. PICK e : e = rule.effect
              OBVIOUS
            <6>2. /\ Follows(after, front \o posts, e, a, c) /\ Follows(own, posts, e, a, c)
                  /\ after[Len(front)] = e
              BY <2>7, <3>5, <4>1, <6>1
            <6>3. SameEnd(after, own, front, posts)
              BY <6>2, RestIsItself
            <6>. QED BY <6>3 DEF SameEnd
          <5>. QED BY <2>7, <4>1, <5>1
        <4>3. PICK mine : mine = FirstMatch(alone, a, c)
          OBVIOUS
        <4>4. mine \in SUBSET Nat /\ j \in mine /\ \A i \in mine : j <= i
          <5>1. mine = {i \in 1..Len(rules) : Applies(rules[i], a, c) # "NO"}
            BY <1>2, <4>3 DEF FirstMatch
          <5>2. found = {i \in 1..Len(deny \o rules) : Applies((deny \o rules)[i], a, c) # "NO"}
            BY <1>1, <1>3, <1>4 DEF FirstMatch
          <5>3. j \in mine
            BY <2>2, <2>3, <3>2, <5>1, <5>2
          <5>4. ASSUME NEW i \in mine PROVE j <= i
            <6>1. i \in 1..Len(rules) /\ Len(deny) + i \in 1..Len(deny \o rules)
                  /\ (deny \o rules)[Len(deny) + i] = rules[i]
              BY <1>4, <5>1, <5>4
            <6>2. Len(deny) + i \in found
              BY <5>1, <5>2, <5>4, <6>1
            <6>. QED BY <1>4, <2>2, <3>1, <3>2, <6>1, <6>2
          <5>. QED BY <5>1, <5>3, <5>4
        <4>5. Earliest(mine) = j
          BY <4>4, EarliestUnique
        <4>6. Evaluate(alone, a, c) =
                IF Applies(rule, a, c) = "UNEVALUABLE" \/ effect = "UNEVALUABLE" THEN NotEvaluated
                ELSE [effect |-> effect, evaluated |-> TRUE,
                      approval |-> IF effect = "REQUIRE_APPROVAL" THEN rule.approval ELSE "NONE",
                      obligations |-> IF effect = "DENY" THEN {} ELSE rule.obligations]
          <5>1. mine # {} /\ alone.rules = rules /\ alone.posts = posts
            BY <1>2, <4>4
          <5>. QED BY <3>2, <4>2, <4>3, <4>5, <5>1 DEF Evaluate
        <4>. QED BY <2>4, <4>6
      <3>. QED BY <3>4, <3>5
    <2>. QED BY <1>4, <2>2, <2>8, <2>9
  <1>. QED BY <1>7, <1>8

-----------------------------------------------------------------------------
(* What composing a chain makes of it *)

Joins(upTo, parts, X) ==
    /\ upTo \in [1..Len(parts) -> Seq(X)]
    /\ upTo = [i \in 1..Len(parts) |-> IF i = 1 THEN parts[i] ELSE upTo[i - 1] \o parts[i]]

LEMMA FlattenIs ==
    ASSUME NEW X, NEW parts \in Seq(Seq(X)), parts # <<>>
    PROVE  \E upTo : Joins(upTo, parts, X) /\ FlattenSeq(parts) = upTo[Len(parts)]
  <1>. DEFINE Def(f) == [i \in 1..Len(parts) |-> IF i = 1 THEN parts[i] ELSE f[i - 1] \o parts[i]]
  <1>1. PICK n \in Nat : n = Len(parts) /\ n >= 1
    OBVIOUS
  <1>2. PICK step : step = [p \in Nat \X Seq(X) |->
                      IF p[1] + 1 \in 1..n THEN p[2] \o parts[p[1] + 1] ELSE p[2]]
    OBVIOUS
  <1>3. step \in [Nat \X Seq(X) -> Seq(X)]
    <2>1. ASSUME NEW p \in Nat \X Seq(X) PROVE step[p] \in Seq(X)
      <3>1. p[1] \in Nat /\ p[2] \in Seq(X)
        OBVIOUS
      <3>2. CASE p[1] + 1 \in 1..n
        <4>1. parts[p[1] + 1] \in Seq(X)
          BY <1>1, <3>2
        <4>2. p[2] \o parts[p[1] + 1] \in Seq(X)
          BY <3>1, <4>1
        <4>. QED BY <1>2, <3>2, <4>2
      <3>3. CASE p[1] + 1 \notin 1..n
        BY <1>2, <3>1, <3>3
      <3>. QED BY <3>2, <3>3
    <2>. QED BY <1>2, <2>1
  <1>4. parts[1] \in Seq(X) /\ n - 1 \in Nat
    BY <1>1
  <1>5. PICK g : StepsOn(g, n - 1, Seq(X), parts[1], step)
    BY <1>3, <1>4, RecursionOn
  <1>6. PICK h : h = [i \in 1..n |-> g[i - 1]]
    OBVIOUS
  <1>7. ASSUME NEW i \in 1..n PROVE h[i] = IF i = 1 THEN parts[i] ELSE h[i - 1] \o parts[i]
    <2>1. CASE i = 1
      BY <1>4, <1>5, <1>6, <2>1 DEF StepsOn
    <2>2. CASE i # 1
      <3>1. i - 1 \in 0..(n - 1) /\ i - 1 # 0 /\ (i - 1) - 1 \in 0..(n - 1) /\ i - 1 \in 1..n
            /\ (i - 1) + 1 = i /\ i - 1 \in Nat
        BY <2>2
      <3>2. g[i - 1] = step[<<i - 1, g[(i - 1) - 1]>>]
        BY <1>5, <3>1 DEF StepsOn
      <3>3. <<i - 1, g[(i - 1) - 1]>> \in Nat \X Seq(X)
        BY <1>5, <3>1 DEF StepsOn
      <3>4. step[<<i - 1, g[(i - 1) - 1]>>] = g[(i - 1) - 1] \o parts[i]
        BY <1>2, <3>1, <3>3
      <3>5. h[i] = g[i - 1] /\ h[i - 1] = g[(i - 1) - 1]
        BY <1>6, <3>1
      <3>. QED BY <2>2, <3>2, <3>4, <3>5
    <2>. QED BY <2>1, <2>2
  <1>8. h = Def(h)
    BY <1>1, <1>6, <1>7
  <1>. HIDE DEF Def
  <1>9. PICK f : f = CHOOSE z : z = Def(z)
    OBVIOUS
  <1>10. f = Def(f)
    BY <1>8, <1>9
  <1>11. FlattenSeq(parts) = f[Len(parts)]
    BY <1>1, <1>9 DEF FlattenSeq, Def
  <1>12. \A i \in 1..n : f[i] = IF i = 1 THEN parts[i] ELSE f[i - 1] \o parts[i]
    BY <1>1, <1>10 DEF Def
  <1>13. \A i \in Nat : i + 1 \in 1..n => f[i + 1] \in Seq(X)
    <2>. DEFINE T == {i \in Nat : i + 1 \in 1..n => f[i + 1] \in Seq(X)}
    <2>1. 0 \in T
      BY <1>4, <1>12
    <2>2. ASSUME NEW i \in Nat, i \in T PROVE i + 1 \in T
      <3>. SUFFICES ASSUME (i + 1) + 1 \in 1..n PROVE f[(i + 1) + 1] \in Seq(X)
        OBVIOUS
      <3>1. i + 1 \in 1..n /\ f[i + 1] \in Seq(X)
        BY <2>2
      <3>2. f[(i + 1) + 1] = f[i + 1] \o parts[(i + 1) + 1]
        <4>1. PICK j \in 1..n : j = (i + 1) + 1 /\ j - 1 = i + 1 /\ j # 1
          OBVIOUS
        <4>2. f[j] = f[j - 1] \o parts[j]
          BY <1>12, <4>1
        <4>. QED BY <4>1, <4>2
      <3>3. parts[(i + 1) + 1] \in Seq(X)
        BY <1>1
      <3>. QED BY <3>1, <3>2, <3>3
    <2>. HIDE DEF T
    <2>3. Nat \subseteq T
      BY <2>1, <2>2, InductionOn
    <2>. QED BY <2>3 DEF T
  <1>14. \A i \in 1..n : f[i] \in Seq(X)
    <2>. TAKE i \in 1..n
    <2>1. i - 1 \in Nat /\ (i - 1) + 1 = i
      OBVIOUS
    <2>. QED BY <1>13, <2>1
  <1>15. Joins(f, parts, X)
    <2>1. f = [i \in 1..n |-> f[i]]
      BY <1>1, <1>10 DEF Def
    <2>2. f \in [1..n -> Seq(X)]
      BY <1>14, <2>1
    <2>. QED BY <1>1, <1>10, <2>2 DEF Joins, Def
  <1>. QED BY <1>11, <1>15

\* What is joined is what came before the last part, each piece of it from an earlier part, and
\* the last part.
Splits(front, whole, parts, X) ==
    /\ front \in Seq(X)
    /\ whole = front \o parts[Len(parts)]
    /\ \A j \in 1..Len(front) :
         \E i \in 1..(Len(parts) - 1) : \E k \in 1..Len(parts[i]) : front[j] = parts[i][k]

LEMMA FlattenSplits ==
    ASSUME NEW X, NEW parts \in Seq(Seq(X)), parts # <<>>
    PROVE  \E front : Splits(front, FlattenSeq(parts), parts, X)
  <1>1. PICK n \in Nat : n = Len(parts) /\ n >= 1
    OBVIOUS
  <1>2. PICK upTo : Joins(upTo, parts, X) /\ FlattenSeq(parts) = upTo[Len(parts)]
    BY FlattenIs
  <1>3. /\ \A i \in 1..n : upTo[i] \in Seq(X) /\ parts[i] \in Seq(X)
        /\ upTo[1] = parts[1]
        /\ \A i \in 1..n : i # 1 => upTo[i] = upTo[i - 1] \o parts[i]
    <2>1. upTo = [i \in 1..n |-> IF i = 1 THEN parts[i] ELSE upTo[i - 1] \o parts[i]]
      BY <1>1, <1>2 DEF Joins
    <2>2. \A i \in 1..n : upTo[i] = IF i = 1 THEN parts[i] ELSE upTo[i - 1] \o parts[i]
      BY <2>1
    <2>3. upTo \in [1..n -> Seq(X)]
      BY <1>1, <1>2 DEF Joins
    <2>4. \A i \in 1..n : upTo[i] \in Seq(X) /\ parts[i] \in Seq(X)
      <3>1. \A i \in 1..n : upTo[i] \in Seq(X)
        BY <2>3, Zenon
      <3>2. parts \in [1..n -> Seq(X)]
        BY <1>1
      <3>3. \A i \in 1..n : parts[i] \in Seq(X)
        BY <3>2, Zenon
      <3>. QED BY <3>1, <3>3
    <2>5. upTo[1] = parts[1]
      BY <1>1, <2>2
    <2>6. \A i \in 1..n : i # 1 => upTo[i] = upTo[i - 1] \o parts[i]
      BY <2>2
    <2>. QED BY <2>4, <2>5, <2>6
  <1>. DEFINE From(m) == \A j \in 1..Len(upTo[m]) :
                \E i \in 1..m : \E k \in 1..Len(parts[i]) : upTo[m][j] = parts[i][k]
  <1>4. \A m \in Nat : m + 1 \in 1..n => From(m + 1)
    <2>. DEFINE T == {m \in Nat : m + 1 \in 1..n => From(m + 1)}
    <2>1. 0 \in T
      BY <1>3
    <2>2. ASSUME NEW m \in Nat, m \in T PROVE m + 1 \in T
      <3>. SUFFICES ASSUME (m + 1) + 1 \in 1..n, NEW j \in 1..Len(upTo[(m + 1) + 1])
                    PROVE  \E i \in 1..((m + 1) + 1) : \E k \in 1..Len(parts[i]) :
                             upTo[(m + 1) + 1][j] = parts[i][k]
        <4>1. m + 1 \in Nat
          OBVIOUS
        <4>. QED BY <4>1, Zenon
      <3>1. PICK p, q : p = upTo[m + 1] /\ q = parts[(m + 1) + 1]
        OBVIOUS
      <3>2. m + 1 \in 1..n /\ p \in Seq(X) /\ q \in Seq(X) /\ upTo[(m + 1) + 1] = p \o q
        <4>1. PICK l \in 1..n : l = (m + 1) + 1 /\ l - 1 = m + 1 /\ l # 1
          OBVIOUS
        <4>2. upTo[l] = upTo[l - 1] \o parts[l]
          BY <1>3, <4>1, Zenon
        <4>3. m + 1 \in 1..n
          BY <4>1
        <4>. QED BY <1>3, <3>1, <4>1, <4>2, <4>3
      <3>3. CASE j <= Len(p)
        <4>1. j \in 1..Len(p) /\ (p \o q)[j] = p[j]
          BY <3>2, <3>3
        <4>2. PICK i \in 1..(m + 1) : \E k \in 1..Len(parts[i]) : p[j] = parts[i][k]
          BY <2>2, <3>1, <3>2, <4>1
        <4>3. i \in 1..((m + 1) + 1)
          OBVIOUS
        <4>. QED BY <3>2, <4>1, <4>2, <4>3
      <3>4. CASE j > Len(p)
        <4>1. j - Len(p) \in 1..Len(q) /\ (p \o q)[j] = q[j - Len(p)]
          BY <3>2, <3>4
        <4>. QED BY <3>1, <3>2, <4>1
      <3>. QED BY <3>2, <3>3, <3>4
    <2>. HIDE DEF T
    <2>3. Nat \subseteq T
      BY <2>1, <2>2, InductionOn
    <2>. QED BY <2>3 DEF T
  <1>5. CASE n = 1
    <2>1. Splits(<<>>, parts[1], parts, X)
      BY <1>1, <1>3, <1>5 DEF Splits
    <2>. QED BY <1>1, <1>2, <1>3, <1>5, <2>1
  <1>6. CASE n # 1
    <2>1. n - 1 \in 1..n /\ (n - 2) + 1 = n - 1 /\ n - 2 \in Nat /\ n \in 1..n
      BY <1>1, <1>6
    <2>2. From(n - 1)
      <3>1. PICK m \in Nat : m = n - 2 /\ m + 1 \in 1..n /\ m + 1 = n - 1
        BY <2>1
      <3>2. From(m + 1)
        BY <1>4, <3>1
      <3>. QED BY <3>1, <3>2
    <2>3. upTo[n] = upTo[n - 1] \o parts[n] /\ upTo[n - 1] \in Seq(X)
      BY <1>3, <1>6, <2>1
    <2>4. Splits(upTo[n - 1], upTo[n], parts, X)
      BY <1>1, <2>2, <2>3 DEF Splits
    <2>. QED BY <1>1, <1>2, <2>4
  <1>. QED BY <1>5, <1>6

\* One more parent, if the chain may have one.
Onward(chain, sources) ==
    IF chain = <<>> THEN <<>>
    ELSE LET parent == sources[Last(chain)].extends
         IN IF parent = "NONE" THEN chain
            ELSE IF \/ \E k \in DOMAIN chain : sources[chain[k]].name = parent
                    \/ Find(parent, sources) = {} \/ Len(chain) >= MaxDepth THEN <<>>
            ELSE Append(chain, Earliest(Find(parent, sources)))

LEMMA EarliestFound ==
    ASSUME NEW P, NEW sources \in Seq(P), NEW name, Find(name, sources) # {}
    PROVE  Earliest(Find(name, sources)) \in DOMAIN sources
  <1>1. PICK S : S = Find(name, sources)
    OBVIOUS
  <1>2. S \in SUBSET Nat /\ S # {} /\ S \subseteq DOMAIN sources
    BY <1>1 DEF Find
  <1>3. Earliest(S) \in S
    BY <1>2, EarliestIs
  <1>. QED BY <1>1, <1>2, <1>3

LEMMA OnwardIs ==
    ASSUME NEW P, NEW sources \in Seq(P), NEW chain \in Seq(DOMAIN sources)
    PROVE  Onward(chain, sources) \in Seq(DOMAIN sources)
  <1>1. PICK D, parent : D = DOMAIN sources /\ parent = sources[Last(chain)].extends
    OBVIOUS
  <1>2. Onward(chain, sources) \in {<<>>, chain}
          \/ (Find(parent, sources) # {} /\ Onward(chain, sources) = Append(chain, Earliest(Find(parent, sources))))
    BY <1>1 DEF Onward
  <1>3. CASE Onward(chain, sources) \in {<<>>, chain}
    <2>1. chain \in Seq(D) /\ <<>> \in Seq(D)
      BY <1>1
    <2>. QED BY <1>1, <1>3, <2>1
  <1>4. CASE /\ Find(parent, sources) # {}
             /\ Onward(chain, sources) = Append(chain, Earliest(Find(parent, sources)))
    <2>1. PICK e : e = Earliest(Find(parent, sources))
      OBVIOUS
    <2>2. e \in D
      BY <1>1, <1>4, <2>1, EarliestFound
    <2>3. chain \in Seq(D)
      BY <1>1
    <2>4. Append(chain, e) \in Seq(D)
      BY <2>2, <2>3
    <2>. QED BY <1>1, <1>4, <2>1, <2>4
  <1>. QED BY <1>2, <1>3, <1>4

LEMMA ChainIs ==
    ASSUME NEW P, NEW sources \in Seq(P), NEW name
    PROVE  ResolveChain(name, sources) \in Seq(P)
  <1>. DEFINE base == IF Find(name, sources) = {} THEN <<>> ELSE <<Earliest(Find(name, sources))>>
              Def(f) == [i \in 0..Cardinality(DOMAIN sources) |->
                           IF i = 0 THEN base ELSE Onward(f[i - 1], sources)]
  <1>1. PICK n \in Nat, D \in {DOMAIN sources} : n = Cardinality(DOMAIN sources) /\ D = DOMAIN sources
    <2>1. DOMAIN sources = 1..Len(sources) /\ Len(sources) \in Nat
      OBVIOUS
    <2>2. IsFiniteSet(1..Len(sources))
      BY <2>1, FS_Interval
    <2>3. Cardinality(1..Len(sources)) \in Nat
      BY <2>2, FS_CardinalityType
    <2>. QED BY <2>1, <2>3
  <1>2. base \in Seq(D)
    <2>1. CASE Find(name, sources) = {}
      BY <2>1
    <2>2. CASE Find(name, sources) # {}
      <3>1. PICK e : e = Earliest(Find(name, sources))
        OBVIOUS
      <3>2. e \in D
        BY <1>1, <2>2, <3>1, EarliestFound
      <3>3. base = <<e>>
        BY <2>2, <3>1
      <3>. HIDE DEF base
      <3>. QED BY <3>2, <3>3
    <2>. QED BY <2>1, <2>2
  <1>3. PICK step : step = [p \in Nat \X Seq(D) |-> Onward(p[2], sources)]
    OBVIOUS
  <1>4. step \in [Nat \X Seq(D) -> Seq(D)]
    <2>1. \A p \in Nat \X Seq(D) : step[p] \in Seq(D)
      BY <1>1, <1>3, OnwardIs
    <2>. QED BY <1>3, <2>1
  <1>. HIDE DEF base
  <1>5. PICK g : StepsOn(g, n, Seq(D), base, step)
    BY <1>2, <1>4, RecursionOn
  <1>6. \A i \in 0..n : i # 0 => step[<<i, g[i - 1]>>] = Onward(g[i - 1], sources)
    <2>. TAKE i \in 0..n
    <2>. HAVE i # 0
    <2>1. i - 1 \in 0..n /\ i \in Nat
      OBVIOUS
    <2>2. <<i, g[i - 1]>> \in Nat \X Seq(D)
      BY <1>5, <2>1 DEF StepsOn
    <2>. QED BY <1>3, <2>2
  <1>7. g = Def(g)
    BY <1>1, <1>5, <1>6 DEF StepsOn
  <1>. HIDE DEF Def
  <1>8. PICK f : f = CHOOSE h : h = Def(h)
    OBVIOUS
  <1>9. f = Def(f)
    BY <1>7, <1>8
  <1>10. ResolveChain(name, sources) = [i \in DOMAIN f[n] |-> sources[f[n][i]]]
    BY <1>1, <1>8 DEF ResolveChain, Def, base, Onward
  <1>11. \A i \in 0..n : f[i] = IF i = 0 THEN base ELSE Onward(f[i - 1], sources)
    BY <1>1, <1>9 DEF Def
  <1>12. n \in {i \in Nat : i <= n => f[i] \in Seq(D)}
    <2>. DEFINE T == {i \in Nat : i <= n => f[i] \in Seq(D)}
    <2>1. 0 \in T
      BY <1>2, <1>11
    <2>2. ASSUME NEW i \in Nat, i \in T PROVE i + 1 \in T
      <3>. SUFFICES ASSUME i + 1 <= n PROVE f[i + 1] \in Seq(D)
        OBVIOUS
      <3>1. f[i] \in Seq(D) /\ i + 1 \in 0..n /\ i + 1 # 0 /\ (i + 1) - 1 = i
        BY <2>2
      <3>2. f[i + 1] = Onward(f[i], sources)
        BY <1>11, <3>1
      <3>. QED BY <1>1, <3>1, <3>2, OnwardIs
    <2>. HIDE DEF T
    <2>3. Nat \subseteq T
      BY <2>1, <2>2, InductionOn
    <2>. QED BY <2>3 DEF T
  <1>13. PICK indices : indices = f[n]
    OBVIOUS
  <1>14. indices \in Seq(D)
    BY <1>12, <1>13
  <1>15. \A i \in 1..Len(indices) : sources[indices[i]] \in P
    BY <1>1, <1>14
  <1>16. DOMAIN indices = 1..Len(indices) /\ Len(indices) \in Nat
    BY <1>14
  <1>. QED BY <1>10, <1>13, <1>15, <1>16

-----------------------------------------------------------------------------
(* The policy in force *)

\* A composition that is not refused denies, or decides as the last profile of its chain would.
LEMMA ComposedNarrows ==
    ASSUME NEW P, \A p \in P : IsProfile(p), NEW chain \in Seq(P), chain # <<>>,
           Compose(chain) # Refused, NEW a, NEW c
    PROVE  LET alone == [rules |-> Last(chain).rules, posts |-> Last(chain).posts]
               d == Evaluate(Compose(chain), a, c)
           IN d.effect = "DENY" \/ d = Evaluate(alone, a, c)
  <1>1. PICK n \in Nat : n = Len(chain) /\ n >= 1 /\ n \in 1..n /\ DOMAIN chain = 1..n
    OBVIOUS
  <1>2. PICK root : root = Last(chain) /\ root = chain[n] /\ root \in P
    BY <1>1 DEF Last
  <1>3. \A i \in 1..n : i < n =>
            /\ \A k \in DOMAIN chain[i].rules : chain[i].rules[k].effect = "DENY"
            /\ \A k \in DOMAIN chain[i].posts : chain[i].posts[k].effect = "DENY"
    BY <1>1 DEF Compose, CheckExtender
  <1>4. Compose(chain) = Concatenated(chain)
    BY DEF Compose
  <1>5. PICK R, Q : R = UNION {ToSet(p.rules) : p \in P} /\ Q = UNION {ToSet(p.posts) : p \in P}
    OBVIOUS
  <1>6. \A p \in P : p.rules \in Seq(R) /\ p.posts \in Seq(Q)
    <2>. TAKE p \in P
    <2>1. PICK S, T : S = ToSet(p.rules) /\ T = ToSet(p.posts)
      OBVIOUS
    <2>2. p.rules \in Seq(S) /\ p.posts \in Seq(T)
      BY <2>1 DEF IsProfile
    <2>3. S \subseteq R /\ T \subseteq Q
      BY <1>5, <2>1
    <2>. QED BY <2>2, <2>3
  <1>7. PICK rs, ps : rs = [i \in DOMAIN chain |-> chain[i].rules]
                      /\ ps = [i \in DOMAIN chain |-> chain[i].posts]
    OBVIOUS
  <1>8. \A i \in 1..n : rs[i] \in Seq(R) /\ ps[i] \in Seq(Q) /\ rs[i] = chain[i].rules /\ ps[i] = chain[i].posts
    BY <1>1, <1>6, <1>7
  <1>9. rs \in Seq(Seq(R)) /\ ps \in Seq(Seq(Q)) /\ Len(rs) = n /\ Len(ps) = n /\ rs # <<>> /\ ps # <<>>
    BY <1>1, <1>7, <1>8
  <1>10. PICK deny : Splits(deny, FlattenSeq(rs), rs, R)
    BY <1>9, FlattenSplits
  <1>11. PICK front : Splits(front, FlattenSeq(ps), ps, Q)
    BY <1>9, FlattenSplits
  <1>12. deny \in Seq(R) /\ FlattenSeq(rs) = deny \o root.rules /\ root.rules \in Seq(R)
    BY <1>1, <1>2, <1>8, <1>9, <1>10 DEF Splits
  <1>13. front \in Seq(Q) /\ FlattenSeq(ps) = front \o root.posts /\ root.posts \in Seq(Q)
    BY <1>1, <1>2, <1>8, <1>9, <1>11 DEF Splits
  <1>14. \A j \in 1..Len(deny) : deny[j].effect = "DENY"
    <2>. TAKE j \in 1..Len(deny)
    <2>1. PICK i \in 1..(n - 1) : \E k \in 1..Len(rs[i]) : deny[j] = rs[i][k]
      BY <1>9, <1>10 DEF Splits
    <2>2. PICK k \in 1..Len(rs[i]) : deny[j] = rs[i][k]
      BY <2>1
    <2>3. i \in 1..n /\ i < n
      BY <1>1
    <2>4. rs[i] = chain[i].rules /\ rs[i] \in Seq(R)
      BY <1>8, <2>3
    <2>5. k \in DOMAIN chain[i].rules
      BY <2>4
    <2>. QED BY <1>3, <2>2, <2>3, <2>4, <2>5
  <1>15. \A j \in 1..Len(front) : front[j].effect = "DENY"
    <2>. TAKE j \in 1..Len(front)
    <2>1. PICK i \in 1..(n - 1) : \E k \in 1..Len(ps[i]) : front[j] = ps[i][k]
      BY <1>9, <1>11 DEF Splits
    <2>2. PICK k \in 1..Len(ps[i]) : front[j] = ps[i][k]
      BY <2>1
    <2>3. i \in 1..n /\ i < n
      BY <1>1
    <2>4. ps[i] = chain[i].posts /\ ps[i] \in Seq(Q)
      BY <1>8, <2>3
    <2>5. k \in DOMAIN chain[i].posts
      BY <2>4
    <2>. QED BY <1>3, <2>2, <2>3, <2>4, <2>5
  <1>16. PICK rules, posts : rules = root.rules /\ posts = root.posts
    OBVIOUS
  <1>17. /\ rules \in Seq(R) /\ posts \in Seq(Q)
         /\ \A i \in 1..Len(rules) : rules[i].effect \in Effects
         /\ \A i \in 1..Len(posts) : posts[i].effect \in Effects
    <2>1. rules \in Seq(R) /\ posts \in Seq(Q)
      BY <1>12, <1>13, <1>16
    <2>2. /\ \A i \in DOMAIN rules : rules[i].effect \in Effects
          /\ \A i \in DOMAIN posts : posts[i].effect \in Effects
      BY <1>2, <1>16 DEF IsProfile
    <2>3. DOMAIN rules = 1..Len(rules) /\ DOMAIN posts = 1..Len(posts)
      BY <2>1
    <2>. QED BY <2>1, <2>2, <2>3
  <1>18. Compose(chain) = [rules |-> deny \o rules, posts |-> front \o posts]
    BY <1>4, <1>7, <1>12, <1>13, <1>16 DEF Concatenated
  <1>19. Narrower(deny \o rules, front \o posts, rules, posts, a, c)
    BY <1>12, <1>13, <1>14, <1>15, <1>17, SplitNarrows
  <1>. QED BY <1>2, <1>16, <1>18, <1>19 DEF Narrower

LEMMA PreparedIs ==
    ASSUME PolicyConstants, NEW set \in Sets
    PROVE  \E P : (\A p \in P : IsProfile(p)) /\ Prepared(set) \in Seq(P)
  <1>1. PICK sources, P : sources = set.sources /\ P = {p \in ToSet(sources) : IsProfile(p)}
    OBVIOUS
  <1>2. PICK S : S = ToSet(sources)
    OBVIOUS
  <1>3. sources \in Seq(S) /\ \A i \in DOMAIN sources : IsProfile(sources[i]) /\ sources[i] \in S
    BY <1>1, <1>2 DEF PolicyConstants
  <1>4. \A i \in 1..Len(sources) : sources[i] \in P
    BY <1>1, <1>2, <1>3
  <1>5. sources \in Seq(P)
    BY <1>3, <1>4
  <1>6. ResolveChain(set.profile, sources) \in Seq(P)
    BY <1>5, ChainIs
  <1>7. Prepared(set) \in {ResolveChain(set.profile, sources), <<>>}
    BY <1>1 DEF Prepared
  <1>8. Prepared(set) \in Seq(P)
    <2>1. PICK chain : chain = ResolveChain(set.profile, sources)
      OBVIOUS
    <2>2. chain \in Seq(P) /\ <<>> \in Seq(P)
      BY <1>6, <2>1
    <2>. QED BY <1>7, <2>1, <2>2
  <1>. QED BY <1>1, <1>8

\* What is in force is the composition of what was activated last.
Entries == [revision : {Prepared(set) : set \in Sets}, host : BOOLEAN]
PolicyInv ==
    /\ activations \in Seq(Entries)
    /\ activations # <<>> =>
         /\ Last(activations).revision # <<>>
         /\ active = Compose(Last(activations).revision)
         /\ active # Refused

LEMMA PolicyInvHolds == PolicySpec => []PolicyInv
  <1>1. PolicyInit => PolicyInv
    BY DEF PolicyInit, PolicyInv
  <1>2. PolicyInv /\ [PolicyNext]_policyVars => PolicyInv'
    <2>. SUFFICES ASSUME PolicyInv, [PolicyNext]_policyVars PROVE PolicyInv'
      OBVIOUS
    <2>1. CASE UNCHANGED policyVars
      BY <2>1 DEF PolicyInv, policyVars
    <2>2. ASSUME NEW set \in Sets, NEW host \in BOOLEAN, StartWith(set, host) PROVE PolicyInv'
      <3>1. PICK chain, entry : chain = Prepared(set) /\ entry = [revision |-> chain, host |-> host]
        OBVIOUS
      <3>2. entry \in Entries /\ entry.revision = chain
        BY <3>1 DEF Entries
      <3>3. chain # <<>> /\ Compose(chain) # Refused /\ active' = Compose(chain)
            /\ activations' = Activated(entry)
        BY <2>2, <3>1 DEF StartWith
      <3>4. activations' \in Seq(Entries) /\ activations' # <<>> /\ Last(activations') = entry
        <4>1. PICK acts : acts = activations
          OBVIOUS
        <4>2. acts \in Seq(Entries)
          BY <4>1 DEF PolicyInv
        <4>3. CASE acts # <<>> /\ Last(acts) = entry
          BY <3>3, <4>1, <4>2, <4>3 DEF Activated
        <4>4. CASE ~(acts # <<>> /\ Last(acts) = entry)
          <5>1. activations' = Append(acts, entry)
            BY <3>3, <4>1, <4>4 DEF Activated
          <5>2. Append(acts, entry) \in Seq(Entries) /\ Append(acts, entry) # <<>>
                /\ Append(acts, entry)[Len(Append(acts, entry))] = entry
            BY <3>2, <4>2
          <5>. QED BY <5>1, <5>2 DEF Last
        <4>. QED BY <4>3, <4>4
      <3>. QED BY <3>2, <3>3, <3>4 DEF PolicyInv
    <2>. QED BY <2>1, <2>2 DEF PolicyNext
  <1>. QED BY <1>1, <1>2, PTL DEF PolicySpec

\* Whatever chain of profiles an operator starts with, however long and whatever its rules,
\* postconditions and predicates, a policy in force denies or decides as the profile at its root
\* would alone (prepare and activate in state/policy_state.rs, compose in policy/compose.rs,
\* evaluate in policy/eval.rs).
THEOREM ExtensionOnlyNarrows ==
    ASSUME PolicyConstants PROVE PolicySpec => []ExtensionNarrows
  <1>1. PolicyInv => ExtensionNarrows
    <2>. SUFFICES ASSUME PolicyInv, activations # <<>>, NEW known \in Actions, NEW context \in Contexts
                  PROVE  LET root == Last(Last(activations).revision)
                             alone == [rules |-> root.rules, posts |-> root.posts]
                             a == CanonicalAction(known)
                             c == PolicyContext(context)
                             d == Evaluate(active, a, c)
                         IN d.effect = "DENY" \/ d = Evaluate(alone, a, c)
      BY DEF ExtensionNarrows
    <2>1. PICK chain, a, c : chain = Last(activations).revision
                             /\ a = CanonicalAction(known) /\ c = PolicyContext(context)
      OBVIOUS
    <2>2. chain # <<>> /\ active = Compose(chain) /\ Compose(chain) # Refused
      BY <2>1 DEF PolicyInv
    <2>3. PICK set \in Sets : chain = Prepared(set)
      <3>1. PICK acts : acts = activations
        OBVIOUS
      <3>2. acts \in Seq(Entries) /\ acts # <<>>
        BY <3>1 DEF PolicyInv
      <3>3. acts[Len(acts)] \in Entries
        BY <3>2
      <3>. QED BY <2>1, <3>1, <3>3 DEF Entries, Last
    <2>4. PICK P : (\A p \in P : IsProfile(p)) /\ chain \in Seq(P)
      BY <2>3, PreparedIs
    <2>5. LET alone == [rules |-> Last(chain).rules, posts |-> Last(chain).posts]
              d == Evaluate(Compose(chain), a, c)
          IN d.effect = "DENY" \/ d = Evaluate(alone, a, c)
      BY <2>2, <2>4, ComposedNarrows
    <2>. QED BY <2>1, <2>2, <2>5
  <1>. QED BY <1>1, PolicyInvHolds, PTL

-----------------------------------------------------------------------------
(* What a capability covers, it permits *)

LEMMA PrefixIs ==
    ASSUME NEW A, NEW B, NEW s \in Seq(A), NEW t \in Seq(B)
    PROVE  IsPrefix(s, t) <=> Len(s) <= Len(t) /\ \A i \in 1..Len(s) : s[i] = t[i]
  <1>1. PICK n \in Nat, m \in Nat : n = Len(s) /\ m = Len(t)
    OBVIOUS
  <1>2. CASE n <= m
    <2>1. SubSeq(s, 1, n) = [i \in 1..n |-> s[i]] /\ SubSeq(t, 1, n) = [i \in 1..n |-> t[i]]
      BY <1>1, <1>2
    <2>. QED BY <1>1, <1>2, <2>1 DEF IsPrefix
  <1>3. CASE ~(n <= m)
    BY <1>1, <1>3 DEF IsPrefix
  <1>. QED BY <1>2, <1>3

LEMMA PrefixTransitive ==
    ASSUME NEW s, NEW t, NEW u, IsText(s), IsText(t), IsText(u), IsPrefix(s, t), IsPrefix(t, u)
    PROVE  IsPrefix(s, u)
  <1>1. PICK A, B, C : A = ToSet(s) /\ B = ToSet(t) /\ C = ToSet(u)
    OBVIOUS
  <1>2. s \in Seq(A) /\ t \in Seq(B) /\ u \in Seq(C)
    BY <1>1 DEF IsText
  <1>3. Len(s) <= Len(t) /\ \A i \in 1..Len(s) : s[i] = t[i]
    BY <1>2, PrefixIs
  <1>4. Len(t) <= Len(u) /\ \A i \in 1..Len(t) : t[i] = u[i]
    BY <1>2, PrefixIs
  <1>5. Len(s) <= Len(u) /\ \A i \in 1..Len(s) : s[i] = u[i]
    BY <1>2, <1>3, <1>4
  <1>. QED BY <1>2, <1>5, PrefixIs

LEMMA ReversedText ==
    ASSUME NEW s, IsText(s) PROVE IsText(Reverse(s)) /\ Len(Reverse(s)) = Len(s)
  <1>1. PICK A, r : A = ToSet(s) /\ r = Reverse(s)
    OBVIOUS
  <1>2. PICK n \in Nat : n = Len(s)
    BY <1>1 DEF IsText
  <1>3. r = [i \in 1..n |-> s[(n - i) + 1]]
    BY <1>1, <1>2 DEF Reverse
  <1>4. r \in Seq(ToSet(r)) /\ Len(r) = n
    <2>1. \A i \in 1..n : r[i] \in ToSet(r)
      BY <1>3 DEF ToSet
    <2>. QED BY <1>3, <2>1
  <1>. QED BY <1>1, <1>2, <1>4 DEF IsText

LEMMA SuffixTransitive ==
    ASSUME NEW s, NEW t, NEW u, IsText(s), IsText(t), IsText(u), IsSuffix(s, t), IsSuffix(t, u)
    PROVE  IsSuffix(s, u)
  BY ReversedText, PrefixTransitive DEF IsSuffix

LEMMA SuffixIsShorter ==
    ASSUME NEW s, NEW t, IsText(s), IsText(t), IsSuffix(s, t)
    PROVE  Len(s) <= Len(t) /\ Len(s) \in Nat /\ Len(t) \in Nat
  <1>1. Len(s) \in Nat /\ Len(t) \in Nat
    BY DEF IsText
  <1>. QED BY <1>1, ReversedText DEF IsSuffix, IsPrefix

\* A capability, or a request for one.
IsCap(cap) == IsScope(cap.scope) /\ IsBounds(cap.constraints)

LEMMA ContainedIsIn ==
    ASSUME NEW a, NEW b, ScopeContains(a, b), b.kind = "ENDPOINT" => ~b.host.wild
    PROVE  InScope(a, b)
  <1>1. CASE a.kind = "ENDPOINT"
    <2>1. b.kind = "ENDPOINT" /\ HostContains(a.host, b.host) /\ a.port \in {"ANY", b.port}
      BY <1>1 DEF ScopeContains, SyntacticContains, EndpointContains, PortContains
    <2>2. InHost(a.host, b.host.labels)
      BY <2>1 DEF HostContains, InHost
    <2>. QED BY <1>1, <2>1, <2>2 DEF InScope
  <1>2. CASE a.kind = "MODEL"
    BY <1>2 DEF InScope, ScopeContains, SyntacticContains, ModelContains, PatternContains, InPattern
  <1>3. CASE a.kind = "PATTERN"
    BY <1>3 DEF InScope, ScopeContains, SyntacticContains, PatternContains, InPattern
  <1>4. CASE a.kind \notin {"ENDPOINT", "MODEL", "PATTERN"}
    BY <1>4 DEF InScope, ScopeContains, SyntacticContains
  <1>. QED BY <1>1, <1>2, <1>3, <1>4

LEMMA CoveredIsPermitted ==
    ASSUME NEW cap, NEW q, IsCap(cap), IsConcrete(q), CapContains(cap, q)
    PROVE  Permits(cap, q)
  <1>1. InScope(cap.scope, q.scope)
    <2>1. ScopeContains(cap.scope, q.scope) /\ (q.scope.kind = "ENDPOINT" => ~q.scope.host.wild)
      BY DEF CapContains, IsConcrete
    <2>. QED BY <2>1, ContainedIsIn
  <1>2. ASSUME NEW name \in DOMAIN cap.constraints
        PROVE  name \in DOMAIN q.constraints /\ Within(name, q.constraints[name], cap.constraints[name])
    <2>1. name \in DOMAIN q.constraints /\ ValueNarrower(name, q.constraints[name], cap.constraints[name])
      BY <1>2 DEF CapContains, ConstraintsNarrower
    <2>. QED BY <2>1 DEF ValueNarrower, Within, MethodsNarrower, ArgvNarrower
  <1>. QED BY <1>1, <1>2 DEF Permits, CapContains

LEMMA WiderScope ==
    ASSUME NEW a, NEW b, NEW c, IsScope(a), IsScope(b), IsScope(c),
           ScopeContains(a, b), InScope(b, c), b.kind \in {"UNIVERSAL", c.kind}
    PROVE  InScope(a, c)
  <1>1. CASE a.kind = "UNIVERSAL"
    BY <1>1 DEF InScope
  <1>2. CASE a.kind = "PATH"
    BY <1>2, PrefixTransitive DEF InScope, ScopeContains, IsScope
  <1>3. CASE a.kind = "ENDPOINT"
    <2>1. b.kind = "ENDPOINT" /\ c.kind = "ENDPOINT"
      BY <1>3 DEF ScopeContains
    <2>2. PICK x, y, z : x = a.host /\ y = b.host /\ z = c.host.labels
      OBVIOUS
    <2>3. HostContains(x, y) /\ InHost(y, z) /\ a.port \in {"ANY", c.port}
      BY <1>3, <2>1, <2>2 DEF ScopeContains, SyntacticContains, EndpointContains, PortContains, InScope
    <2>4. IsText(x.labels) /\ IsText(y.labels) /\ IsText(z)
      BY <1>3, <2>1, <2>2 DEF IsScope
    <2>5. InHost(x, z)
      <3>1. CASE ~x.wild
        BY <2>3, <3>1 DEF HostContains, InHost
      <3>2. CASE x.wild
        <4>1. IsSuffix(x.labels, y.labels) /\ (y.wild \/ Len(y.labels) > Len(x.labels))
          BY <2>3, <3>2 DEF HostContains
        <4>2. CASE ~y.wild
          BY <2>3, <3>2, <4>1, <4>2 DEF InHost
        <4>3. CASE y.wild
          <5>1. Len(z) > Len(y.labels) /\ IsSuffix(y.labels, z)
            BY <2>3, <4>3 DEF InHost
          <5>2. IsSuffix(x.labels, z)
            BY <2>4, <4>1, <5>1, SuffixTransitive
          <5>3. Len(z) > Len(x.labels)
            <6>1. Len(x.labels) <= Len(y.labels) /\ Len(x.labels) \in Nat /\ Len(y.labels) \in Nat
              BY <2>4, <4>1, SuffixIsShorter
            <6>2. Len(z) \in Nat
              BY <2>4, <5>1, SuffixIsShorter
            <6>. QED BY <5>1, <6>1, <6>2
          <5>. QED BY <3>2, <5>2, <5>3 DEF InHost
        <4>. QED BY <4>2, <4>3
      <3>. QED BY <3>1, <3>2
    <2>. QED BY <1>3, <2>2, <2>3, <2>5 DEF InScope
  <1>4. ASSUME NEW x, NEW y, NEW z, IsText(x.text), IsText(y.text), IsText(z),
               PatternContains(x, y), InPattern(y, z)
        PROVE  InPattern(x, z)
    <2>1. CASE x.prefix
      <3>1. IsPrefix(x.text, y.text)
        BY <1>4, <2>1 DEF PatternContains
      <3>2. CASE y.prefix
        <4>1. IsPrefix(y.text, z)
          BY <1>4, <3>2 DEF InPattern
        <4>. QED BY <1>4, <2>1, <3>1, <4>1, PrefixTransitive DEF InPattern
      <3>3. CASE ~y.prefix
        BY <1>4, <2>1, <3>1, <3>3 DEF InPattern
      <3>. QED BY <3>2, <3>3
    <2>2. CASE ~x.prefix
      BY <1>4, <2>2 DEF PatternContains, InPattern
    <2>. QED BY <2>1, <2>2
  <1>5. CASE a.kind = "MODEL"
    <2>1. b.kind = "MODEL" /\ c.kind = "MODEL" /\ PatternContains(a.model, b.model)
          /\ InPattern(b.model, c.model.text) /\ a.provider = c.provider
      BY <1>5 DEF ScopeContains, SyntacticContains, ModelContains, InScope
    <2>2. IsText(a.model.text) /\ IsText(b.model.text) /\ IsText(c.model.text)
      BY <1>5, <2>1 DEF IsScope
    <2>3. InPattern(a.model, c.model.text)
      BY <1>4, <2>1, <2>2
    <2>. QED BY <1>5, <2>1, <2>3 DEF InScope
  <1>6. CASE a.kind = "PATTERN"
    <2>1. b.kind = "PATTERN" /\ c.kind = "PATTERN" /\ PatternContains(a.pattern, b.pattern)
          /\ InPattern(b.pattern, c.pattern.text)
      BY <1>6 DEF ScopeContains, SyntacticContains, InScope
    <2>2. IsText(a.pattern.text) /\ IsText(b.pattern.text) /\ IsText(c.pattern.text)
      BY <1>6, <2>1 DEF IsScope
    <2>3. InPattern(a.pattern, c.pattern.text)
      BY <1>4, <2>1, <2>2
    <2>. QED BY <1>6, <2>1, <2>3 DEF InScope
  <1>7. CASE a.kind \notin {"UNIVERSAL", "PATH", "ENDPOINT", "MODEL", "PATTERN"}
    BY <1>7 DEF ScopeContains, SyntacticContains, InScope
  <1>. QED BY <1>1, <1>2, <1>3, <1>5, <1>6, <1>7

LEMMA WiderPermits ==
    ASSUME NEW cap, NEW held, NEW q, IsCap(cap), IsCap(held), IsConcrete(q),
           CapContains(cap, held), Permits(held, q), held.scope.kind \in {"UNIVERSAL", q.scope.kind}
    PROVE  Permits(cap, q) /\ cap.scope.kind \in {"UNIVERSAL", q.scope.kind}
  <1>1. InScope(cap.scope, q.scope)
    BY WiderScope DEF IsCap, IsConcrete, CapContains, Permits
  <1>2. ASSUME NEW name \in DOMAIN cap.constraints
        PROVE  name \in DOMAIN q.constraints /\ Within(name, q.constraints[name], cap.constraints[name])
    <2>1. PICK x, y, z : x = q.constraints[name] /\ y = held.constraints[name] /\ z = cap.constraints[name]
      OBVIOUS
    <2>2. name \in DOMAIN held.constraints /\ ValueNarrower(name, y, z)
      BY <1>2, <2>1 DEF CapContains, ConstraintsNarrower
    <2>3. name \in DOMAIN q.constraints /\ Within(name, x, y)
      BY <2>1, <2>2 DEF Permits
    <2>4. name \in {"max_bytes", "max_requests", "depth", "fanout"} => x \in Nat /\ y \in Nat /\ z \in Nat
      BY <1>2, <2>1, <2>2, <2>3 DEF IsCap, IsConcrete, IsBounds
    <2>5. Within(name, x, z)
      <3>1. CASE name \in {"max_bytes", "max_requests", "depth", "fanout"}
        BY <2>2, <2>3, <2>4, <3>1 DEF Within, ValueNarrower
      <3>2. CASE name \in {"methods", "argv_allowlist"}
        BY <2>2, <2>3, <3>2 DEF Within, ValueNarrower, MethodsNarrower, ArgvNarrower
      <3>3. CASE name = "privacy_class"
        BY <2>2, <2>3, <3>3 DEF Within, ValueNarrower, PrivacyRank
      <3>4. CASE name \notin {"max_bytes", "max_requests", "depth", "fanout", "methods", "argv_allowlist", "privacy_class"}
        BY <3>4 DEF Within
      <3>. QED BY <3>1, <3>2, <3>3, <3>4
    <2>. QED BY <2>1, <2>3, <2>5
  <1>3. cap.scope.kind \in {"UNIVERSAL", q.scope.kind}
    BY DEF CapContains, ScopeContains
  <1>. QED BY <1>1, <1>2, <1>3 DEF Permits, CapContains

-----------------------------------------------------------------------------
(* A minimised set is part of what it was made of *)

LEMMA MinimisedIsPart ==
    ASSUME NEW caps, IsFiniteSet(caps) PROVE Minimised(caps) \subseteq caps
  <1>. DEFINE Taken(b) == CHOOSE c \in b.left : TRUE
              Move(b) == [left |-> b.left \ {Taken(b)}, kept |-> Insert(b.kept, Taken(b))]
              Def(f) == [i \in 0..Cardinality(caps) |->
                          IF i = 0 THEN [left |-> caps, kept |-> {}] ELSE Move(f[i - 1])]
  <1>1. PICK n \in Nat : n = Cardinality(caps)
    BY FS_CardinalityType
  <1>2. PICK base : base = [left |-> caps, kept |-> {}]
    OBVIOUS
  <1>3. PICK S : S = [left : SUBSET caps, kept : SUBSET (caps \cup {CHOOSE c \in {} : TRUE})]
    OBVIOUS
  <1>4. \A b \in S : Move(b) \in S
    <2>. TAKE b \in S
    <2>1. PICK x : x = Taken(b)
      OBVIOUS
    <2>2. x \in caps \cup {CHOOSE c \in {} : TRUE}
      BY <1>3, <2>1
    <2>3. Insert(b.kept, x) \subseteq b.kept \cup {x}
      BY DEF Insert
    <2>. QED BY <1>3, <2>1, <2>2, <2>3
  <1>5. PICK step : step = [p \in Nat \X S |-> Move(p[2])]
    OBVIOUS
  <1>6. step \in [Nat \X S -> S]
    <2>1. \A p \in Nat \X S : step[p] \in S
      BY <1>4, <1>5
    <2>. QED BY <1>5, <2>1
  <1>7. base \in S
    BY <1>2, <1>3
  <1>8. PICK g : StepsOn(g, n, S, base, step)
    BY <1>6, <1>7, RecursionOn
  <1>. HIDE DEF Move
  <1>9. \A i \in 0..n : i # 0 => step[<<i, g[i - 1]>>] = Move(g[i - 1])
    <2>. TAKE i \in 0..n
    <2>. HAVE i # 0
    <2>1. i - 1 \in 0..n /\ i \in Nat
      OBVIOUS
    <2>2. <<i, g[i - 1]>> \in Nat \X S
      BY <1>8, <2>1 DEF StepsOn
    <2>. QED BY <1>5, <2>2
  <1>10. g = Def(g)
    BY <1>1, <1>2, <1>8, <1>9 DEF StepsOn
  <1>. HIDE DEF Def
  <1>11. PICK f : f = CHOOSE z : z = Def(z)
    OBVIOUS
  <1>12. f = Def(f)
    BY <1>10, <1>11
  <1>13. Minimised(caps) = f[n].kept
    BY <1>1, <1>11 DEF Minimised, Def, Move
  <1>14. \A i \in 0..n : f[i] = IF i = 0 THEN base ELSE Move(f[i - 1])
    BY <1>1, <1>2, <1>12 DEF Def
  <1>. DEFINE Good(i) == /\ f[i].left \subseteq caps /\ f[i].kept \subseteq caps
                         /\ IsFiniteSet(f[i].left) /\ Cardinality(f[i].left) = n - i
              T == {i \in Nat : i <= n => Good(i)}
  <1>15. 0 \in T
    BY <1>1, <1>2, <1>14
  <1>16. ASSUME NEW i \in Nat, i \in T PROVE i + 1 \in T
    <2>. SUFFICES ASSUME i + 1 <= n PROVE Good(i + 1)
      OBVIOUS
    <2>1. PICK b, x : b = f[i] /\ x = Taken(b)
      OBVIOUS
    <2>2. i + 1 \in 0..n /\ i + 1 # 0 /\ (i + 1) - 1 = i /\ i <= n
      OBVIOUS
    <2>3. Good(i)
      BY <1>16, <2>2
    <2>4. b.left # {} /\ x \in b.left
      <3>1. b.left # {}
        BY <2>1, <2>2, <2>3, FS_EmptySet
      <3>. QED BY <2>1, <3>1
    <2>5. f[i + 1] = [left |-> b.left \ {x}, kept |-> Insert(b.kept, x)]
      BY <1>14, <2>1, <2>2 DEF Move
    <2>6. Insert(b.kept, x) \subseteq b.kept \cup {x}
      BY DEF Insert
    <2>7. IsFiniteSet(b.left \ {x}) /\ Cardinality(b.left \ {x}) = Cardinality(b.left) - 1
      BY <2>1, <2>3, <2>4, FS_RemoveElement
    <2>. QED BY <2>1, <2>2, <2>3, <2>4, <2>5, <2>6, <2>7
  <1>. HIDE DEF T
  <1>17. n \in T
    BY <1>15, <1>16, InductionOn
  <1>. QED BY <1>13, <1>17 DEF T

-----------------------------------------------------------------------------
(* What a patch leaves *)

TotalsInserted(f, edits) == f = [i \in 0..Len(edits) |-> IF i = 0 THEN 0 ELSE f[i - 1] + edits[i].insert]
TotalsDeleted(f, edits) == f = [i \in 0..Len(edits) |-> IF i = 0 THEN 0 ELSE f[i - 1] + edits[i].delete]

LEMMA InsertedIs ==
    ASSUME NEW E, NEW edits \in Seq(E), \A i \in 1..Len(edits) : edits[i].insert \in Nat
    PROVE  \E f : TotalsInserted(f, edits) /\ Inserted(edits) = f[Len(edits)]
  <1>. DEFINE Def(f) == [i \in 0..Len(edits) |-> IF i = 0 THEN 0 ELSE f[i - 1] + edits[i].insert]
  <1>1. PICK n \in Nat : n = Len(edits)
    OBVIOUS
  <1>2. PICK step : step = [p \in Nat \X Nat |-> IF p[1] \in 1..n THEN p[2] + edits[p[1]].insert ELSE 0]
    OBVIOUS
  <1>3. step \in [Nat \X Nat -> Nat]
    <2>1. \A p \in Nat \X Nat : step[p] \in Nat
      BY <1>1, <1>2
    <2>. QED BY <1>2, <2>1
  <1>4. PICK g : StepsOn(g, n, Nat, 0, step)
    BY <1>3, RecursionOn
  <1>5. \A i \in 0..n : i # 0 => step[<<i, g[i - 1]>>] = g[i - 1] + edits[i].insert
    <2>. TAKE i \in 0..n
    <2>. HAVE i # 0
    <2>1. i - 1 \in 0..n /\ i \in Nat /\ i \in 1..n
      OBVIOUS
    <2>2. <<i, g[i - 1]>> \in Nat \X Nat
      BY <1>4, <2>1 DEF StepsOn
    <2>. QED BY <1>2, <2>1, <2>2
  <1>6. g = Def(g)
    BY <1>1, <1>4, <1>5 DEF StepsOn
  <1>. HIDE DEF Def
  <1>7. PICK f : f = CHOOSE z : z = Def(z)
    OBVIOUS
  <1>8. f = Def(f)
    BY <1>6, <1>7
  <1>9. Inserted(edits) = f[Len(edits)]
    BY <1>7 DEF Inserted, Def
  <1>10. TotalsInserted(f, edits)
    BY <1>8 DEF Def, TotalsInserted
  <1>. QED BY <1>9, <1>10

LEMMA DeletedIs ==
    ASSUME NEW E, NEW edits \in Seq(E), \A i \in 1..Len(edits) : edits[i].delete \in Nat
    PROVE  \E f : TotalsDeleted(f, edits) /\ Deleted(edits) = f[Len(edits)]
  <1>. DEFINE Def(f) == [i \in 0..Len(edits) |-> IF i = 0 THEN 0 ELSE f[i - 1] + edits[i].delete]
  <1>1. PICK n \in Nat : n = Len(edits)
    OBVIOUS
  <1>2. PICK step : step = [p \in Nat \X Nat |-> IF p[1] \in 1..n THEN p[2] + edits[p[1]].delete ELSE 0]
    OBVIOUS
  <1>3. step \in [Nat \X Nat -> Nat]
    <2>1. \A p \in Nat \X Nat : step[p] \in Nat
      BY <1>1, <1>2
    <2>. QED BY <1>2, <2>1
  <1>4. PICK g : StepsOn(g, n, Nat, 0, step)
    BY <1>3, RecursionOn
  <1>5. \A i \in 0..n : i # 0 => step[<<i, g[i - 1]>>] = g[i - 1] + edits[i].delete
    <2>. TAKE i \in 0..n
    <2>. HAVE i # 0
    <2>1. i - 1 \in 0..n /\ i \in Nat /\ i \in 1..n
      OBVIOUS
    <2>2. <<i, g[i - 1]>> \in Nat \X Nat
      BY <1>4, <2>1 DEF StepsOn
    <2>. QED BY <1>2, <2>1, <2>2
  <1>6. g = Def(g)
    BY <1>1, <1>4, <1>5 DEF StepsOn
  <1>. HIDE DEF Def
  <1>7. PICK f : f = CHOOSE z : z = Def(z)
    OBVIOUS
  <1>8. f = Def(f)
    BY <1>6, <1>7
  <1>9. Deleted(edits) = f[Len(edits)]
    BY <1>7 DEF Deleted, Def
  <1>10. TotalsDeleted(f, edits)
    BY <1>8 DEF Def, TotalsDeleted
  <1>. QED BY <1>9, <1>10

\* What has been written of the result, and how far the base has been read, after each edit.
Splice(out, edits) ==
    out = [i \in 0..Len(edits) |->
             IF i = 0 THEN [kept |-> 0, at |-> 0]
             ELSE [kept |-> out[i - 1].kept + (edits[i].offset - out[i - 1].at) + edits[i].insert,
                   at |-> edits[i].offset + edits[i].delete]]

LEMMA SplicedIs ==
    ASSUME NEW call, IsCall(call)
    PROVE  \E out : /\ Splice(out, call.edits)
                    /\ Spliced(call) = out[Len(call.edits)].kept + (call.base - out[Len(call.edits)].at)
  <1>. DEFINE Further(b, e) == [kept |-> b.kept + (e.offset - b.at) + e.insert, at |-> e.offset + e.delete]
              Def(f) == [i \in 0..Len(call.edits) |->
                          IF i = 0 THEN [kept |-> 0, at |-> 0]
                          ELSE [kept |-> f[i - 1].kept + (call.edits[i].offset - f[i - 1].at) + call.edits[i].insert,
                                at |-> call.edits[i].offset + call.edits[i].delete]]
  <1>1. PICK E, edits : E = ToSet(call.edits) /\ edits = call.edits
    OBVIOUS
  <1>2. edits \in Seq(E) /\ \A i \in 1..Len(edits) : edits[i].offset \in Nat /\ edits[i].delete \in Nat /\ edits[i].insert \in Nat
    <2>1. edits \in Seq(E)
      BY <1>1 DEF IsCall, IsText
    <2>2. \A i \in 1..Len(edits) : edits[i] \in E
      BY <2>1
    <2>. QED BY <1>1, <2>1, <2>2 DEF IsCall
  <1>3. PICK n \in Nat : n = Len(edits)
    BY <1>2
  <1>4. PICK S, base : S = [kept : Int, at : Int] /\ base = [kept |-> 0, at |-> 0]
    OBVIOUS
  <1>. base \in S
    BY <1>4
  <1>5. PICK step : step = [p \in Nat \X S |-> IF p[1] \in 1..n THEN Further(p[2], edits[p[1]]) ELSE base]
    OBVIOUS
  <1>6. step \in [Nat \X S -> S]
    <2>1. ASSUME NEW p \in Nat \X S PROVE step[p] \in S
      <3>1. CASE p[1] \in 1..n
        <4>1. step[p] = Further(p[2], edits[p[1]])
          BY <1>5, <3>1
        <4>2. p[2].kept \in Int /\ p[2].at \in Int
          BY <1>4
        <4>. QED BY <1>2, <1>3, <1>4, <3>1, <4>1, <4>2
      <3>2. CASE p[1] \notin 1..n
        BY <1>4, <1>5, <3>2
      <3>. QED BY <3>1, <3>2
    <2>. QED BY <1>5, <2>1
  <1>7. PICK g : StepsOn(g, n, S, base, step)
    BY <1>3, <1>4, <1>6, RecursionOn
  <1>8. \A i \in 0..n : i # 0 => step[<<i, g[i - 1]>>] = Further(g[i - 1], edits[i])
    <2>. TAKE i \in 0..n
    <2>. HAVE i # 0
    <2>1. i - 1 \in 0..n /\ i \in Nat /\ i \in 1..n
      OBVIOUS
    <2>2. <<i, g[i - 1]>> \in Nat \X S
      BY <1>7, <2>1 DEF StepsOn
    <2>. QED BY <1>5, <2>1, <2>2
  <1>9. g = Def(g)
    BY <1>1, <1>3, <1>4, <1>7, <1>8 DEF StepsOn
  <1>. HIDE DEF Def
  <1>10. PICK f : f = CHOOSE z : z = Def(z)
    OBVIOUS
  <1>11. f = Def(f)
    BY <1>9, <1>10
  <1>12. Spliced(call) = f[Len(call.edits)].kept + (call.base - f[Len(call.edits)].at)
    BY <1>10 DEF Spliced, Def
  <1>13. Splice(f, call.edits)
    BY <1>11 DEF Def, Splice
  <1>. QED BY <1>12, <1>13

LEMMA PatchLeavesItsResult ==
    ASSUME NEW call, IsCall(call), PatchConsistent(call)
    PROVE  Spliced(call) = call.post
  <1>1. PICK E, edits : E = ToSet(call.edits) /\ edits = call.edits
    OBVIOUS
  <1>2. edits \in Seq(E) /\ \A i \in 1..Len(edits) : edits[i].offset \in Nat /\ edits[i].delete \in Nat /\ edits[i].insert \in Nat
    <2>1. edits \in Seq(E)
      BY <1>1 DEF IsCall, IsText
    <2>2. \A i \in 1..Len(edits) : edits[i] \in E
      BY <2>1
    <2>. QED BY <1>1, <2>1, <2>2 DEF IsCall
  <1>3. PICK n \in Nat : n = Len(edits)
    BY <1>2
  <1>4. PICK ins : TotalsInserted(ins, edits) /\ Inserted(edits) = ins[Len(edits)]
    BY <1>2, InsertedIs
  <1>5. PICK del : TotalsDeleted(del, edits) /\ Deleted(edits) = del[Len(edits)]
    BY <1>2, DeletedIs
  <1>6. PICK out : /\ Splice(out, edits)
                   /\ Spliced(call) = out[Len(edits)].kept + (call.base - out[Len(edits)].at)
    BY <1>1, SplicedIs
  <1>7. \A i \in 0..n : /\ ins[i] = IF i = 0 THEN 0 ELSE ins[i - 1] + edits[i].insert
                        /\ del[i] = IF i = 0 THEN 0 ELSE del[i - 1] + edits[i].delete
    BY <1>3, <1>4, <1>5 DEF TotalsInserted, TotalsDeleted
  <1>8. \A i \in 0..n :
            out[i] = IF i = 0 THEN [kept |-> 0, at |-> 0]
                     ELSE [kept |-> out[i - 1].kept + (edits[i].offset - out[i - 1].at) + edits[i].insert,
                           at |-> edits[i].offset + edits[i].delete]
    BY <1>3, <1>6 DEF Splice
  <1>. DEFINE Balanced(i) == /\ ins[i] \in Int /\ del[i] \in Int /\ out[i].kept \in Int /\ out[i].at \in Int
                             /\ out[i].kept = (out[i].at - del[i]) + ins[i]
              T == {i \in Nat : i <= n => Balanced(i)}
  <1>9. 0 \in T
    <2>1. ins[0] = 0 /\ del[0] = 0 /\ out[0] = [kept |-> 0, at |-> 0]
      <3>1. PICK z \in 0..n : z = 0
        OBVIOUS
      <3>2. ins[z] = 0 /\ del[z] = 0
        BY <1>7, <3>1
      <3>3. out[z] = [kept |-> 0, at |-> 0]
        BY <1>8, <3>1
      <3>. QED BY <3>1, <3>2, <3>3
    <2>2. out[0].kept = 0 /\ out[0].at = 0
      BY <2>1
    <2>. QED BY <2>1, <2>2
  <1>10. ASSUME NEW i \in Nat, i \in T PROVE i + 1 \in T
    <2>. SUFFICES ASSUME i + 1 <= n PROVE Balanced(i + 1)
      OBVIOUS
    <2>1. PICK j \in 1..n : j = i + 1 /\ j - 1 = i /\ j \in 0..n /\ j # 0
      OBVIOUS
    <2>2. Balanced(j - 1)
      BY <1>10, <2>1
    <2>3. ins[j] = ins[j - 1] + edits[j].insert /\ del[j] = del[j - 1] + edits[j].delete
      BY <1>7, <2>1
    <2>4. out[j] = [kept |-> out[j - 1].kept + (edits[j].offset - out[j - 1].at) + edits[j].insert,
                    at |-> edits[j].offset + edits[j].delete]
      BY <1>8, <2>1
    <2>5. out[j].kept = out[j - 1].kept + (edits[j].offset - out[j - 1].at) + edits[j].insert
          /\ out[j].at = edits[j].offset + edits[j].delete
      BY <2>4
    <2>6. edits[j].offset \in Nat /\ edits[j].delete \in Nat /\ edits[j].insert \in Nat
      BY <1>2, <1>3, <2>1
    <2>7. Balanced(j)
      BY <2>2, <2>3, <2>5, <2>6
    <2>. QED BY <2>1, <2>7
  <1>. HIDE DEF T
  <1>11. n \in T
    BY <1>9, <1>10, InductionOn
  <1>12. Balanced(n)
    BY <1>11 DEF T
  <1>13. call.base \in Nat /\ call.post \in Nat /\ (call.base - del[n]) + ins[n] = call.post
    BY <1>1, <1>3, <1>4, <1>5 DEF PatchConsistent, IsCall
  <1>. QED BY <1>3, <1>6, <1>12, <1>13

-----------------------------------------------------------------------------
(* What is minted, stored, read back and narrowed stays covered by every term *)

\* What a set of declarations means under some answers is a finite set of capabilities.
LEMMA DeclaredIs ==
    ASSUME NEW spec, IsSpec(spec), NEW answers, NEW cap \in Declared(spec, answers)
    PROVE  /\ IsCap(cap) /\ Declared(spec, answers) = {cap}
           /\ Rehydrate(CanonicalText(cap)) = cap
  <1>1. PICK scope : /\ cap = [verb |-> spec.verb, scope |-> scope, constraints |-> spec.constraints]
                     /\ Declared(spec, answers) = {cap}
                     /\ \/ scope.kind = "EXECUTABLE"
                           /\ scope = [kind |-> "EXECUTABLE", path |-> scope.path, digest |-> scope.digest]
                        \/ /\ scope.kind = "PATH" /\ scope = [kind |-> "PATH", path |-> scope.path]
                           /\ IsText(scope.path)
                        \/ /\ scope = spec.scope
                           /\ scope.kind \notin {"PATH", "EXECUTABLE", "DECLARED_PATH", "DECLARED_EXECUTABLE"}
    <2>1. CASE spec.scope.kind = "DECLARED_EXECUTABLE"
      <3>1. PICK s : s = [kind |-> "EXECUTABLE", path |-> spec.scope.path,
                          digest |-> answers.executables[<<spec.scope.path, spec.scope.pin>>]]
        OBVIOUS
      <3>2. Declared(spec, answers) = Made(spec, s)
        BY <2>1, <3>1 DEF Declared
      <3>3. s.kind = "EXECUTABLE" /\ s = [kind |-> "EXECUTABLE", path |-> s.path, digest |-> s.digest]
        BY <3>1
      <3>. QED BY <3>2, <3>3 DEF Made
    <2>2. CASE spec.scope.kind = "DECLARED_PATH"
      <3>1. PICK s : s = [kind |-> "PATH", path |-> spec.scope.path]
        OBVIOUS
      <3>2. Declared(spec, answers) = Made(spec, s)
        BY <2>2, <3>1 DEF Declared
      <3>3. s.kind = "PATH" /\ s = [kind |-> "PATH", path |-> s.path] /\ IsText(s.path)
        BY <2>2, <3>1 DEF IsSpec
      <3>. QED BY <3>2, <3>3 DEF Made
    <2>3. CASE spec.scope.kind \notin {"DECLARED_PATH", "DECLARED_EXECUTABLE"}
      <3>1. Declared(spec, answers) = Made(spec, spec.scope)
        BY <2>3 DEF Declared
      <3>. QED BY <2>3, <3>1 DEF Made, IsSpec
    <2>. QED BY <2>1, <2>2, <2>3
  <1>2. IsCap(cap)
    <2>1. IsBounds(cap.constraints) /\ cap.scope = scope
      BY <1>1 DEF IsSpec
    <2>2. IsScope(scope)
      BY <1>1 DEF IsSpec, IsScope
    <2>. QED BY <2>1, <2>2 DEF IsCap
  <1>3. Rehydrate(CanonicalText(cap)) = cap
    <2>1. PICK text : text = CanonicalText(cap)
      OBVIOUS
    <2>2. CASE scope.kind = "PATH"
      <3>1. text = [verb |-> spec.verb, scope |-> [kind |-> "DECLARED_PATH", path |-> scope.path],
                    constraints |-> spec.constraints]
        BY <1>1, <2>1, <2>2 DEF CanonicalText
      <3>2. Rehydrate(text) = [verb |-> spec.verb, scope |-> [kind |-> "PATH", path |-> scope.path],
                               constraints |-> spec.constraints]
        BY <3>1 DEF Rehydrate
      <3>. QED BY <1>1, <2>1, <2>2, <3>2
    <2>3. CASE scope.kind = "EXECUTABLE"
      <3>1. text = [verb |-> spec.verb, constraints |-> spec.constraints,
                    scope |-> [kind |-> "DECLARED_EXECUTABLE", path |-> scope.path, pin |-> scope.digest]]
        BY <1>1, <2>1, <2>3 DEF CanonicalText
      <3>2. Rehydrate(text) = [verb |-> spec.verb, constraints |-> spec.constraints,
                               scope |-> [kind |-> "EXECUTABLE", path |-> scope.path, digest |-> scope.digest]]
        BY <3>1 DEF Rehydrate
      <3>. QED BY <1>1, <2>1, <2>3, <3>2
    <2>4. CASE scope.kind \notin {"PATH", "EXECUTABLE"}
      <3>1. text = cap /\ scope.kind \notin {"DECLARED_PATH", "DECLARED_EXECUTABLE"}
        BY <1>1, <2>1, <2>4 DEF CanonicalText
      <3>2. Rehydrate(text) = cap
        BY <1>1, <3>1 DEF Rehydrate
      <3>. QED BY <2>1, <3>2
    <2>. QED BY <2>2, <2>3, <2>4
  <1>. QED BY <1>1, <1>2, <1>3

AreSpecs(specs) == IsFiniteSet(specs) /\ \A spec \in specs : IsSpec(spec)

LEMMA ResolvableIs ==
    ASSUME NEW specs, AreSpecs(specs), NEW answers
    PROVE  IsFiniteSet(Resolvable(specs, answers)) /\ \A cap \in Resolvable(specs, answers) : IsCap(cap)
  <1>1. PICK f, T : f = [s \in specs |-> Declared(s, answers)] /\ T = {Declared(s, answers) : s \in specs}
    OBVIOUS
  <1>2. f \in Surjection(specs, T)
    BY <1>1 DEF Surjection
  <1>3. IsFiniteSet(T)
    BY <1>2, FS_Surjection DEF AreSpecs
  <1>4. \A D \in T : IsFiniteSet(D) /\ \A cap \in D : IsCap(cap)
    <2>. TAKE D \in T
    <2>1. PICK s \in specs : D = Declared(s, answers)
      BY <1>1
    <2>2. IsSpec(s)
      BY DEF AreSpecs
    <2>3. \A cap \in D : IsCap(cap) /\ D = {cap}
      BY <2>1, <2>2, DeclaredIs
    <2>4. IsFiniteSet(D)
      BY <2>3, FS_EmptySet, FS_Singleton
    <2>. QED BY <2>3, <2>4
  <1>5. IsFiniteSet(UNION T)
    BY <1>3, <1>4, FS_UNION
  <1>6. Resolvable(specs, answers) = UNION T
    BY <1>1 DEF Resolvable
  <1>. QED BY <1>4, <1>5, <1>6

\* A specification of what a run holds: every grant, read back, is a capability that every term of
\* its admission covers, and what was derived is covered by a grant.
CoveredByTerms(mine) ==
    /\ \A text \in mine.granted :
         /\ IsCap(Rehydrate(text))
         /\ \A term \in mine.terms : \E cap \in term : IsCap(cap) /\ CapContains(cap, Rehydrate(text))
    /\ \A kept \in mine.derived :
         IsCap(kept) /\ \E text \in mine.granted : CapContains(Rehydrate(text), kept)
RunFields == {"state", "pass", "ask", "known", "granted", "terms", "derived"}
GrantsInv ==
    /\ profile \in Profiles
    /\ skills \in [Skills -> SkillSpecs \cup {[trust |-> "ABSENT", declared |-> {}]}]
    /\ DOMAIN runs = Runs /\ runs = [r \in Runs |-> runs[r]]
    /\ \A r \in Runs :
         /\ DOMAIN runs[r] = RunFields /\ runs[r] = [x \in RunFields |-> runs[r][x]]
         /\ runs[r].state = "PASS" => runs[r].ask \in Asked
         /\ runs[r].state = "ACTIVE" => CoveredByTerms(runs[r])

LEMMA AskedAreSpecs ==
    ASSUME GrantsConstants
    PROVE  /\ \A p \in Profiles : AreSpecs(p.declared)
           /\ \A s \in SkillSpecs : AreSpecs(s.declared)
           /\ \A a \in Asked : AreSpecs(a.specs)
           /\ AreSpecs(Ceiling)
  BY DEF GrantsConstants, AreSpecs

\* What an admission mints is covered by every term of it.
LEMMA MintedIsCovered ==
    ASSUME GrantsConstants, GrantsInv, NEW ask \in Asked, NEW answers, NEW cap \in MintAll(ask, answers),
           NEW term \in SkillTerms(ask, answers)
                          \cup {Resolvable(profile.declared, answers), Resolvable(Ceiling, answers)}
    PROVE  /\ IsCap(cap) /\ Rehydrate(CanonicalText(cap)) = cap
           /\ \E held \in term : IsCap(held) /\ CapContains(held, cap)
  <1>1. PICK spec \in ask.specs : cap \in MintOne(spec, ask, answers)
    BY DEF MintAll, Parsed
  <1>2. IsSpec(spec) /\ cap \in Declared(spec, answers)
    BY <1>1, AskedAreSpecs DEF MintOne, AreSpecs
  <1>3. IsCap(cap) /\ Rehydrate(CanonicalText(cap)) = cap
    BY <1>2, DeclaredIs
  <1>4. Covers(Minimised(term), cap)
    BY <1>1 DEF MintOne
  <1>5. PICK specs : AreSpecs(specs) /\ term = Resolvable(specs, answers)
    <2>1. CASE term = Resolvable(profile.declared, answers)
      BY <2>1, AskedAreSpecs DEF GrantsInv
    <2>2. CASE term = Resolvable(Ceiling, answers)
      BY <2>2, AskedAreSpecs
    <2>3. CASE term \in SkillTerms(ask, answers)
      <3>1. PICK name \in Skills : term = Resolvable(Declaration(name), answers)
        <4>1. ActiveSkills(ask) \subseteq Skills
          BY DEF ActiveSkills, GrantsConstants, GrantsInv
        <4>. QED BY <2>3, <4>1 DEF SkillTerms
      <3>2. AreSpecs(Declaration(name))
        <4>1. AreSpecs({})
          BY FS_EmptySet DEF AreSpecs
        <4>2. CASE Declaration(name) = {}
          BY <4>1, <4>2
        <4>3. CASE Declaration(name) # {}
          <5>1. Declaration(name) = skills[name].declared /\ skills[name].trust # "ABSENT"
            BY <4>3 DEF Declaration
          <5>2. skills[name] \in SkillSpecs
            <6>1. skills[name] \in SkillSpecs \cup {[trust |-> "ABSENT", declared |-> {}]}
              BY DEF GrantsInv
            <6>. QED BY <5>1, <6>1
          <5>. QED BY <5>1, <5>2, AskedAreSpecs
        <4>. QED BY <4>2, <4>3
      <3>. QED BY <3>1, <3>2
    <2>. QED BY <2>1, <2>2, <2>3
  <1>6. IsFiniteSet(term) /\ \A held \in term : IsCap(held)
    BY <1>5, ResolvableIs
  <1>7. Minimised(term) \subseteq term
    BY <1>6, MinimisedIsPart
  <1>. QED BY <1>3, <1>4, <1>6, <1>7 DEF Covers

LEMMA DerivedIsCovered ==
    ASSUME GrantsConstants, NEW parent, IsCap(parent), NEW n \in Narrowings,
           NEW child \in Attenuate(parent, n), NEW kept \in Delegate(parent, child)
    PROVE  IsCap(kept) /\ CapContains(parent, kept)
  <1>1. kept = child /\ CapContains(parent, kept)
    BY DEF Delegate
  <1>2. PICK scope, constraints :
            /\ scope = IF n.scope = <<>> THEN parent.scope ELSE n.scope[1]
            /\ constraints = Overlay(parent.constraints, n.constraints)
            /\ kept = [verb |-> parent.verb, scope |-> scope, constraints |-> constraints]
    BY <1>1 DEF Attenuate
  <1>3. IsScope(scope)
    BY <1>2 DEF GrantsConstants, IsCap
  <1>4. IsBounds(constraints)
    <2>1. IsBounds(n.constraints) /\ IsBounds(parent.constraints)
      BY DEF GrantsConstants, IsCap
    <2>. QED BY <1>2, <2>1 DEF IsBounds, Overlay
  <1>. QED BY <1>1, <1>2, <1>3, <1>4 DEF IsCap

\* One run is replaced, by one that is as the invariant says.
LEMMA RunReplaced ==
    ASSUME GrantsInv, NEW r \in Runs, NEW mine, SetRun(r, mine),
           UNCHANGED <<profile, skills>>,
           DOMAIN mine = RunFields, mine = [x \in RunFields |-> mine[x]],
           mine.state = "PASS" => mine.ask \in Asked,
           mine.state = "ACTIVE" => CoveredByTerms(mine)
    PROVE  GrantsInv'
  <1>1. runs' = [q \in Runs |-> IF q = r THEN mine ELSE runs[q]]
    BY DEF GrantsInv, SetRun
  <1>2. DOMAIN runs' = Runs /\ runs' = [q \in Runs |-> runs'[q]]
    BY <1>1
  <1>3. ASSUME NEW q \in Runs
        PROVE  /\ DOMAIN runs'[q] = RunFields /\ runs'[q] = [x \in RunFields |-> runs'[q][x]]
               /\ runs'[q].state = "PASS" => runs'[q].ask \in Asked
               /\ runs'[q].state = "ACTIVE" => CoveredByTerms(runs'[q])
    <2>1. CASE q = r
      <3>1. runs'[q] = mine
        BY <1>1, <2>1
      <3>. QED BY <3>1
    <2>2. CASE q # r
      <3>1. runs'[q] = runs[q]
        BY <1>1, <2>2
      <3>. QED BY <3>1 DEF GrantsInv
    <2>. QED BY <2>1, <2>2
  <1>. QED BY <1>2, <1>3 DEF GrantsInv, CoveredByTerms

LEMMA UnaskedIs ==
    /\ DOMAIN Unasked = RunFields /\ Unasked.derived = {}
    /\ Unasked.state = "NONE"
  BY DEF Unasked, RunFields

LEMMA AskKeeps ==
    ASSUME GrantsInv, NEW r \in Runs, NEW ask \in Asked, Ask(r, ask) PROVE GrantsInv'
  <1>1. PICK mine : mine = [Unasked EXCEPT !.state = "PASS", !.pass = 1, !.ask = ask]
    OBVIOUS
  <1>2. SetRun(r, mine) /\ UNCHANGED <<profile, skills>>
    BY <1>1 DEF Ask
  <1>3. DOMAIN mine = RunFields /\ mine = [x \in RunFields |-> mine[x]] /\ mine.state = "PASS" /\ mine.ask = ask
    BY <1>1, UnaskedIs DEF RunFields
  <1>. QED BY <1>2, <1>3, RunReplaced

LEMMA ResolveKeeps ==
    ASSUME GrantsInv, NEW r \in Runs, Resolve(r) PROVE GrantsInv'
  <1>1. PICK pass, known : SetRun(r, [runs[r] EXCEPT !.pass = pass, !.known = known])
    BY DEF Resolve
  <1>2. PICK mine : mine = [runs[r] EXCEPT !.pass = pass, !.known = known]
    OBVIOUS
  <1>3. SetRun(r, mine) /\ UNCHANGED <<profile, skills>> /\ runs[r].state = "PASS"
    BY <1>1, <1>2 DEF Resolve
  <1>4. DOMAIN runs[r] = RunFields /\ runs[r].ask \in Asked
    BY <1>3 DEF GrantsInv
  <1>5. DOMAIN mine = RunFields /\ mine = [x \in RunFields |-> mine[x]]
        /\ mine.state = runs[r].state /\ mine.ask = runs[r].ask
    BY <1>2, <1>4 DEF RunFields
  <1>. QED BY <1>3, <1>4, <1>5, RunReplaced

LEMMA AdmitKeeps ==
    ASSUME GrantsConstants, GrantsInv, NEW r \in Runs, Admit(r) PROVE GrantsInv'
  <1>1. PICK ask, answers :
            /\ ask = runs[r].ask
            /\ answers = [paths |-> IF workspace THEN runs[r].known.paths ELSE Nothing.paths,
                          executables |-> runs[r].known.executables, secrets |-> world.secrets]
    OBVIOUS
  <1>2. PICK granted, terms :
            /\ granted = {CanonicalText(cap) : cap \in MintAll(ask, answers)}
            /\ terms = SkillTerms(ask, answers)
                          \cup {Resolvable(profile.declared, answers), Resolvable(Ceiling, answers)}
    OBVIOUS
  <1>3. PICK mine : mine = [Unasked EXCEPT !.state = "ACTIVE", !.granted = granted, !.terms = terms]
    OBVIOUS
  <1>4. SetRun(r, mine) /\ UNCHANGED <<profile, skills>> /\ runs[r].state = "PASS"
    BY <1>1, <1>2, <1>3 DEF Admit
  <1>5. ask \in Asked
    BY <1>1, <1>4 DEF GrantsInv
  <1>6. /\ DOMAIN mine = RunFields /\ mine = [x \in RunFields |-> mine[x]] /\ mine.state = "ACTIVE"
        /\ mine.granted = granted /\ mine.terms = terms /\ mine.derived = {}
    BY <1>3, UnaskedIs DEF RunFields
  <1>7. ASSUME NEW text \in granted
        PROVE  /\ IsCap(Rehydrate(text))
               /\ \A term \in terms : \E cap \in term : IsCap(cap) /\ CapContains(cap, Rehydrate(text))
    <2>1. PICK cap \in MintAll(ask, answers) : text = CanonicalText(cap)
      BY <1>2, <1>7
    <2>2. ASSUME NEW term \in terms
          PROVE  /\ IsCap(cap) /\ Rehydrate(text) = cap
                 /\ \E held \in term : IsCap(held) /\ CapContains(held, cap)
      BY <1>2, <1>5, <2>1, MintedIsCovered
    <2>3. \E term : term \in terms
      BY <1>2
    <2>4. IsCap(cap) /\ Rehydrate(text) = cap
      BY <2>2, <2>3
    <2>. QED BY <2>2, <2>4
  <1>8. CoveredByTerms(mine)
    BY <1>6, <1>7 DEF CoveredByTerms
  <1>. QED BY <1>4, <1>6, <1>8, RunReplaced

LEMMA DeriveKeeps ==
    ASSUME GrantsConstants, GrantsInv, NEW r \in Runs, Derive(r) PROVE GrantsInv'
  <1>1. PICK text \in runs[r].granted, n \in Narrowings :
            \E child \in Attenuate(Rehydrate(text), n) : \E kept \in Delegate(Rehydrate(text), child) :
                SetRun(r, [runs[r] EXCEPT !.derived = {kept}])
    BY DEF Derive
  <1>2. PICK child \in Attenuate(Rehydrate(text), n) : \E kept \in Delegate(Rehydrate(text), child) :
             SetRun(r, [runs[r] EXCEPT !.derived = {kept}])
    BY <1>1
  <1>3. PICK kept \in Delegate(Rehydrate(text), child) : SetRun(r, [runs[r] EXCEPT !.derived = {kept}])
    BY <1>2
  <1>4. PICK mine : mine = [runs[r] EXCEPT !.derived = {kept}]
    OBVIOUS
  <1>5. SetRun(r, mine) /\ UNCHANGED <<profile, skills>> /\ runs[r].state = "ACTIVE"
    BY <1>4, <1>3 DEF Derive
  <1>6. DOMAIN runs[r] = RunFields /\ CoveredByTerms(runs[r])
    BY <1>5 DEF GrantsInv
  <1>7. /\ DOMAIN mine = RunFields /\ mine = [x \in RunFields |-> mine[x]] /\ mine.state = runs[r].state
        /\ mine.granted = runs[r].granted /\ mine.terms = runs[r].terms /\ mine.derived = {kept}
    BY <1>4, <1>6 DEF RunFields
  <1>8. IsCap(Rehydrate(text))
    BY <1>1, <1>6 DEF CoveredByTerms
  <1>9. IsCap(kept) /\ CapContains(Rehydrate(text), kept)
    BY <1>1, <1>8, DerivedIsCovered
  <1>10. CoveredByTerms(mine)
    BY <1>1, <1>6, <1>7, <1>9 DEF CoveredByTerms
  <1>. QED BY <1>5, <1>7, <1>10, RunReplaced

LEMMA GrantsInvHolds == ASSUME GrantsConstants PROVE GrantsSpec => []GrantsInv
  <1>1. GrantsInit => GrantsInv
    <2>. SUFFICES ASSUME GrantsInit PROVE GrantsInv
      OBVIOUS
    <2>1. profile \in Profiles /\ skills \in [Skills -> SkillSpecs \cup {[trust |-> "ABSENT", declared |-> {}]}]
      BY DEF GrantsInit
    <2>2. runs = [r \in Runs |-> Unasked]
      BY DEF GrantsInit
    <2>3. DOMAIN Unasked = RunFields /\ Unasked = [x \in RunFields |-> Unasked[x]]
      BY DEF Unasked, RunFields
    <2>4. DOMAIN runs = Runs /\ runs = [r \in Runs |-> runs[r]] /\ \A r \in Runs : runs[r] = Unasked
      BY <2>2
    <2>. QED BY <2>1, <2>3, <2>4, UnaskedIs DEF GrantsInv
  <1>2. GrantsInv /\ [GrantsNext]_grantsVars => GrantsInv'
    <2>. SUFFICES ASSUME GrantsInv, [GrantsNext]_grantsVars PROVE GrantsInv'
      OBVIOUS
    <2>1. CASE UNCHANGED grantsVars
      BY <2>1 DEF grantsVars, GrantsInv, CoveredByTerms
    <2>2. ASSUME NEW spec \in Profiles, InstallAgentProfile(spec) PROVE GrantsInv'
      BY <2>2 DEF InstallAgentProfile, GrantsInv, CoveredByTerms
    <2>3. ASSUME NEW name \in Skills, NEW spec \in SkillSpecs, InstallSkill(name, spec) PROVE GrantsInv'
      <3>1. skills' \in [Skills -> SkillSpecs \cup {[trust |-> "ABSENT", declared |-> {}]}]
        BY <2>3 DEF InstallSkill, GrantsInv
      <3>. QED BY <2>3, <3>1 DEF InstallSkill, GrantsInv, CoveredByTerms
    <2>4. CASE InstallWorkspaceRoot
      BY <2>4 DEF InstallWorkspaceRoot, GrantsInv, CoveredByTerms
    <2>5. ASSUME NEW w \in Worlds, Change(w) PROVE GrantsInv'
      BY <2>5 DEF Change, GrantsInv, CoveredByTerms
    <2>6. ASSUME NEW r \in Runs, Resolve(r) \/ Admit(r) \/ Derive(r) \/ (\E ask \in Asked : Ask(r, ask))
          PROVE  GrantsInv'
      BY <2>6, ResolveKeeps, AdmitKeeps, DeriveKeeps, AskKeeps
    <2>. QED BY <2>1, <2>2, <2>3, <2>4, <2>5, <2>6 DEF GrantsNext
  <1>. QED BY <1>1, <1>2, PTL DEF GrantsSpec

\* What satisfies a run's grants is within every term of its admission.
LEMMA SatisfiedIsWithinTerms ==
    ASSUME GrantsInv, NEW r \in Runs, runs[r].state = "ACTIVE",
           NEW q, IsConcrete(q), CapabilitySatisfied(r, q)
    PROVE  WithinTerms(r, q)
  <1>1. PICK held \in HeldBy(r) : CapContains(held, q)
    BY DEF CapabilitySatisfied
  <1>2. CoveredByTerms(runs[r])
    BY DEF GrantsInv
  <1>3. ASSUME NEW cap, IsCap(cap), CapContains(cap, q)
        PROVE  Permits(cap, q) /\ cap.scope.kind \in {"UNIVERSAL", q.scope.kind}
    BY <1>3, CoveredIsPermitted DEF CapContains, ScopeContains
  <1>4. PICK text \in runs[r].granted : /\ Permits(Rehydrate(text), q)
                                        /\ Rehydrate(text).scope.kind \in {"UNIVERSAL", q.scope.kind}
    <2>1. CASE held \in runs[r].derived
      <3>1. IsCap(held)
        BY <1>2, <2>1 DEF CoveredByTerms
      <3>2. PICK text \in runs[r].granted : CapContains(Rehydrate(text), held)
        BY <1>2, <2>1 DEF CoveredByTerms
      <3>3. IsCap(Rehydrate(text))
        BY <1>2 DEF CoveredByTerms
      <3>4. Permits(held, q) /\ held.scope.kind \in {"UNIVERSAL", q.scope.kind}
        BY <1>1, <1>3, <3>1
      <3>. QED BY <3>1, <3>2, <3>3, <3>4, WiderPermits
    <2>2. CASE held \notin runs[r].derived
      <3>1. PICK text \in runs[r].granted : held = Rehydrate(text)
        BY <1>1, <2>2 DEF HeldBy
      <3>2. IsCap(held)
        BY <1>2, <3>1 DEF CoveredByTerms
      <3>. QED BY <1>1, <1>3, <3>1, <3>2
    <2>. QED BY <2>1, <2>2
  <1>5. ASSUME NEW term \in runs[r].terms PROVE \E cap \in term : Permits(cap, q)
    <2>1. PICK cap \in term : IsCap(cap) /\ CapContains(cap, Rehydrate(text))
      BY <1>2 DEF CoveredByTerms
    <2>2. IsCap(Rehydrate(text))
      BY <1>2 DEF CoveredByTerms
    <2>. QED BY <1>4, <2>1, <2>2, WiderPermits
  <1>. QED BY <1>5 DEF WithinTerms

LEMMA RequiredIsConcrete ==
    ASSUME NEW act, IsText(act.path), act.bytes \in Nat
    PROVE  IsConcrete(RequiredCapability(act))
  <1>1. PICK q : q = RequiredCapability(act)
    OBVIOUS
  <1>2. q.scope = [kind |-> "PATH", path |-> act.path]
    BY <1>1 DEF RequiredCapability
  <1>3. IsScope(q.scope) /\ q.scope.kind = "PATH"
    BY <1>2 DEF IsScope
  <1>4. IsBounds(q.constraints)
    BY <1>1 DEF RequiredCapability, IsBounds
  <1>. QED BY <1>1, <1>3, <1>4 DEF IsConcrete

\* What a call does is what its plan asks for.
LEMMA EffectsArePlanned ==
    ASSUME NEW call, IsCall(call), FromWire(call)
    PROVE  /\ EffectsOf(call) = TargetVerbs(call)
           /\ \A act \in TargetVerbs(call) : IsText(act.path) /\ act.bytes \in Nat
  <1>1. EffectsOf(call) = TargetVerbs(call)
    <2>1. CASE call.tool = "fs.patch"
      <3>1. Spliced(call) = call.post
        BY <2>1, PatchLeavesItsResult DEF FromWire
      <3>. QED BY <2>1, <3>1 DEF EffectsOf, TargetVerbs
    <2>2. CASE call.tool = "fs.move"
      BY <2>2 DEF EffectsOf, TargetVerbs
    <2>3. CASE call.tool \notin {"fs.patch", "fs.move"}
      BY <2>3 DEF EffectsOf
    <2>. QED BY <2>1, <2>2, <2>3
  <1>2. ASSUME NEW act \in TargetVerbs(call) PROVE IsText(act.path) /\ act.bytes \in Nat
    <2>1. PICK verb, path, bytes : /\ act = Act(verb, path, bytes) /\ path \in {call.path, call.to}
                                   /\ bytes \in {0, call.bytes, call.base, call.post}
      BY <1>2 DEF TargetVerbs
    <2>. QED BY <2>1 DEF Act, IsCall
  <1>. QED BY <1>1, <1>2

\* For any profiles, skills, ceiling and requests, and a world that changes at any step, what a run
\* may do is permitted by every term of its admission, down to the bytes a patch leaves
\* (mint_one in state/admission.rs, attenuate and delegate in capability/attenuate.rs, decide in
\* state/query.rs and state/plan.rs).
THEOREM AuthorityIsWithinTerms ==
    ASSUME GrantsConstants PROVE GrantsSpec => []AuthorityStaysWithinTerms
  <1>1. GrantsInv => AuthorityStaysWithinTerms
    <2>. SUFFICES ASSUME GrantsInv, NEW r \in Runs, runs[r].state = "ACTIVE"
                  PROVE  /\ \A q \in Requests : CapabilitySatisfied(r, q) => WithinTerms(r, q)
                         /\ \A call \in Calls : PlanPermits(r, call) =>
                                \A act \in EffectsOf(call) : WithinTerms(r, RequiredCapability(act))
      BY DEF AuthorityStaysWithinTerms
    <2>1. ASSUME NEW q \in Requests, CapabilitySatisfied(r, q) PROVE WithinTerms(r, q)
      BY <2>1, SatisfiedIsWithinTerms DEF GrantsConstants
    <2>2. ASSUME NEW call \in Calls, PlanPermits(r, call), NEW act \in EffectsOf(call)
          PROVE  WithinTerms(r, RequiredCapability(act))
      <3>1. IsCall(call) /\ FromWire(call)
        BY <2>2 DEF GrantsConstants, PlanPermits
      <3>2. act \in TargetVerbs(call) /\ IsText(act.path) /\ act.bytes \in Nat
        BY <2>2, <3>1, EffectsArePlanned
      <3>3. CapabilitySatisfied(r, RequiredCapability(act))
        BY <2>2, <3>2 DEF PlanPermits
      <3>4. IsConcrete(RequiredCapability(act))
        BY <3>2, RequiredIsConcrete
      <3>. QED BY <3>3, <3>4, SatisfiedIsWithinTerms
    <2>. QED BY <2>1, <2>2
  <1>. QED BY <1>1, GrantsInvHolds, PTL
=============================================================================
