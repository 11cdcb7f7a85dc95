----------------------------- MODULE HostProofs -----------------------------
(***************************************************************************)
(* Proofs about what runs on the host and what it is worth: HostProcess,   *)
(* for any number of processes and keys, a table of any size and any       *)
(* number of lives of either daemon; ExecWalk, for every filesystem and    *)
(* any number of changes by other uids; Deployment, for every pair of      *)
(* configurations; and Assurance, for every configuration of a sandbox     *)
(* and any number of deviations and judgings.                              *)
(***************************************************************************)
EXTENDS HostProcess, ExecWalk, Deployment, Assurance, FiniteSetTheorems, SequenceTheorems, TLAPS

-----------------------------------------------------------------------------
(* The inductive invariant *)

Invocation ==
    [st : {"IDLE", "LOCATED", "INTENT", "SENT"}, tool : Tools \cup {"NONE"},
     p : Processes \cup {NoProcess}, key : LaunchKeys \cup {"NONE"}, gen : Nat]
Seen == {"RUNNING", "EXITED", "SIGNALED", "UNOBSERVABLE"}
Row == [state : {"NONE", "LAUNCHING", "FAILED", "UNKNOWN"} \cup Seen, gen : Nat]
Operation ==
    [phase : {"NONE", "TAKEN", "HANDSHAKE", "ABANDON", "WAIT"}, tool : Tools \cup {"NONE"},
     p : Processes \cup {NoProcess}, heard : {"NOTHING", "FAILED", "EXECUTED", "UNKNOWN"}]
Entry == {NoEntry} \cup [life : {"RUNNING", "EXITED", "SIGNALED"}, timedOut : BOOLEAN]
Before == {"NONE", "HELPER", "MARKED", "MARKED_LATE"}

ProcessTypeOK ==
    /\ cur \in Invocation
    /\ row \in [Processes -> Row]
    /\ oper \in Operation
    /\ table \in [Processes -> Entry]
    /\ os \in [Processes -> Before \cup {"RUNS", "EXITED", "SIGNALED", "GONE"}]
    /\ ran \in [Processes -> {"NO", "YES", "LATE"}]
    /\ lives \in [authority : Nat, broker : Nat]

\* A launch that is intended has its row and has done nothing; one that is sent is the
\* broker's operation, or its broker is gone.
InvocationIsInStep ==
    /\ cur.st # "IDLE" => cur.tool \in Tools
    /\ cur.st = "LOCATED" /\ cur.tool # "exec" => cur.p \in Processes
    /\ cur.st \in {"INTENT", "SENT"} => cur.p \in Processes
    /\ cur.st \in {"INTENT", "SENT"} /\ cur.tool = "exec" => row[cur.p].state = "LAUNCHING"
    /\ cur.st = "INTENT" /\ cur.tool = "exec" =>
        os[cur.p] = "NONE" /\ ~(oper.tool = "exec" /\ oper.p = cur.p)
    /\ cur.st = "SENT" => oper = NoLaunch \/ Awaited

\* What the broker has heard of a launch is so when it is judged, and nothing the helper
\* still does after that makes it untrue.
JobIsInStep ==
    /\ oper = NoLaunch \/ (oper.p \in Processes /\ oper.tool \in Tools /\ oper.phase # "NONE")
    /\ oper.tool = "exec" => row[oper.p].state \in {"LAUNCHING", "UNKNOWN"}
    /\ oper.phase = "TAKEN" => oper.heard = "NOTHING"
    /\ oper.tool = "exec" /\ oper.phase = "TAKEN" => os[oper.p] = "NONE"
    /\ oper.phase = "HANDSHAKE" =>
        /\ oper.tool = "exec" /\ os[oper.p] \notin {"NONE", "MARKED_LATE"}
        /\ oper.heard # "UNKNOWN"
        /\ oper.heard = "NOTHING" => os[oper.p] \in {"HELPER", "MARKED"}
        /\ oper.heard = "FAILED" => os[oper.p] = "GONE" /\ ran[oper.p] = "NO"
        /\ oper.heard = "EXECUTED" => ran[oper.p] = "YES"
    /\ oper.phase \in {"ABANDON", "WAIT"} =>
        /\ oper.tool = "exec" /\ os[oper.p] # "NONE" /\ oper.heard \in {"FAILED", "UNKNOWN"}
        /\ oper.heard = "FAILED" => os[oper.p] # "MARKED" /\ ran[oper.p] # "YES"

\* What the kernel runs, the table and the rows agree.
ProcessIsInStep(p) ==
    /\ os[p] \in Before => ran[p] = "NO"
    /\ os[p] # "NONE" => row[p].state # "NONE"
    /\ table[p].life \in {"EXITED", "SIGNALED"} => os[p] = "GONE"
    /\ row[p].state = "FAILED" => ran[p] # "YES"
    /\ row[p].state \in Seen => ran[p] = "YES"
    /\ row[p].state \in {"EXITED", "SIGNALED"} => os[p] = "GONE"

\* Every launch has bound a key of its own.
Launches == {p \in Processes : row[p].state # "NONE"}
KeysAreSpent ==
    /\ IsFiniteSet(bound) /\ IsFiniteSet(Launches)
    /\ Cardinality(Launches) <= Cardinality(bound)

PInv ==
    /\ ProcessTypeOK
    /\ InvocationIsInStep
    /\ JobIsInStep
    /\ \A p \in Processes : ProcessIsInStep(p)
    /\ KeysAreSpent

LEMMA ProcessInitInv == ProcessInit => PInv
  <1>. SUFFICES ASSUME ProcessInit PROVE PInv
    OBVIOUS
  <1>. USE DEF ProcessInit
  <1>1. ProcessTypeOK
    <2>1. Idle \in Invocation /\ NoRow \in Row /\ NoLaunch \in Operation /\ NoEntry \in Entry
      BY DEF Idle, Invocation, NoRow, Row, NoLaunch, Operation, NoEntry, Entry
    <2>. QED BY <2>1 DEF ProcessTypeOK, Before
  <1>2. InvocationIsInStep /\ JobIsInStep
    BY DEF InvocationIsInStep, JobIsInStep, Idle, NoLaunch
  <1>3. ASSUME NEW p \in Processes PROVE ProcessIsInStep(p)
    BY DEF ProcessIsInStep, NoRow, NoEntry, Seen
  <1>4. KeysAreSpent
    <2>1. Launches = {}
      BY DEF Launches, NoRow
    <2>. QED BY <2>1, FS_EmptySet DEF KeysAreSpent
  <1>. QED BY <1>1, <1>2, <1>3, <1>4 DEF PInv

-----------------------------------------------------------------------------
(* What steps have in common *)

LEMMA KeysKept ==
  ASSUME PInv, bound' = bound,
         \A p \in Processes : row'[p].state = "NONE" <=> row[p].state = "NONE"
  PROVE  KeysAreSpent'
  <1>1. Launches' = Launches
    BY DEF Launches
  <1>. QED BY <1>1 DEF PInv, KeysAreSpent

\* What the kernel runs goes on, or is over; nothing starts.
Fades(p) ==
    \/ os'[p] = os[p]
    \/ os'[p] \notin Before /\ os[p] # "NONE" /\ (os[p] = "GONE" => os'[p] = "GONE")

\* The broker or the world takes a step that the authority does not see.
LEMMA UnseenStep ==
  ASSUME PInv, UNCHANGED <<cur, row, bound, lives>>, oper' \in Operation, table' \in [Processes -> Entry],
         os' \in [Processes -> Before \cup {"RUNS", "EXITED", "SIGNALED", "GONE"}],
         ran' \in [Processes -> {"NO", "YES", "LATE"}],
         oper'.p = oper.p, oper'.tool = oper.tool, oper = NoLaunch => oper' = NoLaunch,
         \A p \in Processes : os[p] = "NONE" => os'[p] = "NONE" \/ (oper.tool = "exec" /\ oper.p = p),
         JobIsInStep', \A p \in Processes : ProcessIsInStep(p)'
  PROVE  PInv'
  <1>1. InvocationIsInStep'
    BY DEF PInv, InvocationIsInStep, Awaited
  <1>2. ProcessTypeOK'
    BY DEF PInv, ProcessTypeOK
  <1>. QED BY <1>1, <1>2, KeysKept DEF PInv

\* A row is settled.
LEMMA RecordRow ==
  ASSUME PInv, cur.st \in {"INTENT", "SENT"}, NEW ending \in {"COMPLETED", "FAILED", "UNKNOWN"},
         NEW state, NEW gen \in Nat, Record(ending, state, gen),
         cur.tool = "exec" /\ ending = "COMPLETED" => state = "RUNNING",
         cur.tool = "status" /\ ending = "COMPLETED" => state \in Seen
  PROVE  /\ cur' = Idle /\ cur.p \in Processes /\ row' \in [Processes -> Row]
         /\ \A p \in Processes : p # cur.p => row'[p] = row[p]
         /\ \/ row'[cur.p] = row[cur.p]
            \/ /\ cur.tool = "exec" /\ row[cur.p].state = "LAUNCHING"
               /\ row'[cur.p].state = IF ending = "COMPLETED" THEN "RUNNING" ELSE ending
            \/ /\ cur.tool = "status" /\ ending = "COMPLETED" /\ row[cur.p].state = "RUNNING"
               /\ row'[cur.p].state = state /\ state \in Seen
            \/ /\ cur.tool = "kill" /\ row[cur.p].state = "RUNNING"
               /\ row'[cur.p].state = "UNOBSERVABLE"
  <1>0. cur.p \in Processes /\ row \in [Processes -> Row] /\ row[cur.p] \in Row
    BY DEF PInv, InvocationIsInStep, ProcessTypeOK
  <1>1. PICK r : r = SettledRow(row[cur.p], cur.tool, ending, state, gen)
    OBVIOUS
  <1>2. row' = [row EXCEPT ![cur.p] = r] /\ cur' = Idle
    BY <1>1 DEF Record
  <1>3. /\ r \in Row
        /\ \/ r = row[cur.p]
           \/ /\ cur.tool = "exec" /\ row[cur.p].state = "LAUNCHING"
              /\ r.state = IF ending = "COMPLETED" THEN "RUNNING" ELSE ending
           \/ /\ cur.tool = "status" /\ ending = "COMPLETED" /\ row[cur.p].state = "RUNNING"
              /\ r.state = state /\ state \in Seen
           \/ /\ cur.tool = "kill" /\ row[cur.p].state = "RUNNING" /\ r.state = "UNOBSERVABLE"
    <2>1. CASE cur.tool = "exec" /\ row[cur.p].state = "LAUNCHING" /\ ending = "COMPLETED"
      BY <1>1, <2>1 DEF SettledRow, Row, Seen
    <2>2. CASE cur.tool = "exec" /\ row[cur.p].state = "LAUNCHING" /\ ending # "COMPLETED"
      BY <1>0, <1>1, <2>2 DEF SettledRow, Row, Seen
    <2>3. CASE cur.tool = "status" /\ ending = "COMPLETED" /\ row[cur.p].state = "RUNNING"
      BY <1>0, <1>1, <2>3 DEF SettledRow, Row, Seen
    <2>4. CASE cur.tool = "kill" /\ ending = "FAILED" /\ state = "UNOBSERVABLE" /\ row[cur.p].state = "RUNNING"
      BY <1>0, <1>1, <2>4 DEF SettledRow, Row, Seen
    <2>5. CASE /\ ~(cur.tool = "exec" /\ row[cur.p].state = "LAUNCHING")
               /\ ~(cur.tool = "status" /\ ending = "COMPLETED" /\ row[cur.p].state = "RUNNING")
               /\ ~(cur.tool = "kill" /\ ending = "FAILED" /\ state = "UNOBSERVABLE" /\ row[cur.p].state = "RUNNING")
      BY <1>0, <1>1, <2>5 DEF SettledRow
    <2>. QED BY <2>1, <2>2, <2>3, <2>4, <2>5
  <1>. QED BY <1>0, <1>2, <1>3

\* An invocation ends with a record that is true.
LEMMA Recorded ==
  ASSUME PInv, cur.st \in {"INTENT", "SENT"}, NEW ending \in {"COMPLETED", "FAILED", "UNKNOWN"},
         NEW state, NEW gen \in Nat, Record(ending, state, gen), UNCHANGED <<bound, ran, lives>>,
         cur.tool = "exec" /\ ending = "COMPLETED" => state = "RUNNING" /\ ran[cur.p] = "YES",
         cur.tool = "exec" /\ ending = "FAILED" => ran[cur.p] # "YES",
         cur.tool = "status" /\ ending = "COMPLETED" =>
            state \in Seen /\ (state \in {"EXITED", "SIGNALED"} => os'[cur.p] = "GONE"),
         table' \in [Processes -> Entry],
         os' \in [Processes -> Before \cup {"RUNS", "EXITED", "SIGNALED", "GONE"}],
         \A p \in Processes : Fades(p),
         \A p \in Processes : table'[p].life \in {"EXITED", "SIGNALED"} => os'[p] = "GONE",
         oper' = NoLaunch \/ (oper' = oper /\ os' = os /\ (cur.tool = "exec" => ~(oper.tool = "exec" /\ oper.p = cur.p)
                                                        \/ ending = "UNKNOWN"))
  PROVE  PInv'
  <1>1. /\ cur' = Idle /\ cur.p \in Processes /\ row' \in [Processes -> Row]
        /\ \A p \in Processes : p # cur.p => row'[p] = row[p]
        /\ \/ row'[cur.p] = row[cur.p]
           \/ /\ cur.tool = "exec" /\ row[cur.p].state = "LAUNCHING"
              /\ row'[cur.p].state = IF ending = "COMPLETED" THEN "RUNNING" ELSE ending
           \/ /\ cur.tool = "status" /\ ending = "COMPLETED" /\ row[cur.p].state = "RUNNING"
              /\ row'[cur.p].state = state /\ state \in Seen
           \/ /\ cur.tool = "kill" /\ row[cur.p].state = "RUNNING"
              /\ row'[cur.p].state = "UNOBSERVABLE"
    BY RecordRow
  <1>2. ProcessTypeOK'
    <2>1. Idle \in Invocation /\ NoLaunch \in Operation
      BY DEF Idle, Invocation, NoLaunch, Operation
    <2>. QED BY <1>1, <2>1 DEF PInv, ProcessTypeOK
  <1>3. InvocationIsInStep'
    BY <1>1 DEF InvocationIsInStep, Idle
  <1>4. JobIsInStep'
    <2>1. CASE oper' = NoLaunch
      BY <2>1 DEF JobIsInStep, NoLaunch
    <2>2. CASE oper' = oper /\ oper # NoLaunch
      <3>1. os' = os
        BY <2>2
      <3>2. oper.tool = "exec" => row'[oper.p].state \in {"LAUNCHING", "UNKNOWN"}
        BY <1>1, <2>2 DEF PInv, JobIsInStep, Seen
      <3>. QED BY <2>2, <3>1, <3>2 DEF PInv, JobIsInStep
    <2>. QED BY <2>1, <2>2
  <1>5. ASSUME NEW p \in Processes PROVE ProcessIsInStep(p)'
    <2>0. ProcessIsInStep(p) /\ Fades(p)
      BY DEF PInv
    <2>1. /\ os'[p] \in Before => ran'[p] = "NO"
          /\ os[p] = "GONE" => os'[p] = "GONE"
          /\ os'[p] # "NONE" => os[p] # "NONE"
      BY <2>0 DEF ProcessIsInStep, Fades, Before
    <2>2. CASE row'[p] = row[p]
      BY <2>0, <2>1, <2>2 DEF ProcessIsInStep
    <2>3. CASE row'[p] # row[p]
      BY <1>1, <2>0, <2>1, <2>3 DEF ProcessIsInStep, Seen
    <2>. QED BY <2>2, <2>3
  <1>6. KeysAreSpent'
    BY <1>1, KeysKept DEF Seen
  <1>. QED BY <1>2, <1>3, <1>4, <1>5, <1>6 DEF PInv

\* The broker answers, whether the authority waits or not.
LEMMA Answered ==
  ASSUME PInv, oper # NoLaunch, NEW ending \in {"COMPLETED", "FAILED", "UNKNOWN"},
         NEW state, NEW gen \in Nat, Answer(ending, state, gen), UNCHANGED <<bound, ran, lives>>,
         oper.tool = "exec" /\ ending = "COMPLETED" => state = "RUNNING" /\ ran[oper.p] = "YES",
         oper.tool = "exec" /\ ending = "FAILED" => ran[oper.p] # "YES",
         oper.tool = "status" /\ ending = "COMPLETED" =>
            state \in Seen /\ (state \in {"EXITED", "SIGNALED"} => os'[oper.p] = "GONE"),
         table' \in [Processes -> Entry],
         os' \in [Processes -> Before \cup {"RUNS", "EXITED", "SIGNALED", "GONE"}],
         \A p \in Processes : Fades(p),
         \A p \in Processes : table'[p].life \in {"EXITED", "SIGNALED"} => os'[p] = "GONE"
  PROVE  PInv'
  <1>1. CASE Awaited
    BY <1>1, Recorded DEF Answer, Awaited
  <1>2. CASE ~Awaited
    <2>0. oper' = NoLaunch /\ cur' = cur /\ row' = row
      BY <1>2 DEF Answer
    <2>1. cur.st # "SENT"
      BY <1>2 DEF PInv, InvocationIsInStep
    <2>2. InvocationIsInStep'
      BY <2>0, <2>1 DEF PInv, InvocationIsInStep, NoLaunch, Fades
    <2>3. JobIsInStep' /\ NoLaunch \in Operation
      BY <2>0 DEF JobIsInStep, NoLaunch, Operation
    <2>4. ProcessTypeOK'
      BY <2>0, <2>3 DEF PInv, ProcessTypeOK
    <2>5. ASSUME NEW p \in Processes PROVE ProcessIsInStep(p)'
      BY <2>0 DEF PInv, ProcessIsInStep, Fades, Before
    <2>. QED BY <2>0, <2>2, <2>3, <2>4, <2>5, KeysKept DEF PInv
  <1>. QED BY <1>1, <1>2

-----------------------------------------------------------------------------
(* The authority's steps *)

LEMMA LocateInv ==
  ASSUME PInv, NEW tool \in Tools, NEW q \in Processes \cup {NoProcess}, NEW key \in LaunchKeys,
         Locate(tool, q, key)
  PROVE  PInv'
  <1>0. UNCHANGED <<row, bound, oper, table, os, ran, lives>> /\ cur.st = "IDLE"
    BY DEF Locate
  <1>1. /\ cur'.st = "LOCATED" /\ cur'.tool = tool /\ cur'.p = q /\ cur' \in Invocation
        /\ tool # "exec" => q \in Processes
    <2>1. tool # "exec" => q \in Processes /\ row[q].gen \in Nat
      BY DEF Locate, PInv, ProcessTypeOK, Row
    <2>. QED BY <2>1 DEF Locate, Invocation
  <1>2. InvocationIsInStep'
    BY <1>1 DEF InvocationIsInStep
  <1>3. ProcessTypeOK'
    BY <1>0, <1>1 DEF PInv, ProcessTypeOK
  <1>4. JobIsInStep'
    BY <1>0 DEF PInv, JobIsInStep
  <1>5. ASSUME NEW p \in Processes PROVE ProcessIsInStep(p)'
    BY <1>0 DEF PInv, ProcessIsInStep
  <1>6. KeysAreSpent'
    BY <1>0, KeysKept
  <1>. QED BY <1>2, <1>3, <1>4, <1>5, <1>6 DEF PInv

LEMMA UndecidedInv == ASSUME PInv, Undecided PROVE PInv'
  <1>0. UNCHANGED <<row, bound, oper, table, os, ran, lives>> /\ cur' = Idle
    BY DEF Undecided
  <1>1. Idle \in Invocation /\ Idle.st = "IDLE"
    BY DEF Idle, Invocation
  <1>2. InvocationIsInStep'
    BY <1>0, <1>1 DEF InvocationIsInStep
  <1>3. ProcessTypeOK'
    BY <1>0, <1>1 DEF PInv, ProcessTypeOK
  <1>4. JobIsInStep'
    BY <1>0 DEF PInv, JobIsInStep
  <1>5. ASSUME NEW p \in Processes PROVE ProcessIsInStep(p)'
    BY <1>0 DEF PInv, ProcessIsInStep
  <1>6. KeysAreSpent'
    BY <1>0, KeysKept
  <1>. QED BY <1>2, <1>3, <1>4, <1>5, <1>6 DEF PInv

\* An intent: a launch takes a handle nothing is recorded of, and a key.
LEMMA IntendInv == ASSUME PInv, Intend PROVE PInv'
  <1>0. UNCHANGED <<oper, table, os, ran, lives>> /\ cur.st = "LOCATED" /\ cur.tool \in Tools
    BY DEF Intend, PInv, InvocationIsInStep
  <1>1. PICK q \in IF cur.tool = "exec" THEN {x \in Processes : row[x] = NoRow} ELSE {cur.p} :
            /\ cur' = [cur EXCEPT !.st = "INTENT", !.p = q]
            /\ row' = IF cur.tool = "exec" THEN Launching(q) ELSE row
    BY DEF Intend
  <1>2. q \in Processes /\ cur \in Invocation /\ row \in [Processes -> Row]
    BY <1>0, <1>1 DEF PInv, InvocationIsInStep, ProcessTypeOK
  <1>3. /\ cur'.st = "INTENT" /\ cur'.p = q /\ cur'.tool = cur.tool /\ cur' \in Invocation
    BY <1>1, <1>2 DEF Invocation
  <1>4. CASE cur.tool # "exec"
    <2>1. row' = row
      BY <1>1, <1>4
    <2>2. InvocationIsInStep'
      BY <1>0, <1>2, <1>3, <1>4 DEF InvocationIsInStep
    <2>3. ProcessTypeOK'
      BY <1>0, <1>3, <2>1 DEF PInv, ProcessTypeOK
    <2>4. JobIsInStep'
      BY <1>0, <2>1 DEF PInv, JobIsInStep
    <2>5. ASSUME NEW p \in Processes PROVE ProcessIsInStep(p)'
      BY <1>0, <2>1 DEF PInv, ProcessIsInStep
    <2>6. KeysAreSpent'
      <3>1. Launches' = Launches /\ (bound' = bound \/ (bound' = bound \cup {cur.key} /\ cur.key \notin bound))
        BY <2>1 DEF Launches, Intend, LaunchKeyBound
      <3>2. IsFiniteSet(bound) /\ IsFiniteSet(Launches) /\ Cardinality(Launches) <= Cardinality(bound)
        BY DEF PInv, KeysAreSpent
      <3>3. CASE bound' = bound
        BY <3>1, <3>2, <3>3 DEF KeysAreSpent
      <3>4. CASE bound' = bound \cup {cur.key} /\ cur.key \notin bound
        <4>1. IsFiniteSet(bound') /\ Cardinality(bound') = Cardinality(bound) + 1
          BY <3>2, <3>4, FS_AddElement
        <4>2. Cardinality(bound) \in Nat /\ Cardinality(Launches) \in Nat
          BY <3>2, FS_CardinalityType
        <4>. QED BY <3>1, <3>2, <4>1, <4>2 DEF KeysAreSpent
      <3>. QED BY <3>1, <3>3, <3>4
    <2>. QED BY <2>2, <2>3, <2>4, <2>5, <2>6 DEF PInv
  <1>5. CASE cur.tool = "exec"
    <2>1. row[q].state = "NONE" /\ row' = [row EXCEPT ![q].state = "LAUNCHING"]
      BY <1>1, <1>5 DEF NoRow, Launching
    <2>2. /\ row' \in [Processes -> Row] /\ row'[q].state = "LAUNCHING"
          /\ \A p \in Processes : p # q => row'[p] = row[p]
      BY <1>2, <2>1 DEF Row
    <2>3. os[q] = "NONE" /\ ran[q] = "NO" /\ ~(oper.tool = "exec" /\ oper.p = q)
      <3>1. os[q] = "NONE"
        BY <1>2, <2>1 DEF PInv, ProcessIsInStep
      <3>2. ran[q] = "NO"
        BY <1>2, <3>1 DEF PInv, ProcessIsInStep, Before
      <3>3. ~(oper.tool = "exec" /\ oper.p = q)
        BY <2>1 DEF PInv, JobIsInStep
      <3>. QED BY <3>1, <3>2, <3>3
    <2>4. InvocationIsInStep'
      BY <1>0, <1>2, <1>3, <2>2, <2>3 DEF InvocationIsInStep
    <2>5. ProcessTypeOK'
      BY <1>0, <1>3, <2>2 DEF PInv, ProcessTypeOK
    <2>6. JobIsInStep'
      <3>1. CASE oper = NoLaunch
        BY <1>0, <3>1 DEF JobIsInStep, NoLaunch
      <3>2. CASE oper # NoLaunch
        BY <1>0, <2>2, <2>3, <3>2 DEF PInv, JobIsInStep
      <3>. QED BY <3>1, <3>2
    <2>7. ASSUME NEW p \in Processes PROVE ProcessIsInStep(p)'
      <3>1. CASE p = q
        <4>1. table'[p].life \in {"EXITED", "SIGNALED"} => os'[p] = "GONE"
          BY <1>0 DEF PInv, ProcessIsInStep
        <4>. QED BY <1>0, <2>2, <2>3, <3>1, <4>1 DEF ProcessIsInStep, Seen
      <3>2. CASE p # q
        BY <1>0, <2>2, <3>2 DEF PInv, ProcessIsInStep
      <3>. QED BY <3>1, <3>2
    <2>8. KeysAreSpent'
      <3>1. Launches' = Launches \cup {q} /\ q \notin Launches
        BY <1>2, <2>1, <2>2 DEF Launches
      <3>2. bound' = bound \cup {cur.key} /\ cur.key \notin bound
        BY <1>5 DEF Intend, LaunchKeyBound, Binds, HasEffect
      <3>3. IsFiniteSet(bound) /\ IsFiniteSet(Launches) /\ Cardinality(Launches) <= Cardinality(bound)
        BY DEF PInv, KeysAreSpent
      <3>4. IsFiniteSet(bound') /\ Cardinality(bound') = Cardinality(bound) + 1
        BY <3>2, <3>3, FS_AddElement
      <3>5. IsFiniteSet(Launches') /\ Cardinality(Launches') = Cardinality(Launches) + 1
        BY <3>1, <3>3, FS_AddElement
      <3>6. Cardinality(bound) \in Nat /\ Cardinality(Launches) \in Nat
        BY <3>3, FS_CardinalityType
      <3>. QED BY <3>3, <3>4, <3>5, <3>6 DEF KeysAreSpent
    <2>. QED BY <2>4, <2>5, <2>6, <2>7, <2>8 DEF PInv
  <1>. QED BY <1>4, <1>5

\* Nothing was sent, and a launch that was not sent ran nothing.
LEMMA NotSentInv == ASSUME PInv, LaunchNotSent PROVE PInv'
  <1>0. UNCHANGED <<bound, oper, table, os, ran, lives>> /\ cur.st = "INTENT" /\ Record("FAILED", "NONE", 0)
    BY DEF LaunchNotSent
  <1>1. table' \in [Processes -> Entry] /\ os' \in [Processes -> Before \cup {"RUNS", "EXITED", "SIGNALED", "GONE"}]
    BY <1>0 DEF PInv, ProcessTypeOK
  <1>2. \A p \in Processes : Fades(p) /\ (table'[p].life \in {"EXITED", "SIGNALED"} => os'[p] = "GONE")
    BY <1>0 DEF PInv, ProcessIsInStep, Fades
  <1>3. cur.tool = "exec" => ran[cur.p] # "YES" /\ ~(oper.tool = "exec" /\ oper.p = cur.p)
    BY <1>0 DEF PInv, InvocationIsInStep, ProcessIsInStep, Before
  <1>. QED BY <1>0, <1>1, <1>2, <1>3, Recorded

LEMMA SendInv == ASSUME PInv, SendLaunch PROVE PInv'
  <1>0. UNCHANGED <<row, bound, table, os, ran, lives>> /\ cur.st = "INTENT" /\ cur \in Invocation
    BY DEF SendLaunch, PInv, ProcessTypeOK
  <1>1. /\ cur'.st = "SENT" /\ cur'.p = cur.p /\ cur'.tool = cur.tool /\ cur' \in Invocation
    BY <1>0 DEF SendLaunch, Invocation
  <1>2. /\ oper'.phase = "TAKEN" /\ oper'.tool = cur.tool /\ oper'.p = cur.p /\ oper'.heard = "NOTHING"
    BY DEF SendLaunch, NoLaunch
  <1>3. oper' \in Operation
    BY <1>0 DEF SendLaunch, NoLaunch, Operation, Invocation
  <1>4. InvocationIsInStep'
    BY <1>0, <1>1, <1>2 DEF PInv, InvocationIsInStep, Awaited
  <1>5. JobIsInStep'
    BY <1>0, <1>2 DEF PInv, InvocationIsInStep, JobIsInStep
  <1>6. ProcessTypeOK'
    BY <1>0, <1>1, <1>3 DEF PInv, ProcessTypeOK
  <1>7. ASSUME NEW p \in Processes PROVE ProcessIsInStep(p)'
    BY <1>0 DEF PInv, ProcessIsInStep
  <1>8. KeysAreSpent'
    BY <1>0, KeysKept
  <1>. QED BY <1>4, <1>5, <1>6, <1>7, <1>8 DEF PInv

\* A launch that is given up on may still run: it is of unknown outcome.
LEMMA GiveUpInv == ASSUME PInv, GiveUp PROVE PInv'
  <1>0. UNCHANGED <<bound, oper, table, os, ran, lives>> /\ cur.st = "SENT"
    BY DEF GiveUp
  <1>1. table' \in [Processes -> Entry] /\ os' \in [Processes -> Before \cup {"RUNS", "EXITED", "SIGNALED", "GONE"}]
    BY <1>0 DEF PInv, ProcessTypeOK
  <1>2. \A p \in Processes : Fades(p) /\ (table'[p].life \in {"EXITED", "SIGNALED"} => os'[p] = "GONE")
    BY <1>0 DEF PInv, ProcessIsInStep, Fades
  <1>3. CASE cur.tool = "status"
    BY <1>0, <1>1, <1>2, <1>3, Recorded DEF GiveUp, HasEffect
  <1>4. CASE cur.tool # "status"
    BY <1>0, <1>1, <1>2, <1>4, Recorded DEF GiveUp, HasEffect
  <1>. QED BY <1>3, <1>4

LEMMA RestartInv == ASSUME PInv, AuthorityRestarts PROVE PInv'
  <1>0. UNCHANGED <<bound, oper, table, os, ran>> /\ cur' = Idle
    BY DEF AuthorityRestarts
  <1>1. /\ row \in [Processes -> Row] /\ row' \in [Processes -> Row]
        /\ \A p \in Processes : \/ row'[p] = row[p]
                                \/ row[p].state = "LAUNCHING" /\ row'[p].state = "UNKNOWN"
    <2>1. row \in [Processes -> Row]
      BY DEF PInv, ProcessTypeOK
    <2>2. CASE cur.st \in {"INTENT", "SENT"} /\ cur.tool = "exec"
      <3>1. row' = [row EXCEPT ![cur.p].state = "UNKNOWN"]
        BY <2>2 DEF AuthorityRestarts
      <3>2. cur.p \in Processes /\ row[cur.p].state = "LAUNCHING"
        BY <2>2 DEF PInv, InvocationIsInStep
      <3>. QED BY <2>1, <3>1, <3>2 DEF Row
    <2>3. CASE ~(cur.st \in {"INTENT", "SENT"} /\ cur.tool = "exec")
      <3>1. row' = row
        BY <2>3 DEF AuthorityRestarts
      <3>. QED BY <2>1, <3>1
    <2>. QED BY <2>2, <2>3
  <1>2. Idle \in Invocation /\ Idle.st = "IDLE"
    BY DEF Idle, Invocation
  <1>3. InvocationIsInStep'
    BY <1>0, <1>2 DEF InvocationIsInStep
  <1>4. ProcessTypeOK'
    <2>1. lives' \in [authority : Nat, broker : Nat]
      BY DEF AuthorityRestarts, PInv, ProcessTypeOK
    <2>. QED BY <1>0, <1>1, <1>2, <2>1 DEF PInv, ProcessTypeOK
  <1>5. JobIsInStep'
    <2>1. CASE oper = NoLaunch
      BY <1>0, <2>1 DEF JobIsInStep, NoLaunch
    <2>2. CASE oper # NoLaunch
      <3>1. oper.p \in Processes
        BY <2>2 DEF PInv, JobIsInStep
      <3>2. oper.tool = "exec" => row'[oper.p].state \in {"LAUNCHING", "UNKNOWN"}
        BY <1>1, <3>1 DEF PInv, JobIsInStep
      <3>. QED BY <1>0, <3>2 DEF PInv, JobIsInStep
    <2>. QED BY <2>1, <2>2
  <1>6. ASSUME NEW p \in Processes PROVE ProcessIsInStep(p)'
    BY <1>0, <1>1 DEF PInv, ProcessIsInStep, Seen
  <1>7. KeysAreSpent'
    <2>1. \A p \in Processes : row'[p].state = "NONE" <=> row[p].state = "NONE"
      BY <1>1
    <2>. QED BY <1>0, <2>1, KeysKept
  <1>. QED BY <1>3, <1>4, <1>5, <1>6, <1>7 DEF PInv

-----------------------------------------------------------------------------
(* The broker's steps and the world's *)

LEMMA BrokerDiesInv == ASSUME PInv, LauncherDies PROVE PInv'
  <1>0. UNCHANGED <<cur, row, bound, ran>> /\ oper' = NoLaunch /\ table' = [p \in Processes |-> NoEntry]
    BY DEF LauncherDies
  <1>1. os' = [p \in Processes |-> IF os[p] = "NONE" THEN "NONE" ELSE "GONE"]
    BY DEF LauncherDies, Orphaned
  <1>2. NoLaunch \in Operation /\ NoEntry \in Entry /\ NoLaunch.tool # "exec" /\ NoEntry.life = "NONE"
    BY DEF NoLaunch, Operation, NoEntry, Entry
  <1>3. ProcessTypeOK'
    <2>1. lives' \in [authority : Nat, broker : Nat]
      BY DEF LauncherDies, PInv, ProcessTypeOK
    <2>2. os' \in [Processes -> Before \cup {"RUNS", "EXITED", "SIGNALED", "GONE"}]
      BY <1>1 DEF Before
    <2>. QED BY <1>0, <1>2, <2>1, <2>2 DEF PInv, ProcessTypeOK
  <1>4. InvocationIsInStep'
    BY <1>0, <1>1, <1>2 DEF PInv, InvocationIsInStep
  <1>5. JobIsInStep'
    BY <1>0 DEF JobIsInStep, NoLaunch
  <1>6. ASSUME NEW p \in Processes PROVE ProcessIsInStep(p)'
    <2>1. ProcessIsInStep(p) /\ os'[p] = (IF os[p] = "NONE" THEN "NONE" ELSE "GONE")
      BY <1>1 DEF PInv
    <2>2. table'[p].life = "NONE"
      BY <1>0, <1>2
    <2>. QED BY <1>0, <2>1, <2>2 DEF ProcessIsInStep, Before
  <1>7. KeysAreSpent'
    BY <1>0, KeysKept
  <1>. QED BY <1>3, <1>4, <1>5, <1>6, <1>7 DEF PInv

\* Room is made by giving up entries, of processes that have ended.
LEMMA RoomKeeps ==
  ASSUME PInv, NEW t \in Rooms \cup {table}
  PROVE  /\ t \in [Processes -> Entry]
         /\ \A p \in Processes : t[p] = table[p] \/ t[p] = NoEntry
  <1>0. table \in [Processes -> Entry] /\ NoEntry \in Entry
    BY DEF PInv, ProcessTypeOK, NoEntry, Entry
  <1>1. CASE t = table
    BY <1>0, <1>1
  <1>2. CASE t # table
    <2>1. PICK q \in Reaped : t = [table EXCEPT ![q] = NoEntry]
      BY <1>2 DEF Rooms
    <2>. QED BY <1>0, <2>1
  <1>. QED BY <1>1, <1>2

\* What holds of the broker's operation on a launch.
LEMMA JobHeld ==
  ASSUME PInv, oper.phase # "NONE"
  PROVE  /\ oper \in Operation /\ oper # NoLaunch /\ oper.p \in Processes /\ oper.tool \in Tools
         /\ os \in [Processes -> Before \cup {"RUNS", "EXITED", "SIGNALED", "GONE"}]
         /\ ran \in [Processes -> {"NO", "YES", "LATE"}]
         /\ table \in [Processes -> Entry] /\ ProcessIsInStep(oper.p)
  <1>1. oper # NoLaunch
    BY DEF NoLaunch
  <1>2. oper.p \in Processes /\ oper.tool \in Tools
    BY <1>1 DEF PInv, JobIsInStep
  <1>. QED BY <1>1, <1>2 DEF PInv, ProcessTypeOK

LEMMA LaunchRefusedInv == ASSUME PInv, LaunchRefused PROVE PInv'
  <1>0. oper.phase = "TAKEN" /\ oper.tool = "exec" /\ Answer("FAILED", "NONE", 0) /\ UNCHANGED <<bound, os, ran, lives>>
    BY DEF LaunchRefused
  <1>1. /\ oper # NoLaunch /\ oper.p \in Processes /\ ProcessIsInStep(oper.p)
        /\ os \in [Processes -> Before \cup {"RUNS", "EXITED", "SIGNALED", "GONE"}]
    BY <1>0, JobHeld
  <1>2. /\ table' \in [Processes -> Entry]
        /\ \A p \in Processes : table'[p] = table[p] \/ table'[p] = NoEntry
    BY RoomKeeps DEF LaunchRefused
  <1>3. \A p \in Processes : Fades(p) /\ (table'[p].life \in {"EXITED", "SIGNALED"} => os'[p] = "GONE")
    BY <1>0, <1>2 DEF PInv, ProcessIsInStep, Fades, NoEntry
  <1>4. ran[oper.p] # "YES"
    BY <1>0, <1>1 DEF PInv, JobIsInStep, ProcessIsInStep, Before
  <1>. QED BY <1>0, <1>1, <1>2, <1>3, <1>4, Answered

LEMMA SpawnHelperInv == ASSUME PInv, SpawnHelper PROVE PInv'
  <1>0. oper.phase = "TAKEN" /\ oper.tool = "exec" /\ Launched /\ UNCHANGED <<cur, row, bound, ran, lives>>
    BY DEF SpawnHelper
  <1>1. /\ oper \in Operation /\ oper # NoLaunch /\ oper.p \in Processes /\ ProcessIsInStep(oper.p)
        /\ os \in [Processes -> Before \cup {"RUNS", "EXITED", "SIGNALED", "GONE"}]
        /\ ran \in [Processes -> {"NO", "YES", "LATE"}]
    BY <1>0, JobHeld
  <1>2. /\ table' \in [Processes -> Entry]
        /\ \A p \in Processes : table'[p] = table[p] \/ table'[p] = NoEntry
    BY RoomKeeps DEF SpawnHelper
  <1>3. /\ os' \in [Processes -> Before \cup {"RUNS", "EXITED", "SIGNALED", "GONE"}]
        /\ os[oper.p] = "NONE" /\ os'[oper.p] = "HELPER" /\ ran[oper.p] = "NO"
        /\ row[oper.p].state # "NONE" /\ row[oper.p].state \in {"LAUNCHING", "UNKNOWN"}
        /\ \A p \in Processes : p # oper.p => os'[p] = os[p]
    BY <1>0, <1>1 DEF Launched, Before, PInv, JobIsInStep, ProcessIsInStep
  <1>4. /\ oper' \in Operation /\ oper'.phase = "HANDSHAKE" /\ oper'.p = oper.p /\ oper'.tool = oper.tool
        /\ oper'.heard = oper.heard
    BY <1>0, <1>1 DEF Launched, Operation
  <1>5. oper.heard = "NOTHING"
    BY <1>0 DEF PInv, JobIsInStep
  <1>6. JobIsInStep'
    <2>1. /\ oper'.p \in Processes /\ oper'.tool = "exec" /\ oper'.phase = "HANDSHAKE"
          /\ oper'.heard = "NOTHING" /\ os'[oper'.p] = "HELPER"
          /\ row'[oper'.p].state \in {"LAUNCHING", "UNKNOWN"}
      BY <1>0, <1>1, <1>3, <1>4, <1>5
    <2>. QED BY <2>1 DEF JobIsInStep, Tools
  <1>7. ASSUME NEW p \in Processes PROVE ProcessIsInStep(p)'
    <2>0. ProcessIsInStep(p) /\ (table'[p] = table[p] \/ table'[p].life = "NONE")
      BY <1>2 DEF PInv, NoEntry
    <2>1. CASE p = oper.p
      BY <1>0, <1>3, <2>0, <2>1 DEF ProcessIsInStep, Seen
    <2>2. CASE p # oper.p
      BY <1>0, <1>3, <2>0, <2>2 DEF ProcessIsInStep
    <2>. QED BY <2>1, <2>2
  <1>. QED BY <1>0, <1>1, <1>2, <1>3, <1>4, <1>6, <1>7, UnseenStep

LEMMA HelperFailsInv == ASSUME PInv, HelperFails PROVE PInv'
  <1>0. /\ oper.tool = "exec" /\ oper.phase \in {"HANDSHAKE", "ABANDON", "WAIT"}
        /\ UNCHANGED <<cur, row, bound, table, ran, lives>>
        /\ os[oper.p] \in {"HELPER", "MARKED", "MARKED_LATE"} /\ os' = [os EXCEPT ![oper.p] = "GONE"]
    BY DEF HelperFails, Helped
  <1>1. /\ oper \in Operation /\ oper # NoLaunch /\ oper.p \in Processes /\ ProcessIsInStep(oper.p)
        /\ os \in [Processes -> Before \cup {"RUNS", "EXITED", "SIGNALED", "GONE"}]
        /\ ran \in [Processes -> {"NO", "YES", "LATE"}] /\ table \in [Processes -> Entry]
    BY <1>0, JobHeld
  <1>2. /\ os' \in [Processes -> Before \cup {"RUNS", "EXITED", "SIGNALED", "GONE"}]
        /\ os'[oper.p] = "GONE" /\ ran[oper.p] = "NO"
        /\ \A p \in Processes : p # oper.p => os'[p] = os[p]
    BY <1>0, <1>1 DEF ProcessIsInStep, Before
  <1>3. /\ oper' \in Operation /\ oper'.p = oper.p /\ oper'.tool = oper.tool /\ oper'.phase = oper.phase
        /\ oper'.heard = IF oper.phase = "HANDSHAKE" THEN "FAILED" ELSE oper.heard
    BY <1>0, <1>1 DEF HelperFails, Operation
  <1>4. JobIsInStep'
    BY <1>0, <1>1, <1>2, <1>3 DEF PInv, JobIsInStep
  <1>5. ASSUME NEW p \in Processes PROVE ProcessIsInStep(p)'
    BY <1>0, <1>2 DEF PInv, ProcessIsInStep, Before
  <1>. QED BY <1>0, <1>1, <1>2, <1>3, <1>4, <1>5, UnseenStep

LEMMA HelperMarksInv == ASSUME PInv, HelperMarks PROVE PInv'
  <1>0. /\ oper.tool = "exec" /\ oper.phase \in {"HANDSHAKE", "ABANDON", "WAIT"}
        /\ UNCHANGED <<cur, row, bound, oper, table, ran, lives>>
        /\ os[oper.p] = "HELPER"
        /\ os' = [os EXCEPT ![oper.p] = IF oper.phase = "HANDSHAKE" THEN "MARKED" ELSE "MARKED_LATE"]
    BY DEF HelperMarks, Helped
  <1>1. /\ oper \in Operation /\ oper # NoLaunch /\ oper.p \in Processes /\ ProcessIsInStep(oper.p)
        /\ os \in [Processes -> Before \cup {"RUNS", "EXITED", "SIGNALED", "GONE"}]
        /\ ran \in [Processes -> {"NO", "YES", "LATE"}] /\ table \in [Processes -> Entry]
    BY <1>0, JobHeld
  <1>2. /\ os' \in [Processes -> Before \cup {"RUNS", "EXITED", "SIGNALED", "GONE"}]
        /\ os'[oper.p] = (IF oper.phase = "HANDSHAKE" THEN "MARKED" ELSE "MARKED_LATE") /\ ran[oper.p] = "NO"
        /\ \A p \in Processes : p # oper.p => os'[p] = os[p]
    BY <1>0, <1>1 DEF ProcessIsInStep, Before
  <1>4. JobIsInStep'
    BY <1>0, <1>1, <1>2 DEF PInv, JobIsInStep
  <1>5. ASSUME NEW p \in Processes PROVE ProcessIsInStep(p)'
    BY <1>0, <1>2 DEF PInv, ProcessIsInStep, Before
  <1>. QED BY <1>0, <1>1, <1>2, <1>4, <1>5, UnseenStep

\* What is executed while the handshake is read is heard of; what is executed after it was
\* judged was announced too late to be judged executed, or was judged of unknown outcome.
LEMMA HelperExecutesInv == ASSUME PInv, HelperExecutes PROVE PInv'
  <1>0. /\ oper.tool = "exec" /\ oper.phase \in {"HANDSHAKE", "ABANDON", "WAIT"}
        /\ UNCHANGED <<cur, row, bound, table, lives>>
        /\ os[oper.p] \in {"MARKED", "MARKED_LATE"} /\ os' = [os EXCEPT ![oper.p] = "RUNS"]
        /\ ran' = [ran EXCEPT ![oper.p] = IF os[oper.p] = "MARKED" THEN "YES" ELSE "LATE"]
    BY DEF HelperExecutes, Helped
  <1>1. /\ oper \in Operation /\ oper # NoLaunch /\ oper.p \in Processes /\ ProcessIsInStep(oper.p)
        /\ os \in [Processes -> Before \cup {"RUNS", "EXITED", "SIGNALED", "GONE"}]
        /\ ran \in [Processes -> {"NO", "YES", "LATE"}] /\ table \in [Processes -> Entry]
    BY <1>0, JobHeld
  <1>2. /\ os' \in [Processes -> Before \cup {"RUNS", "EXITED", "SIGNALED", "GONE"}]
        /\ os'[oper.p] = "RUNS"
        /\ \A p \in Processes : p # oper.p => os'[p] = os[p] /\ ran'[p] = ran[p]
    BY <1>0, <1>1
  <1>3. /\ ran' \in [Processes -> {"NO", "YES", "LATE"}]
        /\ ran'[oper.p] = IF os[oper.p] = "MARKED" THEN "YES" ELSE "LATE"
    BY <1>0, <1>1
  <1>4. /\ oper' \in Operation /\ oper'.p = oper.p /\ oper'.tool = oper.tool /\ oper'.phase = oper.phase
        /\ oper'.heard = IF oper.phase = "HANDSHAKE" THEN "EXECUTED" ELSE oper.heard
    BY <1>0, <1>1 DEF HelperExecutes, Operation
  <1>5. /\ oper.phase = "HANDSHAKE" => os[oper.p] = "MARKED"
        /\ oper.phase \in {"ABANDON", "WAIT"} /\ oper.heard = "FAILED" => os[oper.p] # "MARKED"
        /\ row[oper.p].state \in {"LAUNCHING", "UNKNOWN"}
    BY <1>0 DEF PInv, JobIsInStep
  <1>6. JobIsInStep'
    BY <1>0, <1>1, <1>2, <1>3, <1>4, <1>5 DEF PInv, JobIsInStep
  <1>7. ASSUME NEW p \in Processes PROVE ProcessIsInStep(p)'
    <2>1. CASE p = oper.p
      BY <1>0, <1>1, <1>2, <1>3, <1>5, <2>1 DEF ProcessIsInStep, Before, Seen
    <2>2. CASE p # oper.p
      BY <1>0, <1>2, <2>2 DEF PInv, ProcessIsInStep
    <2>. QED BY <2>1, <2>2
  <1>. QED BY <1>0, <1>1, <1>2, <1>3, <1>4, <1>6, <1>7, UnseenStep

LEMMA HandshakeLateInv == ASSUME PInv, HandshakeLate PROVE PInv'
  <1>0. /\ oper.phase = "HANDSHAKE" /\ oper.heard = "NOTHING" /\ UNCHANGED <<cur, row, bound, table, os, ran, lives>>
        /\ oper' = [oper EXCEPT !.phase = "ABANDON", !.heard = JudgedLate(os[oper.p])]
    BY DEF HandshakeLate
  <1>1. /\ oper \in Operation /\ oper # NoLaunch /\ oper.p \in Processes /\ ProcessIsInStep(oper.p)
        /\ os \in [Processes -> Before \cup {"RUNS", "EXITED", "SIGNALED", "GONE"}]
        /\ ran \in [Processes -> {"NO", "YES", "LATE"}] /\ table \in [Processes -> Entry]
    BY <1>0, JobHeld
  <1>2. /\ oper' \in Operation /\ oper'.p = oper.p /\ oper'.tool = oper.tool /\ oper'.phase = "ABANDON"
        /\ oper'.heard = IF os[oper.p] = "MARKED" THEN "UNKNOWN" ELSE "FAILED"
    BY <1>0, <1>1 DEF JudgedLate, Operation
  <1>3. os[oper.p] \in {"HELPER", "MARKED"} /\ ran[oper.p] = "NO" /\ oper.tool = "exec"
    BY <1>0, <1>1 DEF PInv, JobIsInStep, ProcessIsInStep, Before
  <1>4. JobIsInStep'
    BY <1>0, <1>1, <1>2, <1>3 DEF PInv, JobIsInStep
  <1>5. ASSUME NEW p \in Processes PROVE ProcessIsInStep(p)'
    BY <1>0 DEF PInv, ProcessIsInStep
  <1>. QED BY <1>0, <1>1, <1>2, <1>4, <1>5, UnseenStep

\* A target's end, taken or not, changes nothing that was heard.
LEMMA EndStep ==
  ASSUME PInv, UNCHANGED <<cur, row, bound, oper, ran, lives>>, NEW q \in Processes,
         os[q] \in {"RUNS", "EXITED", "SIGNALED"}, NEW end \in {"RUNS", "EXITED", "SIGNALED", "GONE"},
         os' = [os EXCEPT ![q] = end], table' \in [Processes -> Entry],
         \A p \in Processes : p # q => table'[p] = table[p],
         table'[q].life \in {"EXITED", "SIGNALED"} => end = "GONE"
  PROVE  PInv'
  <1>1. /\ os \in [Processes -> Before \cup {"RUNS", "EXITED", "SIGNALED", "GONE"}]
        /\ ran \in [Processes -> {"NO", "YES", "LATE"}] /\ oper \in Operation
    BY DEF PInv, ProcessTypeOK
  <1>2. /\ os' \in [Processes -> Before \cup {"RUNS", "EXITED", "SIGNALED", "GONE"}]
        /\ os'[q] = end /\ \A p \in Processes : p # q => os'[p] = os[p]
    BY <1>1
  <1>3. JobIsInStep'
    <2>1. CASE oper.p = q
      BY <1>2, <2>1 DEF PInv, JobIsInStep
    <2>2. CASE oper.p # q /\ oper # NoLaunch
      <3>1. os'[oper.p] = os[oper.p]
        BY <1>2, <2>2 DEF PInv, JobIsInStep
      <3>. QED BY <3>1 DEF PInv, JobIsInStep
    <2>3. CASE oper = NoLaunch
      BY <2>3 DEF JobIsInStep, NoLaunch
    <2>. QED BY <2>1, <2>2, <2>3
  <1>4. ASSUME NEW p \in Processes PROVE ProcessIsInStep(p)'
    <2>1. CASE p = q
      BY <1>2, <2>1 DEF PInv, ProcessIsInStep, Before
    <2>2. CASE p # q
      BY <1>2, <2>2 DEF PInv, ProcessIsInStep
    <2>. QED BY <2>1, <2>2
  <1>. QED BY <1>1, <1>2, <1>3, <1>4, UnseenStep

LEMMA ExitsInv == ASSUME PInv, NEW p \in Processes, Exits(p) PROVE PInv'
  <1>1. table' \in [Processes -> Entry] /\ table' = table /\ os[p] = "RUNS"
    BY DEF Exits, PInv, ProcessTypeOK
  <1>2. table'[p].life \notin {"EXITED", "SIGNALED"}
    BY <1>1 DEF PInv, ProcessIsInStep
  <1>. QED BY <1>1, <1>2, EndStep DEF Exits

LEMMA ReapInv == ASSUME PInv, NEW p \in Processes, Reap(p) PROVE PInv'
  <1>0. /\ table \in [Processes -> Entry] /\ table[p].life = "RUNNING"
        /\ table[p] \in [life : {"RUNNING", "EXITED", "SIGNALED"}, timedOut : BOOLEAN]
    <2>1. table \in [Processes -> Entry] /\ table[p].life = "RUNNING"
      BY DEF PInv, ProcessTypeOK, Reap
    <2>. QED BY <2>1 DEF Entry, NoEntry
  <1>1. table' \in [Processes -> Entry] /\ \A q \in Processes : q # p => table'[q] = table[q]
    BY <1>0 DEF Reap, Entry
  <1>. QED BY <1>1, EndStep DEF Reap

LEMMA WallClockInv == ASSUME PInv, NEW p \in Processes, WallClock(p) PROVE PInv'
  <1>0. /\ table \in [Processes -> Entry] /\ table[p].life = "RUNNING"
        /\ table[p] \in [life : {"RUNNING", "EXITED", "SIGNALED"}, timedOut : BOOLEAN]
    <2>1. table \in [Processes -> Entry] /\ table[p].life = "RUNNING"
      BY DEF PInv, ProcessTypeOK, WallClock
    <2>. QED BY <2>1 DEF Entry, NoEntry
  <1>1. /\ table' \in [Processes -> Entry] /\ \A q \in Processes : q # p => table'[q] = table[q]
        /\ table'[p].life = "RUNNING"
    BY <1>0 DEF WallClock, Entry
  <1>2. PICK end \in {"RUNS", "EXITED", "SIGNALED"} : os' = [os EXCEPT ![p] = end]
    BY DEF WallClock
  <1>. QED BY <1>1, <1>2, EndStep DEF WallClock

\* An answer that leaves the kernel and the table alone, or ends what the operation names.
LEMMA AnswerKeeps ==
  ASSUME PInv, oper.phase # "NONE", UNCHANGED table,
         \/ os' = os
         \/ \E end \in {"EXITED", "SIGNALED"} : os[oper.p] = "RUNS" /\ os' = [os EXCEPT ![oper.p] = end]
         \/ os[oper.p] # "NONE" /\ os' = [os EXCEPT ![oper.p] = "GONE"]
  PROVE  /\ table' \in [Processes -> Entry]
         /\ os' \in [Processes -> Before \cup {"RUNS", "EXITED", "SIGNALED", "GONE"}]
         /\ \A p \in Processes : Fades(p)
         /\ \A p \in Processes : table'[p].life \in {"EXITED", "SIGNALED"} => os'[p] = "GONE"
  <1>1. /\ oper.p \in Processes /\ table \in [Processes -> Entry]
        /\ os \in [Processes -> Before \cup {"RUNS", "EXITED", "SIGNALED", "GONE"}]
    BY JobHeld
  <1>2. \A p \in Processes : table[p].life \in {"EXITED", "SIGNALED"} => os[p] = "GONE"
    BY DEF PInv, ProcessIsInStep
  <1>3. CASE os' = os
    BY <1>1, <1>2, <1>3 DEF Fades
  <1>4. ASSUME NEW end \in {"EXITED", "SIGNALED"}, os[oper.p] = "RUNS", os' = [os EXCEPT ![oper.p] = end]
        PROVE  /\ os' \in [Processes -> Before \cup {"RUNS", "EXITED", "SIGNALED", "GONE"}]
               /\ \A p \in Processes : Fades(p)
               /\ \A p \in Processes : table'[p].life \in {"EXITED", "SIGNALED"} => os'[p] = "GONE"
    BY <1>1, <1>2, <1>4 DEF Fades, Before
  <1>5. CASE os[oper.p] # "NONE" /\ os' = [os EXCEPT ![oper.p] = "GONE"]
    BY <1>1, <1>2, <1>5 DEF Fades, Before
  <1>. QED BY <1>1, <1>3, <1>4, <1>5

LEMMA LaunchFailsInv == ASSUME PInv, LaunchFails PROVE PInv'
  <1>0. /\ oper.phase = "HANDSHAKE" /\ oper.heard = "FAILED" /\ Answer("FAILED", "NONE", 0)
        /\ UNCHANGED <<bound, table, os, ran, lives>>
    BY DEF LaunchFails
  <1>1. oper # NoLaunch
    BY <1>0, JobHeld
  <1>2. ran[oper.p] = "NO" /\ oper.tool = "exec"
    BY <1>0 DEF PInv, JobIsInStep
  <1>3. /\ table' \in [Processes -> Entry]
        /\ os' \in [Processes -> Before \cup {"RUNS", "EXITED", "SIGNALED", "GONE"}]
        /\ \A p \in Processes : Fades(p)
        /\ \A p \in Processes : table'[p].life \in {"EXITED", "SIGNALED"} => os'[p] = "GONE"
    BY <1>0, AnswerKeeps
  <1>. QED BY <1>0, <1>1, <1>2, <1>3, Answered

\* The signal reaches the helper or the target, or it does not.
LEMMA AbandonInv == ASSUME PInv, AbandonLaunch PROVE PInv'
  <1>0. /\ oper.phase = "ABANDON" /\ oper' = [oper EXCEPT !.phase = "WAIT"]
        /\ UNCHANGED <<cur, row, bound, table, ran, lives>>
    BY DEF AbandonLaunch
  <1>1. /\ oper \in Operation /\ oper # NoLaunch /\ oper.p \in Processes /\ ProcessIsInStep(oper.p)
        /\ os \in [Processes -> Before \cup {"RUNS", "EXITED", "SIGNALED", "GONE"}]
        /\ ran \in [Processes -> {"NO", "YES", "LATE"}] /\ table \in [Processes -> Entry]
    BY <1>0, JobHeld
  <1>2. /\ oper' \in Operation /\ oper'.p = oper.p /\ oper'.tool = oper.tool /\ oper'.phase = "WAIT"
        /\ oper'.heard = oper.heard
    BY <1>0, <1>1 DEF Operation
  <1>3. PICK o \in {os[oper.p], AfterKill(os[oper.p])} : os' = [os EXCEPT ![oper.p] = o]
    BY DEF AbandonLaunch
  <1>4. /\ oper.tool = "exec" /\ os[oper.p] # "NONE" /\ oper.heard \in {"FAILED", "UNKNOWN"}
        /\ oper.heard = "FAILED" => os[oper.p] # "MARKED" /\ ran[oper.p] # "YES"
        /\ row[oper.p].state \in {"LAUNCHING", "UNKNOWN"}
    BY <1>0 DEF PInv, JobIsInStep
  <1>5. /\ o = os[oper.p] \/ o \in {"SIGNALED", "GONE"}
        /\ os[oper.p] = "GONE" => o = "GONE"
    BY <1>3 DEF AfterKill
  <1>6. /\ os' \in [Processes -> Before \cup {"RUNS", "EXITED", "SIGNALED", "GONE"}]
        /\ os'[oper.p] = o /\ \A p \in Processes : p # oper.p => os'[p] = os[p]
    BY <1>1, <1>3, <1>5
  <1>7. JobIsInStep'
    BY <1>0, <1>1, <1>2, <1>4, <1>5, <1>6 DEF PInv, JobIsInStep
  <1>8. ASSUME NEW p \in Processes PROVE ProcessIsInStep(p)'
    <2>1. CASE p = oper.p
      BY <1>0, <1>1, <1>4, <1>5, <1>6, <2>1 DEF ProcessIsInStep, Before
    <2>2. CASE p # oper.p
      BY <1>0, <1>6, <2>2 DEF PInv, ProcessIsInStep
    <2>. QED BY <2>1, <2>2
  <1>9. \A p \in Processes : os[p] = "NONE" => os'[p] = "NONE" \/ (oper.tool = "exec" /\ oper.p = p)
    BY <1>4, <1>6
  <1>. QED BY <1>0, <1>1, <1>2, <1>6, <1>7, <1>8, <1>9, UnseenStep

LEMMA WaitedInv == ASSUME PInv, Waited PROVE PInv'
  <1>0. /\ oper.phase = "WAIT" /\ Answer(oper.heard, "NONE", 0)
        /\ UNCHANGED <<bound, table, ran, lives>> /\ os' = [os EXCEPT ![oper.p] = "GONE"]
    BY DEF Waited
  <1>1. oper # NoLaunch
    BY <1>0, JobHeld
  <1>2. /\ oper.tool = "exec" /\ os[oper.p] # "NONE" /\ oper.heard \in {"FAILED", "UNKNOWN"}
        /\ oper.heard = "FAILED" => ran[oper.p] # "YES"
    BY <1>0 DEF PInv, JobIsInStep
  <1>3. /\ table' \in [Processes -> Entry]
        /\ os' \in [Processes -> Before \cup {"RUNS", "EXITED", "SIGNALED", "GONE"}]
        /\ \A p \in Processes : Fades(p)
        /\ \A p \in Processes : table'[p].life \in {"EXITED", "SIGNALED"} => os'[p] = "GONE"
    BY <1>0, <1>2, AnswerKeeps
  <1>4. CASE oper.heard = "FAILED"
    BY <1>0, <1>1, <1>2, <1>3, <1>4, Answered
  <1>5. CASE oper.heard = "UNKNOWN"
    BY <1>0, <1>1, <1>2, <1>3, <1>5, Answered
  <1>. QED BY <1>2, <1>4, <1>5

LEMMA SuperviseInv == ASSUME PInv, Supervise PROVE PInv'
  <1>0. /\ oper.phase = "HANDSHAKE" /\ oper.heard = "EXECUTED" /\ Answer("COMPLETED", "RUNNING", lives.broker)
        /\ UNCHANGED <<bound, os, ran, lives>>
        /\ table' = [table EXCEPT ![oper.p] = [life |-> "RUNNING", timedOut |-> FALSE]]
    BY DEF Supervise
  <1>1. /\ oper # NoLaunch /\ oper.p \in Processes /\ table \in [Processes -> Entry]
        /\ os \in [Processes -> Before \cup {"RUNS", "EXITED", "SIGNALED", "GONE"}]
    BY <1>0, JobHeld
  <1>2. ran[oper.p] = "YES" /\ oper.tool = "exec"
    BY <1>0 DEF PInv, JobIsInStep
  <1>3. /\ table' \in [Processes -> Entry] /\ table'[oper.p].life = "RUNNING"
        /\ \A p \in Processes : p # oper.p => table'[p] = table[p]
    BY <1>0, <1>1 DEF Entry
  <1>4. \A p \in Processes : Fades(p) /\ (table'[p].life \in {"EXITED", "SIGNALED"} => os'[p] = "GONE")
    BY <1>0, <1>3 DEF PInv, ProcessIsInStep, Fades
  <1>5. lives.broker \in Nat
    BY DEF PInv, ProcessTypeOK
  <1>. QED BY <1>0, <1>1, <1>2, <1>3, <1>4, <1>5, Answered

LEMMA UnsupervisedInv == ASSUME PInv, Unsupervised PROVE PInv'
  <1>0. /\ oper.phase = "HANDSHAKE" /\ oper.heard = "EXECUTED"
        /\ oper' = [oper EXCEPT !.phase = "ABANDON", !.heard = "UNKNOWN"]
        /\ UNCHANGED <<cur, row, bound, table, os, ran, lives>>
    BY DEF Unsupervised
  <1>1. /\ oper \in Operation /\ oper # NoLaunch /\ oper.p \in Processes
        /\ os \in [Processes -> Before \cup {"RUNS", "EXITED", "SIGNALED", "GONE"}]
        /\ ran \in [Processes -> {"NO", "YES", "LATE"}] /\ table \in [Processes -> Entry]
    BY <1>0, JobHeld
  <1>2. /\ oper' \in Operation /\ oper'.p = oper.p /\ oper'.tool = oper.tool /\ oper'.phase = "ABANDON"
        /\ oper'.heard = "UNKNOWN"
    BY <1>0, <1>1 DEF Operation
  <1>3. JobIsInStep'
    BY <1>0, <1>1, <1>2 DEF PInv, JobIsInStep
  <1>4. ASSUME NEW p \in Processes PROVE ProcessIsInStep(p)'
    BY <1>0 DEF PInv, ProcessIsInStep
  <1>. QED BY <1>0, <1>1, <1>2, <1>3, <1>4, UnseenStep

LEMMA StatusGoneInv == ASSUME PInv, StatusGone PROVE PInv'
  <1>0. /\ oper.phase = "TAKEN" /\ oper.tool = "status" /\ Answer("COMPLETED", "UNOBSERVABLE", 0)
        /\ UNCHANGED <<bound, table, os, ran, lives>>
    BY DEF StatusGone
  <1>1. oper # NoLaunch
    BY <1>0, JobHeld
  <1>3. /\ table' \in [Processes -> Entry]
        /\ os' \in [Processes -> Before \cup {"RUNS", "EXITED", "SIGNALED", "GONE"}]
        /\ \A p \in Processes : Fades(p)
        /\ \A p \in Processes : table'[p].life \in {"EXITED", "SIGNALED"} => os'[p] = "GONE"
    BY <1>0, AnswerKeeps
  <1>. QED BY <1>0, <1>1, <1>3, Answered DEF Seen

\* A status tells the end that was taken, and what was taken is gone.
LEMMA StatusInv == ASSUME PInv, Status PROVE PInv'
  <1>0. /\ oper.phase = "TAKEN" /\ oper.tool = "status" /\ Found
        /\ UNCHANGED <<bound, table, os, ran, lives>>
    BY DEF Status
  <1>1. oper # NoLaunch /\ oper.p \in Processes /\ ProcessIsInStep(oper.p) /\ table[oper.p] \in Entry
    BY <1>0, JobHeld
  <1>2. /\ table' \in [Processes -> Entry]
        /\ os' \in [Processes -> Before \cup {"RUNS", "EXITED", "SIGNALED", "GONE"}]
        /\ \A p \in Processes : Fades(p)
        /\ \A p \in Processes : table'[p].life \in {"EXITED", "SIGNALED"} => os'[p] = "GONE"
    BY <1>0, AnswerKeeps
  <1>3. PICK ending : ending = IF Observed(Snapshot(oper.p)) THEN "COMPLETED" ELSE "FAILED"
    OBVIOUS
  <1>4. PICK state : state = table[oper.p].life
    OBVIOUS
  <1>5. Answer(ending, state, 0) /\ ending \in {"COMPLETED", "FAILED"}
    <2>1. Snapshot(oper.p).state = table[oper.p].life
      BY DEF Snapshot
    <2>2. Answer(IF Observed(Snapshot(oper.p)) THEN "COMPLETED" ELSE "FAILED", Snapshot(oper.p).state, 0)
      BY DEF Status
    <2>. QED BY <1>3, <1>4, <2>1, <2>2
  <1>6. ending = "COMPLETED" => state \in Seen /\ (state \in {"EXITED", "SIGNALED"} => os'[oper.p] = "GONE")
    BY <1>0, <1>1, <1>4 DEF ProcessIsInStep, Found, Entry, Seen
  <1>. QED BY <1>0, <1>1, <1>2, <1>5, <1>6, Answered

LEMMA KillGoneInv == ASSUME PInv, KillGone PROVE PInv'
  <1>0. /\ oper.phase = "TAKEN" /\ oper.tool = "kill" /\ Answer("FAILED", "UNOBSERVABLE", 0)
        /\ UNCHANGED <<bound, table, os, ran, lives>>
    BY DEF KillGone
  <1>1. oper # NoLaunch
    BY <1>0, JobHeld
  <1>3. /\ table' \in [Processes -> Entry]
        /\ os' \in [Processes -> Before \cup {"RUNS", "EXITED", "SIGNALED", "GONE"}]
        /\ \A p \in Processes : Fades(p)
        /\ \A p \in Processes : table'[p].life \in {"EXITED", "SIGNALED"} => os'[p] = "GONE"
    BY <1>0, AnswerKeeps
  <1>. QED BY <1>0, <1>1, <1>3, Answered

LEMMA KillInv == ASSUME PInv, Kill PROVE PInv'
  <1>0. /\ oper.phase = "TAKEN" /\ oper.tool = "kill" /\ Answer("COMPLETED", "NONE", 0)
        /\ UNCHANGED <<bound, table, ran, lives>>
    BY DEF Kill
  <1>1. oper # NoLaunch
    BY <1>0, JobHeld
  <1>2. \/ os' = os
        \/ \E end \in {"EXITED", "SIGNALED"} : os[oper.p] = "RUNS" /\ os' = [os EXCEPT ![oper.p] = end]
    BY DEF Kill
  <1>3. /\ table' \in [Processes -> Entry]
        /\ os' \in [Processes -> Before \cup {"RUNS", "EXITED", "SIGNALED", "GONE"}]
        /\ \A p \in Processes : Fades(p)
        /\ \A p \in Processes : table'[p].life \in {"EXITED", "SIGNALED"} => os'[p] = "GONE"
    BY <1>0, <1>2, AnswerKeeps
  <1>. QED BY <1>0, <1>1, <1>3, Answered

LEMMA KillUnconfirmedInv == ASSUME PInv, KillUnconfirmed PROVE PInv'
  <1>0. /\ oper.phase = "TAKEN" /\ oper.tool = "kill" /\ Answer("UNKNOWN", "NONE", 0)
        /\ UNCHANGED <<bound, table, ran, lives>> /\ os[oper.p] = "RUNS"
    BY DEF KillUnconfirmed
  <1>1. oper # NoLaunch /\ os \in [Processes -> Before \cup {"RUNS", "EXITED", "SIGNALED", "GONE"}]
    BY <1>0, JobHeld
  <1>2. \/ os' = os
        \/ \E end \in {"EXITED", "SIGNALED"} : os[oper.p] = "RUNS" /\ os' = [os EXCEPT ![oper.p] = end]
    <2>1. PICK end \in {"RUNS", "EXITED", "SIGNALED"} : os' = [os EXCEPT ![oper.p] = end]
      BY DEF KillUnconfirmed
    <2>2. CASE end = "RUNS"
      BY <1>0, <1>1, <2>1, <2>2
    <2>3. CASE end # "RUNS"
      BY <1>0, <2>1, <2>3
    <2>. QED BY <2>2, <2>3
  <1>3. /\ table' \in [Processes -> Entry]
        /\ os' \in [Processes -> Before \cup {"RUNS", "EXITED", "SIGNALED", "GONE"}]
        /\ \A p \in Processes : Fades(p)
        /\ \A p \in Processes : table'[p].life \in {"EXITED", "SIGNALED"} => os'[p] = "GONE"
    BY <1>0, <1>2, AnswerKeeps
  <1>. QED BY <1>0, <1>1, <1>3, Answered

-----------------------------------------------------------------------------
(* The theorem *)

LEMMA ProcessNextInv == PInv /\ [ProcessNext]_processVars => PInv'
  <1>. SUFFICES ASSUME PInv, [ProcessNext]_processVars PROVE PInv'
    OBVIOUS
  <1>1. CASE UNCHANGED processVars
    <2>1. UNCHANGED <<cur, row, bound, oper, table, os, ran, lives>>
      BY <1>1 DEF processVars
    <2>2. ProcessTypeOK' /\ InvocationIsInStep' /\ JobIsInStep'
      BY <2>1 DEF PInv, ProcessTypeOK, InvocationIsInStep, JobIsInStep, Awaited
    <2>3. ASSUME NEW p \in Processes PROVE ProcessIsInStep(p)'
      BY <2>1 DEF PInv, ProcessIsInStep
    <2>. QED BY <2>1, <2>2, <2>3, KeysKept DEF PInv
  <1>2. CASE \E tool \in Tools, p \in Processes \cup {NoProcess}, key \in LaunchKeys : Locate(tool, p, key)
    BY <1>2, LocateInv
  <1>3. CASE Undecided \/ Intend \/ LaunchNotSent \/ SendLaunch \/ GiveUp \/ AuthorityRestarts \/ LauncherDies
    BY <1>3, UndecidedInv, IntendInv, NotSentInv, SendInv, GiveUpInv, RestartInv, BrokerDiesInv
  <1>4. CASE Broker
    BY <1>4, LaunchRefusedInv, SpawnHelperInv, HelperFailsInv, HelperMarksInv, HelperExecutesInv,
       LaunchFailsInv, HandshakeLateInv, AbandonInv, WaitedInv, SuperviseInv, UnsupervisedInv, StatusGoneInv,
       StatusInv, KillGoneInv, KillInv, KillUnconfirmedInv DEF Broker
  <1>5. CASE \E p \in Processes : Exits(p) \/ Reap(p) \/ WallClock(p)
    BY <1>5, ExitsInv, ReapInv, WallClockInv
  <1>. QED BY <1>1, <1>2, <1>3, <1>4, <1>5 DEF ProcessNext

LEMMA ProcessInvariant == ProcessSpec => []PInv
  BY ProcessInitInv, ProcessNextInv, PTL DEF ProcessSpec

\* Whatever the authority gives up on, whenever the handshake is judged late and however often
\* either daemon dies: a launch recorded FAILED executed nothing that was announced before the
\* broker judged it, one recorded RUNNING or ended was executed, an end recorded is the end of a
\* target that is gone, and no more targets are executed than keys were bound (launch.rs and
\* supervise.rs of the broker; classify, settle_process and reconcile_open of the authority).
THEOREM LaunchRecordsAreTrue == ProcessSpec => []LaunchRecordTellsTheTruth
  <1>1. PInv => LaunchRecordTellsTheTruth
    <2>. SUFFICES ASSUME PInv PROVE LaunchRecordTellsTheTruth
      OBVIOUS
    <2>1. \A p \in Processes : ProcessIsInStep(p)
      BY DEF PInv
    <2>2. Cardinality({q \in Processes : ran[q] # "NO"}) <= Cardinality(bound)
      <3>1. {q \in Processes : ran[q] # "NO"} \subseteq Launches
        BY <2>1 DEF Launches, ProcessIsInStep, Before
      <3>2. IsFiniteSet(Launches) /\ IsFiniteSet(bound) /\ Cardinality(Launches) <= Cardinality(bound)
        BY DEF PInv, KeysAreSpent
      <3>3. /\ IsFiniteSet({q \in Processes : ran[q] # "NO"})
            /\ Cardinality({q \in Processes : ran[q] # "NO"}) <= Cardinality(Launches)
        BY <3>1, <3>2, FS_Subset
      <3>4. /\ Cardinality({q \in Processes : ran[q] # "NO"}) \in Nat
            /\ Cardinality(Launches) \in Nat /\ Cardinality(bound) \in Nat
        BY <3>2, <3>3, FS_CardinalityType
      <3>. QED BY <3>2, <3>3, <3>4
    <2>. QED BY <2>1, <2>2 DEF LaunchRecordTellsTheTruth, ProcessIsInStep, Seen
  <1>. QED BY <1>1, ProcessInvariant, PTL

-----------------------------------------------------------------------------
(* ExecWalk: the executable resolver                                       *)

\* The names and objects a resolution has gone through.
Frame == [name : {s[2] : s \in Slots}, object : Objects]
\* The directory the i-th of them was looked up in.
DirOf(stack, i) == IF i = 1 THEN SLASH ELSE stack[i - 1].object
Resolving == {"OPEN", "HASH", "HASHING", "REVERIFY", "RESOLVED", "BOUND", "GIVEN"}
Hashed == {"REVERIFY", "RESOLVED", "BOUND", "GIVEN"}

WalkTypeOK ==
    /\ tree \in [Slots -> Objects \cup {NONE}] /\ writable \in [Objects -> BOOLEAN]
    /\ touched \in BOOLEAN
    /\ walk = [at |-> walk.at, pending |-> walk.pending, stack |-> walk.stack,
               symlinks |-> walk.symlinks, leaf |-> walk.leaf, name |-> walk.name,
               before |-> walk.before, digest |-> walk.digest, checked |-> walk.checked]
    /\ walk.digest = [first |-> walk.digest.first, last |-> walk.digest.last]
    /\ walk.stack \in Seq(Frame)
    /\ walk.at \in {"IDLE", "WALK"} \cup Resolving
    /\ walk.at \in Resolving => walk.leaf \in Files

\* No other uid can move what was walked through, nor write what was found: from "/" on, every
\* directory is trusted and binds the next.
WalkStands ==
    walk.at # "IDLE" /\ ~touched =>
        /\ TrustedDirectory(SLASH)
        /\ \A i \in 1 .. Len(walk.stack) :
              /\ TrustedDirectory(walk.stack[i].object)
              /\ Bound(DirOf(walk.stack, i), walk.stack[i].name) = walk.stack[i].object
FileStands ==
    walk.at \in Resolving /\ ~touched =>
        /\ TrustedFile(walk.leaf) /\ StillNamed(walk)
        /\ walk.at \in {"HASHING"} \cup Hashed => walk.digest.first = content[walk.leaf]
        /\ walk.at \in Hashed => walk.digest.last = content[walk.leaf]
WalkInv == WalkTypeOK /\ WalkStands /\ FileStands

LEMMA TopOf ==
  ASSUME NEW stack \in Seq(Frame), NEW i \in 1 .. Len(stack)
  PROVE  Top(SubSeq(stack, 1, i - 1)) = DirOf(stack, i)
  <1>1. CASE i = 1
    <2>1. SubSeq(stack, 1, i - 1) = <<>>
      BY <1>1, SubSeqProperties
    <2>. QED BY <1>1, <2>1 DEF Top, DirOf
  <1>2. CASE i # 1
    <2>1. /\ SubSeq(stack, 1, i - 1) \in Seq(Frame) /\ Len(SubSeq(stack, 1, i - 1)) = i - 1
          /\ SubSeq(stack, 1, i - 1)[i - 1] = stack[i - 1]
      BY <1>2, SubSeqProperties
    <2>2. SubSeq(stack, 1, i - 1) # <<>>
      BY <1>2, <2>1
    <2>. QED BY <1>2, <2>1, <2>2 DEF Top, DirOf, Last
  <1>. QED BY <1>1, <1>2

LEMMA DirsAre ==
  ASSUME WalkConstants, NEW stack \in Seq(Frame), NEW i \in 1 .. Len(stack)
  PROVE  stack[i].object \in Objects /\ DirOf(stack, i) \in Objects
  <1>1. \A j \in 1 .. Len(stack) : stack[j].object \in Objects
    <2>1. \A f \in Frame : f.object \in Objects
      BY DEF Frame
    <2>. QED BY <2>1
  <1>2. SLASH \in Objects
    BY DEF WalkConstants
  <1>3. i # 1 => i - 1 \in 1 .. Len(stack)
    OBVIOUS
  <1>. QED BY <1>1, <1>2, <1>3 DEF DirOf

\* The directory a walk is in.
LEMMA TopIs ==
  ASSUME NEW stack \in Seq(Frame)
  PROVE  Top(stack) = IF stack = <<>> THEN SLASH ELSE stack[Len(stack)].object
  BY DEF Top, Last

LEMMA WalkInitInv == ASSUME WalkConstants PROVE ExecInit => WalkInv
  <1>. SUFFICES ASSUME ExecInit PROVE WalkInv
    OBVIOUS
  <1>1. /\ tree \in [Slots -> Objects \cup {NONE}] /\ writable \in [Objects -> BOOLEAN]
        /\ touched = FALSE /\ walk = NoWalk
    BY DEF ExecInit, WalkConstants
  <1>2. /\ NoWalk.at = "IDLE" /\ NoWalk.stack = <<>> /\ NoWalk.stack \in Seq(Frame)
    BY DEF NoWalk
  <1>3. WalkTypeOK
    BY <1>1, <1>2 DEF WalkTypeOK, NoWalk, Resolving
  <1>. QED BY <1>1, <1>2, <1>3 DEF WalkInv, WalkStands, FileStands, Resolving

\* What another uid may do: nothing to the modes of a trusted owner's objects, to the bytes of
\* a trusted file, or to a trusted directory's name of such an object.
LEMMA OthersKeep ==
  ASSUME WalkConstants, WalkTypeOK, Others, ~touched'
  PROVE  /\ ~touched
         /\ \A d \in Objects : TrustedDirectory(d) => TrustedDirectory(d)'
         /\ \A f \in Files : TrustedFile(f) => TrustedFile(f)' /\ content'[f] = content[f]
         /\ \A d \in Objects, o \in Objects : \A n :
              TrustedDirectory(d) /\ Owner[o] = "TRUSTED" /\ Bound(d, n) = o => Bound(d, n)' = o
  <1>0. /\ tree \in [Slots -> Objects \cup {NONE}] /\ writable \in [Objects -> BOOLEAN] /\ NONE \notin Objects
    BY DEF WalkTypeOK, WalkConstants
  <1>1. CASE \E f \in Files : WriteFile(f, FALSE)
    <2>1. PICK f \in Files : WriteFile(f, FALSE)
      BY <1>1
    <2>2. /\ tree' = tree /\ writable' = writable /\ ~touched
          /\ content' = [content EXCEPT ![f] = 3 - @] /\ (Owner[f] = "OTHER" \/ writable[f])
      BY <2>1 DEF WriteFile, Changed, MayWriteFile
    <2>3. \A d \in Objects : TrustedDirectory(d) => TrustedDirectory(d)'
      BY <2>2 DEF TrustedDirectory
    <2>4. \A g \in Files : TrustedFile(g) => TrustedFile(g)' /\ content'[g] = content[g]
      BY <2>2 DEF TrustedFile
    <2>5. \A d, n : Bound(d, n)' = Bound(d, n)
      BY <2>2 DEF Bound
    <2>. QED BY <2>2, <2>3, <2>4, <2>5
  <1>2. CASE \E o \in Objects : Chmod(o, FALSE)
    <2>1. PICK o \in Objects : Chmod(o, FALSE)
      BY <1>2
    <2>2. /\ tree' = tree /\ content' = content /\ ~touched /\ Owner[o] = "OTHER"
          /\ \A x \in Objects : x # o => writable'[x] = writable[x]
      BY <1>0, <2>1 DEF Chmod, Changed
    <2>3. \A d \in Objects : TrustedDirectory(d) => TrustedDirectory(d)'
      BY <2>2 DEF TrustedDirectory
    <2>4. \A g \in Files : TrustedFile(g) => TrustedFile(g)' /\ content'[g] = content[g]
      BY <2>2 DEF TrustedFile, Files
    <2>5. \A d, n : Bound(d, n)' = Bound(d, n)
      BY <2>2 DEF Bound
    <2>. QED BY <2>2, <2>3, <2>4, <2>5
  <1>3. CASE \E from, to \in Slots : Rename(from, to, FALSE)
    <2>1. PICK from \in Slots, to \in Slots : Rename(from, to, FALSE)
      BY <1>3
    <2>2. /\ writable' = writable /\ content' = content /\ ~touched
          /\ tree' = [tree EXCEPT ![to] = tree[from], ![from] = NONE]
          /\ MayMove(from[1], tree[from], FALSE) /\ MayMove(to[1], tree[to], FALSE)
      BY <2>1 DEF Rename, Changed
    <2>3. \A d \in Objects : TrustedDirectory(d) => TrustedDirectory(d)'
      BY <2>2 DEF TrustedDirectory
    <2>4. \A g \in Files : TrustedFile(g) => TrustedFile(g)' /\ content'[g] = content[g]
      BY <2>2 DEF TrustedFile
    <2>5. \A s \in Slots : s # from /\ s # to => tree'[s] = tree[s]
      BY <1>0, <2>2
    <2>6. ASSUME NEW d \in Objects, NEW o \in Objects, NEW n,
                 TrustedDirectory(d), Owner[o] = "TRUSTED", Bound(d, n) = o
          PROVE  Bound(d, n)' = o
      <3>1. <<d, n>> \in Slots /\ tree[<<d, n>>] = o
        BY <1>0, <2>6 DEF Bound
      <3>2. ASSUME NEW s \in Slots, MayMove(s[1], tree[s], FALSE) PROVE s # <<d, n>>
        <4>. SUFFICES ASSUME s = <<d, n>> PROVE FALSE
          OBVIOUS
        <4>1. MayMove(d, o, FALSE)
          BY <3>1, <3>2
        <4>2. Owner[d] = "TRUSTED" /\ (writable[d] => d \in Sticky)
          BY <2>6 DEF TrustedDirectory
        <4>3. o \in Theirs
          BY <4>1, <4>2 DEF MayMove, MayWriteFile
        <4>. QED BY <1>0, <2>6, <4>3 DEF Theirs
      <3>3. tree'[<<d, n>>] = o
        BY <2>2, <2>5, <3>1, <3>2
      <3>. QED BY <3>1, <3>3 DEF Bound
    <2>. QED BY <2>2, <2>3, <2>4, <2>6
  <1>4. \/ \E f \in Files : WriteFile(f, FALSE)
        \/ \E o \in Objects : Chmod(o, FALSE)
        \/ \E from, to \in Slots : Rename(from, to, FALSE)
    <2>1. PICK trusted \in BOOLEAN :
            \/ \E f \in Files : WriteFile(f, trusted)
            \/ \E o \in Objects : Chmod(o, trusted)
            \/ \E from, to \in Slots : Rename(from, to, trusted)
      BY DEF Others
    <2>2. trusted = FALSE
      BY <2>1 DEF WriteFile, Chmod, Rename, Changed
    <2>. QED BY <2>1, <2>2
  <1>. QED BY <1>1, <1>2, <1>3, <1>4

LEMMA OthersTypes ==
  ASSUME WalkConstants, WalkTypeOK, Others
  PROVE  WalkTypeOK' /\ walk' = walk
  <1>1. PICK trusted \in BOOLEAN :
            \/ \E f \in Files : WriteFile(f, trusted)
            \/ \E o \in Objects : Chmod(o, trusted)
            \/ \E from, to \in Slots : Rename(from, to, trusted)
    BY DEF Others
  <1>2. walk' = walk /\ touched' \in BOOLEAN
    BY <1>1 DEF WriteFile, Chmod, Rename, Changed, WalkTypeOK
  <1>3. tree' \in [Slots -> Objects \cup {NONE}] /\ writable' \in [Objects -> BOOLEAN]
    <2>0. tree \in [Slots -> Objects \cup {NONE}] /\ writable \in [Objects -> BOOLEAN]
      BY DEF WalkTypeOK
    <2>1. CASE \E f \in Files : WriteFile(f, trusted)
      BY <2>0, <2>1 DEF WriteFile
    <2>2. CASE \E o \in Objects : Chmod(o, trusted)
      BY <2>0, <2>2 DEF Chmod
    <2>3. CASE \E from, to \in Slots : Rename(from, to, trusted)
      BY <2>0, <2>3 DEF Rename
    <2>. QED BY <1>1, <2>1, <2>2, <2>3
  <1>. QED BY <1>2, <1>3 DEF WalkTypeOK

LEMMA OthersInv == ASSUME WalkConstants, WalkInv, Others PROVE WalkInv'
  <1>0. WalkTypeOK' /\ walk' = walk /\ WalkTypeOK
    BY OthersTypes DEF WalkInv
  <1>1. CASE touched'
    BY <1>0, <1>1 DEF WalkInv, WalkStands, FileStands
  <1>2. CASE ~touched'
    <2>0. /\ ~touched
          /\ \A d \in Objects : TrustedDirectory(d) => TrustedDirectory(d)'
          /\ \A f \in Files : TrustedFile(f) => TrustedFile(f)' /\ content'[f] = content[f]
          /\ \A d \in Objects, o \in Objects : \A n :
               TrustedDirectory(d) /\ Owner[o] = "TRUSTED" /\ Bound(d, n) = o => Bound(d, n)' = o
      BY <1>0, <1>2, OthersKeep
    <2>1. PICK stack, leaf, name, at :
              stack = walk.stack /\ leaf = walk.leaf /\ name = walk.name /\ at = walk.at
      OBVIOUS
    <2>2. stack \in Seq(Frame) /\ SLASH \in Objects
      BY <1>0, <2>1 DEF WalkTypeOK, WalkConstants
    <2>3. ASSUME at # "IDLE", NEW i \in 1 .. Len(stack)
          PROVE  /\ TrustedDirectory(stack[i].object)'
                 /\ Bound(DirOf(stack, i), stack[i].name)' = stack[i].object
      <3>1. /\ TrustedDirectory(stack[i].object) /\ TrustedDirectory(DirOf(stack, i))
            /\ Bound(DirOf(stack, i), stack[i].name) = stack[i].object
        BY <2>0, <2>1, <2>2, <2>3 DEF WalkInv, WalkStands, DirOf
      <3>2. PICK d, o, n : d = DirOf(stack, i) /\ o = stack[i].object /\ n = stack[i].name
        OBVIOUS
      <3>3. d \in Objects /\ o \in Objects
        BY <2>2, <3>2, DirsAre
      <3>4. Owner[o] = "TRUSTED"
        BY <3>1, <3>2 DEF TrustedDirectory
      <3>5. TrustedDirectory(o)' /\ Bound(d, n)' = o
        BY <2>0, <3>1, <3>2, <3>3, <3>4
      <3>. QED BY <3>2, <3>5
    <2>4. WalkStands'
      <3>1. at # "IDLE" => TrustedDirectory(SLASH)'
        BY <2>0, <2>1, <2>2 DEF WalkInv, WalkStands
      <3>. QED BY <1>0, <2>1, <2>3, <3>1 DEF WalkStands
    <2>5. FileStands'
      <3>. SUFFICES ASSUME at \in Resolving PROVE FileStands'
        BY <1>0, <2>1 DEF FileStands
      <3>1. leaf \in Files /\ leaf \in Objects
        BY <1>0, <2>1 DEF WalkTypeOK, Files
      <3>2. TrustedFile(leaf) /\ Bound(Top(stack), name) = leaf
        BY <2>0, <2>1 DEF WalkInv, FileStands, StillNamed
      <3>3. PICK d : d = Top(stack)
        OBVIOUS
      <3>4. d \in Objects /\ TrustedDirectory(d)
        <4>1. CASE stack = <<>>
          BY <2>0, <2>1, <2>2, <3>3, <4>1, TopIs DEF WalkInv, WalkStands, Resolving
        <4>2. CASE stack # <<>>
          <5>1. Len(stack) \in 1 .. Len(stack)
            BY <2>2, <4>2
          <5>2. d = stack[Len(stack)].object /\ d \in Objects
            BY <2>2, <3>3, <4>2, <5>1, TopIs, DirsAre
          <5>3. at # "IDLE"
            BY DEF Resolving
          <5>. QED BY <2>0, <2>1, <5>1, <5>2, <5>3 DEF WalkInv, WalkStands
        <4>. QED BY <4>1, <4>2
      <3>5. Owner[leaf] = "TRUSTED"
        BY <3>2 DEF TrustedFile
      <3>6. Bound(d, name)' = leaf /\ TrustedFile(leaf)' /\ content'[leaf] = content[leaf]
        BY <2>0, <3>1, <3>2, <3>3, <3>4, <3>5
      <3>7. StillNamed(walk)'
        BY <1>0, <2>1, <3>3, <3>6 DEF StillNamed
      <3>. QED BY <1>0, <2>0, <2>1, <3>6, <3>7 DEF WalkInv, FileStands
    <2>. QED BY <1>0, <2>4, <2>5 DEF WalkInv
  <1>. QED BY <1>1, <1>2

\* The invariant of a resolution j in the present filesystem.
Shaped(j) ==
    /\ j = [at |-> j.at, pending |-> j.pending, stack |-> j.stack,
            symlinks |-> j.symlinks, leaf |-> j.leaf, name |-> j.name,
            before |-> j.before, digest |-> j.digest, checked |-> j.checked]
    /\ j.digest = [first |-> j.digest.first, last |-> j.digest.last]
    /\ j.stack \in Seq(Frame)
    /\ j.at \in {"IDLE", "WALK"} \cup Resolving
    /\ j.at \in Resolving => j.leaf \in Files
StackStands(j) ==
    j.at # "IDLE" /\ ~touched =>
        /\ TrustedDirectory(SLASH)
        /\ \A i \in 1 .. Len(j.stack) :
              /\ TrustedDirectory(j.stack[i].object)
              /\ Bound(DirOf(j.stack, i), j.stack[i].name) = j.stack[i].object
LeafStands(j) ==
    j.at \in Resolving /\ ~touched =>
        /\ TrustedFile(j.leaf) /\ StillNamed(j)
        /\ j.at \in {"HASHING"} \cup Hashed => j.digest.first = content[j.leaf]
        /\ j.at \in Hashed => j.digest.last = content[j.leaf]

\* A resolver's step changes the resolution and nothing else, so what holds of the new one
\* in the present filesystem holds of it in the next.
LEMMA StepInv ==
  ASSUME WalkInv, NEW j, Step(j), Shaped(j), StackStands(j), LeafStands(j)
  PROVE  WalkInv'
  <1>1. /\ walk' = j /\ tree' = tree /\ writable' = writable /\ content' = content
        /\ touched' = touched
    BY DEF Step
  <1>2. WalkTypeOK'
    BY <1>1 DEF WalkInv, WalkTypeOK, Shaped
  <1>3. \A d : TrustedDirectory(d)' = TrustedDirectory(d)
    BY <1>1 DEF TrustedDirectory
  <1>4. \A f : TrustedFile(f)' = TrustedFile(f)
    BY <1>1 DEF TrustedFile
  <1>5. \A d, n : Bound(d, n)' = Bound(d, n)
    BY <1>1 DEF Bound
  <1>6. WalkStands'
    BY <1>1, <1>3, <1>5 DEF WalkStands, StackStands
  <1>7. FileStands'
    <2>1. StillNamed(walk)' = StillNamed(j)
      BY <1>1, <1>5 DEF StillNamed
    <2>. QED BY <1>1, <1>4, <2>1 DEF FileStands, LeafStands
  <1>. QED BY <1>2, <1>6, <1>7 DEF WalkInv

LEMMA PresentStands ==
  ASSUME WalkInv PROVE Shaped(walk) /\ StackStands(walk) /\ LeafStands(walk)
  BY DEF WalkInv, WalkTypeOK, WalkStands, FileStands, Shaped, StackStands, LeafStands

LEMMA RefuseInv == ASSUME WalkInv, Step(NoWalk) PROVE WalkInv'
  <1>1. NoWalk.at = "IDLE" /\ NoWalk.at \notin Resolving
    BY DEF NoWalk, Resolving
  <1>2. NoWalk.stack \in Seq(Frame)
    BY DEF NoWalk
  <1>3. Shaped(NoWalk)
    BY <1>1, <1>2 DEF Shaped, NoWalk
  <1>4. StackStands(NoWalk) /\ LeafStands(NoWalk)
    BY <1>1 DEF StackStands, LeafStands
  <1>. QED BY <1>3, <1>4, StepInv

\* A step on that keeps the stack, the leaf and its name.
LEMMA OnwardInv ==
  ASSUME WalkInv, NEW j, Step(j), Shaped(j), walk.at \in Resolving, j.at \in Resolving,
         j.stack = walk.stack, j.leaf = walk.leaf, j.name = walk.name,
         j.at \in {"HASHING"} \cup Hashed /\ ~touched => j.digest.first = content[j.leaf],
         j.at \in Hashed /\ ~touched => j.digest.last = content[j.leaf]
  PROVE  WalkInv'
  <1>1. StackStands(walk) /\ LeafStands(walk)
    BY PresentStands
  <1>2. walk.at # "IDLE" /\ j.at # "IDLE"
    BY DEF Resolving
  <1>3. StackStands(j)
    BY <1>1, <1>2 DEF StackStands
  <1>4. StillNamed(j) = StillNamed(walk)
    BY DEF StillNamed
  <1>5. LeafStands(j)
    BY <1>1, <1>4 DEF LeafStands
  <1>. QED BY <1>3, <1>5, StepInv

LEMMA ResolveInv ==
  ASSUME WalkConstants, WalkInv, NEW request, WalkResolve(request) PROVE WalkInv'
  <1>1. CASE Step(NoWalk)
    BY <1>1, RefuseInv
  <1>2. CASE ~Step(NoWalk)
    <2>1. /\ walk' = [NoWalk EXCEPT !.at = "WALK", !.pending = request.parts]
          /\ TrustedDirectory(SLASH) /\ touched' = FALSE
          /\ tree' = tree /\ writable' = writable
      BY <1>2 DEF WalkResolve, Refuse
    <2>2. walk' = [at |-> "WALK", pending |-> request.parts, stack |-> <<>>, symlinks |-> 0,
                   leaf |-> NONE, name |-> NONE, before |-> 0,
                   digest |-> [first |-> 0, last |-> 0], checked |-> 0]
      BY <2>1 DEF NoWalk
    <2>3. walk'.at = "WALK" /\ walk'.stack = <<>> /\ walk'.stack \in Seq(Frame)
      BY <2>2
    <2>4. "WALK" \notin Resolving
      BY DEF Resolving
    <2>5. WalkTypeOK'
      <3>1. PICK j : j = walk'
        OBVIOUS
      <3>2. Shaped(j)
        BY <2>2, <2>3, <2>4, <3>1 DEF Shaped
      <3>. QED BY <2>1, <3>1, <3>2 DEF WalkInv, WalkTypeOK, Shaped
    <2>6. WalkStands'
      <3>1. TrustedDirectory(SLASH)'
        BY <2>1 DEF TrustedDirectory
      <3>2. Len(walk'.stack) = 0
        BY <2>3
      <3>. QED BY <3>1, <3>2 DEF WalkStands
    <2>. QED BY <2>3, <2>4, <2>5, <2>6 DEF WalkInv, FileStands
  <1>. QED BY <1>1, <1>2

LEMMA PopParentInv == ASSUME WalkInv, PopParent PROVE WalkInv'
  <1>0. Shaped(walk) /\ StackStands(walk)
    BY PresentStands
  <1>1. PICK j : j = [walk EXCEPT !.pending = Tail(@), !.stack = IF @ = <<>> THEN @ ELSE Front(@)]
    OBVIOUS
  <1>2. Step(j) /\ walk.at = "WALK"
    BY <1>1 DEF PopParent
  <1>3. walk.stack \in Seq(Frame)
    BY <1>0 DEF Shaped
  <1>4. /\ j.stack \in Seq(Frame) /\ Len(j.stack) <= Len(walk.stack)
        /\ \A i \in 1 .. Len(j.stack) : j.stack[i] = walk.stack[i]
    <2>1. j.stack = IF walk.stack = <<>> THEN walk.stack ELSE Front(walk.stack)
      BY <1>0, <1>1 DEF Shaped
    <2>2. CASE walk.stack = <<>>
      BY <1>3, <2>1, <2>2
    <2>3. CASE walk.stack # <<>>
      BY <1>3, <2>1, <2>3 DEF Front
    <2>. QED BY <2>2, <2>3
  <1>5. "WALK" \notin Resolving
    BY DEF Resolving
  <1>6. Shaped(j)
    BY <1>0, <1>1, <1>2, <1>4, <1>5 DEF Shaped
  <1>7. j.at = "WALK"
    BY <1>0, <1>1, <1>2 DEF Shaped
  <1>8. StackStands(j)
    <2>1. \A i \in 1 .. Len(j.stack) :
            i \in 1 .. Len(walk.stack) /\ DirOf(j.stack, i) = DirOf(walk.stack, i)
      BY <1>3, <1>4 DEF DirOf
    <2>. QED BY <1>0, <1>2, <1>4, <1>7, <2>1 DEF StackStands
  <1>9. LeafStands(j)
    BY <1>5, <1>7 DEF LeafStands
  <1>. QED BY <1>2, <1>6, <1>8, <1>9, StepInv

LEMMA FollowInv ==
  ASSUME WalkInv, walk.at = "WALK", NEW link, NEW rest, Follow(link, rest) PROVE WalkInv'
  <1>0. Shaped(walk) /\ StackStands(walk)
    BY PresentStands
  <1>1. CASE Step(NoWalk)
    BY <1>1, RefuseInv
  <1>2. CASE ~Step(NoWalk)
    <2>1. PICK j : j = [walk EXCEPT !.symlinks = @ + 1, !.pending = LinkSegments(link) \o rest,
                                    !.stack = IF Target[link].absolute THEN <<>> ELSE @]
      OBVIOUS
    <2>2. Step(j)
      BY <1>2, <2>1 DEF Follow, Refuse
    <2>3. j.stack = (IF Target[link].absolute THEN <<>> ELSE walk.stack) /\ j.at = "WALK"
      BY <1>0, <2>1 DEF Shaped
    <2>4. "WALK" \notin Resolving
      BY DEF Resolving
    <2>5. j.stack \in Seq(Frame)
      BY <1>0, <2>3 DEF Shaped
    <2>6. Shaped(j)
      BY <1>0, <2>1, <2>3, <2>4, <2>5 DEF Shaped
    <2>7. StackStands(j)
      <3>1. CASE Target[link].absolute
        <4>1. Len(j.stack) = 0
          BY <2>3, <3>1
        <4>. QED BY <1>0, <4>1 DEF StackStands
      <3>2. CASE ~Target[link].absolute
        BY <1>0, <2>3, <3>2 DEF StackStands
      <3>. QED BY <3>1, <3>2
    <2>. QED BY <2>2, <2>3, <2>4, <2>6, <2>7, StepInv DEF LeafStands
  <1>. QED BY <1>1, <1>2

\* The file found, and named in the directory the walk is in.
LEMMA ArriveInv ==
  ASSUME WalkInv, walk.at = "WALK", NEW f \in Files, NEW name, Bound(Top(walk.stack), name) = f,
         Arrive(f, name)
  PROVE  WalkInv'
  <1>0. Shaped(walk) /\ StackStands(walk)
    BY PresentStands
  <1>1. CASE Step(NoWalk)
    BY <1>1, RefuseInv
  <1>2. CASE ~Step(NoWalk)
    <2>1. PICK j : j = [walk EXCEPT !.at = "OPEN", !.pending = <<>>, !.leaf = f, !.name = name,
                                    !.before = content[f]]
      OBVIOUS
    <2>2. Step(j) /\ TrustedFile(f)
      BY <1>2, <2>1 DEF Arrive, Refuse
    <2>3. j.stack = walk.stack /\ j.at = "OPEN" /\ j.leaf = f /\ j.name = name
      BY <1>0, <2>1 DEF Shaped
    <2>4. "OPEN" \in Resolving /\ "OPEN" \notin {"HASHING"} \cup Hashed
      BY DEF Resolving, Hashed
    <2>5. Shaped(j)
      BY <1>0, <2>1, <2>3, <2>4 DEF Shaped
    <2>6. StackStands(j)
      BY <1>0, <2>3 DEF StackStands
    <2>7. LeafStands(j)
      BY <2>2, <2>3, <2>4 DEF LeafStands, StillNamed
    <2>. QED BY <2>2, <2>5, <2>6, <2>7, StepInv
  <1>. QED BY <1>1, <1>2

\* A directory entered: trusted, and bound where it was looked up.
LEMMA EnterInv ==
  ASSUME WalkConstants, WalkInv, walk.at = "WALK", NEW name, NEW child, NEW rest,
         Bound(Top(walk.stack), name) = child, child # NONE, TrustedDirectory(child),
         Step([walk EXCEPT !.pending = rest,
                           !.stack = Append(@, [name |-> name, object |-> child])])
  PROVE  WalkInv'
  <1>0. Shaped(walk) /\ StackStands(walk)
    BY PresentStands
  <1>1. PICK j : j = [walk EXCEPT !.pending = rest,
                                  !.stack = Append(@, [name |-> name, object |-> child])]
    OBVIOUS
  <1>2. PICK f : f = [name |-> name, object |-> child]
    OBVIOUS
  <1>3. Step(j) /\ j.stack = Append(walk.stack, f) /\ j.at = "WALK"
    BY <1>0, <1>1, <1>2 DEF Shaped
  <1>4. f \in Frame
    <2>1. <<Top(walk.stack), name>> \in Slots /\ child = tree[<<Top(walk.stack), name>>]
      BY DEF Bound
    <2>2. tree \in [Slots -> Objects \cup {NONE}]
      BY DEF WalkInv, WalkTypeOK
    <2>3. child \in Objects
      BY <2>1, <2>2
    <2>4. name \in {s[2] : s \in Slots}
      BY <2>1
    <2>. QED BY <1>2, <2>3, <2>4 DEF Frame
  <1>5. PICK n, m : n = Len(walk.stack) /\ m = n + 1
    OBVIOUS
  <1>6. /\ walk.stack \in Seq(Frame) /\ j.stack \in Seq(Frame) /\ n \in Nat /\ Len(j.stack) = m
        /\ j.stack[m] = f /\ \A i \in 1 .. n : j.stack[i] = walk.stack[i]
    BY <1>0, <1>3, <1>4, <1>5 DEF Shaped
  <1>7. "WALK" \notin Resolving
    BY DEF Resolving
  <1>8. Shaped(j)
    BY <1>0, <1>1, <1>3, <1>6, <1>7 DEF Shaped
  <1>9. StackStands(j)
    <2>. SUFFICES ASSUME ~touched, NEW i \in 1 .. m
                  PROVE  /\ TrustedDirectory(SLASH) /\ TrustedDirectory(j.stack[i].object)
                         /\ Bound(DirOf(j.stack, i), j.stack[i].name) = j.stack[i].object
      <3>1. 1 \in 1 .. m
        BY <1>5, <1>6
      <3>. QED BY <1>6, <3>1 DEF StackStands
    <2>1. TrustedDirectory(SLASH)
      BY <1>0 DEF StackStands
    <2>2. CASE i \in 1 .. n
      <3>1. DirOf(j.stack, i) = DirOf(walk.stack, i)
        BY <1>6, <2>2 DEF DirOf
      <3>. QED BY <1>0, <1>5, <1>6, <2>1, <2>2, <3>1 DEF StackStands
    <2>3. CASE i = m
      <3>1. f.object = child /\ f.name = name
        BY <1>2
      <3>2. DirOf(j.stack, m) = Top(walk.stack)
        <4>1. CASE n = 0
          <5>1. walk.stack = <<>>
            BY <1>5, <1>6, <4>1, EmptySeq
          <5>2. m = 1
            BY <1>5, <4>1
          <5>. QED BY <5>1, <5>2 DEF DirOf, Top
        <4>2. CASE n # 0
          <5>1. walk.stack # <<>> /\ m # 1 /\ m - 1 = n /\ n \in 1 .. n
            BY <1>5, <1>6, <4>2
          <5>2. Top(walk.stack) = walk.stack[n].object
            BY <1>5, <1>6, <5>1, TopIs
          <5>. QED BY <1>6, <5>1, <5>2 DEF DirOf
        <4>. QED BY <4>1, <4>2
      <3>. QED BY <1>6, <2>1, <2>3, <3>1, <3>2
    <2>. QED BY <1>5, <1>6, <2>2, <2>3
  <1>. QED BY <1>3, <1>7, <1>8, <1>9, StepInv DEF LeafStands

LEMMA WalkNameInv == ASSUME WalkConstants, WalkInv, WalkName PROVE WalkInv'
  <1>1. PICK name, rest, child :
            name = Head(walk.pending) /\ rest = Tail(walk.pending) /\ child = Bound(Top(walk.stack), name)
    OBVIOUS
  <1>2. CASE Step(NoWalk)
    BY <1>2, RefuseInv
  <1>3. CASE ~Step(NoWalk)
    <2>1. /\ walk.at = "WALK" /\ child # NONE
          /\ \/ Follow(child, rest)
             \/ /\ TrustedDirectory(child)
                /\ Step([walk EXCEPT !.pending = rest,
                                     !.stack = Append(@, [name |-> name, object |-> child])])
             \/ Kind[child] = "FILE" /\ Arrive(child, name)
      BY <1>1, <1>3 DEF WalkName, Refuse
    <2>2. CASE Follow(child, rest)
      BY <2>1, <2>2, FollowInv
    <2>3. CASE /\ TrustedDirectory(child)
               /\ Step([walk EXCEPT !.pending = rest,
                                    !.stack = Append(@, [name |-> name, object |-> child])])
      BY <1>1, <2>1, <2>3, EnterInv
    <2>4. CASE Kind[child] = "FILE" /\ Arrive(child, name)
      <3>1. tree \in [Slots -> Objects \cup {NONE}]
        BY DEF WalkInv, WalkTypeOK
      <3>2. child \in Objects
        BY <1>1, <2>1, <3>1 DEF Bound
      <3>3. child \in Files
        BY <2>4, <3>2 DEF Files
      <3>. QED BY <1>1, <2>1, <2>4, <3>3, ArriveInv
    <2>. QED BY <2>1, <2>2, <2>3, <2>4
  <1>. QED BY <1>2, <1>3

\* From the open to the handoff: the object, its name and its path stay.
LEMMA HoldInv ==
  ASSUME WalkInv, \/ NothingLeft \/ OpenRegular \/ HashFirst \/ \E shows \in BOOLEAN : HashLast(shows)
                  \/ ReverifyDirectory \/ ReverifyLeaf \/ ExecHandoff \/ OpenForExec \/ WalkFinish
  PROVE  WalkInv'
  <1>0. Shaped(walk) /\ LeafStands(walk)
    BY PresentStands
  <1>1. CASE Step(NoWalk)
    BY <1>1, RefuseInv
  <1>2. CASE ~Step(NoWalk) /\ OpenRegular
    <2>1. PICK j : j = [walk EXCEPT !.at = "HASH"]
      OBVIOUS
    <2>2. walk.at = "OPEN" /\ Step(j)
      BY <1>2, <2>1 DEF OpenRegular, Refuse
    <2>3. j.at = "HASH" /\ j.stack = walk.stack /\ j.leaf = walk.leaf /\ j.name = walk.name
      BY <1>0, <2>1 DEF Shaped
    <2>4. Shaped(j)
      BY <1>0, <2>1, <2>2 DEF Shaped, Resolving
    <2>. QED BY <2>2, <2>3, <2>4, OnwardInv DEF Resolving, Hashed
  <1>3. CASE ~Step(NoWalk) /\ HashFirst
    <2>1. PICK j : j = [walk EXCEPT !.at = "HASHING", !.digest.first = content[walk.leaf]]
      OBVIOUS
    <2>2. walk.at = "HASH" /\ Step(j)
      BY <1>3, <2>1 DEF HashFirst
    <2>3. /\ j.at = "HASHING" /\ j.stack = walk.stack /\ j.leaf = walk.leaf /\ j.name = walk.name
          /\ j.digest = [first |-> content[walk.leaf], last |-> walk.digest.last]
      BY <1>0, <2>1 DEF Shaped
    <2>4. Shaped(j)
      BY <1>0, <2>1, <2>2, <2>3 DEF Shaped, Resolving
    <2>. QED BY <2>2, <2>3, <2>4, OnwardInv DEF Resolving, Hashed
  <1>4. CASE ~Step(NoWalk) /\ \E shows \in BOOLEAN : HashLast(shows)
    <2>1. PICK j : j = [walk EXCEPT !.at = "REVERIFY", !.digest.last = content[walk.leaf]]
      OBVIOUS
    <2>2. walk.at = "HASHING" /\ Step(j)
      BY <1>4, <2>1 DEF HashLast, Refuse
    <2>3. /\ j.at = "REVERIFY" /\ j.stack = walk.stack /\ j.leaf = walk.leaf /\ j.name = walk.name
          /\ j.digest = [first |-> walk.digest.first, last |-> content[walk.leaf]]
      BY <1>0, <2>1 DEF Shaped
    <2>4. Shaped(j)
      BY <1>0, <2>1, <2>2, <2>3 DEF Shaped, Resolving
    <2>5. ~touched => walk.digest.first = content[walk.leaf]
      BY <1>0, <2>2 DEF LeafStands, Resolving
    <2>. QED BY <2>2, <2>3, <2>4, <2>5, OnwardInv DEF Resolving, Hashed
  <1>5. CASE ~Step(NoWalk) /\ (ReverifyDirectory \/ ReverifyLeaf \/ ExecHandoff \/ OpenForExec)
    <2>1. PICK j : walk' = j
      OBVIOUS
    <2>2. /\ walk.at \in Hashed /\ Step(j)
          /\ \/ \E i : j = [walk EXCEPT !.checked = i]
             \/ \E at \in Hashed : j = [walk EXCEPT !.at = at]
      BY <1>5, <2>1 DEF ReverifyDirectory, ReverifyLeaf, ExecHandoff, OpenForExec, Refuse, Step, Hashed
    <2>3. /\ j.at \in Hashed /\ j.stack = walk.stack /\ j.leaf = walk.leaf /\ j.name = walk.name
          /\ j.digest = walk.digest
      BY <1>0, <2>2 DEF Shaped
    <2>4. Shaped(j)
      BY <1>0, <2>2, <2>3 DEF Shaped, Resolving, Hashed
    <2>5. ~touched => walk.digest.first = content[walk.leaf] /\ walk.digest.last = content[walk.leaf]
      BY <1>0, <2>2 DEF LeafStands, Resolving, Hashed
    <2>6. walk.at \in Resolving /\ j.at \in Resolving
      BY <2>2, <2>3 DEF Resolving, Hashed
    <2>. QED BY <2>2, <2>3, <2>4, <2>5, <2>6, OnwardInv
  <1>6. NothingLeft \/ WalkFinish => Step(NoWalk)
    BY DEF NothingLeft, WalkFinish, Refuse
  <1>. QED BY <1>1, <1>2, <1>3, <1>4, <1>5, <1>6

LEMMA WalkNextInv == ASSUME WalkConstants, WalkInv, [ExecNext]_execVars PROVE WalkInv'
  <1>1. CASE ExecNext
    BY <1>1, ResolveInv, PopParentInv, WalkNameInv, HoldInv, OthersInv DEF ExecNext, Resolver
  <1>2. CASE UNCHANGED execVars
    <2>1. Step(walk)
      BY <1>2 DEF execVars, Step
    <2>. QED BY <2>1, PresentStands, StepInv
  <1>. QED BY <1>1, <1>2

LEMMA WalkInvariant == ASSUME WalkConstants PROVE ExecSpec => []WalkInv
  <1>1. ExecInit => WalkInv
    BY WalkInitInv
  <1>2. WalkInv /\ [ExecNext]_execVars => WalkInv'
    BY WalkNextInv
  <1>. QED BY <1>1, <1>2, PTL DEF ExecSpec

\* The identity of a resolved executable (resource/exec: resolve, reverify, open_for_exec) is
\* true for as long as it is held, for every filesystem, every depth of directories and links
\* and any number of changes by other uids between two system calls.
THEOREM IdentityHolds == ASSUME WalkConstants PROVE ExecSpec => []IdentityIsStable
  <1>1. WalkInv => IdentityIsStable
    <2>. SUFFICES ASSUME WalkInv, walk.at \in {"RESOLVED", "BOUND", "GIVEN"}, ~touched
                  PROVE  PathBinds(walk) /\ walk.digest = [first |-> content[walk.leaf],
                                                           last |-> content[walk.leaf]]
      BY DEF IdentityIsStable
    <2>0. Shaped(walk) /\ StackStands(walk) /\ LeafStands(walk)
      BY PresentStands
    <2>1. walk.at \in Resolving /\ walk.at \in Hashed /\ walk.at # "IDLE"
      BY DEF Resolving, Hashed
    <2>2. StillNamed(walk) /\ walk.digest.first = content[walk.leaf] /\ walk.digest.last = content[walk.leaf]
      BY <2>0, <2>1 DEF LeafStands
    <2>3. walk.digest = [first |-> walk.digest.first, last |-> walk.digest.last]
      BY <2>0 DEF Shaped
    <2>4. PICK stack : stack = walk.stack
      OBVIOUS
    <2>5. ASSUME NEW i \in 1 .. Len(stack)
          PROVE  Bound(Top(SubSeq(stack, 1, i - 1)), stack[i].name) = stack[i].object
      <3>1. stack \in Seq(Frame)
        BY <2>0, <2>4 DEF Shaped
      <3>2. Bound(DirOf(stack, i), stack[i].name) = stack[i].object
        BY <2>0, <2>1, <2>4 DEF StackStands
      <3>. QED BY <3>1, <3>2, TopOf
    <2>. QED BY <2>2, <2>3, <2>4, <2>5 DEF PathBinds
  <1>. QED BY <1>1, WalkInvariant, PTL

-----------------------------------------------------------------------------
(* Deployment: the two daemons and their operator *)

\* What a daemon that started was admitted with.
AuthorityIsAdmitted ==
    authority # None =>
        LET c == authority.config IN
        /\ authority.uid \in c.peers => c.ownUidPermitted
        /\ c.brokerUid \in c.peers \cup {authority.uid} => c.sharedBroker
        /\ c.sandbox # None /\ c.hygiene => c.sandbox.unverified
BrokerIsAdmitted ==
    broker # None =>
        LET c == broker.config IN
        /\ broker.uid = c.authorityUid => c.sharedPermitted
        /\ {broker.uid, c.authorityUid} \cap {SANDBOX_UID, RELAY_UID} = {}
        /\ broker.uid # ROOT

\* An exchange is between two daemons that run and name each other, and what it prepared and
\* started is as the two that run now admit it.
ExchangeIsMutual ==
    /\ channel => /\ authority # None /\ broker # None
                  /\ broker.uid = authority.config.brokerUid
                  /\ authority.uid = broker.config.authorityUid
    /\ ~channel => env = None /\ worker = None
    /\ env # None =>
         LET s == authority.config.sandbox IN
         /\ s # None /\ Admissible(s)
         /\ env.network = s.network /\ env.bounded = ~s.unverified
         /\ env.hygiene = authority.config.hygiene
    /\ worker # None => (worker.swappable => broker.config.swappable)
DeploymentInv == AuthorityIsAdmitted /\ BrokerIsAdmitted /\ ExchangeIsMutual /\ channel \in BOOLEAN

LEMMA StartAuthorityInv ==
  ASSUME DeploymentInv, NEW line, StartAuthority(line) PROVE DeploymentInv'
  <1>1. PICK c : c = ServeConfig(line.args, line.sandbox)
    OBVIOUS
  <1>2. /\ authority = None /\ authority' = [uid |-> line.uid, config |-> c]
        /\ AuthorityAdmits(line.uid, line.stateOwner, c) /\ AttachSandbox(c)
        /\ UNCHANGED <<broker, channel, env, worker>>
    BY <1>1 DEF StartAuthority
  <1>3. authority'.uid = line.uid /\ authority'.config = c
    BY <1>2
  <1>4. AuthorityIsAdmitted'
    BY <1>2, <1>3 DEF AuthorityIsAdmitted, AuthorityAdmits, AttachSandbox, WithHygieneProfiles
  <1>5. ~channel /\ env = None /\ worker = None
    BY <1>2 DEF DeploymentInv, ExchangeIsMutual
  <1>6. ExchangeIsMutual'
    BY <1>2, <1>5 DEF ExchangeIsMutual
  <1>7. BrokerIsAdmitted'
    BY <1>2 DEF DeploymentInv, BrokerIsAdmitted
  <1>. QED BY <1>2, <1>4, <1>6, <1>7 DEF DeploymentInv

LEMMA StartBrokerInv == ASSUME DeploymentInv, NEW line, StartBroker(line) PROVE DeploymentInv'
  <1>1. PICK c : c = BrokerConfig(line.args)
    OBVIOUS
  <1>2. /\ broker = None /\ broker' = [uid |-> line.uid, config |-> c] /\ line.uid # ROOT
        /\ \E h \in Hosts : DeploymentFits(line.uid, c, h)
        /\ UNCHANGED <<authority, channel, env, worker>>
    BY <1>1 DEF StartBroker
  <1>3. broker'.uid = line.uid /\ broker'.config = c
    BY <1>2
  <1>4. /\ line.uid = c.authorityUid => c.sharedPermitted
        /\ {line.uid, c.authorityUid} \cap {SANDBOX_UID, RELAY_UID} = {}
    BY <1>2 DEF DeploymentFits, BrokerAdmits, SandboxIdentityClash
  <1>5. BrokerIsAdmitted'
    BY <1>2, <1>3, <1>4 DEF BrokerIsAdmitted
  <1>6. ~channel /\ env = None /\ worker = None
    BY <1>2 DEF DeploymentInv, ExchangeIsMutual
  <1>7. ExchangeIsMutual'
    BY <1>2, <1>6 DEF ExchangeIsMutual
  <1>8. AuthorityIsAdmitted'
    BY <1>2 DEF DeploymentInv, AuthorityIsAdmitted
  <1>. QED BY <1>2, <1>5, <1>7, <1>8 DEF DeploymentInv

LEMMA EndsInv ==
  ASSUME DeploymentInv, StopAuthority \/ StopBroker \/ FinishExchange PROVE DeploymentInv'
  <1>1. /\ channel' = FALSE /\ env' = None /\ worker' = None
        /\ authority' \in {authority, None} /\ broker' \in {broker, None}
    BY DEF StopAuthority, StopBroker, FinishExchange, CloseExchange
  <1>2. ExchangeIsMutual'
    BY <1>1 DEF ExchangeIsMutual
  <1>3. AuthorityIsAdmitted'
    BY <1>1 DEF DeploymentInv, AuthorityIsAdmitted
  <1>4. BrokerIsAdmitted'
    BY <1>1 DEF DeploymentInv, BrokerIsAdmitted
  <1>. QED BY <1>1, <1>2, <1>3, <1>4 DEF DeploymentInv

LEMMA MeetInv == ASSUME DeploymentInv, Connect PROVE DeploymentInv'
  <1>1. /\ ~channel /\ authority # None /\ broker # None /\ channel' = TRUE
        /\ broker.uid = authority.config.brokerUid /\ authority.uid = broker.config.authorityUid
        /\ UNCHANGED <<authority, broker, env, worker>>
    BY DEF Connect, AuthorityTrusts, BrokerTrusts
  <1>2. env = None /\ worker = None
    BY <1>1 DEF DeploymentInv, ExchangeIsMutual
  <1>3. ExchangeIsMutual'
    BY <1>1, <1>2 DEF ExchangeIsMutual
  <1>4. AuthorityIsAdmitted' /\ BrokerIsAdmitted'
    BY <1>1 DEF DeploymentInv, AuthorityIsAdmitted, BrokerIsAdmitted
  <1>. QED BY <1>1, <1>3, <1>4 DEF DeploymentInv

LEMMA PrepareInv == ASSUME DeploymentInv, Prepare PROVE DeploymentInv'
  <1>1. PICK s : s = authority.config.sandbox
    OBVIOUS
  <1>2. /\ channel /\ s # None /\ Admissible(s) /\ UNCHANGED <<authority, broker, channel, worker>>
        /\ env' = [network |-> s.network, bounded |-> ~s.unverified,
                   hygiene |-> authority.config.hygiene]
    BY <1>1 DEF Prepare
  <1>3. /\ env'.network = s.network /\ env'.bounded = ~s.unverified
        /\ env'.hygiene = authority.config.hygiene
    BY <1>2
  <1>4. Admissible(s)'
    BY <1>2 DEF Admissible
  <1>5. ExchangeIsMutual'
    BY <1>1, <1>2, <1>3, <1>4 DEF DeploymentInv, ExchangeIsMutual
  <1>6. AuthorityIsAdmitted' /\ BrokerIsAdmitted'
    BY <1>2 DEF DeploymentInv, AuthorityIsAdmitted, BrokerIsAdmitted
  <1>. QED BY <1>2, <1>5, <1>6 DEF DeploymentInv

LEMMA CredentialHopInv ==
  ASSUME DeploymentInv, NEW h, NEW moved, CredentialHop(h, moved) PROVE DeploymentInv'
  <1>1. /\ channel /\ UNCHANGED <<authority, broker, channel, env>>
        /\ broker.config.swappable \/ (SwapProtected(h, h.cgroup) /\ SwapProtected(h, moved))
        /\ worker' = [swappable |-> ~SwapProtected(h, h.cgroup) \/ ~SwapProtected(h, moved)]
    BY DEF CredentialHop, AdmitsCredential
  <1>2. worker'.swappable => broker.config.swappable
    BY <1>1
  <1>3. ExchangeIsMutual'
    BY <1>1, <1>2 DEF DeploymentInv, ExchangeIsMutual, Admissible
  <1>4. AuthorityIsAdmitted' /\ BrokerIsAdmitted'
    BY <1>1 DEF DeploymentInv, AuthorityIsAdmitted, BrokerIsAdmitted
  <1>. QED BY <1>1, <1>3, <1>4 DEF DeploymentInv

LEMMA DeploymentInvariant == DeploymentSpec => []DeploymentInv
  <1>1. DeploymentInit => DeploymentInv
    BY DEF DeploymentInit, DeploymentInv, AuthorityIsAdmitted, BrokerIsAdmitted, ExchangeIsMutual
  <1>2. DeploymentInv /\ [DeploymentNext]_deploymentVars => DeploymentInv'
    <2>. SUFFICES ASSUME DeploymentInv, [DeploymentNext]_deploymentVars PROVE DeploymentInv'
      OBVIOUS
    <2>1. CASE DeploymentNext
      BY <2>1, StartAuthorityInv, StartBrokerInv, EndsInv, MeetInv, PrepareInv, CredentialHopInv
        DEF DeploymentNext
    <2>2. CASE UNCHANGED deploymentVars
      BY <2>2 DEF deploymentVars, DeploymentInv, AuthorityIsAdmitted, BrokerIsAdmitted,
                  ExchangeIsMutual, Admissible
    <2>. QED BY <2>1, <2>2
  <1>. QED BY <1>1, <1>2, PTL DEF DeploymentSpec

\* Whatever the two operators put on their command lines, and however often either daemon is
\* restarted with another, two daemons that talk are separated or each acknowledged in what they
\* are not (dwkd-authority's server start-up, dwkd-broker's posture.rs).
THEOREM SeparationHolds == DeploymentSpec => []SeparationIsAcknowledged
  <1>1. DeploymentInv => SeparationIsAcknowledged
    <2>. SUFFICES ASSUME DeploymentInv, channel PROVE SeparationIsAcknowledged
      BY DEF SeparationIsAcknowledged
    <2>1. PICK a, b : a = authority.config /\ b = broker.config
      OBVIOUS
    <2>2. /\ authority # None /\ broker # None
          /\ broker.uid = a.brokerUid /\ authority.uid = b.authorityUid
          /\ worker # None => (worker.swappable => b.swappable)
      BY <2>1 DEF DeploymentInv, ExchangeIsMutual
    <2>3. /\ authority.uid \in a.peers => a.ownUidPermitted
          /\ a.brokerUid \in a.peers \cup {authority.uid} => a.sharedBroker
          /\ a.sandbox # None /\ a.hygiene => a.sandbox.unverified
      BY <2>1, <2>2 DEF DeploymentInv, AuthorityIsAdmitted
    <2>4. /\ broker.uid = b.authorityUid => b.sharedPermitted
          /\ {broker.uid, b.authorityUid} \cap {SANDBOX_UID, RELAY_UID} = {}
          /\ broker.uid # ROOT
      BY <2>1, <2>2 DEF DeploymentInv, BrokerIsAdmitted
    <2>5. env # None =>
            /\ a.sandbox # None /\ env.network = a.sandbox.network /\ env.bounded = ~a.sandbox.unverified
            /\ env.hygiene = a.hygiene
            /\ a.sandbox.network = "NO_NETWORK" => b.evidenceTopology
            /\ a.sandbox.unverified => b.unverifiedWorkspace
      BY <2>1 DEF DeploymentInv, ExchangeIsMutual, Admissible
    <2>6. env # None =>
             /\ ~ env.bounded => a.sandbox.unverified /\ b.unverifiedWorkspace
             /\ env.hygiene => ~ env.bounded /\ b.unverifiedWorkspace
             /\ env.network = "NO_NETWORK" => b.evidenceTopology
      BY <2>3, <2>5
    <2>7. {authority.uid, broker.uid} \cap {SANDBOX_UID, RELAY_UID} = {}
      BY <2>2, <2>4
    <2>. QED BY <2>1, <2>2, <2>3, <2>4, <2>6, <2>7 DEF SeparationIsAcknowledged
  <1>. QED BY <1>1, DeploymentInvariant, PTL

-----------------------------------------------------------------------------
(* Assurance: what is taken for usable was measured *)

Underway ==
    {"judging", "inspected", "stopped", "digested", "probed", "relays", "setups", "proxied",
     "recorded", "peered"}

AssuranceTypeOK ==
    /\ setting \in Settings /\ path \in Dirs /\ binding \in Dirs /\ dirs \in [Dirs -> Facts]
    /\ reached \in {"idle", "asked", "concluded"} \cup Underway
    /\ checks \in [Verdicts -> {"PASS", "FAIL", "UNOBSERVABLE"}]
    /\ container \in Containers \cup {Absent}

\* What was asked for last is what the authority judged, of the directory the operator bound,
\* which is still on its device.
AskedIsJudged ==
    reached # "idle" =>
        /\ spec.workspace = binding
        /\ spec.bound # Absent <=> Bounded
        /\ Bounded => /\ spec.bound.quota = setting.quota
                      /\ spec.bound.owner \in {"root", "authority"}
                      /\ OnItsOwnDevice(dirs[spec.workspace].device)

\* A judging is of a container, and nothing is judged before there is one.
JudgingIsOfOne ==
    /\ reached \in Underway => container # Absent
    /\ reached \in {"idle", "asked"} => container = Absent /\ checks = Unjudged

\* What passed held at some moment of the judging, and of the workspace what passed is what
\* the probe saw.
PassedIsSo ==
    /\ HoldsNow \subseteq witnessed
    /\ \A c \in Observations : checks[c] = "PASS" => c \in witnessed
    /\ checks["HOST_PROXY_RELAY"] = "PASS" => PeerParts(setting.network) \subseteq witnessed
    /\ \A c \in WorkspaceControls : checks[c] = "PASS" => WorkspaceChecks(observed)[c] = "PASS"
    /\ observed # Absent =>
        observed.identity \in Dirs /\ observed.root.device = dirs[observed.identity].device

AssuranceInv ==
    AssuranceTypeOK /\ AskedIsJudged /\ JudgingIsOfOne /\ PassedIsSo /\ AdmittedWasMeasured

-----------------------------------------------------------------------------
LEMMA ControlsAre ==
    /\ RecordControls \subseteq Observations /\ WorkspaceControls \subseteq Observations
    /\ {"HOST_PROBE_DIGEST", "HOST_RELAY_DIGEST"} \subseteq Observations
    /\ \A c \in RecordControls :
        /\ c \notin WorkspaceControls /\ c \notin PeerParts("PROXY_ONLY")
        /\ c \notin {"HOST_PROBE_DIGEST", "HOST_PROXY_RELAY", "HOST_RELAY_DIGEST",
                     "CONTAINER_PROXY_REACHABLE", "CONTAINER_WORKSPACE_GROUP_INHERITED"}
    /\ "HOST_RUNNING" \in RecordControls /\ AspectsOf("HOST_RUNNING") = RunningAspects
  <1>1. \A c \in RecordControls :
        /\ c \notin WorkspaceControls /\ c \notin PeerParts("PROXY_ONLY")
        /\ c \notin {"HOST_PROBE_DIGEST", "HOST_PROXY_RELAY", "HOST_RELAY_DIGEST",
                     "CONTAINER_PROXY_REACHABLE", "CONTAINER_WORKSPACE_GROUP_INHERITED"}
    BY DEF RecordControls, RecordAspects, WorkspaceControls, PeerParts
  <1>2. /\ RecordControls \subseteq Observations /\ WorkspaceControls \subseteq Observations
        /\ {"HOST_PROBE_DIGEST", "HOST_RELAY_DIGEST"} \subseteq Observations
    BY <1>1 DEF Observations, Controls, HostControls, WorkspaceControls
  <1>3. "HOST_RUNNING" \in RecordControls /\ RecordAspects["HOST_RUNNING"] = RunningAspects
    BY DEF RecordControls, RecordAspects
  <1>4. AspectsOf("HOST_RUNNING") = RunningAspects
    BY <1>3 DEF AspectsOf
  <1>. QED BY <1>1, <1>2, <1>3, <1>4

\* What is judged is looked at in one step, or is HOST_PROXY_RELAY.
LEMMA VerdictsAre ==
    /\ Observations \subseteq Verdicts /\ Controls \subseteq Verdicts
    /\ "HOST_PROXY_RELAY" \in Verdicts /\ "HOST_PROXY_RELAY" \notin Observations
    /\ "HOST_PROXY_RELAY" \notin WorkspaceControls /\ "HOST_PROXY_RELAY" \notin ProbeInvariants
    /\ \A network : PeerParts(network) \subseteq Observations
    /\ \A network : "HOST_PROXY_RELAY" \notin PeerParts(network)
    /\ \A c \in Controls : c # "HOST_PROXY_RELAY" => c \in Observations
    /\ \A p \in PeerParts("PROXY_ONLY") : p \notin WorkspaceControls
  <1>1. "HOST_PROXY_RELAY" \notin ProbeInvariants
    BY DEF ProbeInvariants, ProbeAspects, IdentityAspects, HostilityAspects, PlaceAspects,
           LimitsWithin, NetworkWithin, AttemptsWithin, WorkspaceWithin
  <1>2. \A network : PeerParts(network) \subseteq PeerParts("PROXY_ONLY")
    BY DEF PeerParts
  <1>3. "HOST_PROXY_RELAY" \notin PeerParts("PROXY_ONLY")
    BY DEF PeerParts
  <1>4. \A p \in PeerParts("PROXY_ONLY") : p \notin WorkspaceControls
    BY DEF PeerParts, WorkspaceControls
  <1>5. "HOST_PROXY_RELAY" \notin WorkspaceControls
    BY DEF WorkspaceControls
  <1>. QED BY <1>1, <1>2, <1>3, <1>4, <1>5 DEF Verdicts, Observations

\* A passing verdict on a control of the runtime's record is of a container it holds of.
LEMMA RecordHolds ==
    ASSUME NEW c \in RecordControls, Verdict(c, container.deviates, container.how) = "PASS",
           c = "HOST_RUNNING" => container.running
    PROVE  Holds(c)
  <1>1. container.deviates \notin AspectsOf(c)
    BY DEF Verdict
  <1>2. CASE c = "HOST_RUNNING"
    BY <1>1, <1>2, ControlsAre DEF Holds
  <1>3. CASE c # "HOST_RUNNING"
    <2>1. /\ c \notin WorkspaceControls
          /\ c \notin {"HOST_PROBE_DIGEST", "HOST_RELAY_DIGEST", "CONTAINER_PROXY_REACHABLE",
                       "CONTAINER_WORKSPACE_GROUP_INHERITED"}
          /\ c \notin {"peer.relays", "peer.setups", "peer.proxy", "peer.record"}
      BY ControlsAre DEF PeerParts
    <2>. QED BY <1>1, <1>3, <2>1 DEF Holds
  <1>. QED BY <1>2, <1>3

LEMMA OthersHold ==
    /\ container.genuine => Holds("HOST_PROBE_DIGEST")
    /\ \A c \in WorkspaceControls : WorkspaceChecks(Mounted)[c] = "PASS" => Holds(c)
  <1>1. container.genuine => Holds("HOST_PROBE_DIGEST")
    BY DEF Holds, WorkspaceControls
  <1>2. \A c \in WorkspaceControls : WorkspaceChecks(Mounted)[c] = "PASS" => Holds(c)
    BY DEF Holds, WorkspaceControls
  <1>. QED BY <1>1, <1>2

LEMMA HoldsCounts ==
    ASSUME AssuranceInv, reached \in Underway, NEW c \in Observations, Holds(c)
    PROVE  c \in witnessed
  BY DEF AssuranceInv, JudgingIsOfOne, PassedIsSo, HoldsNow

LEMMA IdentityPasses ==
    ASSUME NEW facts, WorkspaceChecks(facts)["HOST_WORKSPACE_IDENTITY"] = "PASS"
    PROVE  facts # Absent /\ facts.identity = spec.workspace
  <1>1. facts # Absent
    BY DEF WorkspaceChecks, WorkspaceControls
  <1>. QED BY <1>1 DEF WorkspaceChecks

\* What a workspace that passes its three checks is.
LEMMA WorkspacePasses ==
    ASSUME NEW facts, spec.bound # Absent,
           \A c \in WorkspaceControls : WorkspaceChecks(facts)[c] = "PASS"
    PROVE  /\ facts # Absent
           /\ facts.identity = spec.workspace
           /\ WorkspaceOwnership(facts.root, spec.bound) = "PASS"
           /\ WorkspaceCapacity(facts.root, spec.bound) = "PASS"
  <1>1. facts # Absent /\ facts.identity = spec.workspace
    <2>1. WorkspaceChecks(facts)["HOST_WORKSPACE_IDENTITY"] = "PASS"
      BY DEF WorkspaceControls
    <2>. QED BY <2>1, IdentityPasses
  <1>3. WorkspaceOwnership(facts.root, spec.bound) = "PASS"
    <2>1. WorkspaceChecks(facts)["HOST_WORKSPACE_OWNERSHIP"] = "PASS"
      BY DEF WorkspaceControls
    <2>. QED BY <1>1, <2>1 DEF WorkspaceChecks
  <1>4. WorkspaceCapacity(facts.root, spec.bound) = "PASS"
    <2>1. WorkspaceChecks(facts)["HOST_WORKSPACE_CAPACITY"] = "PASS"
      BY DEF WorkspaceControls
    <2>. QED BY <1>1, <2>1 DEF WorkspaceChecks
  <1>. QED BY <1>1, <1>3, <1>4

\* The workspace that was asked for, mounted and passed, passes the authority's own rules.
LEMMA PassedIsJudged ==
    ASSUME AskedIsJudged, PassedIsSo, reached # "idle", Bounded,
           \A c \in WorkspaceControls : checks[c] = "PASS"
    PROVE  /\ WorkspaceJudge(observed.root, setting.quota)
           /\ observed.root.filesystemRoot /\ observed.root.nosuid /\ observed.root.nodev
  <1>1. /\ spec.bound # Absent /\ spec.bound.quota = setting.quota
        /\ spec.bound.owner \in {"root", "authority"}
        /\ OnItsOwnDevice(dirs[spec.workspace].device)
    BY DEF AskedIsJudged
  <1>2. \A c \in WorkspaceControls : WorkspaceChecks(observed)[c] = "PASS"
    BY DEF PassedIsSo
  <1>3. /\ observed # Absent /\ observed.identity = spec.workspace
        /\ WorkspaceOwnership(observed.root, spec.bound) = "PASS"
        /\ WorkspaceCapacity(observed.root, spec.bound) = "PASS"
    BY <1>1, <1>2, WorkspacePasses
  <1>4. OnItsOwnDevice(observed.root.device)
    BY <1>1, <1>3 DEF PassedIsSo
  <1>5. /\ observed.root.owner = spec.bound.owner
        /\ observed.root.group /\ observed.root.mode
    BY <1>3 DEF WorkspaceOwnership
  <1>6. /\ observed.root.filesystemRoot /\ observed.root.nosuid /\ observed.root.nodev
        /\ Capacity(observed.root) = "Bytes"
        /\ CapacityWithinQuota(observed.root.unit * observed.root.blocks, spec.bound.quota)
    BY <1>3 DEF WorkspaceCapacity
  <1>. QED BY <1>1, <1>4, <1>5, <1>6 DEF WorkspaceJudge

-----------------------------------------------------------------------------
(* Each step *)

Holding == witnessed' = (IF judgings' # judgings THEN {} ELSE witnessed) \cup HoldsNow'

LEMMA HeldGrows ==
    ASSUME Holding
    PROVE  HoldsNow' \subseteq witnessed' /\ (judgings' = judgings => witnessed \subseteq witnessed')
  BY DEF Holding

LEMMA AssuranceInitInv == ASSUME AssuranceConstants, AssuranceInit PROVE AssuranceInv
  <1>1. AssuranceTypeOK
    BY DEF AssuranceInit, AssuranceTypeOK, AssuranceConstants, Unjudged
  <1>2. AskedIsJudged /\ AdmittedWasMeasured
    BY DEF AssuranceInit, AskedIsJudged, AdmittedWasMeasured
  <1>3. JudgingIsOfOne
    BY DEF AssuranceInit, JudgingIsOfOne, Underway
  <1>4. PassedIsSo
    BY ControlsAre, VerdictsAre DEF AssuranceInit, PassedIsSo, HoldsNow, Unjudged
  <1>. QED BY <1>1, <1>2, <1>3, <1>4 DEF AssuranceInv

LEMMA SpecificationIsJudged ==
    ASSUME AssuranceConstants, AssuranceTypeOK, Specifiable, spec' = Specification,
           UNCHANGED <<setting, dirs, binding>>
    PROVE  AskedIsJudged'
  <1>1. PICK f, q : f = dirs[path] /\ q = setting.quota
    OBVIOUS
  <1>2. f \in Facts /\ f.unit \in Nat /\ f.blocks \in Nat
    BY <1>1 DEF AssuranceTypeOK, AssuranceConstants
  <1>3. path = binding
    BY DEF Specifiable
  <1>4. CASE Bounded
    <2>1. q \in Nat
      BY <1>1, <1>4 DEF Bounded, Contract, AssuranceTypeOK, AssuranceConstants
    <2>2. f.owner \in {"root", "authority"} /\ OnItsOwnDevice(f.device)
      BY <1>1, <1>4 DEF Specifiable, WorkspaceJudge
    <2>3. WorkspaceBound(f, q) \in [quota : Nat, capacity : Nat, owner : {"root", "authority"}]
      <3>1. f.unit * f.blocks \in Nat
        BY <1>2
      <3>. QED BY <2>1, <2>2, <3>1 DEF WorkspaceBound
    <2>4. spec' = [workspace |-> path, bound |-> WorkspaceBound(f, q)]
      BY <1>1, <1>4 DEF Specification
    <2>5. spec'.bound # Absent /\ spec'.bound.quota = q /\ spec'.bound.owner = f.owner
      BY <2>3, <2>4 DEF WorkspaceBound, AssuranceConstants
    <2>6. spec'.workspace = path
      BY <2>4
    <2>. QED BY <1>1, <1>3, <1>4, <2>2, <2>5, <2>6
          DEF AskedIsJudged, Bounded, Contract, OnItsOwnDevice
  <1>5. CASE ~Bounded
    <2>1. spec' = [workspace |-> path, bound |-> Absent]
      BY <1>5 DEF Specification
    <2>2. spec'.workspace = path /\ spec'.bound = Absent
      BY <2>1
    <2>. QED BY <1>3, <1>5, <2>2 DEF AskedIsJudged, Bounded, Contract
  <1>. QED BY <1>4, <1>5

LEMMA NothingPasses ==
    ASSUME checks' = Unjudged, Holding,
           observed' # Absent =>
               observed'.identity \in Dirs /\ observed'.root.device = dirs'[observed'.identity].device
    PROVE  PassedIsSo'
  <1>1. \A c \in Verdicts : checks'[c] # "PASS"
    BY DEF Unjudged
  <1>. QED BY <1>1, ControlsAre, VerdictsAre, HeldGrows DEF PassedIsSo

LEMMA AskInv == ASSUME AssuranceConstants, AssuranceInv, Ask, Holding PROVE AssuranceInv'
  <1>1. /\ Specifiable /\ spec' = Specification /\ reached' = "asked"
        /\ UNCHANGED <<setting, path, dirs, binding, container, checks, observed>>
        /\ container = Absent /\ checks = Unjudged
    BY DEF Ask, AssuranceInv, JudgingIsOfOne
  <1>2. AssuranceTypeOK'
    BY <1>1 DEF AssuranceInv, AssuranceTypeOK
  <1>3. AskedIsJudged'
    BY <1>1, SpecificationIsJudged DEF AssuranceInv
  <1>4. JudgingIsOfOne'
    BY <1>1 DEF JudgingIsOfOne, Unjudged, Underway
  <1>5. PassedIsSo'
    BY <1>1, NothingPasses DEF PassedIsSo, AssuranceInv
  <1>6. AdmittedWasMeasured'
    BY <1>1 DEF AdmittedWasMeasured
  <1>. QED BY <1>2, <1>3, <1>4, <1>5, <1>6 DEF AssuranceInv

LEMMA AskedStays ==
    ASSUME AssuranceInv, reached # "idle", UNCHANGED <<setting, binding, spec>>,
           \A d \in Dirs : dirs'[d].device = dirs[d].device
    PROVE  AskedIsJudged'
  BY DEF AssuranceInv, AssuranceTypeOK, AskedIsJudged, Bounded, Contract, OnItsOwnDevice

LEMMA CreateInv == ASSUME AssuranceConstants, AssuranceInv, Create, Holding PROVE AssuranceInv'
  <1>1. /\ reached = "asked" /\ reached' = "judging"
        /\ UNCHANGED <<setting, path, dirs, binding, spec, checks, observed>>
        /\ checks = Unjudged
    BY DEF Create, AssuranceInv, JudgingIsOfOne
  <1>2. container' \in Containers
    <2>1. PICK wrong \in SUBSET {"aspect", "probe", "setup", "peer"},
               deviates \in AllAspects \cup {"nothing"}, how \in {"WRONG", "UNKNOWN"} :
            container' =
             [deviates |-> deviates, how |-> how, mount |-> path, genuine |-> "probe" \notin wrong,
              relays |-> IF setting.network = "PROXY_ONLY" /\ "peer" \notin wrong THEN 1 ELSE 0,
              setup |-> "setup" \in wrong,
              proxy |-> IF setting.network = "PROXY_ONLY" THEN "OPEN" ELSE "NONE",
              running |-> TRUE]
      BY DEF Create
    <2>. QED BY <2>1 DEF Containers, AssuranceInv, AssuranceTypeOK
  <1>3. AssuranceTypeOK'
    BY <1>1, <1>2 DEF AssuranceInv, AssuranceTypeOK, Underway
  <1>4. JudgingIsOfOne'
    BY <1>1, <1>2 DEF JudgingIsOfOne, AssuranceConstants
  <1>5. PassedIsSo'
    BY <1>1, NothingPasses DEF PassedIsSo, AssuranceInv
  <1>6. AskedIsJudged' /\ AdmittedWasMeasured'
    BY <1>1, AskedStays DEF AdmittedWasMeasured
  <1>. QED BY <1>3, <1>4, <1>5, <1>6 DEF AssuranceInv

LEMMA JudgeAgainInv ==
    ASSUME AssuranceConstants, AssuranceInv, NEW again, JudgeAgain(again), Holding
    PROVE  AssuranceInv'
  <1>1. /\ reached' = "judging" /\ Specifiable /\ spec' = Specification
        /\ UNCHANGED <<setting, path, dirs, binding, container>>
        /\ checks' = Unjudged /\ observed' = Absent /\ container # Absent
    BY DEF JudgeAgain
  <1>2. AssuranceTypeOK'
    BY <1>1 DEF AssuranceInv, AssuranceTypeOK, Underway, Unjudged
  <1>3. AskedIsJudged'
    BY <1>1, SpecificationIsJudged DEF AssuranceInv
  <1>4. JudgingIsOfOne'
    BY <1>1 DEF JudgingIsOfOne
  <1>5. PassedIsSo'
    BY <1>1, NothingPasses
  <1>6. AdmittedWasMeasured'
    BY <1>1 DEF AdmittedWasMeasured
  <1>. QED BY <1>2, <1>3, <1>4, <1>5, <1>6 DEF AssuranceInv

\* What is given up, or taken down, is not admitted.
LEMMA GivenUpInv ==
    ASSUME AssuranceConstants, AssuranceInv, Holding, reached \notin {"idle", "asked"},
           reached' = "concluded", admitted' = FALSE, container' \in {container, Absent},
           kind' = "PREPARE" => container' = Absent,
           UNCHANGED <<setting, path, dirs, binding, spec, checks, observed, judgings>>
    PROVE  AssuranceInv'
  <1>1. AssuranceTypeOK'
    BY DEF AssuranceInv, AssuranceTypeOK
  <1>2. AskedIsJudged'
    BY AskedStays
  <1>3. JudgingIsOfOne'
    BY DEF JudgingIsOfOne, Underway
  <1>4. PassedIsSo'
    <2>1. WorkspaceChecks(observed)' = WorkspaceChecks(observed)
      BY DEF WorkspaceChecks
    <2>. QED BY <2>1, HeldGrows DEF AssuranceInv, PassedIsSo
  <1>5. AdmittedWasMeasured'
    BY DEF AdmittedWasMeasured
  <1>. QED BY <1>1, <1>2, <1>3, <1>4, <1>5 DEF AssuranceInv

LEMMA DriftedInv ==
    ASSUME AssuranceConstants, AssuranceInv, NEW again, WorkspaceDrifted(again), Holding
    PROVE  AssuranceInv'
  BY GivenUpInv DEF WorkspaceDrifted

LEMMA RuntimeFailsInv == ASSUME AssuranceConstants, AssuranceInv, RuntimeFails, Holding PROVE AssuranceInv'
  BY GivenUpInv DEF RuntimeFails

\* A step of a judging keeps the invariant if what it passes holds, and what it says of the
\* workspace is what the probe saw.
LEMMA JudgingInv ==
    ASSUME AssuranceInv, Holding, reached \in Underway, reached' \in Underway,
           UNCHANGED <<setting, path, dirs, binding, spec, container, judgings>>,
           checks' \in [Verdicts -> {"PASS", "FAIL", "UNOBSERVABLE"}],
           \A c \in Observations : checks'[c] = "PASS" => checks[c] = "PASS" \/ Holds(c),
           checks'["HOST_PROXY_RELAY"] = "PASS" =>
               \/ checks["HOST_PROXY_RELAY"] = "PASS"
               \/ \A p \in PeerParts(setting.network) : checks[p] = "PASS" \/ Holds(p),
           \/ observed' = observed /\ \A c \in WorkspaceControls : checks'[c] = checks[c]
           \/ /\ observed' \in {Mounted, Absent}
              /\ \A c \in WorkspaceControls : checks'[c] = WorkspaceChecks(observed')[c]
    PROVE  AssuranceInv'
  <1>1. AssuranceTypeOK'
    BY DEF AssuranceInv, AssuranceTypeOK, Underway
  <1>2. AskedIsJudged'
    BY AskedStays DEF Underway
  <1>3. JudgingIsOfOne'
    BY DEF AssuranceInv, JudgingIsOfOne, Underway
  <1>4. AdmittedWasMeasured'
    BY DEF AdmittedWasMeasured, Underway
  <1>5. /\ \A c \in Observations : checks'[c] = "PASS" => c \in witnessed'
        /\ checks'["HOST_PROXY_RELAY"] = "PASS" => PeerParts(setting.network) \subseteq witnessed'
    BY HoldsCounts, HeldGrows, VerdictsAre DEF AssuranceInv, PassedIsSo
  <1>6. WorkspaceChecks(observed)' = WorkspaceChecks(observed')
    BY DEF WorkspaceChecks
  <1>7. \A c \in WorkspaceControls :
            checks'[c] = "PASS" => WorkspaceChecks(observed)'[c] = "PASS"
    <2>1. CASE observed' = observed /\ \A c \in WorkspaceControls : checks'[c] = checks[c]
      BY <1>6, <2>1 DEF AssuranceInv, PassedIsSo
    <2>2. CASE \A c \in WorkspaceControls : checks'[c] = WorkspaceChecks(observed')[c]
      BY <1>6, <2>2
    <2>. QED BY <2>1, <2>2
  <1>8. observed' # Absent =>
            observed'.identity \in Dirs /\ observed'.root.device = dirs'[observed'.identity].device
    <2>1. CASE observed' = observed
      BY <2>1 DEF AssuranceInv, PassedIsSo
    <2>2. CASE observed' = Mounted
      <3>1. container \in Containers
        BY DEF AssuranceInv, AssuranceTypeOK, JudgingIsOfOne
      <3>2. container.mount \in Dirs
        BY <3>1 DEF Containers
      <3>. QED BY <2>2, <3>2 DEF Mounted, WorkspaceFacts
    <2>. QED BY <2>1, <2>2
  <1>9. PassedIsSo'
    BY <1>5, <1>7, <1>8, HeldGrows DEF PassedIsSo
  <1>. QED BY <1>1, <1>2, <1>3, <1>4, <1>9 DEF AssuranceInv

LEMMA InspectInv == ASSUME AssuranceInv, Inspect, Holding PROVE AssuranceInv'
  <1>1. /\ reached = "judging" /\ reached' \in {"inspected", "stopped"} /\ observed' = observed
        /\ UNCHANGED <<setting, path, dirs, binding, spec, container, judgings>>
    BY DEF Inspect, Judging
  <1>2. checks' = [c \in Verdicts |->
                    IF c \notin RecordControls THEN checks[c]
                    ELSE IF c = "HOST_RUNNING" /\ ~ container.running THEN "FAIL"
                    ELSE Verdict(c, container.deviates, container.how)]
    BY DEF Inspect
  <1>3. checks' \in [Verdicts -> {"PASS", "FAIL", "UNOBSERVABLE"}]
    BY <1>2 DEF AssuranceInv, AssuranceTypeOK, Verdict
  <1>4. /\ \A c \in Observations : checks'[c] = "PASS" => checks[c] = "PASS" \/ Holds(c)
        /\ checks'["HOST_PROXY_RELAY"] = checks["HOST_PROXY_RELAY"]
    BY <1>2, RecordHolds, ControlsAre, VerdictsAre
  <1>5. \A c \in WorkspaceControls : checks'[c] = checks[c]
    BY <1>2, ControlsAre, VerdictsAre
  <1>6. reached \in Underway /\ reached' \in Underway
    BY <1>1 DEF Underway
  <1>. QED BY <1>1, <1>3, <1>4, <1>5, <1>6, JudgingInv

\* A step of the judging that looks at one thing.
LEMMA LookInv ==
    ASSUME AssuranceInv, Holding, reached \in Underway, reached' \in Underway, observed' = observed,
           UNCHANGED <<setting, path, dirs, binding, spec, container, judgings>>,
           NEW c \in Observations \ WorkspaceControls, NEW v \in {"PASS", "FAIL", "UNOBSERVABLE"},
           checks' = [checks EXCEPT ![c] = v], v = "PASS" => Holds(c)
    PROVE  AssuranceInv'
  <1>1. checks \in [Verdicts -> {"PASS", "FAIL", "UNOBSERVABLE"}]
    BY DEF AssuranceInv, AssuranceTypeOK
  <1>2. checks' \in [Verdicts -> {"PASS", "FAIL", "UNOBSERVABLE"}]
    BY <1>1
  <1>3. /\ \A d \in Observations : checks'[d] = "PASS" => checks[d] = "PASS" \/ Holds(d)
        /\ checks'["HOST_PROXY_RELAY"] = checks["HOST_PROXY_RELAY"]
        /\ \A d \in WorkspaceControls : checks'[d] = checks[d]
    BY <1>1, VerdictsAre, ControlsAre
  <1>. QED BY <1>2, <1>3, JudgingInv

LEMMA ProbeDigestInv == ASSUME AssuranceInv, ProbeDigest, Holding PROVE AssuranceInv'
  <1>1. /\ reached \in Underway /\ reached' \in Underway /\ observed' = observed
        /\ UNCHANGED <<setting, path, dirs, binding, spec, container, judgings>>
    BY DEF ProbeDigest, Judging, Underway
  <1>2. PICK v \in {"PASS", "FAIL", "UNOBSERVABLE"} :
            /\ checks' = [checks EXCEPT !["HOST_PROBE_DIGEST"] = v]
            /\ v = "PASS" => container.genuine
    BY DEF ProbeDigest
  <1>3. "HOST_PROBE_DIGEST" \in Observations \ WorkspaceControls
    BY ControlsAre DEF WorkspaceControls
  <1>. QED BY <1>1, <1>2, <1>3, OthersHold, LookInv

LEMMA ListingInv ==
    ASSUME AssuranceInv, Holding, NEW from \in Underway, NEW to \in Underway,
           NEW part \in PeerParts("PROXY_ONLY"), Listing(from, part, to)
    PROVE  AssuranceInv'
  <1>1. /\ reached \in Underway /\ reached' \in Underway /\ observed' = observed
        /\ UNCHANGED <<setting, path, dirs, binding, spec, container, judgings>>
    BY DEF Listing, Judging
  <1>2. PICK v \in {"PASS", "FAIL", "UNOBSERVABLE"} :
            checks' = [checks EXCEPT ![part] = v] /\ (v = "PASS" => Holds(part))
    BY DEF Listing
  <1>3. part \in Observations \ WorkspaceControls
    BY VerdictsAre
  <1>. QED BY <1>1, <1>2, <1>3, LookInv

LEMMA ProxyBehindInv == ASSUME AssuranceInv, ProxyBehind, Holding PROVE AssuranceInv'
  <1>1. /\ reached \in Underway /\ reached' \in Underway /\ observed' = observed
        /\ UNCHANGED <<setting, path, dirs, binding, spec, container, judgings>>
    BY DEF ProxyBehind, Judging, Underway
  <1>2. PICK v \in {"PASS", "FAIL", "UNOBSERVABLE"} :
            checks' = [checks EXCEPT !["peer.proxy"] = v] /\ (v = "PASS" => Holds("peer.proxy"))
    BY DEF ProxyBehind
  <1>3. "peer.proxy" \in Observations \ WorkspaceControls
    BY VerdictsAre DEF PeerParts
  <1>. QED BY <1>1, <1>2, <1>3, LookInv

LEMMA RelayDigestInv == ASSUME AssuranceInv, RelayDigest, Holding PROVE AssuranceInv'
  <1>1. /\ reached \in Underway /\ reached' \in Underway /\ observed' = observed
        /\ UNCHANGED <<setting, path, dirs, binding, spec, container, judgings>>
    BY DEF RelayDigest, Judging, Underway
  <1>2. PICK v \in {"PASS", "FAIL", "UNOBSERVABLE"} :
            /\ checks' = [checks EXCEPT !["HOST_RELAY_DIGEST"] = v]
            /\ v = "PASS" => Holds("HOST_RELAY_DIGEST")
    BY DEF RelayDigest
  <1>3. "HOST_RELAY_DIGEST" \in Observations \ WorkspaceControls
    BY ControlsAre DEF WorkspaceControls
  <1>. QED BY <1>1, <1>2, <1>3, LookInv

\* HOST_PROXY_RELAY passes only if each of its parts did when it was looked at.
LEMMA RelayRecordInv == ASSUME AssuranceInv, RelayRecord, Holding PROVE AssuranceInv'
  <1>1. /\ reached \in Underway /\ reached' \in Underway /\ observed' = observed
        /\ UNCHANGED <<setting, path, dirs, binding, spec, container, judgings>>
    BY DEF RelayRecord, Judging, Underway
  <1>2. PICK v \in {"PASS", "FAIL", "UNOBSERVABLE"} :
            /\ checks' = [checks EXCEPT !["peer.record"] = v, !["HOST_PROXY_RELAY"] = PeersVerdict(v)]
            /\ v = "PASS" => Holds("peer.record")
    BY DEF RelayRecord
  <1>3. PICK w \in {"PASS", "FAIL", "UNOBSERVABLE"} : w = PeersVerdict(v)
    BY DEF PeersVerdict
  <1>4. w = "PASS" => \A p \in PeerParts(setting.network) : checks[p] = "PASS" \/ Holds(p)
    <2>. SUFFICES ASSUME w = "PASS", NEW p \in PeerParts(setting.network)
                  PROVE  checks[p] = "PASS" \/ Holds(p)
      OBVIOUS
    <2>1. p \in {"peer.relays", "peer.setups", "peer.proxy"} => checks[p] = "PASS"
      BY <1>3 DEF PeersVerdict
    <2>2. p \in {"peer.relays", "peer.setups", "peer.proxy"}
            \/ (p = "peer.record" /\ setting.network = "PROXY_ONLY")
      BY DEF PeerParts
    <2>3. setting.network = "PROXY_ONLY" => v = "PASS"
      BY <1>3 DEF PeersVerdict
    <2>. QED BY <1>2, <2>1, <2>2, <2>3
  <1>5. checks \in [Verdicts -> {"PASS", "FAIL", "UNOBSERVABLE"}]
    BY DEF AssuranceInv, AssuranceTypeOK
  <1>6. "peer.record" \in Observations /\ "peer.record" \notin WorkspaceControls
    BY VerdictsAre DEF PeerParts
  <1>7. checks' = [checks EXCEPT !["peer.record"] = v, !["HOST_PROXY_RELAY"] = w]
    BY <1>2, <1>3
  <1>8. /\ checks' \in [Verdicts -> {"PASS", "FAIL", "UNOBSERVABLE"}]
        /\ checks'["HOST_PROXY_RELAY"] = w
    BY <1>5, <1>7, VerdictsAre
  <1>9. /\ \A d \in Observations : checks'[d] = "PASS" => checks[d] = "PASS" \/ Holds(d)
        /\ \A d \in WorkspaceControls : checks'[d] = checks[d]
    BY <1>2, <1>5, <1>6, <1>7, VerdictsAre, ControlsAre
  <1>. QED BY <1>1, <1>4, <1>8, <1>9, JudgingInv

\* What the checks of a workspace may say.
LEMMA ChecksAreVerdicts ==
    ASSUME NEW facts, NEW c \in WorkspaceControls
    PROVE  WorkspaceChecks(facts)[c] \in {"PASS", "FAIL", "UNOBSERVABLE"}
  <1>1. \A f, b : /\ WorkspaceOwnership(f, b) \in {"PASS", "FAIL"}
                  /\ WorkspaceCapacity(f, b) \in {"PASS", "FAIL", "UNOBSERVABLE"}
    BY DEF WorkspaceOwnership, WorkspaceCapacity
  <1>2. CASE facts = Absent
    BY <1>2 DEF WorkspaceChecks
  <1>3. CASE facts # Absent
    <2>1. CASE c = "HOST_WORKSPACE_IDENTITY"
      BY <1>3, <2>1 DEF WorkspaceChecks
    <2>2. CASE c = "HOST_WORKSPACE_OWNERSHIP"
      BY <1>1, <1>3, <2>2 DEF WorkspaceChecks
    <2>3. CASE c = "HOST_WORKSPACE_CAPACITY"
      BY <1>1, <1>3, <2>3 DEF WorkspaceChecks
    <2>. QED BY <2>1, <2>2, <2>3 DEF WorkspaceControls
  <1>. QED BY <1>2, <1>3

LEMMA UnseenPassesNothing ==
    ASSUME NEW c \in WorkspaceControls PROVE WorkspaceChecks(Absent)[c] # "PASS"
  BY DEF WorkspaceChecks

LEMMA RunProbeInv == ASSUME AssuranceInv, RunProbe, Holding PROVE AssuranceInv'
  <1>1. /\ reached = "digested" /\ reached' = "probed"
        /\ UNCHANGED <<setting, path, dirs, binding, spec, container, judgings>>
    BY DEF RunProbe, Judging
  <1>2. reached \in Underway /\ reached' \in Underway
    BY <1>1 DEF Underway
  <1>3. CASE UNCHANGED <<observed, checks>>
    BY <1>1, <1>2, <1>3, JudgingInv DEF AssuranceInv, AssuranceTypeOK
  <1>4. CASE WorkspaceNow \/ \E report \in Reports : Reported(report)
    <2>1. PICK seen : observed' = seen
      OBVIOUS
    <2>2. /\ seen \in {Mounted, Absent}
          /\ checks' = [c \in Verdicts |-> checks'[c]]
          /\ \A c \in WorkspaceControls : checks'[c] = WorkspaceChecks(seen)[c]
          /\ \A c \in Verdicts \ WorkspaceControls :
                checks'[c] \in {checks[c], "UNOBSERVABLE", ProbeVerdict(c)}
          /\ checks'["HOST_PROXY_RELAY"] = checks["HOST_PROXY_RELAY"]
      BY <1>4, <2>1, ControlsAre, VerdictsAre DEF WorkspaceNow, Reported
    <2>3. \A c \in Verdicts :
            /\ ProbeVerdict(c) \in {"PASS", "FAIL", "UNOBSERVABLE"}
            /\ ProbeVerdict(c) = "PASS" => Holds(c)
      BY DEF ProbeVerdict, Verdict
    <2>4. checks' \in [Verdicts -> {"PASS", "FAIL", "UNOBSERVABLE"}]
      BY <2>2, <2>3, ChecksAreVerdicts DEF AssuranceInv, AssuranceTypeOK
    <2>5. \A c \in Observations : checks'[c] = "PASS" => checks[c] = "PASS" \/ Holds(c)
      BY <2>2, <2>3, UnseenPassesNothing, OthersHold, VerdictsAre
    <2>. QED BY <1>1, <1>2, <2>1, <2>2, <2>4, <2>5, JudgingInv
  <1>. QED BY <1>3, <1>4 DEF RunProbe

\* Both daemons require the same, and conclude the same of it.
LEMMA ConcludeInv == ASSUME AssuranceConstants, AssuranceInv, Conclude, Holding PROVE AssuranceInv'
  <1>1. /\ reached = "peered" /\ reached' = "concluded"
        /\ UNCHANGED <<setting, path, dirs, binding, spec, kind, checks, observed, judgings>>
        /\ container' \in {container, Absent} /\ container # Absent
    BY DEF Conclude, KeptIf, AssuranceInv, JudgingIsOfOne, Underway
  <1>2. AssuranceTypeOK'
    BY <1>1 DEF AssuranceInv, AssuranceTypeOK
  <1>3. AskedIsJudged'
    BY <1>1, AskedStays
  <1>4. JudgingIsOfOne'
    BY <1>1 DEF JudgingIsOfOne, Underway
  <1>5. witnessed \subseteq witnessed'
    BY <1>1, HeldGrows
  <1>6. PassedIsSo'
    <2>1. WorkspaceChecks(observed)' = WorkspaceChecks(observed)
      BY <1>1 DEF WorkspaceChecks
    <2>. QED BY <1>1, <1>5, <2>1, HeldGrows DEF AssuranceInv, PassedIsSo
  <1>7. spec.bound # Absent <=> Bounded
    BY <1>1 DEF AssuranceInv, AskedIsJudged
  <1>8. PICK required : required = RequiredInvariants(setting.network, Bounded)
    OBVIOUS
  <1>9. /\ Clean(checks, setting.network, spec.bound # Absent)
                <=> \A i \in required : checks[i] = "PASS"
        /\ Usable(checks, setting.network, Bounded) <=> \A i \in required : checks[i] = "PASS"
        /\ CleanForWork(checks, setting.network, spec.bound # Absent)
                <=> \A i \in required \cap HostControls : checks[i] = "PASS"
    <2>1. required = RequiredInvariants(setting.network, spec.bound # Absent)
      BY <1>7, <1>8
    <2>. QED BY <1>8, <2>1 DEF Clean, Usable, CleanForWork
  <1>10. kind = "PREPARE" => (admitted' <=> container' # Absent)
    BY <1>1, <1>9 DEF Conclude, KeptIf
  <1>11. admitted' => \A i \in required \cap (IF kind = "WORK" THEN HostControls ELSE Controls) :
                        checks[i] = "PASS"
    BY <1>9 DEF Conclude
  <1>12. required \subseteq Controls /\ HostControls \subseteq Controls
    BY <1>8 DEF RequiredInvariants, Controls
  <1>13. admitted' => /\ (required \ {"HOST_PROXY_RELAY"})
                          \cap (IF kind = "WORK" THEN HostControls ELSE Controls) \subseteq witnessed'
                      /\ PeerParts(setting.network) \subseteq witnessed'
                      /\ observed.identity = binding
    <2>. SUFFICES ASSUME admitted'
                  PROVE  /\ (required \ {"HOST_PROXY_RELAY"})
                            \cap (IF kind = "WORK" THEN HostControls ELSE Controls) \subseteq witnessed'
                         /\ PeerParts(setting.network) \subseteq witnessed'
                         /\ observed.identity = binding
      OBVIOUS
    <2>1. (required \ {"HOST_PROXY_RELAY"})
              \cap (IF kind = "WORK" THEN HostControls ELSE Controls) \subseteq witnessed'
      BY <1>5, <1>11, <1>12, VerdictsAre DEF AssuranceInv, PassedIsSo
    <2>2. {"HOST_PROXY_RELAY", "HOST_WORKSPACE_IDENTITY"} \subseteq
              required \cap (IF kind = "WORK" THEN HostControls ELSE Controls)
      BY <1>8 DEF RequiredInvariants, ProxyOnly, WorkspaceContract, WorkspaceControls, HostControls, Controls
    <2>3. PeerParts(setting.network) \subseteq witnessed'
      BY <1>5, <1>11, <2>2 DEF AssuranceInv, PassedIsSo
    <2>4. WorkspaceChecks(observed)["HOST_WORKSPACE_IDENTITY"] = "PASS"
      BY <1>11, <2>2 DEF AssuranceInv, PassedIsSo, WorkspaceControls
    <2>5. observed.identity = binding
      BY <1>1, <2>4, IdentityPasses DEF AssuranceInv, AskedIsJudged
    <2>. QED BY <2>1, <2>3, <2>5
  <1>14. Bounded => WorkspaceControls \subseteq
                      required \cap (IF kind = "WORK" THEN HostControls ELSE Controls)
    BY <1>8 DEF RequiredInvariants, ProxyOnly, WorkspaceControls, HostControls, Controls
  <1>15. admitted' /\ Bounded =>
            /\ WorkspaceJudge(observed.root, setting.quota)
            /\ observed.root.filesystemRoot /\ observed.root.nosuid /\ observed.root.nodev
    BY <1>1, <1>11, <1>14, PassedIsJudged DEF AssuranceInv
  <1>16. /\ Bounded' <=> Bounded
         /\ RequiredInvariants(setting.network, Bounded)' = required
         /\ WorkspaceJudge(observed.root, setting.quota)' <=> WorkspaceJudge(observed.root, setting.quota)
    BY <1>1, <1>8 DEF Bounded, Contract, WorkspaceJudge, RequiredInvariants, OnItsOwnDevice, Capacity
  <1>17. AdmittedWasMeasured'
    BY <1>1, <1>10, <1>13, <1>15, <1>16 DEF AdmittedWasMeasured
  <1>. QED BY <1>2, <1>3, <1>4, <1>6, <1>17 DEF AssuranceInv

\* What was admitted stays so measured whatever changes afterwards.
LEMMA AdmittedStays ==
    ASSUME AdmittedWasMeasured, witnessed \subseteq witnessed', container' = Absent <=> container = Absent,
           UNCHANGED <<setting, binding, kind, reached, observed, admitted>>
    PROVE  AdmittedWasMeasured'
  BY DEF AdmittedWasMeasured, Bounded, Contract, WorkspaceJudge, OnItsOwnDevice, Capacity,
         RequiredInvariants

\* Root changes no verdict, and no directory's device.
LEMMA FaultInv ==
    ASSUME AssuranceConstants, AssuranceInv, Remount \/ Alter \/ Stops \/ PeersChange, Holding
    PROVE  AssuranceInv'
  <1>1. UNCHANGED <<setting, binding, spec, kind, reached, checks, observed, admitted, judgings>>
    BY DEF Remount, Alter, Stops, PeersChange, Fault
  <1>2. /\ path' \in Dirs /\ dirs' \in [Dirs -> Facts]
        /\ \A d \in Dirs : dirs'[d].device = dirs[d].device
    BY DEF Remount, Alter, Stops, PeersChange, Fault, AssuranceInv, AssuranceTypeOK
  <1>3. /\ container = Absent => container' = Absent
        /\ container # Absent => container' \in Containers
    <2>1. CASE Remount \/ Alter
      BY <2>1 DEF Remount, Alter, AssuranceInv, AssuranceTypeOK
    <2>2. CASE Stops \/ PeersChange
      <3>1. container \in Containers /\ container # Absent
        BY <2>2 DEF Stops, PeersChange, AssuranceInv, AssuranceTypeOK
      <3>2. \/ container' = [container EXCEPT !.running = FALSE]
            \/ \E n \in 0..2 : container' = [container EXCEPT !.relays = n]
            \/ \E left \in BOOLEAN : container' = [container EXCEPT !.setup = left]
            \/ \E p \in {"WIDE", "NONE"} : container' = [container EXCEPT !.proxy = p]
        BY <2>2 DEF Stops, PeersChange
      <3>. QED BY <3>1, <3>2 DEF Containers
    <2>. QED BY <2>1, <2>2
  <1>4. AssuranceTypeOK'
    BY <1>1, <1>2, <1>3 DEF AssuranceInv, AssuranceTypeOK
  <1>5. AskedIsJudged'
    BY <1>1, <1>2, AskedStays DEF AskedIsJudged
  <1>6. JudgingIsOfOne'
    BY <1>1, <1>3 DEF AssuranceInv, JudgingIsOfOne, AssuranceConstants, Unjudged
  <1>7. PassedIsSo'
    <2>1. WorkspaceChecks(observed)' = WorkspaceChecks(observed)
      BY <1>1 DEF WorkspaceChecks
    <2>. QED BY <1>1, <1>2, <2>1, HeldGrows DEF AssuranceInv, PassedIsSo
  <1>8. AdmittedWasMeasured'
    BY <1>1, <1>3, HeldGrows, AdmittedStays DEF AssuranceInv, AssuranceConstants
  <1>. QED BY <1>4, <1>5, <1>6, <1>7, <1>8 DEF AssuranceInv

LEMMA AssuranceStutters == ASSUME AssuranceInv, UNCHANGED assuranceVars PROVE AssuranceInv'
  <1>. USE DEF assuranceVars
  <1>1. AssuranceTypeOK' /\ AskedIsJudged' /\ JudgingIsOfOne'
    BY DEF AssuranceInv, AssuranceTypeOK, AskedIsJudged, JudgingIsOfOne, Bounded, Contract,
           OnItsOwnDevice, Unjudged
  <1>2. WorkspaceChecks(observed)' = WorkspaceChecks(observed)
    BY DEF WorkspaceChecks
  <1>3. HoldsNow' = HoldsNow
    BY DEF HoldsNow, Holds, WorkspaceChecks, Mounted, WorkspaceFacts
  <1>4. PassedIsSo'
    BY <1>2, <1>3 DEF AssuranceInv, PassedIsSo
  <1>5. AdmittedWasMeasured'
    BY AdmittedStays DEF AssuranceInv
  <1>. QED BY <1>1, <1>4, <1>5 DEF AssuranceInv

LEMMA AssuranceNextInv ==
    ASSUME AssuranceConstants, AssuranceInv, [AssuranceNext]_assuranceVars PROVE AssuranceInv'
  <1>1. CASE AssuranceNext
    <2>1. Holding
      BY <1>1 DEF AssuranceNext, Holding
    <2>2. CASE \E again \in {"MEASURE", "WORK"} : JudgeAgain(again) \/ WorkspaceDrifted(again)
      BY <2>1, <2>2, JudgeAgainInv, DriftedInv
    <2>3. CASE ListRelays \/ ListSetups
      BY <2>1, <2>3, ListingInv DEF ListRelays, ListSetups, Underway, PeerParts
    <2>4. CASE ProxyBehind \/ RelayRecord \/ RelayDigest \/ Conclude
      BY <2>1, <2>4, ProxyBehindInv, RelayRecordInv, RelayDigestInv, ConcludeInv
    <2>5. CASE Ask \/ Create \/ RuntimeFails \/ Inspect \/ ProbeDigest \/ RunProbe
      BY <2>1, <2>5, AskInv, CreateInv, RuntimeFailsInv, InspectInv, ProbeDigestInv, RunProbeInv
    <2>6. CASE Remount \/ Alter \/ Stops \/ PeersChange
      BY <2>1, <2>6, FaultInv
    <2>. QED BY <1>1, <2>2, <2>3, <2>4, <2>5, <2>6 DEF AssuranceNext, AssuranceStep
  <1>2. CASE UNCHANGED assuranceVars
    BY <1>2, AssuranceStutters
  <1>. QED BY <1>1, <1>2

\* An environment taken for usable was measured to be so (oci.rs: judge, peers, clean and
\* judged_for_work; dwkd-authority/src/sandbox.rs: judge; environment_ops.rs: specification):
\* every required control held while it was judged and every part of its peers when it was
\* looked at, what it mounts is the directory the operator bound and passes the authority's
\* rules, measured anew for this judging, and both daemons agree; for every configuration,
\* every set of directories and facts, and any number of deviations, changes by root before,
\* during and between judgings, and judgings.
THEOREM AdmittedIsMeasured ==
    ASSUME AssuranceConstants PROVE AssuranceSpec => []AdmittedWasMeasured
  <1>1. AssuranceInit => AssuranceInv
    BY AssuranceInitInv
  <1>2. AssuranceInv /\ [AssuranceNext]_assuranceVars => AssuranceInv'
    BY AssuranceNextInv
  <1>3. AssuranceInv => AdmittedWasMeasured
    BY DEF AssuranceInv
  <1>. QED BY <1>1, <1>2, <1>3, PTL DEF AssuranceSpec

=============================================================================
