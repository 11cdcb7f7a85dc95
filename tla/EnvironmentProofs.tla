-------------------------- MODULE EnvironmentProofs --------------------------
(***************************************************************************)
(* Proofs about Environment and the BrokerSandbox it extends, for any      *)
(* number of handles, runs and environments and any of the faults.         *)
(*                                                                         *)
(* What is said of the records alone follows from EInv, whatever the       *)
(* broker and the runtime do.  What is said of the runtime follows from    *)
(* BInv, about what each handle asks, was told and read, how far the       *)
(* broker's job has come and what the runtime holds; its centre is Clear,  *)
(* that an environment is gone for good, which no step of the authority,   *)
(* of the broker or of the runtime undoes.  The number of live records     *)
(* follows from LiveSum, a count of the handles between the route's count  *)
(* and the transaction that mints.                                         *)
(***************************************************************************)
EXTENDS Environment, FiniteSetTheorems, TLAPS

-----------------------------------------------------------------------------
(* The inductive invariant *)

\* The records, the runs and the operations have their types.
StoreTypeOK ==
    /\ incarnation \in 0..MaxIncarnation
    /\ run \in [Runs -> {"NONE", "ACTIVE", "ENDED"}]
    /\ env \in [Envs -> Record]
    /\ pc \in [Handles -> Operation]

\* Every record is a run's.
RecordsHaveRuns == \A e \in Envs : State(e) # "NONE" => env[e].run \in Runs

\* A route is on for a run, also while it reclaims another's environment.
RoutesHaveRuns ==
    \A h \in Handles :
        pc[h].at \in {"RECLAIM", "COUNT", "BEGIN"} \/ pc[h].then = "COUNT" => pc[h].run \in Runs

\* Environments are minted in order: what begin_prepare takes is a new one.
MintedInOrder == \E n \in 0..MaxEnvs : Minted = 1..n

EInv ==
    /\ StoreTypeOK
    /\ RecordsHaveRuns
    /\ MintedInOrder
    /\ RoutesHaveRuns
    /\ ReadyRunIsActive
    /\ OneLivePerRun

LEMMA InitEInv == Init => EInv
  <1>. SUFFICES ASSUME Init PROVE EInv
    OBVIOUS
  <1>. USE EnvironmentConstants, SandboxConstants DEF EnvironmentConstants, SandboxConstants, Init
  <1>1. NoRecord \in Record
    BY DEF NoRecord, Record
  <1>2. Idle \in Operation
    BY DEF Idle, Operation
  <1>3. \A e \in Envs : State(e) = "NONE"
    BY DEF State, NoRecord
  <1>4. Live = {}
    BY <1>3 DEF Live, LiveStates
  <1>5. MintedInOrder
    <2>1. Minted = 1..0 /\ 0 \in 0..MaxEnvs
      BY <1>3 DEF Minted
    <2>. QED BY <2>1 DEF MintedInOrder
  <1>. QED BY <1>1, <1>2, <1>3, <1>4, <1>5 DEF EInv, StoreTypeOK, RecordsHaveRuns, RoutesHaveRuns,
              ReadyRunIsActive, OneLivePerRun, Idle

-----------------------------------------------------------------------------
(* Operations *)

OperationOK(p) ==
    /\ p \in Operation
    /\ p.at \in {"RECLAIM", "COUNT", "BEGIN"} \/ p.then = "COUNT" => p.run \in Runs

Places == {"IDLE", "RECLAIM", "COUNT", "BEGIN", "ORDER", "PREPARE", "MEASURE",
           "DESTROY", "LIST", "SETTLE", "REAP"}

LEMMA IdleOK == OperationOK(Idle)
  BY SandboxConstants DEF SandboxConstants, OperationOK, Idle, Operation

LEMMA OperationsOK ==
  ASSUME EInv, NEW h \in Handles
  PROVE  OperationOK(pc[h])
  BY DEF EInv, StoreTypeOK, RoutesHaveRuns, OperationOK

\* An operation goes on at another place, about an environment.
LEMMA PlacedOK ==
  ASSUME NEW p, OperationOK(p), NEW where \in Places \ {"RECLAIM", "COUNT", "BEGIN"},
         NEW e \in 0..MaxEnvs
  PROVE  /\ OperationOK([p EXCEPT !.at = where])
         /\ OperationOK([p EXCEPT !.at = where, !.env = e])
         /\ OperationOK([p EXCEPT !.at = where, !.env = e, !.then = "IDLE"])
         /\ p.run \in Runs => OperationOK([p EXCEPT !.at = where, !.env = e, !.then = "COUNT"])
  <1>. USE DEF OperationOK, Operation, Places
  <1>1. OperationOK([p EXCEPT !.at = where])
    OBVIOUS
  <1>2. OperationOK([p EXCEPT !.at = where, !.env = e])
    OBVIOUS
  <1>3. OperationOK([p EXCEPT !.at = where, !.env = e, !.then = "IDLE"])
    OBVIOUS
  <1>4. p.run \in Runs => OperationOK([p EXCEPT !.at = where, !.env = e, !.then = "COUNT"])
    OBVIOUS
  <1>. QED BY <1>1, <1>2, <1>3, <1>4

LEMMA RouteOK ==
  ASSUME NEW p, OperationOK(p), NEW where \in {"RECLAIM", "COUNT", "BEGIN"}, NEW r \in Runs
  PROVE  /\ OperationOK([p EXCEPT !.at = where, !.run = r])
         /\ p.run \in Runs => OperationOK([p EXCEPT !.at = where])
  BY DEF OperationOK, Operation, Places

LEMMA ResumedOK ==
  ASSUME NEW p, OperationOK(p)
  PROVE  OperationOK(Complete(p)) /\ OperationOK(Incomplete(p))
  BY DEF OperationOK, Operation, Complete, Incomplete

LEMMA SettledOK ==
  ASSUME EInv, NEW h \in Handles, NEW f
  PROVE  OperationOK(Settled(h, f)) /\ Settled(h, f).then = pc[h].then
  BY OperationsOK DEF OperationOK, Operation, Settled
\* The operations, after a step, are what an operation may be.
GoodOperations == pc \in [Handles -> Operation] /\ RoutesHaveRuns

LEMMA OneOperationMoves ==
  ASSUME EInv, NEW h \in Handles, NEW p, OperationOK(p), pc' = [pc EXCEPT ![h] = p]
  PROVE  GoodOperations'
  BY DEF EInv, StoreTypeOK, RoutesHaveRuns, OperationOK, GoodOperations

LEMMA NoOperationMoves ==
  ASSUME EInv, pc' = pc
  PROVE  GoodOperations'
  BY DEF EInv, StoreTypeOK, RoutesHaveRuns, GoodOperations

LEMMA PerformDestroyMoves ==
  ASSUME EInv, NEW h \in Handles, NEW e \in 0..MaxEnvs, PerformDestroy(h, e)
  PROVE  GoodOperations'
  <1>1. pc' = [pc EXCEPT ![h] = [pc[h] EXCEPT !.at = "DESTROY", !.env = e]]
    BY DEF PerformDestroy
  <1>2. OperationOK([pc[h] EXCEPT !.at = "DESTROY", !.env = e])
    BY OperationsOK, PlacedOK DEF Places
  <1>. QED BY <1>1, <1>2, OneOperationMoves

LEMMA StepMoves ==
  ASSUME EInv, NEW h \in Handles, Step(h, "PREPARE")
  PROVE  GoodOperations'
  <1>1. pc' = [pc EXCEPT ![h] = [pc[h] EXCEPT !.at = "PREPARE"]]
    BY DEF Step
  <1>2. OperationOK([pc[h] EXCEPT !.at = "PREPARE"])
    <2>1. 0 \in 0..MaxEnvs
      BY SandboxConstants DEF SandboxConstants
    <2>. QED BY <2>1, OperationsOK, PlacedOK DEF Places
  <1>. QED BY <1>1, <1>2, OneOperationMoves

LEMMA ReturnsMoves ==
  ASSUME EInv, NEW h \in Handles, Returns(h)
  PROVE  GoodOperations'
  BY IdleOK, OneOperationMoves DEF Returns

LEMMA ResumeMoves ==
  ASSUME EInv, NEW h \in Handles,
         Resume(h, Complete(pc[h])) \/ Resume(h, Incomplete(pc[h]))
  PROVE  GoodOperations'
  <1>1. ASSUME NEW p, OperationOK(p), Resume(h, p) PROVE GoodOperations'
    BY <1>1, IdleOK, OneOperationMoves DEF Resume
  <1>. QED BY <1>1, OperationsOK, ResumedOK

-----------------------------------------------------------------------------
(* What a step does to the records *)

\* A record is made, or moves while it is live, in its run; it becomes READY only
\* in a run that is active and that this step leaves alone.
RecordMoves(e) ==
    \/ env'[e] = env[e]
    \/ /\ State(e) \in LiveStates
       /\ env'[e] \in Record
       /\ env'[e].state # "NONE"
       /\ env'[e].run = env[e].run
       /\ env'[e].state = "READY" => run' = run /\ run[env[e].run] = "ACTIVE"
    \/ /\ State(e) = "NONE"
       /\ env'[e] \in Record
       /\ env'[e].state = "PREPARING"
       /\ env'[e].run \in Runs
       /\ LiveOf(env'[e].run) = {}
       /\ e = Cardinality(Minted) + 1
       /\ \A f \in Envs \ {e} : env'[f] = env[f]

\* A run that ends leaves no READY record behind.
RunsEndWithRecords ==
    \A r \in Runs : run[r] = "ACTIVE" /\ run'[r] # "ACTIVE" =>
        \A e \in Envs : env'[e].run = r => env'[e].state # "READY"

StoreMoves ==
    /\ incarnation' \in 0..MaxIncarnation
    /\ run' \in [Runs -> {"NONE", "ACTIVE", "ENDED"}]
    /\ DOMAIN env' = Envs /\ env' = [e \in Envs |-> env'[e]]
    /\ \A e \in Envs : RecordMoves(e)
    /\ RunsEndWithRecords

LEMMA MintedCount ==
  ASSUME NEW n \in 0..MaxEnvs, Minted = 1..n
  PROVE  Cardinality(Minted) = n
  BY FS_Interval, SandboxConstants DEF SandboxConstants

LEMMA MintsInOrder ==
  ASSUME EInv, \A e \in Envs : RecordMoves(e)
  PROVE  MintedInOrder'
  <1>. USE SandboxConstants DEF SandboxConstants
  <1>1. PICK n \in 0..MaxEnvs : Minted = 1..n
    BY DEF EInv, MintedInOrder
  <1>2. CASE \E e \in Envs : State(e) = "NONE" /\ env'[e].state = "PREPARING"
    <2>1. PICK e \in Envs : State(e) = "NONE" /\ env'[e].state = "PREPARING"
      BY <1>2
    <2>2. e = n + 1 /\ \A f \in Envs \ {e} : env'[f] = env[f]
      BY <1>1, <2>1, MintedCount DEF RecordMoves, State, LiveStates
    <2>3. Minted' = Minted \cup {e}
      BY <2>1, <2>2 DEF Minted, State
    <2>4. Minted' = 1..(n + 1) /\ n + 1 \in 0..MaxEnvs
      BY <1>1, <2>2, <2>3 DEF Envs
    <2>. QED BY <2>4 DEF MintedInOrder
  <1>3. CASE ~\E e \in Envs : State(e) = "NONE" /\ env'[e].state = "PREPARING"
    <2>1. \A e \in Envs : State(e) # "NONE" <=> env'[e].state # "NONE"
      BY <1>3 DEF RecordMoves, State, LiveStates
    <2>2. Minted' = Minted
      BY <2>1 DEF Minted, State
    <2>. QED BY <1>1, <2>2 DEF MintedInOrder
  <1>. QED BY <1>2, <1>3

LEMMA StoreMovesInv ==
  ASSUME EInv, StoreMoves, GoodOperations'
  PROVE  EInv'
  <1>1. \A e \in Envs : env'[e] \in Record
    BY DEF StoreMoves, RecordMoves, EInv, StoreTypeOK
  <1>2. StoreTypeOK'
    BY <1>1 DEF StoreMoves, GoodOperations, StoreTypeOK
  <1>3. RecordsHaveRuns'
    BY DEF StoreMoves, RecordMoves, EInv, RecordsHaveRuns, State, LiveStates
  <1>4. ReadyRunIsActive'
    <2>. SUFFICES ASSUME NEW e \in Envs, env'[e].state = "READY"
                  PROVE  run'[env'[e].run] = "ACTIVE"
      BY DEF ReadyRunIsActive, State
    <2>1. CASE env'[e] = env[e]
      <3>1. env[e].run \in Runs /\ run[env[e].run] = "ACTIVE"
        BY <2>1 DEF EInv, RecordsHaveRuns, ReadyRunIsActive, State
      <3>. QED BY <2>1, <3>1 DEF StoreMoves, RunsEndWithRecords
    <2>2. CASE env'[e] # env[e]
      BY <2>2 DEF StoreMoves, RecordMoves
    <2>. QED BY <2>1, <2>2
  <1>5. OneLivePerRun'
    <2>. SUFFICES ASSUME NEW e \in Envs, NEW f \in Envs,
                         env'[e].state \in LiveStates, env'[f].state \in LiveStates,
                         env'[e].run = env'[f].run, e # f
                  PROVE  FALSE
      BY DEF OneLivePerRun, Live, State
    <2>1. ASSUME NEW x \in Envs, NEW y \in Envs, x # y, State(x) = "NONE",
                 env'[x].state = "PREPARING", env'[y].state \in LiveStates,
                 env'[x].run = env'[y].run
          PROVE  FALSE
      <3>1. /\ LiveOf(env'[x].run) = {} /\ env'[y] = env[y]
        BY <2>1 DEF StoreMoves, RecordMoves, State, LiveStates
      <3>. QED BY <2>1, <3>1 DEF LiveOf, Live, State
    <2>2. ASSUME NEW x \in Envs, env'[x].state \in LiveStates
          PROVE  \/ State(x) \in LiveStates /\ env'[x].run = env[x].run
                 \/ State(x) = "NONE" /\ env'[x].state = "PREPARING"
      BY <2>2 DEF StoreMoves, RecordMoves, State
    <2>3. State(e) \in LiveStates /\ env'[e].run = env[e].run
      BY <2>1, <2>2
    <2>4. State(f) \in LiveStates /\ env'[f].run = env[f].run
      BY <2>1, <2>2
    <2>. QED BY <2>3, <2>4 DEF EInv, OneLivePerRun, Live
  <1>6. MintedInOrder'
    BY MintsInOrder DEF StoreMoves
  <1>. QED BY <1>2, <1>3, <1>4, <1>5, <1>6 DEF EInv, GoodOperations

\* The step leaves the store alone, or moves one live record in its run.
LEMMA StoreKept ==
  ASSUME EInv, UNCHANGED <<incarnation, run, env>>
  PROVE  StoreMoves
  BY DEF EInv, StoreTypeOK, StoreMoves, RecordMoves, RunsEndWithRecords

LEMMA OneMoves ==
  ASSUME EInv, UNCHANGED <<incarnation, run>>, NEW e, NEW to \in LiveStates \cup FinalStates,
         State(e) \in LiveStates, Moves(e, to),
         to = "READY" => run[env[e].run] = "ACTIVE"
  PROVE  StoreMoves
  <1>1. env' = [env EXCEPT ![e] = [state |-> to, run |-> env[e].run, inc |-> env[e].inc]]
    BY DEF Moves, Moved
  <1>2. CASE e \in Envs
    <2>1. [state |-> to, run |-> env[e].run, inc |-> env[e].inc] \in Record
      BY <1>2 DEF EInv, StoreTypeOK, Record
    <2>2. env'[e] = [state |-> to, run |-> env[e].run, inc |-> env[e].inc]
          /\ \A f \in Envs : f # e => env'[f] = env[f]
      BY <1>1, <1>2 DEF EInv, StoreTypeOK
    <2>3. \A f \in Envs : RecordMoves(f)
      BY <2>1, <2>2 DEF RecordMoves, LiveStates, FinalStates
    <2>. QED BY <1>1, <2>3 DEF StoreMoves, RunsEndWithRecords, EInv, StoreTypeOK
  <1>3. CASE e \notin Envs
    <2>1. env' = env
      BY <1>1, <1>3 DEF EInv, StoreTypeOK
    <2>. QED BY <2>1, StoreKept
  <1>. QED BY <1>2, <1>3
-----------------------------------------------------------------------------
(* One lemma per action *)

LEMMA DestructibleIsLive ==
  ASSUME NEW e, Destructible(e)
  PROVE  State(e) \in LiveStates
  BY DEF Destructible, LiveStates

LEMMA BeginDestroyMoves ==
  ASSUME EInv, NEW h \in Handles, NEW e \in 0..MaxEnvs, BeginDestroy(h, e),
         UNCHANGED <<incarnation, run>>
  PROVE  StoreMoves /\ GoodOperations'
  <1>1. StoreMoves
    BY OneMoves, DestructibleIsLive DEF BeginDestroy, LiveStates
  <1>. QED BY <1>1, PerformDestroyMoves DEF BeginDestroy

LEMMA DestroyMoves ==
  ASSUME EInv, NEW h \in Handles, NEW e \in Envs, Destroy(h, e)
  PROVE  StoreMoves /\ GoodOperations'
  <1>1. e \in 0..MaxEnvs
    BY SandboxConstants DEF SandboxConstants, Envs
  <1>. QED BY <1>1, BeginDestroyMoves DEF Destroy

LEMMA DestroyedMoves ==
  ASSUME EInv, NEW h \in Handles, Destroyed(h)
  PROVE  StoreMoves /\ GoodOperations'
  <1>1. ASSUME env' = env PROVE StoreMoves
    BY <1>1, StoreKept DEF Destroyed
  <1>2. ASSUME State(pc[h].env) = "DESTROYING", env' = Moved(env, pc[h].env, "DESTROYED")
        PROVE  StoreMoves
    BY <1>2, OneMoves DEF Destroyed, Moves, LiveStates, FinalStates
  <1>3. StoreMoves
    BY <1>1, <1>2 DEF Destroyed
  <1>4. GoodOperations'
    BY ResumeMoves DEF Destroyed
  <1>. QED BY <1>3, <1>4

LEMMA AdmitRunMoves ==
  ASSUME EInv, NEW r \in Runs, AdmitRun(r)
  PROVE  StoreMoves /\ GoodOperations'
  <1>1. StoreMoves
    BY DEF EInv, StoreTypeOK, AdmitRun, StoreMoves, RecordMoves, RunsEndWithRecords
  <1>. QED BY <1>1, NoOperationMoves DEF AdmitRun

LEMMA EndRunsMoves ==
  ASSUME EInv, NEW h \in Handles, NEW R \in SUBSET Runs, EndRuns(h, R)
  PROVE  StoreMoves /\ GoodOperations'
  <1>1. \A r \in Runs : run'[r] = IF r \in R THEN "ENDED" ELSE run[r]
    BY DEF EndRuns
  <1>2. \A e \in Envs :
          \/ e \notin EndedWith(R) /\ env'[e] = env[e]
          \/ /\ e \in EndedWith(R)
             /\ env'[e] = [state |-> "DESTROYING", run |-> env[e].run, inc |-> env[e].inc]
    BY DEF EndRuns
  <1>3. \A e \in Envs : RecordMoves(e)
    <2>. SUFFICES ASSUME NEW e \in Envs, e \in EndedWith(R) PROVE RecordMoves(e)
      BY <1>2 DEF RecordMoves
    <2>1. State(e) \in LiveStates
      BY DestructibleIsLive DEF EndedWith
    <2>2. env'[e] = [state |-> "DESTROYING", run |-> env[e].run, inc |-> env[e].inc]
      BY <1>2
    <2>3. env'[e] \in Record
      BY <2>2 DEF EInv, StoreTypeOK, Record, LiveStates
    <2>. QED BY <2>1, <2>2, <2>3 DEF RecordMoves
  <1>4. RunsEndWithRecords
    <2>. SUFFICES ASSUME NEW r \in R, NEW e \in Envs, env'[e].run = r, env'[e].state = "READY"
                  PROVE  FALSE
      BY <1>1 DEF RunsEndWithRecords
    <2>0. CASE e \in EndedWith(R)
      <3>1. env'[e] = [state |-> "DESTROYING", run |-> env[e].run, inc |-> env[e].inc]
        BY <1>2, <2>0
      <3>. QED BY <3>1
    <2>1. e \notin EndedWith(R) /\ env'[e] = env[e]
      BY <1>2, <2>0
    <2>. QED BY <2>1 DEF EndedWith, Destructible, State
  <1>5. StoreMoves
    BY <1>3, <1>4 DEF EndRuns, StoreMoves, EInv, StoreTypeOK
  <1>6. GoodOperations'
    <2>1. ASSUME NEW e \in EndedWith(R), PerformDestroy(h, e) PROVE GoodOperations'
      <3>1. e \in 0..MaxEnvs
        BY SandboxConstants DEF SandboxConstants, EndedWith, Envs
      <3>. QED BY <2>1, <3>1, PerformDestroyMoves
    <2>. QED BY <2>1, NoOperationMoves DEF EndRuns
  <1>. QED BY <1>5, <1>6

LEMMA RouteMoves ==
  ASSUME EInv, NEW h \in Handles, NEW r \in Runs, Route(h, r)
  PROVE  StoreMoves /\ GoodOperations'
  <1>1. pc' = [pc EXCEPT ![h] = [pc[h] EXCEPT !.at = "RECLAIM", !.run = r]]
    BY DEF Route
  <1>2. OperationOK([pc[h] EXCEPT !.at = "RECLAIM", !.run = r])
    BY OperationsOK, RouteOK
  <1>. QED BY <1>1, <1>2, OneOperationMoves, StoreKept DEF Route, storeVars

LEMMA ReclaimMoves ==
  ASSUME EInv, NEW h \in Handles, Reclaim(h)
  PROVE  StoreMoves /\ GoodOperations'
  <1>0. OperationOK(pc[h]) /\ pc[h].run \in Runs
    BY OperationsOK DEF Reclaim, At, OperationOK
  <1>1. CASE Step(h, "COUNT") /\ env' = env
    <2>1. pc' = [pc EXCEPT ![h] = [pc[h] EXCEPT !.at = "COUNT"]]
      BY <1>1 DEF Step
    <2>2. OperationOK([pc[h] EXCEPT !.at = "COUNT"])
      BY <1>0, RouteOK
    <2>. QED BY <1>1, <2>1, <2>2, OneOperationMoves, StoreKept DEF Reclaim
  <1>2. ASSUME NEW e \in Reclaimable, Moves(e, "DESTROYING"),
               pc' = [pc EXCEPT ![h].at = "DESTROY", ![h].env = e, ![h].then = "COUNT"]
        PROVE  StoreMoves /\ GoodOperations'
    <2>1. e \in 0..MaxEnvs /\ State(e) \in LiveStates
      BY SandboxConstants DEF SandboxConstants, Reclaimable, Envs, LiveStates
    <2>2. pc' = [pc EXCEPT ![h] = [pc[h] EXCEPT !.at = "DESTROY", !.env = e, !.then = "COUNT"]]
      BY <1>2
    <2>3. OperationOK([pc[h] EXCEPT !.at = "DESTROY", !.env = e, !.then = "COUNT"])
      BY <1>0, <2>1, PlacedOK DEF Places
    <2>4. StoreMoves
      BY <1>2, <2>1, OneMoves DEF Reclaim, LiveStates
    <2>. QED BY <2>2, <2>3, <2>4, OneOperationMoves
  <1>. QED BY <1>1, <1>2 DEF Reclaim

LEMMA CountLiveMoves ==
  ASSUME EInv, NEW h \in Handles, CountLive(h)
  PROVE  StoreMoves /\ GoodOperations'
  <1>0. OperationOK(pc[h]) /\ pc[h].run \in Runs
    BY OperationsOK DEF CountLive, At, OperationOK
  <1>1. CASE Step(h, "BEGIN")
    <2>1. pc' = [pc EXCEPT ![h] = [pc[h] EXCEPT !.at = "BEGIN"]]
      BY <1>1 DEF Step
    <2>2. OperationOK([pc[h] EXCEPT !.at = "BEGIN"])
      BY <1>0, RouteOK
    <2>. QED BY <2>1, <2>2, OneOperationMoves, StoreKept DEF CountLive, storeVars
  <1>2. CASE Returns(h)
    BY <1>2, ReturnsMoves, StoreKept DEF CountLive, storeVars
  <1>. QED BY <1>1, <1>2 DEF CountLive

LEMMA BeginPrepareMoves ==
  ASSUME EInv, NEW h \in Handles, BeginPrepare(h)
  PROVE  StoreMoves /\ GoodOperations'
  <1>. USE SandboxConstants DEF SandboxConstants
  <1>. DEFINE r == pc[h].run
              e == Cardinality(Minted) + 1
  <1>0. OperationOK(pc[h]) /\ r \in Runs
    BY OperationsOK DEF BeginPrepare, At, OperationOK
  <1>1. CASE Returns(h) /\ env' = env
    BY <1>1, ReturnsMoves, StoreKept DEF BeginPrepare
  <1>2. CASE /\ Preparable(r)
             /\ Intended(e, r)
             /\ pc' = [pc EXCEPT ![h].at = "ORDER", ![h].env = e, ![h].then = "IDLE"]
    <2>1. PICK n \in 0..MaxEnvs : Minted = 1..n
      BY DEF EInv, MintedInOrder
    <2>2. e = n + 1
      BY <2>1, MintedCount
    <2>3. e \in Envs /\ State(e) = "NONE" /\ e \in 0..MaxEnvs
      <3>1. n # MaxEnvs
        BY <1>2, <2>1 DEF Preparable, Envs
      <3>2. e \in Envs /\ e \notin Minted
        BY <2>1, <2>2, <3>1 DEF Envs
      <3>. QED BY <3>2 DEF Minted, Envs
    <2>4. env'[e] = [state |-> "PREPARING", run |-> r, inc |-> incarnation]
          /\ \A f \in Envs \ {e} : env'[f] = env[f]
      BY <1>2, <2>3 DEF Intended, EInv, StoreTypeOK
    <2>5. env'[e] \in Record /\ env'[e].state = "PREPARING" /\ env'[e].run = r
      BY <1>0, <2>4 DEF Record, LiveStates, EInv, StoreTypeOK
    <2>6. LiveOf(r) = {}
      BY <1>2 DEF Preparable
    <2>. HIDE DEF r
    <2>7. RecordMoves(e)
      BY <1>0, <2>3, <2>4, <2>5, <2>6 DEF RecordMoves
    <2>8. \A f \in Envs : RecordMoves(f)
      BY <2>4, <2>7 DEF RecordMoves
    <2>9. StoreMoves
      BY <1>2, <2>8 DEF BeginPrepare, Intended, StoreMoves, RunsEndWithRecords, EInv, StoreTypeOK
    <2>10. pc' = [pc EXCEPT ![h] = [pc[h] EXCEPT !.at = "ORDER", !.env = e, !.then = "IDLE"]]
      BY <1>2
    <2>11. OperationOK([pc[h] EXCEPT !.at = "ORDER", !.env = e, !.then = "IDLE"])
      BY <1>0, <2>3, PlacedOK DEF Places
    <2>. QED BY <2>9, <2>10, <2>11, OneOperationMoves
  <1>. QED BY <1>1, <1>2 DEF BeginPrepare

LEMMA SendPrepareMoves ==
  ASSUME EInv, NEW h \in Handles, SendPrepare(h)
  PROVE  StoreMoves /\ GoodOperations'
  BY StepMoves, StoreKept DEF SendPrepare, storeVars

LEMMA RecordPreparedMoves ==
  ASSUME EInv, NEW h \in Handles, NEW to \in {"READY", "DESTROYING", "REFUSED", "UNKNOWN"},
         RecordPrepared(h, to), UNCHANGED <<incarnation, run>>
  PROVE  StoreMoves /\ GoodOperations'
  <1>. DEFINE e == pc[h].env
              ended == WithItsRun(env[e].run, to)
  <1>0. e \in 0..MaxEnvs
    BY OperationsOK DEF OperationOK, Operation
  <1>1. CASE State(e) # "PREPARING"
    BY <1>1, ReturnsMoves, StoreKept DEF RecordPrepared
  <1>2. CASE State(e) = "PREPARING"
    <2>1. ended \in {"READY", "DESTROYING", "REFUSED", "UNKNOWN"}
          /\ (ended = "READY" => run[env[e].run] = "ACTIVE")
      BY DEF WithItsRun
    <2>2. Moves(e, ended) /\ (PerformDestroy(h, e) \/ Returns(h))
      BY <1>2 DEF RecordPrepared
    <2>3. StoreMoves
      BY <1>2, <2>1, <2>2, OneMoves DEF LiveStates, FinalStates
    <2>4. GoodOperations'
      BY <1>0, <2>2, PerformDestroyMoves, ReturnsMoves
    <2>. QED BY <2>3, <2>4
  <1>. QED BY <1>1, <1>2

LEMMA PreparedMoves ==
  ASSUME EInv, NEW h \in Handles, Prepared(h)
  PROVE  StoreMoves /\ GoodOperations'
  <1>1. PICK to \in {"READY", "DESTROYING", "REFUSED", "UNKNOWN"} : RecordPrepared(h, to)
    BY DEF Prepared, Judged
  <1>. QED BY <1>1, RecordPreparedMoves DEF Prepared

LEMMA MeasureMoves ==
  ASSUME EInv, NEW h \in Handles,
         Measured(h) \/ \E e \in Envs : MeasureEnvironment(h, e)
  PROVE  StoreMoves /\ GoodOperations'
  <1>1. CASE Measured(h)
    <2>0. pc[h].env \in 0..MaxEnvs
      BY OperationsOK DEF OperationOK, Operation
    <2>1. CASE Resume(h, Complete(pc[h])) /\ env' = env
      BY <1>1, <2>1, ResumeMoves, StoreKept DEF Measured
    <2>2. CASE BeginDestroy(h, pc[h].env)
      BY <1>1, <2>0, <2>2, BeginDestroyMoves DEF Measured
    <2>. QED BY <1>1, <2>1, <2>2 DEF Measured
  <1>2. ASSUME NEW e \in Envs, MeasureEnvironment(h, e)
        PROVE  StoreMoves /\ GoodOperations'
    <2>0. e \in 0..MaxEnvs
      BY SandboxConstants DEF SandboxConstants, Envs
    <2>1. pc' = [pc EXCEPT ![h] = [pc[h] EXCEPT !.at = "MEASURE", !.env = e]]
      BY <1>2 DEF MeasureEnvironment, AskMeasure
    <2>2. OperationOK([pc[h] EXCEPT !.at = "MEASURE", !.env = e])
      BY <2>0, OperationsOK, PlacedOK DEF Places
    <2>. QED BY <1>2, <2>1, <2>2, OneOperationMoves, StoreKept DEF MeasureEnvironment, storeVars
  <1>. QED BY <1>1, <1>2

LEMMA FoundInClass ==
  ASSUME EInv, NEW e \in Envs, State(e) # "NONE"
  PROVE  Found(e, State(e), "UNSEEN") \in Class
  BY DEF EInv, StoreTypeOK, Record, State, Found, Class

LEMMA ReconcileMoves ==
  ASSUME EInv, NEW h \in Handles, Attach(h) \/ Reconcile(h)
  PROVE  StoreMoves /\ GoodOperations'
  <1>1. PICK sweep \in {"START", "LATER"} : StartReconcile(h, sweep)
    BY DEF Attach, Reconcile
  <1>. DEFINE p == [Idle EXCEPT !.at = "LIST", !.todo = LiveRecords, !.sweep = sweep]
  <1>2. LiveRecords \in SUBSET Class
    BY FoundInClass DEF LiveRecords, Live, LiveStates
  <1>3. OperationOK(p)
    <2>1. Idle \in Operation /\ Idle.then = "IDLE"
      BY IdleOK DEF OperationOK, Idle
    <2>2. p \in Operation
      BY <1>2, <2>1 DEF Operation
    <2>3. p.at = "LIST" /\ p.then = "IDLE"
      BY <2>1 DEF Operation
    <2>. QED BY <2>2, <2>3 DEF OperationOK
  <1>4. pc' = [pc EXCEPT ![h] = p]
    BY <1>1 DEF StartReconcile
  <1>. HIDE DEF p
  <1>. QED BY <1>1, <1>3, <1>4, OneOperationMoves, StoreKept DEF StartReconcile, storeVars

LEMMA ListedMoves ==
  ASSUME EInv, NEW h \in Handles, Unobservable(h) \/ ReconcileEnds(h)
  PROVE  StoreMoves /\ GoodOperations'
  BY ReturnsMoves, StoreKept DEF Unobservable, ReconcileEnds, storeVars

LEMMA ClassifyMoves ==
  ASSUME EInv, NEW h \in Handles, Classify(h)
  PROVE  StoreMoves /\ GoodOperations'
  <1>. DEFINE seen == listing[h]
              read == {f.env : f \in pc[h].todo}
              named == {e \in Envs : seen.box[e] # "NONE" \/ e \in seen.aid}
              records == pc[h].todo \cup
                         {Found(e, State(e), "UNSEEN") : e \in {x \in named \ read : x \in Minted}}
              todo == {Found(f.env, f.was, ClassOf(f, seen.box[f.env], f.env \in seen.aid)) :
                       f \in {x \in records : ~InFlight(x)}}
  <1>0. OperationOK(pc[h])
    BY OperationsOK
  <1>1. records \in SUBSET Class
    <2>1. pc[h].todo \in SUBSET Class
      BY <1>0 DEF OperationOK, Operation
    <2>2. \A e \in Minted : Found(e, State(e), "UNSEEN") \in Class
      BY FoundInClass DEF Minted
    <2>. QED BY <2>1, <2>2
  <1>. HIDE DEF records
  <1>2. todo \in SUBSET Class
    <2>. SUFFICES ASSUME NEW f \in Class, NEW box, NEW aided
                  PROVE  Found(f.env, f.was, ClassOf(f, box, aided)) \in Class
      BY <1>1
    <2>1. ClassOf(f, box, aided) \in {"RUNNING", "STOPPED", "PENDING", "MISSING", "ORPHAN"}
      BY DEF ClassOf
    <2>. HIDE DEF ClassOf
    <2>. QED BY <2>1 DEF Found, Class
  <1>3. pc' = [pc EXCEPT ![h] = [pc[h] EXCEPT !.at = "SETTLE", !.then = "SETTLE", !.todo = todo]]
    BY DEF Classify, records
  <1>. HIDE DEF todo
  <1>4. OperationOK([pc[h] EXCEPT !.at = "SETTLE", !.then = "SETTLE", !.todo = todo])
    BY <1>0, <1>2 DEF OperationOK, Operation
  <1>. QED BY <1>3, <1>4, OneOperationMoves, StoreKept DEF Classify, storeVars

LEMMA TodoInEnvs ==
  ASSUME EInv, NEW h \in Handles, NEW f \in pc[h].todo
  PROVE  f \in Class /\ f.env \in Envs /\ f.env \in 0..MaxEnvs
  <1>1. f \in Class
    BY OperationsOK DEF OperationOK, Operation
  <1>. QED BY <1>1, SandboxConstants DEF SandboxConstants, Class, Envs

\* What a reconciliation asks the broker about one record.
LEMMA SettlesAt ==
  ASSUME EInv, NEW h \in Handles, NEW f \in pc[h].todo, NEW where \in {"MEASURE", "DESTROY", "REAP"},
         pc' = [pc EXCEPT ![h] = [Settled(h, f) EXCEPT !.at = where, !.env = f.env]]
  PROVE  GoodOperations'
  <1>1. OperationOK([Settled(h, f) EXCEPT !.at = where, !.env = f.env])
    BY SettledOK, TodoInEnvs, PlacedOK DEF Places
  <1>. QED BY <1>1, OneOperationMoves

LEMMA SettleMoves ==
  ASSUME EInv, NEW h \in Handles, NEW f \in pc[h].todo,
         \/ SettleRunning(h, f) \/ SettlePending(h, f)
         \/ SettleMissing(h, f) \/ SettleOrphan(h, f)
  PROVE  StoreMoves /\ GoodOperations'
  <1>1. CASE SettleRunning(h, f)
    BY <1>1, SettlesAt, StoreKept DEF SettleRunning, storeVars
  <1>2. CASE SettleOrphan(h, f)
    BY <1>2, SettlesAt, StoreKept DEF SettleOrphan, storeVars
  <1>3. CASE SettlePending(h, f)
    <2>1. CASE Destructible(f.env)
      <3>1. StoreMoves
        BY <1>3, <2>1, OneMoves, DestructibleIsLive DEF SettlePending, LiveStates
      <3>. QED BY <1>3, <2>1, <3>1, SettlesAt DEF SettlePending
    <2>2. CASE ~Destructible(f.env)
      <3>1. pc' = [pc EXCEPT ![h] = Incomplete(Settled(h, f))] /\ env' = env
        BY <1>3, <2>2 DEF SettlePending
      <3>2. GoodOperations'
        BY <3>1, SettledOK, ResumedOK, OneOperationMoves
      <3>. QED BY <1>3, <3>1, <3>2, StoreKept DEF SettlePending
    <2>. QED BY <2>1, <2>2
  <1>4. CASE SettleMissing(h, f)
    <2>. DEFINE to == IF f.was = "DESTROYING" THEN "DESTROYED" ELSE "LOST"
    <2>1. CASE MovesForward(State(f.env), to)
      <3>1. State(f.env) \in LiveStates
        BY <2>1 DEF MovesForward, LiveStates
      <3>2. StoreMoves
        BY <1>4, <2>1, <3>1, OneMoves DEF SettleMissing, FinalStates
      <3>. QED BY <1>4, <2>1, <3>2, SettledOK, OneOperationMoves DEF SettleMissing
    <2>2. CASE ~MovesForward(State(f.env), to)
      BY <1>4, <2>2, ReturnsMoves, StoreKept DEF SettleMissing
    <2>. QED BY <2>1, <2>2
  <1>. QED BY <1>1, <1>2, <1>3, <1>4

LEMMA ReapedMoves ==
  ASSUME EInv, NEW h \in Handles, Reaped(h)
  PROVE  StoreMoves /\ GoodOperations'
  <1>1. \E p \in {Complete(pc[h]), Incomplete(pc[h])} : pc' = [pc EXCEPT ![h] = p]
    BY DEF Reaped
  <1>. QED BY <1>1, OperationsOK, ResumedOK, OneOperationMoves, StoreKept DEF Reaped, storeVars

LEMMA StartMoves ==
  ASSUME EInv, Start
  PROVE  StoreMoves /\ GoodOperations'
  <1>1. \A e \in Envs :
          env'[e] = [state |-> ReapedAtStart(Reopened(State(e))), run |-> env[e].run, inc |-> env[e].inc]
    BY DEF Start
  <1>2. ASSUME NEW e \in Envs PROVE RecordMoves(e) /\ env'[e].state # "READY"
    <2>0. env[e] \in Record /\ env[e] = [state |-> State(e), run |-> env[e].run, inc |-> env[e].inc]
      BY DEF EInv, StoreTypeOK, Record, State
    <2>1. CASE State(e) \in LiveStates
      <3>1. ReapedAtStart(Reopened(State(e))) \in {"DESTROYING", "UNKNOWN"}
        BY <2>1 DEF ReapedAtStart, Reopened, LiveStates
      <3>2. PICK to \in {"DESTROYING", "UNKNOWN"} :
               env'[e] = [state |-> to, run |-> env[e].run, inc |-> env[e].inc]
        BY <1>1, <3>1
      <3>3. env'[e] \in Record /\ env'[e].state \in {"DESTROYING", "UNKNOWN"} /\ env'[e].run = env[e].run
        BY <2>0, <3>2 DEF Record, LiveStates
      <3>. QED BY <2>1, <3>3 DEF RecordMoves
    <2>2. CASE State(e) \notin LiveStates
      <3>1. ReapedAtStart(Reopened(State(e))) = State(e) /\ State(e) # "READY"
        BY <2>2 DEF ReapedAtStart, Reopened, LiveStates
      <3>2. env'[e] = env[e]
        BY <1>1, <2>0, <3>1
      <3>. QED BY <3>1, <3>2 DEF RecordMoves, State
    <2>. QED BY <2>1, <2>2
  <1>3. incarnation' \in 0..MaxIncarnation
    BY EnvironmentConstants DEF EnvironmentConstants, Start, EInv, StoreTypeOK
  <1>4. run' \in [Runs -> {"NONE", "ACTIVE", "ENDED"}]
    BY DEF Start, EInv, StoreTypeOK
  <1>5. DOMAIN env' = Envs /\ env' = [e \in Envs |-> env'[e]]
    BY DEF Start
  <1>6. StoreMoves
    BY <1>2, <1>3, <1>4, <1>5 DEF StoreMoves, RunsEndWithRecords
  <1>. QED BY <1>6, NoOperationMoves DEF Start

LEMMA DieMoves ==
  ASSUME EInv, Die
  PROVE  StoreMoves /\ GoodOperations'
  <1>1. GoodOperations'
    BY IdleOK DEF Die, GoodOperations, RoutesHaveRuns, OperationOK
  <1>. QED BY <1>1, StoreKept DEF Die, storeVars

LEMMA HandleStepMoves ==
  ASSUME EInv, NEW h \in Handles, HandleStep(h)
  PROVE  StoreMoves /\ GoodOperations'
  BY DestroyedMoves, ReclaimMoves, CountLiveMoves, BeginPrepareMoves, SendPrepareMoves,
     PreparedMoves, MeasureMoves, ListedMoves, ClassifyMoves, ReapedMoves, SettleMoves
     DEF HandleStep

LEMMA RequestMoves ==
  ASSUME EInv, NEW h \in Handles, Request(h)
  PROVE  StoreMoves /\ GoodOperations'
  <1>1. ASSUME NEW R \in SUBSET Runs \ {{}}, EndRuns(h, R) PROVE StoreMoves /\ GoodOperations'
    BY <1>1, EndRunsMoves
  <1>. QED BY <1>1, ReconcileMoves, DestroyMoves, MeasureMoves, RouteMoves DEF Request

LEMMA NextMoves ==
  ASSUME EInv, [Next]_vars
  PROVE  StoreMoves /\ GoodOperations'
  <1>1. CASE Start \/ Die
    BY <1>1, StartMoves, DieMoves
  <1>2. CASE \E r \in Runs : AdmitRun(r)
    BY <1>2, AdmitRunMoves
  <1>3. CASE \E h \in Handles : HandleStep(h) \/ Request(h)
    BY <1>3, HandleStepMoves, RequestMoves
  <1>4. CASE UNCHANGED <<storeVars, pc>>
    BY <1>4, StoreKept, NoOperationMoves DEF storeVars
  <1>5. CASE UNCHANGED vars
    BY <1>4, <1>5 DEF vars, storeVars
  <1>. QED BY <1>1, <1>2, <1>3, <1>4, <1>5 DEF Next

LEMMA EnvironmentInvariant == Spec => []EInv
  <1>1. EInv /\ [Next]_vars => EInv'
    BY NextMoves, StoreMovesInv
  <1>. QED BY <1>1, InitEInv, PTL DEF Spec

-----------------------------------------------------------------------------
(* The broker and the runtime: the inductive invariant *)

\* Nothing has been done for the environment yet.
Untouched(e) ==
    /\ container[e] = "NONE"
    /\ e \notin helpers
    /\ e \notin late
    /\ ~(job.op = "PREPARE" /\ job.env = e)

\* A preparation that is still to reach the broker, or to be answered.
Underway(p, c) == p.at = "ORDER" \/ (p.at = "PREPARE" /\ c.st \in {"WAIT", "SENT"})

\* The environment is gone for good: nothing of it is in the runtime but a
\* creation completed late, and nobody is about to make it.
Clear(e) ==
    /\ State(e) # "NONE"
    /\ container[e] \in Left(e)
    /\ e \notin helpers
    /\ ~(job.op = "PREPARE" /\ job.env = e)
    /\ \A h \in Handles : pc[h].env = e => ~Underway(pc[h], call[h])

\* The exchange a handle has open is the one its operation waits for.
OpAt(at) == IF at = "REAP" THEN "DESTROY" ELSE at
Fits(p, c) ==
    /\ p.at \in Alone => c = NoCall
    /\ p.at \notin Alone => c.st # "NONE" /\ c.op = OpAt(p.at) /\ c.env = p.env
    /\ p.at \in {"ORDER", "PREPARE", "MEASURE", "DESTROY", "REAP"} => p.env \in Envs

\* An answer on which a record ends.
Vouched(c) ==
    /\ c.st = "DONE"
    /\ \/ c.op = "DESTROY" /\ c.ans = "GONE"
       \/ c.op = "PREPARE" /\ c.ans \in {"REFUSED", "NOT_SENT"}

\* What a handle asks the broker, and what it may believe.
Asks(p, c) ==
    /\ p.at \in {"ORDER", "PREPARE"} => State(p.env) = "PREPARING"
    /\ p.at = "ORDER" \/ (p.at = "PREPARE" /\ c.st = "WAIT") => Untouched(p.env)
    /\ p.at \in {"DESTROY", "REAP"} => State(p.env) \notin {"NONE", "PREPARING"}
    /\ Vouched(c) => Clear(p.env)

\* What is left of a record as a reconciliation read it.
Known(f) ==
    /\ State(f.env) # "NONE"
    /\ f.was # "PREPARING" => State(f.env) # "PREPARING"
    /\ f.was \in {"PREPARING", "READY"} => env[f.env].inc = incarnation
    /\ f.class = "ORPHAN" => f.was \in FinalStates
    /\ f.class = "RUNNING" => f.was = "READY"
    /\ f.class = "MISSING" => Clear(f.env)

\* What a listing did not see of a record read before it is gone.
Unseen(l, f) == f.was # "PREPARING" /\ l.box[f.env] = "NONE" /\ f.env \notin l.aid
Knows(p, c, l) ==
    \A f \in p.todo :
        /\ Known(f)
        /\ p.at = "LIST" /\ c.st = "DONE" /\ c.ans = "LISTED" /\ Unseen(l, f) => Clear(f.env)

\* What the reconciliation of a start has still to settle, none of it refused.
Owes(p, e) ==
    \/ \E f \in p.todo : f.env = e
    \/ p.at \in {"DESTROY", "REAP"} /\ p.env = e
Earlier(e) == State(e) # "NONE" /\ env[e].inc < incarnation
Sweeps(p) ==
    p.sweep = "START" =>
        /\ p.at \in {"LIST", "SETTLE", "MEASURE", "DESTROY", "REAP"}
        /\ p.at # "LIST" => p.then = "SETTLE"
        /\ \A e \in Envs : Earlier(e) => Owes(p, e) \/ Clear(e)

HandleOK(h) ==
    /\ Fits(pc[h], call[h])
    /\ Asks(pc[h], call[h])
    /\ Knows(pc[h], call[h], listing[h])
    /\ Sweeps(pc[h])

\* An environment is prepared by one handle.
Apart ==
    \A g, h \in Handles :
        /\ pc[g].at \in {"ORDER", "PREPARE"}
        /\ pc[h].at \in {"ORDER", "PREPARE"}
        /\ pc[g].env = pc[h].env
        => g = h

\* How far the broker's job has come.
Serves ==
    /\ job.op = "NONE" => job = NoJob
    /\ job.op \in {"PREPARE", "MEASURE", "DESTROY"} => job.env \in Envs
    /\ job.by # "none" =>
        call[job.by].st = "SENT" /\ call[job.by].op = job.op /\ call[job.by].env = job.env
Makes ==
    job.op = "PREPARE" =>
        /\ State(job.env) # "NONE"
        /\ job.at \in {"BEGIN", "CREATE"} => container[job.env] = "NONE" /\ job.env \notin late
        /\ job.at \in {"BEGIN", "CREATE", "ABANDON", "START", "REMOVE"} => job.env \notin helpers
Removes ==
    job.op = "DESTROY" =>
        /\ State(job.env) \notin {"NONE", "PREPARING"}
        /\ job.at = "REMOVE" => job.env \notin helpers

Unminted == \A e \in Envs : State(e) = "NONE" => Untouched(e) /\ e \notin proxy
EndedClear == \A e \in Envs : State(e) \in FinalStates => Clear(e)
Current ==
    proc = "UP" => \A e \in Envs : State(e) \in {"PREPARING", "READY"} => env[e].inc = incarnation
DownIdle == proc = "DOWN" => \A h \in Handles : pc[h] = Idle

BInv ==
    /\ SandboxTypeOK
    /\ proc \in {"UP", "DOWN"} /\ attached \in {"YES", "NO"}
    /\ late \subseteq tardy
    /\ \A h \in Handles : HandleOK(h)
    /\ Apart
    /\ Serves /\ Makes /\ Removes
    /\ Unminted
    /\ EndedClear
    /\ Current
    /\ DownIdle

-----------------------------------------------------------------------------
(* A step of the broker or of the runtime *)

AuthorityKept == UNCHANGED <<proc, attached, incarnation, env, pc>>

\* What the runtime holds of an environment that is not being prepared only
\* gets less, or is a creation completed late.
Shrinks(e) ==
    /\ \/ container'[e] \in {container[e], "NONE"}
       \/ container'[e] = "STOPPED" /\ (e \in late \/ container[e] = "RUNNING")
    /\ e \in helpers' => e \in helpers
    /\ e \in late' => e \in late
    /\ e \in proxy' => e \in proxy

RuntimeMoves ==
    /\ container' \in [Envs -> Boxes]
    /\ helpers' \subseteq Envs /\ proxy' \subseteq Envs /\ tardy' \subseteq Envs
    /\ tardy \subseteq tardy' /\ late' \subseteq tardy'
    /\ \A e \in Envs : (job.op = "PREPARE" /\ job.env = e) \/ Shrinks(e)

Answers == {"NOT_SENT", "LOST", "REFUSED", "UNCONFIRMED", "KEPT", "CLEAN", "GONE", "LISTED"}

\* An exchange is taken up, or ends with an answer.
TakenUp(h) == call[h].st = "WAIT" /\ call'[h] = [call[h] EXCEPT !.st = "SENT"]
EndsWith(h, ans) ==
    /\ call[h].st \in {"WAIT", "SENT"}
    /\ call'[h] = [st |-> "DONE", op |-> call[h].op, env |-> call[h].env, ans |-> ans]
CallMoves(h) ==
    \/ call'[h] = call[h] /\ listing'[h] = listing[h]
    \/ TakenUp(h) /\ listing'[h] = listing[h]
    \/ \E ans \in Answers :
        /\ EndsWith(h, ans)
        /\ Vouched(call'[h]) => Clear(pc[h].env)'
        /\ pc[h].at = "LIST" /\ ans = "LISTED" =>
              \A f \in pc[h].todo : Unseen(listing'[h], f) => Clear(f.env)'

JobMoves ==
    job'.op = "PREPARE" =>
        \/ job.op = "PREPARE" /\ job.env = job'.env
        \/ \E h \in Handles :
              TakenUp(h) /\ call[h].op = "PREPARE" /\ call[h].env = job'.env

LEMMA CallStays ==
  ASSUME NEW h \in Handles, call \in [Handles -> Call], Fits(pc[h], call[h]), CallMoves(h), pc' = pc
  PROVE  /\ call'[h] \in Call /\ Fits(pc'[h], call'[h])
         /\ Underway(pc'[h], call'[h]) => Underway(pc[h], call[h])
         /\ call'[h].st = "WAIT" => call'[h] = call[h]
  <1>0. call[h] \in Call
    OBVIOUS
  <1>1. CASE call'[h] = call[h]
    BY <1>0, <1>1
  <1>2. CASE TakenUp(h)
    <2>1. call'[h] \in Call /\ call'[h].st = "SENT" /\ call'[h].op = call[h].op /\ call'[h].env = call[h].env
      BY <1>0, <1>2 DEF TakenUp, Call
    <2>2. call[h] # NoCall
      BY <1>2 DEF TakenUp, NoCall
    <2>. QED BY <1>2, <2>1, <2>2 DEF TakenUp, Fits, Underway
  <1>3. ASSUME NEW ans \in Answers, EndsWith(h, ans)
        PROVE  /\ call'[h] \in Call /\ Fits(pc'[h], call'[h])
               /\ Underway(pc'[h], call'[h]) => Underway(pc[h], call[h])
               /\ call'[h].st = "WAIT" => call'[h] = call[h]
    <2>1. call'[h] \in Call /\ call'[h].st = "DONE" /\ call'[h].op = call[h].op /\ call'[h].env = call[h].env
      BY <1>0, <1>3 DEF EndsWith, Call, Answers
    <2>2. call[h] # NoCall
      BY <1>3 DEF EndsWith, NoCall
    <2>. QED BY <2>1, <2>2 DEF Fits, Underway
  <1>. QED BY <1>1, <1>2, <1>3 DEF CallMoves

LEMMA ClearStaysB ==
  ASSUME EInv, BInv, AuthorityKept, RuntimeMoves, JobMoves, \A h \in Handles : CallMoves(h),
         NEW e \in Envs, Clear(e)
  PROVE  Clear(e)'
  <1>1. State(e)' = State(e)
    BY DEF AuthorityKept, State
  <1>2. ~(job.op = "PREPARE" /\ job.env = e) /\ Shrinks(e)
    BY DEF Clear, RuntimeMoves
  <1>3. container'[e] \in Left(e)' /\ e \notin helpers'
    BY <1>2 DEF Clear, Left, Shrinks, RuntimeMoves, BInv
  <1>4. \A h \in Handles : pc'[h].env = e => ~Underway(pc'[h], call'[h])
    BY CallStays DEF Clear, AuthorityKept, BInv, SandboxTypeOK, HandleOK
  <1>5. ~(job'.op = "PREPARE" /\ job'.env = e)
    <2>1. ASSUME NEW h \in Handles, TakenUp(h), call[h].op = "PREPARE", call[h].env = e PROVE FALSE
      <3>1. Fits(pc[h], call[h]) /\ call[h] # NoCall
        BY <2>1 DEF BInv, HandleOK, TakenUp, NoCall
      <3>2. pc[h].at = "PREPARE" /\ pc[h].env = e
        BY <2>1, <3>1 DEF Fits, OpAt
      <3>. QED BY <2>1, <3>2 DEF Clear, Underway, TakenUp
    <2>. QED BY <1>2, <2>1 DEF JobMoves
  <1>. QED BY <1>1, <1>3, <1>4, <1>5 DEF Clear

LEMMA UntouchedStaysB ==
  ASSUME EInv, BInv, AuthorityKept, RuntimeMoves, JobMoves, \A h \in Handles : CallMoves(h),
         NEW e \in Envs, Untouched(e),
         \A g \in Handles : TakenUp(g) => ~(pc[g].at = "PREPARE" /\ pc[g].env = e)
  PROVE  Untouched(e)'
  <1>1. Shrinks(e)
    BY DEF Untouched, RuntimeMoves
  <1>2. ~(job'.op = "PREPARE" /\ job'.env = e)
    <2>1. ASSUME NEW h \in Handles, TakenUp(h), call[h].op = "PREPARE", call[h].env = e PROVE FALSE
      <3>1. Fits(pc[h], call[h]) /\ call[h] # NoCall
        BY <2>1 DEF BInv, HandleOK, TakenUp, NoCall
      <3>. QED BY <2>1, <3>1 DEF Fits, OpAt
    <2>. QED BY <2>1 DEF JobMoves, Untouched
  <1>. QED BY <1>1, <1>2 DEF Untouched, Shrinks

\* A step of the broker or of the runtime keeps the invariant when what it says
\* is true, and when its own job is as far as it says.
LEMMA BrokerStep ==
  ASSUME EInv, BInv, AuthorityKept, RuntimeMoves, JobMoves, \A h \in Handles : CallMoves(h),
         broker' \in {"UP", "DOWN"}, job' \in Job, DOMAIN call' = Handles, call' = [h \in Handles |-> call'[h]],
         listing' \in [Handles -> [box : [Envs -> Boxes], aid : SUBSET Envs]],
         Serves', Makes', Removes'
  PROVE  BInv'
  <1>1. \A e \in Envs : Clear(e) => Clear(e)'
    BY ClearStaysB
  <1>2. \A e \in Envs : State(e)' = State(e) /\ env'[e] = env[e]
    BY DEF AuthorityKept, State
  <1>3. \A h \in Handles : call'[h] \in Call /\ Fits(pc'[h], call'[h])
    BY CallStays DEF AuthorityKept, BInv, SandboxTypeOK, HandleOK
  <1>4. SandboxTypeOK'
    BY <1>3 DEF RuntimeMoves, SandboxTypeOK
  <1>5. ASSUME NEW h \in Handles PROVE HandleOK(h)'
    <2>0. HandleOK(h) /\ pc'[h] = pc[h] /\ pc[h] \in Operation /\ call[h] \in Call
      BY DEF BInv, AuthorityKept, EInv, StoreTypeOK, SandboxTypeOK
    <2>1. Asks(pc[h], call[h])'
      <3>1. CASE pc[h].at = "ORDER" \/ (pc[h].at = "PREPARE" /\ call'[h].st = "WAIT")
        <4>1. pc[h].env \in Envs /\ State(pc[h].env) = "PREPARING" /\ pc[h].at \in {"ORDER", "PREPARE"}
          BY <2>0, <3>1 DEF HandleOK, Fits, Asks
        <4>2. pc[h].at = "PREPARE" => call'[h] = call[h] /\ call[h].st = "WAIT"
          BY <2>0, <3>1, CallStays DEF BInv, SandboxTypeOK, HandleOK, AuthorityKept
        <4>3. Untouched(pc[h].env)
          BY <2>0, <3>1, <4>2 DEF HandleOK, Asks
        <4>4. ASSUME NEW g \in Handles, TakenUp(g), pc[g].at = "PREPARE", pc[g].env = pc[h].env PROVE FALSE
          <5>1. g = h
            BY <4>1, <4>4 DEF BInv, Apart
          <5>2. call[h].st = "WAIT" /\ call'[h] = [call[h] EXCEPT !.st = "SENT"] /\ call'[h] = call[h]
            BY <4>2, <4>4, <5>1 DEF TakenUp
          <5>. QED BY <2>0, <5>2 DEF Call
        <4>5. Untouched(pc[h].env)'
          BY <2>0, <4>1, <4>3, <4>4, UntouchedStaysB DEF AuthorityKept
        <4>6. call'[h].st # "DONE"
          BY <2>0, <3>1, <4>2, <1>3 DEF Fits, Alone, NoCall
        <4>. QED BY <2>0, <4>1, <4>5, <4>6, <1>2 DEF Asks, Vouched
      <3>2. CASE ~(pc[h].at = "ORDER" \/ (pc[h].at = "PREPARE" /\ call'[h].st = "WAIT"))
        <4>1. Vouched(call'[h]) => Clear(pc[h].env)'
          <5>1. CASE call'[h] = call[h]
            <6>1. Vouched(call[h]) => pc[h].env \in Envs
              BY <2>0 DEF Vouched, HandleOK, Fits, OpAt, NoCall, Alone, Operation
            <6>. QED BY <1>1, <2>0, <5>1, <6>1 DEF HandleOK, Asks, AuthorityKept
          <5>2. CASE TakenUp(h)
            <6>1. call'[h].st = "SENT"
              BY <2>0, <5>2 DEF TakenUp, Call
            <6>. QED BY <6>1 DEF Vouched
          <5>3. CASE \E ans \in Answers : EndsWith(h, ans) /\ (Vouched(call'[h]) => Clear(pc[h].env)')
            BY <5>3
          <5>. QED BY <5>1, <5>2, <5>3 DEF CallMoves
        <4>2. pc[h].at \in {"ORDER", "PREPARE", "DESTROY", "REAP"} => pc[h].env \in Envs
          BY <2>0 DEF HandleOK, Fits
        <4>. QED BY <1>2, <2>0, <3>2, <4>1, <4>2 DEF HandleOK, Asks
      <3>. QED BY <3>1, <3>2
    <2>2. Knows(pc[h], call[h], listing[h])'
      <3>. SUFFICES ASSUME NEW f \in pc[h].todo
                    PROVE  /\ Known(f)'
                           /\ pc[h].at = "LIST" /\ call'[h].st = "DONE" /\ call'[h].ans = "LISTED"
                              /\ Unseen(listing'[h], f) => Clear(f.env)'
        BY <2>0 DEF Knows
      <3>0. f.env \in Envs
        BY TodoInEnvs
      <3>1. Known(f)'
        BY <1>1, <1>2, <2>0, <3>0 DEF HandleOK, Knows, Known, AuthorityKept
      <3>2. ASSUME pc[h].at = "LIST", call'[h].st = "DONE", call'[h].ans = "LISTED", Unseen(listing'[h], f)
            PROVE  Clear(f.env)'
        <4>1. CASE call'[h] = call[h] /\ listing'[h] = listing[h]
          BY <1>1, <2>0, <3>0, <3>2, <4>1 DEF HandleOK, Knows
        <4>2. CASE TakenUp(h)
          BY <2>0, <3>2, <4>2 DEF TakenUp, Call
        <4>3. ASSUME NEW ans \in Answers, EndsWith(h, ans),
                     pc[h].at = "LIST" /\ ans = "LISTED" =>
                       \A x \in pc[h].todo : Unseen(listing'[h], x) => Clear(x.env)'
              PROVE  Clear(f.env)'
          <5>1. ans = "LISTED"
            BY <3>2, <4>3 DEF EndsWith
          <5>. QED BY <3>2, <4>3, <5>1
        <4>. QED BY <4>1, <4>2, <4>3 DEF CallMoves
      <3>. QED BY <3>1, <3>2
    <2>3. Sweeps(pc[h])'
      BY <1>1, <1>2, <2>0 DEF HandleOK, Sweeps, Earlier, AuthorityKept, Owes
    <2>. QED BY <1>3, <2>0, <2>1, <2>2, <2>3 DEF HandleOK
  <1>6. Unminted'
    <2>. SUFFICES ASSUME NEW e \in Envs, State(e) = "NONE" PROVE Untouched(e)' /\ e \notin proxy'
      BY <1>2 DEF Unminted
    <2>1. Untouched(e) /\ e \notin proxy
      BY DEF BInv, Unminted
    <2>2. ASSUME NEW g \in Handles, pc[g].at = "PREPARE" PROVE pc[g].env # e
      BY <2>2 DEF BInv, HandleOK, Asks
    <2>3. Untouched(e)'
      BY <2>1, <2>2, UntouchedStaysB
    <2>. QED BY <2>1, <2>3 DEF RuntimeMoves, Shrinks, Untouched
  <1>7. EndedClear'
    BY <1>1, <1>2 DEF BInv, EndedClear
  <1>8. Apart' /\ Current' /\ DownIdle'
    BY <1>2 DEF BInv, AuthorityKept, Apart, Current, DownIdle
  <1>9. proc' \in {"UP", "DOWN"} /\ attached' \in {"YES", "NO"} /\ late' \subseteq tardy'
    BY DEF BInv, AuthorityKept, RuntimeMoves
  <1>. QED BY <1>4, <1>5, <1>6, <1>7, <1>8, <1>9 DEF BInv

\* The job goes on, or is left alone.
LEMMA JobGoesOn ==
  ASSUME EInv, BInv, AuthorityKept, RuntimeMoves, broker' \in {"UP", "DOWN"}, UNCHANGED <<call, listing>>,
         job' \in Job, job'.op = job.op, job'.env = job.env, job'.by = job.by,
         job.op = "NONE" => job' = job, Makes', Removes'
  PROVE  BInv'
  <1>1. Serves'
    BY DEF BInv, Serves
  <1>2. JobMoves /\ \A h \in Handles : CallMoves(h)
    BY DEF JobMoves, CallMoves
  <1>. QED BY <1>1, <1>2, BrokerStep DEF BInv, SandboxTypeOK

LEMMA GotoJob ==
  ASSUME job \in Job, NEW where \in {"CREATE", "ABANDON", "START", "PEER", "MEASURE", "TEARDOWN",
                                     "REMOVE", "REMOVE_UNPROVED"}, Goto(where)
  PROVE  /\ job' \in Job /\ job'.op = job.op /\ job'.env = job.env /\ job'.by = job.by /\ job'.at = where
         /\ call' = call
  BY DEF Goto, Job

\* The job is answered, or lost with the broker.
LEMMA JobEndsWith ==
  ASSUME EInv, BInv, AuthorityKept, RuntimeMoves, broker' \in {"UP", "DOWN"}, listing' = listing,
         NEW ans \in Answers \ {"LISTED"}, Reply(ans),
         \/ job.op = "DESTROY" /\ ans = "GONE"
         \/ job.op = "PREPARE" /\ ans \in {"REFUSED", "NOT_SENT"}
         => \A e \in Envs : e = job.env => container'[e] \in Left(e)' /\ e \notin helpers'
  PROVE  BInv'
  <1>0. job \in Job /\ call \in [Handles -> Call] /\ job.by \in Handles \cup {"none"}
    BY DEF BInv, SandboxTypeOK, Job
  <1>1. job' = NoJob /\ NoJob \in Job /\ NoJob.op = "NONE" /\ NoJob.by = "none"
    BY SandboxConstants DEF SandboxConstants, Reply, NoJob, Job
  <1>2. Serves' /\ Makes' /\ Removes' /\ JobMoves
    BY <1>1 DEF Serves, Makes, Removes, JobMoves
  <1>3. ASSUME NEW h \in Handles PROVE CallMoves(h)
    <2>1. CASE job.by # h
      BY <1>0, <2>1 DEF Reply, Ended, CallMoves
    <2>2. CASE job.by = h
      <3>0. call[h].st = "SENT" /\ call[h].op = job.op /\ call[h].env = job.env /\ h # "none"
        BY <2>2, SandboxConstants DEF SandboxConstants, BInv, Serves
      <3>1. call'[h] = [st |-> "DONE", op |-> call[h].op, env |-> call[h].env, ans |-> ans]
        BY <1>0, <2>2, <3>0 DEF Reply, Ended
      <3>2. EndsWith(h, ans)
        BY <3>0, <3>1 DEF EndsWith
      <3>3. Fits(pc[h], call[h]) /\ Asks(pc[h], call[h]) /\ call[h] # NoCall
        BY <3>0 DEF BInv, HandleOK, NoCall
      <3>4. pc[h].at \notin Alone /\ pc[h].env = job.env /\ OpAt(pc[h].at) = job.op
        BY <3>0, <3>3 DEF Fits
      <3>5. Vouched(call'[h]) => Clear(pc[h].env)'
        <4>. SUFFICES ASSUME \/ job.op = "DESTROY" /\ ans = "GONE"
                             \/ job.op = "PREPARE" /\ ans \in {"REFUSED", "NOT_SENT"},
                             NEW e \in Envs, e = job.env
                      PROVE  Clear(e)'
          <5>1. pc'[h].env = job.env
            BY <3>4 DEF AuthorityKept
          <5>2. job.op \in {"DESTROY", "PREPARE"} => job.env \in Envs
            BY DEF BInv, Serves
          <5>. QED BY <3>0, <3>1, <5>1, <5>2 DEF Vouched
        <4>1. State(e) # "NONE" /\ (job.op = "DESTROY" => State(e) # "PREPARING")
          BY DEF BInv, Makes, Removes
        <4>2. ASSUME NEW g \in Handles, pc[g].env = e, Underway(pc'[g], call'[g]) PROVE FALSE
          <5>1. pc[g].at \in {"ORDER", "PREPARE"} /\ State(e) = "PREPARING"
            BY <4>2 DEF Underway, AuthorityKept, BInv, HandleOK, Asks
          <5>2. pc[h].at = "PREPARE"
            BY <3>4, <4>1, <5>1 DEF OpAt
          <5>3. g = h
            BY <3>4, <4>2, <5>1, <5>2 DEF BInv, Apart
          <5>. QED BY <3>1, <4>2, <5>2, <5>3 DEF Underway, AuthorityKept
        <4>3. container'[e] \in Left(e)' /\ e \notin helpers'
          OBVIOUS
        <4>4. ~(job'.op = "PREPARE" /\ job'.env = e)
          BY <1>1
        <4>. QED BY <4>1, <4>2, <4>3, <4>4 DEF Clear, State, AuthorityKept
      <3>. QED BY <3>2, <3>5 DEF CallMoves
    <2>. QED BY <2>1, <2>2
  <1>4. DOMAIN call' = Handles /\ call' = [h \in Handles |-> call'[h]]
    BY <1>0 DEF Reply, Ended
  <1>5. listing' \in [Handles -> [box : [Envs -> Boxes], aid : SUBSET Envs]]
    BY DEF BInv, SandboxTypeOK
  <1>. QED BY <1>1, <1>2, <1>3, <1>4, <1>5, BrokerStep

-----------------------------------------------------------------------------
(* One lemma per step of the broker and of the runtime *)

\* What a step of the broker is taken in.
BrokerTyped ==
    /\ job \in Job /\ container \in [Envs -> Boxes] /\ helpers \subseteq Envs /\ late \subseteq Envs
    /\ proxy \subseteq Envs /\ tardy \subseteq Envs /\ late \subseteq tardy
    /\ broker \in {"UP", "DOWN"}

LEMMA BrokerTypes ==
  ASSUME BInv PROVE BrokerTyped
  BY DEF BInv, SandboxTypeOK, BrokerTyped

\* The container of the job's environment, or its helpers, or its proxy.
LEMMA OwnEnvironment ==
  ASSUME BInv, job.op \in {"PREPARE", "DESTROY", "MEASURE"},
         \/ container' = container
         \/ \E b \in {"STOPPED", "RUNNING"} : job.op = "PREPARE" /\ Box(b)
         \/ Box("NONE"),
         \/ helpers' \in {helpers, helpers \ {job.env}}
         \/ job.op = "PREPARE" /\ helpers' = helpers \cup {job.env},
         \/ UNCHANGED lateVars
         \/ job.op = "PREPARE" /\ late' = late \cup {job.env} /\ tardy' = tardy \cup {job.env},
         \/ proxy' \in {proxy, proxy \ {job.env}, {}}
         \/ job.op = "PREPARE" /\ OpenProxy
  PROVE  RuntimeMoves
  <1>0. BrokerTyped /\ job.env \in Envs
    BY BrokerTypes DEF BInv, Serves
  <1>1. container' \in [Envs -> Boxes] /\ \A e \in Envs : e # job.env => container'[e] = container[e]
    BY <1>0 DEF BrokerTyped, Box, Boxes
  <1>2. container'[job.env] \in {container[job.env], "NONE"} \/ job.op = "PREPARE"
    BY <1>0 DEF BrokerTyped, Box
  <1>3. /\ helpers' \subseteq Envs /\ (job.op = "PREPARE" \/ helpers' \subseteq helpers)
        /\ \A e \in Envs : e # job.env /\ e \in helpers' => e \in helpers
    BY <1>0 DEF BrokerTyped
  <1>4. /\ late' \subseteq tardy' /\ tardy' \subseteq Envs /\ tardy \subseteq tardy'
        /\ (job.op = "PREPARE" \/ late' = late) /\ \A e \in Envs : e # job.env /\ e \in late' => e \in late
    BY <1>0 DEF BrokerTyped, lateVars
  <1>5. /\ proxy' \subseteq Envs /\ (job.op = "PREPARE" \/ proxy' \subseteq proxy)
        /\ \A e \in Envs : e # job.env /\ e \in proxy' => e \in proxy
    BY <1>0 DEF BrokerTyped, OpenProxy
  <1>6. \A e \in Envs : (job.op = "PREPARE" /\ job.env = e) \/ Shrinks(e)
    BY <1>1, <1>2, <1>3, <1>4, <1>5 DEF Shrinks
  <1>. QED BY <1>1, <1>3, <1>4, <1>5, <1>6 DEF RuntimeMoves

LEMMA PrepareRefusedB ==
  ASSUME EInv, BInv, AuthorityKept, PrepareRefused
  PROVE  BInv'
  <1>1. RuntimeMoves /\ broker' \in {"UP", "DOWN"}
    BY OwnEnvironment, BrokerTypes DEF PrepareRefused, Serving, runtimeVars, BrokerTyped
  <1>2. container'[job.env] = "NONE" /\ job.env \notin helpers'
    BY DEF PrepareRefused, Serving, runtimeVars, BInv, Makes
  <1>3. \A e \in Envs : e = job.env => container'[e] \in Left(e)' /\ e \notin helpers'
    BY <1>2 DEF Left
  <1>. QED BY <1>1, <1>3, JobEndsWith DEF PrepareRefused, Answers

LEMMA PrepareOpensB ==
  ASSUME EInv, BInv, AuthorityKept, PrepareOpens
  PROVE  BInv'
  <1>1. RuntimeMoves /\ broker' \in {"UP", "DOWN"}
    BY OwnEnvironment, BrokerTypes DEF PrepareOpens, Serving, runtimeVars, BrokerTyped
  <1>2. job' \in Job /\ job'.op = job.op /\ job'.env = job.env /\ job'.by = job.by /\ job'.at = "CREATE"
    BY GotoJob, BrokerTypes DEF PrepareOpens, BrokerTyped
  <1>3. Makes' /\ Removes' /\ job.op = "PREPARE"
    BY <1>2 DEF PrepareOpens, Serving, runtimeVars, lateVars, BInv, Makes, Removes, State, AuthorityKept
  <1>. QED BY <1>1, <1>2, <1>3, JobGoesOn DEF PrepareOpens, Goto

LEMMA CreatesB ==
  ASSUME EInv, BInv, AuthorityKept, Creates
  PROVE  BInv'
  <1>1. RuntimeMoves /\ broker' \in {"UP", "DOWN"}
    BY OwnEnvironment, BrokerTypes DEF Creates, Serving, BrokerTyped
  <1>2. job' \in Job /\ job'.op = job.op /\ job'.env = job.env /\ job'.by = job.by /\ job'.at = "START"
    BY GotoJob, BrokerTypes DEF Creates, BrokerTyped
  <1>3. Makes' /\ Removes' /\ job.op = "PREPARE"
    BY <1>2 DEF Creates, Serving, BInv, Makes, Removes, State, AuthorityKept
  <1>. QED BY <1>1, <1>2, <1>3, JobGoesOn DEF Creates, Goto

LEMMA CreateRefusedB ==
  ASSUME EInv, BInv, AuthorityKept, CreateRefused
  PROVE  BInv'
  <1>1. RuntimeMoves /\ broker' \in {"UP", "DOWN"}
    BY OwnEnvironment, BrokerTypes DEF CreateRefused, Serving, runtimeVars, BrokerTyped, CloseProxy
  <1>2. container'[job.env] = "NONE" /\ job.env \notin helpers'
    BY DEF CreateRefused, Serving, runtimeVars, BInv, Makes
  <1>3. \A e \in Envs : e = job.env => container'[e] \in Left(e)' /\ e \notin helpers'
    BY <1>2 DEF Left
  <1>. QED BY <1>1, <1>3, JobEndsWith DEF CreateRefused, Answers

LEMMA CreateFailsB ==
  ASSUME EInv, BInv, AuthorityKept, CreateFails
  PROVE  BInv'
  <1>1. RuntimeMoves /\ broker' \in {"UP", "DOWN"}
    BY OwnEnvironment, BrokerTypes DEF CreateFails, Serving, LeftToTheRuntime, BrokerTyped
  <1>2. job' \in Job /\ job'.op = job.op /\ job'.env = job.env /\ job'.by = job.by /\ job'.at = "ABANDON"
    BY GotoJob, BrokerTypes DEF CreateFails, BrokerTyped
  <1>3. Makes' /\ Removes' /\ job.op = "PREPARE"
    BY <1>2 DEF CreateFails, Serving, BInv, Makes, Removes, State, AuthorityKept
  <1>. QED BY <1>1, <1>2, <1>3, JobGoesOn DEF CreateFails, Goto

\* The container is removed, or may have been.
LEMMA Emptied ==
  ASSUME BInv, job.op \in {"PREPARE", "DESTROY"}, Box("NONE"), job.env \notin helpers, helpers' = helpers
  PROVE  \A e \in Envs : e = job.env => container'[e] \in Left(e)' /\ e \notin helpers'
  <1>1. container'[job.env] = "NONE"
    BY BrokerTypes DEF BInv, Serves, BrokerTyped, Box
  <1>. QED BY <1>1 DEF Left

LEMMA AbandonB ==
  ASSUME EInv, BInv, AuthorityKept, Abandon
  PROVE  BInv'
  <1>1. RuntimeMoves /\ broker' \in {"UP", "DOWN"}
    BY OwnEnvironment, BrokerTypes DEF Abandon, Serving, MaybeRemoved, BrokerTyped, CloseProxy
  <1>2. CASE Box("NONE") /\ Reply("REFUSED")
    <2>1. \A e \in Envs : e = job.env => container'[e] \in Left(e)' /\ e \notin helpers'
      BY <1>2, Emptied DEF Abandon, Serving, BInv, Makes
    <2>. QED BY <1>1, <1>2, <2>1, JobEndsWith DEF Abandon, Answers
  <1>3. CASE Reply("UNCONFIRMED")
    BY <1>1, <1>3, JobEndsWith DEF Abandon, Answers
  <1>. QED BY <1>2, <1>3 DEF Abandon

LEMMA StartsB ==
  ASSUME EInv, BInv, AuthorityKept, Starts
  PROVE  BInv'
  <1>1. RuntimeMoves /\ broker' \in {"UP", "DOWN"}
    BY OwnEnvironment, BrokerTypes DEF Starts, Serving, BrokerTyped
  <1>2. job' \in Job /\ job'.op = job.op /\ job'.env = job.env /\ job'.by = job.by /\ job'.at = "PEER"
    BY GotoJob, BrokerTypes DEF Starts, BrokerTyped
  <1>3. Makes' /\ Removes' /\ job.op = "PREPARE"
    BY <1>2 DEF Starts, Serving, BInv, Makes, Removes, State, AuthorityKept
  <1>. QED BY <1>1, <1>2, <1>3, JobGoesOn DEF Starts, Goto

LEMMA StartFailsB ==
  ASSUME EInv, BInv, AuthorityKept, StartFails
  PROVE  BInv'
  <1>1. RuntimeMoves /\ broker' \in {"UP", "DOWN"}
    BY OwnEnvironment, BrokerTypes DEF StartFails, Serving, BrokerTyped
  <1>2. job' \in Job /\ job'.op = job.op /\ job'.env = job.env /\ job'.by = job.by /\ job'.at = "TEARDOWN"
    BY GotoJob, BrokerTypes DEF StartFails, BrokerTyped
  <1>3. Makes' /\ Removes' /\ job.op = "PREPARE"
    BY <1>2 DEF StartFails, Serving, BInv, Makes, Removes, State, AuthorityKept
  <1>. QED BY <1>1, <1>2, <1>3, JobGoesOn DEF StartFails, Goto

LEMMA ConnectPeerB ==
  ASSUME EInv, BInv, AuthorityKept, ConnectPeer
  PROVE  BInv'
  <1>0. helpers' = helpers \/ helpers' = helpers \cup {job.env}
    BY DEF ConnectPeer
  <1>1. RuntimeMoves /\ broker' \in {"UP", "DOWN"}
    BY <1>0, OwnEnvironment, BrokerTypes DEF ConnectPeer, Serving, BrokerTyped
  <1>2. job' \in Job /\ job'.op = job.op /\ job'.env = job.env /\ job'.by = job.by /\ job'.at = "MEASURE"
    BY GotoJob, BrokerTypes DEF ConnectPeer, BrokerTyped
  <1>3. Makes' /\ Removes' /\ job.op = "PREPARE"
    BY <1>2 DEF ConnectPeer, Serving, BInv, Makes, Removes, State, AuthorityKept
  <1>. QED BY <1>1, <1>2, <1>3, JobGoesOn DEF ConnectPeer, Goto

LEMMA MeasuresB ==
  ASSUME EInv, BInv, AuthorityKept, Keep \/ TakeDown \/ Measure
  PROVE  BInv'
  <1>0. job.op \in {"PREPARE", "MEASURE"} /\ UNCHANGED <<broker, proxy, listing, runtimeVars>>
    BY DEF Keep, TakeDown, Measure, Serving
  <1>1. RuntimeMoves /\ broker' \in {"UP", "DOWN"}
    BY <1>0, OwnEnvironment, BrokerTypes DEF runtimeVars, BrokerTyped
  <1>2. CASE Keep
    BY <1>0, <1>1, <1>2, JobEndsWith DEF Keep, Serving, Answers
  <1>3. CASE Measure
    BY <1>0, <1>1, <1>3, JobEndsWith DEF Measure, Serving, Answers
  <1>4. CASE TakeDown
    <2>1. job' \in Job /\ job'.op = job.op /\ job'.env = job.env /\ job'.by = job.by /\ job'.at = "TEARDOWN"
      BY <1>4, GotoJob, BrokerTypes DEF TakeDown, BrokerTyped
    <2>2. Makes' /\ Removes' /\ job.op = "PREPARE"
      BY <1>0, <1>4, <2>1 DEF TakeDown, Serving, BInv, Makes, Removes, State, AuthorityKept
    <2>. QED BY <1>0, <1>1, <1>4, <2>1, <2>2, JobGoesOn DEF TakeDown, Goto
  <1>. QED BY <1>2, <1>3, <1>4

LEMMA TeardownHelpersB ==
  ASSUME EInv, BInv, AuthorityKept, TeardownHelpers
  PROVE  BInv'
  <1>1. RuntimeMoves /\ broker' \in {"UP", "DOWN"}
    BY OwnEnvironment, BrokerTypes
    DEF TeardownHelpers, HelpersRemoved, HelpersMaybeRemoved, Serving, BrokerTyped
  <1>2. PICK where \in {"REMOVE", "REMOVE_UNPROVED"} :
          Goto(where) /\ (where = "REMOVE" => helpers' = helpers \ {job.env})
    BY DEF TeardownHelpers, HelpersRemoved
  <1>3. job' \in Job /\ job'.op = job.op /\ job'.env = job.env /\ job'.by = job.by /\ job'.at = where
    BY <1>2, GotoJob, BrokerTypes DEF BrokerTyped
  <1>4. Makes' /\ Removes' /\ job.op = "PREPARE"
    BY <1>2, <1>3 DEF TeardownHelpers, Serving, BInv, Makes, Removes, State, AuthorityKept
  <1>. QED BY <1>1, <1>2, <1>3, <1>4, JobGoesOn DEF TeardownHelpers, Goto

LEMMA TeardownRemoveB ==
  ASSUME EInv, BInv, AuthorityKept, TeardownRemove
  PROVE  BInv'
  <1>1. RuntimeMoves /\ broker' \in {"UP", "DOWN"}
    BY OwnEnvironment, BrokerTypes DEF TeardownRemove, MaybeRemoved, BrokerTyped, CloseProxy
  <1>2. CASE job.at = "REMOVE" /\ Box("NONE") /\ Reply("REFUSED")
    <2>1. \A e \in Envs : e = job.env => container'[e] \in Left(e)' /\ e \notin helpers'
      BY <1>2, Emptied DEF TeardownRemove, BInv, Makes
    <2>. QED BY <1>1, <1>2, <2>1, JobEndsWith DEF TeardownRemove, Answers
  <1>3. CASE Reply("UNCONFIRMED")
    BY <1>1, <1>3, JobEndsWith DEF TeardownRemove, Answers
  <1>. QED BY <1>2, <1>3 DEF TeardownRemove, TornDown, NotTornDown

LEMMA DestroyFailsB ==
  ASSUME EInv, BInv, AuthorityKept, DestroyFails
  PROVE  BInv'
  <1>1. RuntimeMoves /\ broker' \in {"UP", "DOWN"}
    BY OwnEnvironment, BrokerTypes DEF DestroyFails, Serving, HelpersMaybeRemoved, BrokerTyped, CloseProxy
  <1>. QED BY <1>1, JobEndsWith DEF DestroyFails, Serving, Answers

LEMMA DestroyHelpersB ==
  ASSUME EInv, BInv, AuthorityKept, DestroyHelpers
  PROVE  BInv'
  <1>1. RuntimeMoves /\ broker' \in {"UP", "DOWN"}
    BY OwnEnvironment, BrokerTypes DEF DestroyHelpers, Serving, HelpersRemoved, BrokerTyped
  <1>2. job' \in Job /\ job'.op = job.op /\ job'.env = job.env /\ job'.by = job.by /\ job'.at = "REMOVE"
    BY GotoJob, BrokerTypes DEF DestroyHelpers, BrokerTyped
  <1>3. Makes' /\ Removes' /\ job.op = "DESTROY"
    BY <1>2 DEF DestroyHelpers, HelpersRemoved, Serving, BInv, Makes, Removes, State, AuthorityKept
  <1>. QED BY <1>1, <1>2, <1>3, JobGoesOn DEF DestroyHelpers, Goto

LEMMA DestroyRemovesB ==
  ASSUME EInv, BInv, AuthorityKept, DestroyRemoves
  PROVE  BInv'
  <1>1. RuntimeMoves /\ broker' \in {"UP", "DOWN"}
    BY OwnEnvironment, BrokerTypes DEF DestroyRemoves, Serving, MaybeRemoved, BrokerTyped, CloseProxy
  <1>2. CASE Box("NONE") /\ Reply("GONE")
    <2>1. \A e \in Envs : e = job.env => container'[e] \in Left(e)' /\ e \notin helpers'
      BY <1>2, Emptied DEF DestroyRemoves, Serving, BInv, Removes
    <2>. QED BY <1>1, <1>2, <2>1, JobEndsWith DEF DestroyRemoves, Answers
  <1>3. CASE Reply("REFUSED")
    BY <1>1, <1>3, JobEndsWith DEF DestroyRemoves, Serving, Answers
  <1>. QED BY <1>2, <1>3 DEF DestroyRemoves

LEMMA RuntimeKept ==
  ASSUME BInv, UNCHANGED <<broker, proxy, runtimeVars>>
  PROVE  RuntimeMoves /\ broker' \in {"UP", "DOWN"}
  BY BrokerTypes DEF BrokerTyped, RuntimeMoves, Shrinks, runtimeVars, lateVars

LEMMA ListsB ==
  ASSUME EInv, BInv, AuthorityKept, Lists
  PROVE  BInv'
  <1>1. RuntimeMoves /\ broker' \in {"UP", "DOWN"} /\ job.op = "LIST"
    BY RuntimeKept DEF Lists, Serving
  <1>2. CASE Reply("REFUSED") /\ listing' = listing
    BY <1>1, <1>2, JobEndsWith DEF Answers
  <1>3. CASE /\ Reply("LISTED")
             /\ listing' = IF job.by = "none" THEN listing
                           ELSE [listing EXCEPT ![job.by] = [box |-> container, aid |-> helpers]]
    <2>0. job \in Job /\ call \in [Handles -> Call] /\ job.by \in Handles \cup {"none"}
          /\ listing \in [Handles -> [box : [Envs -> Boxes], aid : SUBSET Envs]]
          /\ container \in [Envs -> Boxes] /\ helpers \subseteq Envs
      BY DEF BInv, SandboxTypeOK, Job
    <2>1. job' = NoJob /\ NoJob \in Job /\ NoJob.op = "NONE" /\ NoJob.by = "none"
      BY <1>3, SandboxConstants DEF SandboxConstants, Reply, NoJob, Job
    <2>2. Serves' /\ Makes' /\ Removes' /\ JobMoves
      BY <2>1 DEF Serves, Makes, Removes, JobMoves
    <2>3. DOMAIN call' = Handles /\ call' = [h \in Handles |-> call'[h]]
      BY <1>3, <2>0 DEF Reply, Ended
    <2>4. listing' \in [Handles -> [box : [Envs -> Boxes], aid : SUBSET Envs]]
      <3>1. [box |-> container, aid |-> helpers] \in [box : [Envs -> Boxes], aid : SUBSET Envs]
        BY <2>0
      <3>. QED BY <1>3, <2>0, <3>1
    <2>5. ASSUME NEW h \in Handles PROVE CallMoves(h)
      <3>1. CASE job.by # h
        <4>1. call'[h] = call[h] /\ listing'[h] = listing[h]
          BY <1>3, <2>0, <3>1 DEF Reply, Ended
        <4>. QED BY <4>1 DEF CallMoves
      <3>2. CASE job.by = h
        <4>0. call[h].st = "SENT" /\ call[h].op = "LIST" /\ h # "none"
          BY <1>1, <3>2, SandboxConstants DEF SandboxConstants, BInv, Serves
        <4>1. call'[h] = [st |-> "DONE", op |-> call[h].op, env |-> call[h].env, ans |-> "LISTED"]
          BY <1>3, <2>0, <3>2, <4>0 DEF Reply, Ended
        <4>2. EndsWith(h, "LISTED") /\ ~Vouched(call'[h])
          BY <4>0, <4>1 DEF EndsWith, Vouched
        <4>3. listing'[h].box = container /\ listing'[h].aid = helpers
          BY <1>3, <2>0, <3>2, <4>0
        <4>4. ASSUME NEW f \in pc[h].todo, Unseen(listing'[h], f) PROVE Clear(f.env)'
          <5>0. f.env \in Envs /\ f.was # "PREPARING" /\ container[f.env] = "NONE" /\ f.env \notin helpers
            BY <4>3, <4>4, TodoInEnvs DEF Unseen
          <5>1. State(f.env) \notin {"NONE", "PREPARING"}
            BY <5>0 DEF BInv, HandleOK, Knows, Known
          <5>2. ASSUME NEW g \in Handles, pc[g].env = f.env, Underway(pc'[g], call'[g]) PROVE FALSE
            BY <5>1, <5>2 DEF Underway, AuthorityKept, BInv, HandleOK, Asks
          <5>3. container'[f.env] \in Left(f.env)' /\ f.env \notin helpers'
            BY <5>0 DEF Lists, runtimeVars, Left
          <5>. QED BY <2>1, <5>1, <5>2, <5>3 DEF Clear, State, AuthorityKept
        <4>. QED BY <4>2, <4>4 DEF CallMoves, Answers
      <3>. QED BY <3>1, <3>2
    <2>. QED BY <1>1, <2>1, <2>2, <2>3, <2>4, <2>5, BrokerStep
  <1>. QED BY <1>2, <1>3 DEF Lists

LEMMA BrokerDiesB ==
  ASSUME EInv, BInv, AuthorityKept, BrokerDies
  PROVE  BInv'
  <1>1. RuntimeMoves
    <2>1. CASE UNCHANGED lateVars
      BY <2>1, BrokerTypes DEF BrokerDies, BrokerTyped, RuntimeMoves, Shrinks, lateVars
    <2>2. CASE Serving("PREPARE", "CREATE") /\ LeftToTheRuntime
      BY <2>2, OwnEnvironment DEF BrokerDies, Serving, LeftToTheRuntime
    <2>. QED BY <2>1, <2>2 DEF BrokerDies
  <1>2. Reply("LOST")
    BY DEF BrokerDies, Reply
  <1>. QED BY <1>1, <1>2, JobEndsWith DEF BrokerDies, Answers

LEMMA BrokerStartsB ==
  ASSUME EInv, BInv, AuthorityKept, BrokerStarts
  PROVE  BInv'
  <1>1. RuntimeMoves
    BY BrokerTypes DEF BrokerTyped, RuntimeMoves, Shrinks, runtimeVars, lateVars, BrokerStarts
  <1>2. Makes' /\ Removes'
    BY DEF BrokerStarts, runtimeVars, lateVars, BInv, Makes, Removes, State, AuthorityKept
  <1>. QED BY <1>1, <1>2, JobGoesOn, BrokerTypes DEF BrokerStarts, BrokerTyped

LEMMA AcceptB ==
  ASSUME EInv, BInv, AuthorityKept, NEW h \in Handles, Accept(h)
  PROVE  BInv'
  <1>0. call \in [Handles -> Call] /\ call[h] \in Call /\ h # "none"
    BY SandboxConstants DEF SandboxConstants, BInv, SandboxTypeOK
  <1>1. RuntimeMoves /\ broker' \in {"UP", "DOWN"}
    BY RuntimeKept DEF Accept
  <1>2. call' = [call EXCEPT ![h] = [call[h] EXCEPT !.st = "SENT"]]
    BY DEF Accept
  <1>3. TakenUp(h) /\ \A g \in Handles : g # h => call'[g] = call[g]
    BY <1>0, <1>2 DEF TakenUp, Accept
  <1>4. \A g \in Handles : CallMoves(g)
    BY <1>3 DEF CallMoves, Accept
  <1>5. Fits(pc[h], call[h]) /\ Asks(pc[h], call[h]) /\ call[h] # NoCall
    BY DEF BInv, HandleOK, Accept, NoCall
  <1>6. /\ job' = [op |-> call[h].op, env |-> call[h].env, by |-> h, at |-> "BEGIN"]
        /\ call[h].env \in 0..MaxEnvs /\ call[h].op \in Ops
    BY <1>0, <1>5, OperationsOK DEF Accept, Call, Fits, Alone, OpAt, OperationOK, Operation, Ops
  <1>7. /\ job' \in Job /\ job'.op = call[h].op /\ job'.env = call[h].env
        /\ job'.by = h /\ job'.at = "BEGIN"
    BY <1>6 DEF Job
  <1>8. JobMoves
    BY <1>3, <1>7 DEF JobMoves
  <1>9. call[h].op \in {"PREPARE", "MEASURE", "DESTROY"} => pc[h].env = call[h].env /\ call[h].env \in Envs
    BY <1>5 DEF Fits, OpAt, Alone
  <1>10. Serves'
    <2>1. call'[h].st = "SENT" /\ call'[h].op = call[h].op /\ call'[h].env = call[h].env
      BY <1>0, <1>2 DEF Call
    <2>. QED BY <1>6, <1>7, <1>9, <2>1 DEF Serves, Ops
  <1>11. Makes'
    <2>. SUFFICES ASSUME call[h].op = "PREPARE"
                  PROVE  /\ State(call[h].env) # "NONE"
                         /\ Untouched(call[h].env)
      BY <1>7 DEF Makes, Untouched, Accept, runtimeVars, lateVars, AuthorityKept, State
    <2>1. pc[h].at = "PREPARE" /\ pc[h].env = call[h].env /\ call[h].st = "WAIT"
      BY <1>5 DEF Fits, OpAt, Accept
    <2>. QED BY <1>5, <2>1 DEF Asks
  <1>12. Removes'
    <2>. SUFFICES ASSUME call[h].op = "DESTROY" PROVE State(call[h].env) \notin {"NONE", "PREPARING"}
      BY <1>7 DEF Removes, AuthorityKept, State
    <2>1. pc[h].at \in {"DESTROY", "REAP"} /\ pc[h].env = call[h].env
      BY <1>5 DEF Fits, OpAt
    <2>. QED BY <1>5, <2>1 DEF Asks
  <1>13. DOMAIN call' = Handles /\ call' = [g \in Handles |-> call'[g]]
         /\ listing' \in [Handles -> [box : [Envs -> Boxes], aid : SUBSET Envs]]
    BY <1>0, <1>2 DEF Accept, BInv, SandboxTypeOK
  <1>. QED BY <1>1, <1>4, <1>7, <1>8, <1>10, <1>11, <1>12, <1>13, BrokerStep

LEMMA GiveUpB ==
  ASSUME EInv, BInv, AuthorityKept, NEW h \in Handles, GiveUp(h)
  PROVE  BInv'
  <1>0. call \in [Handles -> Call] /\ call[h] \in Call /\ h # "none" /\ job \in Job
    BY SandboxConstants DEF SandboxConstants, BInv, SandboxTypeOK
  <1>1. RuntimeMoves /\ broker' \in {"UP", "DOWN"}
    BY RuntimeKept DEF GiveUp
  <1>2. PICK ans \in {"NOT_SENT", "LOST"} :
          call' = Ended(h, ans) /\ (ans = "NOT_SENT" => call[h].st = "WAIT")
    BY DEF GiveUp
  <1>3. /\ call'[h] = [st |-> "DONE", op |-> call[h].op, env |-> call[h].env, ans |-> ans]
        /\ \A g \in Handles : g # h => call'[g] = call[g]
    BY <1>0, <1>2 DEF Ended
  <1>4. job' \in Job /\ job'.op = job.op /\ job'.env = job.env /\ job'.at = job.at
        /\ job'.by = (IF job.by = h THEN "none" ELSE job.by)
    BY <1>0 DEF GiveUp, Job
  <1>5. Serves' /\ Makes' /\ Removes' /\ JobMoves
    <2>1. job.op = "NONE" => job' = NoJob
      <3>. SUFFICES ASSUME job = NoJob PROVE job' = NoJob
        BY DEF BInv, Serves
      <3>. QED BY <1>0 DEF GiveUp, NoJob
    <2>2. Serves'
      BY <1>0, <1>3, <1>4, <2>1 DEF Serves, BInv, Job
    <2>. QED BY <1>4, <2>2 DEF GiveUp, runtimeVars, lateVars, BInv, Makes, Removes, State,
                                AuthorityKept, JobMoves
  <1>6. CallMoves(h)
    <2>1. EndsWith(h, ans)
      BY <1>3 DEF GiveUp, MayGiveUp, Pending, EndsWith
    <2>2. Vouched(call'[h]) => Clear(pc[h].env)'
      <3>. SUFFICES ASSUME call[h].op = "PREPARE", call[h].st = "WAIT" PROVE Clear(pc[h].env)'
        BY <1>2, <1>3 DEF Vouched
      <3>1. Fits(pc[h], call[h]) /\ Asks(pc[h], call[h]) /\ call[h] # NoCall
        BY DEF BInv, HandleOK, NoCall
      <3>2. pc[h].at = "PREPARE" /\ pc[h].env \in Envs
        BY <3>1 DEF Fits, OpAt
      <3>. DEFINE e == pc[h].env
      <3>3. State(e) = "PREPARING" /\ Untouched(e)
        BY <3>1, <3>2 DEF Asks
      <3>4. ASSUME NEW g \in Handles, pc[g].env = e, Underway(pc'[g], call'[g]) PROVE FALSE
        <4>1. g = h
          BY <3>2, <3>4 DEF Underway, AuthorityKept, BInv, Apart
        <4>. QED BY <1>3, <3>2, <3>4, <4>1 DEF Underway, AuthorityKept
      <3>5. container'[e] \in Left(e)' /\ e \notin helpers' /\ ~(job'.op = "PREPARE" /\ job'.env = e)
        BY <1>4, <3>3 DEF Untouched, GiveUp, runtimeVars, Left, AuthorityKept
      <3>. QED BY <3>3, <3>4, <3>5 DEF Clear, State, AuthorityKept
    <2>. QED BY <2>1, <2>2 DEF CallMoves, Answers
  <1>7. \A g \in Handles : CallMoves(g)
    BY <1>3, <1>6 DEF CallMoves, GiveUp
  <1>8. DOMAIN call' = Handles /\ call' = [g \in Handles |-> call'[g]]
         /\ listing' \in [Handles -> [box : [Envs -> Boxes], aid : SUBSET Envs]]
    BY <1>0, <1>2 DEF Ended, GiveUp, BInv, SandboxTypeOK
  <1>. QED BY <1>1, <1>4, <1>5, <1>7, <1>8, BrokerStep

LEMMA RuntimeB ==
  ASSUME EInv, BInv, AuthorityKept, NEW e \in Envs,
         CreatedLate(e) \/ ContainerStops(e) \/ ContainerVanishes(e) \/ HelpersVanish(e)
  PROVE  BInv'
  <1>0. BrokerTyped /\ UNCHANGED <<broker, job, proxy, call, listing>>
    BY BrokerTypes DEF CreatedLate, ContainerStops, ContainerVanishes, HelpersVanish, brokerVars
  <1>1. /\ container' \in [Envs -> Boxes] /\ \A x \in Envs : x # e => container'[x] = container[x]
        /\ \/ container'[e] \in {container[e], "NONE"}
           \/ container'[e] = "STOPPED" /\ (e \in late \/ container[e] = "RUNNING")
    <2>1. CASE CreatedLate(e) \/ ContainerStops(e)
      BY <1>0, <2>1 DEF BrokerTyped, Boxes, CreatedLate, ContainerStops
    <2>2. CASE ContainerVanishes(e)
      BY <1>0, <2>2 DEF BrokerTyped, Boxes, ContainerVanishes
    <2>3. CASE HelpersVanish(e)
      BY <1>0, <2>3 DEF BrokerTyped, HelpersVanish
    <2>. QED BY <2>1, <2>2, <2>3
  <1>2. helpers' \subseteq helpers /\ late' \subseteq late /\ tardy' = tardy
    BY DEF CreatedLate, ContainerStops, ContainerVanishes, HelpersVanish, lateVars
  <1>3. RuntimeMoves
    BY <1>0, <1>1, <1>2 DEF BrokerTyped, RuntimeMoves, Shrinks
  <1>4. Makes' /\ Removes'
    BY <1>0, <1>1, <1>2 DEF BInv, Serves, Makes, Removes, State, AuthorityKept
  <1>. QED BY <1>0, <1>3, <1>4, JobGoesOn DEF BrokerTyped

LEMMA SandboxB ==
  ASSUME EInv, BInv, AuthorityKept, SandboxNext
  PROVE  BInv'
  <1>1. CASE Broker
    BY <1>1, PrepareRefusedB, PrepareOpensB, CreatesB, CreateRefusedB, CreateFailsB, AbandonB, StartsB,
       StartFailsB, ConnectPeerB, MeasuresB, TeardownHelpersB, TeardownRemoveB, DestroyFailsB,
       DestroyHelpersB, DestroyRemovesB, ListsB DEF Broker
  <1>2. CASE Runtime
    BY <1>2, RuntimeB DEF Runtime
  <1>. QED BY <1>1, <1>2, AcceptB, GiveUpB, BrokerDiesB, BrokerStartsB DEF SandboxNext

-----------------------------------------------------------------------------
(* A step of the authority *)

\* A record is kept, moves on while it is live, or is made; one that ends is of
\* an environment that is gone.
Forward(e) ==
    \/ env'[e] = env[e]
    \/ /\ State(e) \in LiveStates
       /\ env'[e].state \notin {"NONE", "PREPARING"}
       /\ env'[e].inc = env[e].inc
       /\ env'[e].state = "READY" => State(e) = "PREPARING"
       /\ env'[e].state \in FinalStates => Clear(e)'
    \/ State(e) = "NONE" /\ env'[e].state = "PREPARING" /\ env'[e].inc = incarnation'

LEMMA ForwardMeans ==
  ASSUME NEW e, Forward(e)
  PROVE  /\ State(e) # "NONE" => State(e)' # "NONE" /\ env'[e].inc = env[e].inc
         /\ State(e) \notin {"NONE", "PREPARING"} => State(e)' \notin {"NONE", "PREPARING"}
         /\ State(e) = "PREPARING" => State(e)' # "NONE"
         /\ State(e)' = "NONE" => State(e) = "NONE"
         /\ State(e)' \in FinalStates => Clear(e)' \/ State(e) \in FinalStates
  BY DEF Forward, State, LiveStates, FinalStates

LEMMA EarlierStays ==
  ASSUME EInv, NEW e \in Envs, Forward(e), incarnation' = incarnation, Earlier(e)'
  PROVE  Earlier(e)
  <1>0. incarnation \in Nat /\ State(e)' # "NONE" /\ env'[e].inc < incarnation
    BY EnvironmentConstants DEF EnvironmentConstants, EInv, StoreTypeOK, Earlier
  <1>1. CASE State(e) = "NONE"
    <2>1. env'[e].inc = incarnation
      BY <1>0, <1>1 DEF Forward, State, LiveStates
    <2>. QED BY <1>0, <2>1
  <1>2. CASE State(e) # "NONE"
    BY <1>0, <1>2, ForwardMeans DEF Earlier
  <1>. QED BY <1>1, <1>2

JobKept == job'.op = job.op /\ job'.env = job.env /\ job'.at = job.at

\* The runtime and the job are left alone.
LEMMA RecordsB ==
  ASSUME EInv, BInv, UNCHANGED <<broker, proxy, runtimeVars>>, JobKept, job' \in Job, Serves',
         \A e \in Envs : Forward(e),
         \A e \in Envs : Clear(e) => Clear(e)',
         call' \in [Handles -> Call],
         listing' \in [Handles -> [box : [Envs -> Boxes], aid : SUBSET Envs]],
         proc' \in {"UP", "DOWN"}, attached' \in {"YES", "NO"},
         \A h \in Handles : HandleOK(h)', Apart', Current', DownIdle'
  PROVE  BInv'
  <1>1. SandboxTypeOK' /\ late' \subseteq tardy'
    BY DEF BInv, SandboxTypeOK, runtimeVars, lateVars
  <1>2. Makes' /\ Removes'
    <2>1. job.op \in {"PREPARE", "DESTROY"} => job.env \in Envs
      BY DEF BInv, Serves
    <2>2. job.op = "PREPARE" => State(job.env)' # "NONE"
      BY <2>1, ForwardMeans DEF BInv, Makes, JobKept
    <2>3. job.op = "DESTROY" => State(job.env)' \notin {"NONE", "PREPARING"}
      BY <2>1, ForwardMeans DEF BInv, Removes, JobKept
    <2>. QED BY <2>2, <2>3 DEF BInv, Makes, Removes, JobKept, runtimeVars, lateVars
  <1>3. Unminted'
    <2>. SUFFICES ASSUME NEW e \in Envs, State(e)' = "NONE" PROVE Untouched(e)' /\ e \notin proxy'
      BY DEF Unminted
    <2>1. Untouched(e) /\ e \notin proxy
      BY ForwardMeans DEF BInv, Unminted
    <2>. QED BY <2>1 DEF Untouched, JobKept, runtimeVars, lateVars
  <1>4. EndedClear'
    <2>. SUFFICES ASSUME NEW e \in Envs, State(e)' \in FinalStates PROVE Clear(e)'
      BY DEF EndedClear
    <2>. QED BY ForwardMeans DEF BInv, EndedClear
  <1>. QED BY <1>1, <1>2, <1>3, <1>4 DEF BInv

\* What one handle does.
HandleMoves(h, p, c) ==
    /\ pc' = [pc EXCEPT ![h] = p]
    /\ call' = [call EXCEPT ![h] = c]
    /\ UNCHANGED <<proc, incarnation, broker, job, proxy, runtimeVars>>
    /\ listing' \in {listing, [listing EXCEPT ![h] = NoListing]}
    /\ attached' \in {attached, "YES"}

\* It makes nobody's preparation its own, and ends nobody's but its own.
Minds(h, p, c) ==
    /\ Underway(p, c) => State(p.env) = "NONE" \/ (pc[h].at = "ORDER" /\ p.env = pc[h].env)
    /\ p.at \in {"ORDER", "PREPARE"} =>
          State(p.env) = "NONE" \/ (pc[h].at \in {"ORDER", "PREPARE"} /\ p.env = pc[h].env)
    /\ \A e \in Envs : State(e) = "PREPARING" /\ env'[e] # env[e] =>
          pc[h].at \in {"ORDER", "PREPARE"} /\ pc[h].env = e

LEMMA ClearStaysA ==
  ASSUME EInv, BInv, NEW h \in Handles, NEW p, NEW c, HandleMoves(h, p, c),
         Underway(p, c) => State(p.env) = "NONE" \/ (pc[h].at = "ORDER" /\ p.env = pc[h].env),
         NEW e \in Envs, State(e) # "NONE" => State(e)' # "NONE", Clear(e)
  PROVE  Clear(e)'
  <1>0. pc \in [Handles -> Operation] /\ call \in [Handles -> Call]
    BY DEF EInv, StoreTypeOK, BInv, SandboxTypeOK
  <1>1. ASSUME NEW g \in Handles, pc'[g].env = e, Underway(pc'[g], call'[g]) PROVE FALSE
    <2>1. CASE g # h
      BY <1>0, <1>1, <2>1 DEF HandleMoves, Clear
    <2>2. CASE g = h
      <3>1. pc'[g] = p /\ call'[g] = c
        BY <1>0, <2>2 DEF HandleMoves
      <3>2. pc[h].at = "ORDER" /\ pc[h].env = e
        BY <1>1, <3>1 DEF Clear
      <3>. QED BY <3>2 DEF Clear, Underway
    <2>. QED BY <2>1, <2>2
  <1>2. container'[e] \in Left(e)' /\ e \notin helpers' /\ ~(job'.op = "PREPARE" /\ job'.env = e)
    BY DEF HandleMoves, Clear, Left, runtimeVars, lateVars
  <1>. QED BY <1>1, <1>2 DEF Clear

LEMMA NoListingTyped ==
  NoListing \in [box : [Envs -> Boxes], aid : SUBSET Envs]
  BY DEF NoListing, Boxes

\* A step of one handle keeps the invariant if it is right about itself.
LEMMA HandleStepB ==
  ASSUME EInv, BInv, proc = "UP", NEW h \in Handles, NEW p, NEW c \in Call, HandleMoves(h, p, c), Minds(h, p, c),
         call[h].st # "SENT", \A e \in Envs : Forward(e),
         Fits(p, c), Asks(p, c)', Knows(p, c, listing[h])', Sweeps(p)'
  PROVE  BInv'
  <1>0. /\ pc \in [Handles -> Operation] /\ call \in [Handles -> Call]
        /\ listing \in [Handles -> [box : [Envs -> Boxes], aid : SUBSET Envs]]
    BY DEF EInv, StoreTypeOK, BInv, SandboxTypeOK
  <1>1. /\ pc'[h] = p /\ call'[h] = c
        /\ \A g \in Handles : g # h => pc'[g] = pc[g] /\ call'[g] = call[g] /\ listing'[g] = listing[g]
    BY <1>0 DEF HandleMoves
  <1>2. call' \in [Handles -> Call] /\ listing' \in [Handles -> [box : [Envs -> Boxes], aid : SUBSET Envs]]
    BY <1>0, NoListingTyped DEF HandleMoves
  <1>3. \A e \in Envs : Clear(e) => Clear(e)'
    BY ClearStaysA, ForwardMeans DEF Minds
  <1>4. ASSUME NEW g \in Handles, g # h PROVE HandleOK(g)'
    <2>0. HandleOK(g) /\ pc'[g] = pc[g] /\ call'[g] = call[g] /\ listing'[g] = listing[g] /\ pc[g] \in Operation
      BY <1>0, <1>1, <1>4 DEF BInv
    <2>1. Asks(pc[g], call[g])'
      <3>1. pc[g].at \in {"ORDER", "PREPARE", "DESTROY", "REAP"} => pc[g].env \in Envs
        BY <2>0 DEF HandleOK, Fits
      <3>2. Vouched(call[g]) => pc[g].env \in Envs
        BY <2>0 DEF Vouched, HandleOK, Fits, OpAt, NoCall, Alone, Operation
      <3>3. pc[g].at \in {"ORDER", "PREPARE"} => env'[pc[g].env] = env[pc[g].env] /\ State(pc[g].env) = "PREPARING"
        <4>. SUFFICES ASSUME pc[g].at \in {"ORDER", "PREPARE"}, State(pc[g].env) = "PREPARING",
                             env'[pc[g].env] # env[pc[g].env]
                      PROVE  FALSE
          BY <2>0 DEF HandleOK, Asks
        <4>1. pc[h].at \in {"ORDER", "PREPARE"} /\ pc[h].env = pc[g].env
          BY <3>1 DEF Minds
        <4>. QED BY <1>4, <4>1 DEF BInv, Apart
      <3>4. pc[g].at \in {"DESTROY", "REAP"} => State(pc[g].env)' \notin {"NONE", "PREPARING"}
        <4>. SUFFICES ASSUME pc[g].at \in {"DESTROY", "REAP"}
                      PROVE  env'[pc[g].env].state \notin {"NONE", "PREPARING"}
          BY <2>0 DEF State
        <4>1. State(pc[g].env) \notin {"NONE", "PREPARING"} /\ pc[g].env \in Envs
          BY <2>0, <3>1 DEF HandleOK, Asks
        <4>. QED BY <4>1, ForwardMeans DEF State
      <3>5. pc[g].at = "ORDER" \/ (pc[g].at = "PREPARE" /\ call[g].st = "WAIT") => Untouched(pc[g].env)'
        BY <2>0 DEF HandleOK, Asks, Untouched, HandleMoves, runtimeVars, lateVars
      <3>6. Vouched(call[g]) => Clear(pc[g].env)'
        BY <1>3, <2>0, <3>2 DEF HandleOK, Asks
      <3>. QED BY <2>0, <3>3, <3>4, <3>5, <3>6 DEF Asks, State
    <2>2. Knows(pc[g], call[g], listing[g])'
      <3>. SUFFICES ASSUME NEW f \in pc[g].todo
                    PROVE  /\ Known(f)'
                           /\ pc[g].at = "LIST" /\ call[g].st = "DONE" /\ call[g].ans = "LISTED"
                              /\ Unseen(listing[g], f) => Clear(f.env)'
        BY <2>0 DEF Knows
      <3>0. f.env \in Envs /\ Known(f)
        BY <2>0, TodoInEnvs DEF HandleOK, Knows
      <3>1. Known(f)'
        BY <1>3, <3>0, ForwardMeans DEF Known, HandleMoves
      <3>. QED BY <1>3, <2>0, <3>0, <3>1 DEF HandleOK, Knows
    <2>3. Sweeps(pc[g])'
      <3>1. \A e \in Envs : Earlier(e)' => Earlier(e)
        BY EarlierStays DEF HandleMoves
      <3>. QED BY <1>3, <2>0, <3>1 DEF HandleOK, Sweeps, Owes
    <2>. QED BY <2>0, <2>1, <2>2, <2>3 DEF HandleOK
  <1>5. HandleOK(h)'
    <2>1. Knows(pc[h], call[h], listing[h])'
      BY <1>1 DEF Knows
    <2>. QED BY <1>1, <2>1 DEF HandleOK, Asks, Sweeps
  <1>6. Apart'
    <2>. SUFFICES ASSUME NEW g \in Handles, g # h, pc[g].at \in {"ORDER", "PREPARE"},
                         p.at \in {"ORDER", "PREPARE"}, pc[g].env = p.env
                  PROVE  FALSE
      BY <1>1 DEF Apart, BInv
    <2>1. State(p.env) = "PREPARING"
      BY DEF BInv, HandleOK, Asks
    <2>. QED BY <2>1 DEF Minds, BInv, Apart
  <1>7. Current'
    <2>. SUFFICES ASSUME NEW e \in Envs, env'[e].state \in {"PREPARING", "READY"}
                  PROVE  env'[e].inc = incarnation
      BY DEF Current, State, HandleMoves
    <2>. QED BY DEF Forward, BInv, Current, State, HandleMoves, FinalStates
  <1>8. Serves'
    <2>1. job.by # "none" => job.by \in Handles /\ job.by # h
      BY DEF BInv, Serves, SandboxTypeOK, Job
    <2>. QED BY <1>1, <2>1 DEF HandleMoves, BInv, Serves
  <1>. QED BY <1>2, <1>3, <1>4, <1>5, <1>6, <1>7, <1>8, RecordsB
       DEF HandleMoves, JobKept, BInv, SandboxTypeOK, DownIdle

\* A handle that goes on, about a record that is past its preparation, with no
\* more to settle than before.
GoesOn(h, p, c) ==
    /\ Fits(p, c) /\ ~Vouched(c)
    /\ p.at \notin {"ORDER", "PREPARE", "LIST"}
    /\ p.todo \subseteq pc[h].todo
    /\ p.at \in {"DESTROY", "REAP"} => env'[p.env].state \notin {"NONE", "PREPARING"}
    /\ p.sweep = "START" =>
        /\ pc[h].sweep = "START"
        /\ p.at \in {"SETTLE", "MEASURE", "DESTROY", "REAP"}
        /\ p.then = "SETTLE"
        /\ \A e \in Envs : Earlier(e) /\ Owes(pc[h], e) => Owes(p, e) \/ Clear(e)

LEMMA GoesOnB ==
  ASSUME EInv, BInv, proc = "UP", NEW h \in Handles, NEW p, NEW c \in Call, HandleMoves(h, p, c),
         call[h].st # "SENT", \A e \in Envs : Forward(e),
         \A e \in Envs : State(e) = "PREPARING" /\ env'[e] # env[e] =>
            pc[h].at \in {"ORDER", "PREPARE"} /\ pc[h].env = e,
         GoesOn(h, p, c)
  PROVE  BInv'
  <1>1. Minds(h, p, c)
    BY DEF Minds, GoesOn, Underway
  <1>2. \A e \in Envs : Clear(e) => Clear(e)'
    BY <1>1, ClearStaysA, ForwardMeans DEF Minds
  <1>3. Asks(p, c)'
    BY DEF Asks, GoesOn, State
  <1>4. Knows(p, c, listing[h])'
    <2>. SUFFICES ASSUME NEW f \in p.todo PROVE Known(f)'
      BY DEF Knows, GoesOn
    <2>1. f \in pc[h].todo
      BY DEF GoesOn
    <2>2. f.env \in Envs /\ Known(f)
      BY <2>1, TodoInEnvs DEF BInv, HandleOK, Knows
    <2>. QED BY <1>2, <2>2, ForwardMeans DEF Known, HandleMoves
  <1>5. Sweeps(p)'
    <2>. SUFFICES ASSUME p.sweep = "START", NEW e \in Envs, Earlier(e)' PROVE Owes(p, e) \/ Clear(e)'
      BY DEF Sweeps, GoesOn, Owes
    <2>1. Earlier(e)
      BY EarlierStays DEF HandleMoves
    <2>2. Owes(pc[h], e) \/ Clear(e)
      BY <2>1 DEF BInv, HandleOK, Sweeps, GoesOn
    <2>. QED BY <1>2, <2>1, <2>2 DEF GoesOn
  <1>. QED BY <1>1, <1>3, <1>4, <1>5, HandleStepB DEF GoesOn

\* An operation that is where no exchange is open, and one whose exchange is over.
LEMMA AloneCalls ==
  ASSUME BInv, NEW h \in Handles, pc[h].at \in Alone
  PROVE  /\ call[h] = NoCall /\ call[h].st # "SENT"
         /\ call' = call => call' = [call EXCEPT ![h] = NoCall]
  <1>1. call[h] = NoCall /\ call \in [Handles -> Call]
    BY DEF BInv, HandleOK, Fits, SandboxTypeOK
  <1>. QED BY <1>1 DEF NoCall

\* The records that a step leaves alone, and the one that it moves.
LEMMA OneForward ==
  ASSUME EInv, NEW e \in Envs, NEW to, Moves(e, to), State(e) \in LiveStates,
         to \in {"READY", "DESTROYING", "UNKNOWN", "REFUSED", "DESTROYED", "LOST"},
         to = "READY" => State(e) = "PREPARING", to \in FinalStates => Clear(e)'
  PROVE  /\ \A x \in Envs : Forward(x)
         /\ \A x \in Envs : env'[x] # env[x] => x = e
         /\ env'[e].state = to
  <1>1. env' = [env EXCEPT ![e] = [state |-> to, run |-> env[e].run, inc |-> env[e].inc]]
    BY DEF Moves, Moved
  <1>2. env'[e] = [state |-> to, run |-> env[e].run, inc |-> env[e].inc]
        /\ \A x \in Envs : x # e => env'[x] = env[x]
    BY <1>1 DEF EInv, StoreTypeOK
  <1>3. env'[e].state = to /\ env'[e].inc = env[e].inc
    BY <1>2
  <1>4. Forward(e)
    BY <1>3 DEF Forward
  <1>. QED BY <1>2, <1>3, <1>4 DEF Forward

LEMMA NoneForward ==
  ASSUME env' = env
  PROVE  /\ \A x \in Envs : Forward(x)
         /\ \A x \in Envs : env'[x] = env[x]
  BY DEF Forward

\* The operation is over.
LEMMA IdleGoesOn ==
  ASSUME NEW h
  PROVE  GoesOn(h, Idle, NoCall) /\ NoCall \in Call
  BY SandboxConstants DEF SandboxConstants, GoesOn, Idle, NoCall, Fits, Alone, Vouched, Call

LEMMA ReturnsB ==
  ASSUME EInv, BInv, proc = "UP", NEW h \in Handles, Returns(h), call' = [call EXCEPT ![h] = NoCall],
         call[h].st # "SENT", \A e \in Envs : Forward(e),
         \A e \in Envs : State(e) = "PREPARING" /\ env'[e] # env[e] =>
            pc[h].at \in {"ORDER", "PREPARE"} /\ pc[h].env = e,
         UNCHANGED <<proc, attached, incarnation, broker, job, proxy, listing, runtimeVars>>
  PROVE  BInv'
  <1>1. HandleMoves(h, Idle, NoCall)
    BY DEF HandleMoves, Returns
  <1>. QED BY <1>1, IdleGoesOn, GoesOnB

\* The broker is asked to destroy or to measure.
Asked(op, e) == [st |-> "WAIT", op |-> op, env |-> e, ans |-> "NONE"]

LEMMA AskedTyped ==
  ASSUME NEW op \in Ops, NEW e \in 0..MaxEnvs
  PROVE  /\ Asked(op, e) \in Call /\ Asked(op, e).st = "WAIT" /\ Asked(op, e).op = op
         /\ Asked(op, e).env = e /\ ~Vouched(Asked(op, e))
  BY DEF Asked, Call, Vouched

LEMMA AskedFits ==
  ASSUME NEW p, p.at \in {"MEASURE", "DESTROY", "REAP"}, p.env \in Envs
  PROVE  /\ Asked(OpAt(p.at), p.env) \in Call
         /\ Fits(p, Asked(OpAt(p.at), p.env)) /\ ~Vouched(Asked(OpAt(p.at), p.env))
  <1>1. OpAt(p.at) \in Ops /\ p.env \in 0..MaxEnvs
    BY SandboxConstants DEF SandboxConstants, OpAt, Ops, Envs
  <1>2. p.at \notin Alone
    BY DEF Alone
  <1>. QED BY <1>1, <1>2, AskedTyped DEF Fits

-----------------------------------------------------------------------------
(* One lemma per step of the authority *)

\* Of the authority's processes and of the broker, only the exchange moves.
ExchangeOnly == UNCHANGED <<proc, attached, incarnation, broker, job, proxy, listing, runtimeVars>>

LEMMA NotSweeping ==
  ASSUME BInv, NEW h \in Handles, pc[h].at \in {"IDLE", "RECLAIM", "COUNT", "BEGIN", "ORDER", "PREPARE"}
  PROVE  pc[h].sweep # "START"
  BY DEF BInv, HandleOK, Sweeps

LEMMA AsksDestroyB ==
  ASSUME EInv, BInv, proc = "UP", NEW h \in Handles, NEW e \in Envs, PerformDestroy(h, e), ExchangeOnly,
         pc[h].at \in {"IDLE", "ORDER", "PREPARE", "MEASURE"}, call[h].st # "SENT",
         \A x \in Envs : Forward(x), env'[e].state = "DESTROYING",
         \A x \in Envs : State(x) = "PREPARING" /\ env'[x] # env[x] =>
            pc[h].at \in {"ORDER", "PREPARE"} /\ pc[h].env = x
  PROVE  BInv'
  <1>0. pc[h] \in Operation
    BY DEF EInv, StoreTypeOK
  <1>1. PICK p : p = [pc[h] EXCEPT !.at = "DESTROY", !.env = e]
    OBVIOUS
  <1>2. /\ p.at = "DESTROY" /\ p.env = e
        /\ p.todo = pc[h].todo /\ p.then = pc[h].then /\ p.sweep = pc[h].sweep
    BY <1>0, <1>1 DEF Operation
  <1>3. HandleMoves(h, p, Asked("DESTROY", e))
    BY <1>1 DEF PerformDestroy, Ask, Asked, HandleMoves, ExchangeOnly
  <1>4. /\ Asked("DESTROY", e) \in Call /\ Fits(p, Asked("DESTROY", e)) /\ ~Vouched(Asked("DESTROY", e))
    BY <1>2, AskedFits DEF OpAt
  <1>5. p.sweep = "START" => pc[h].at = "MEASURE" /\ pc[h].then = "SETTLE"
    BY <1>2, NotSweeping DEF BInv, HandleOK, Sweeps
  <1>6. GoesOn(h, p, Asked("DESTROY", e))
    BY <1>2, <1>4, <1>5 DEF GoesOn, Owes
  <1>. QED BY <1>3, <1>4, <1>6, GoesOnB

LEMMA BeginDestroyB ==
  ASSUME EInv, BInv, proc = "UP", NEW h \in Handles, NEW e \in Envs, BeginDestroy(h, e), ExchangeOnly,
         pc[h].at \in {"IDLE", "MEASURE"}, call[h].st # "SENT"
  PROVE  BInv'
  <1>1. /\ \A x \in Envs : Forward(x)
        /\ \A x \in Envs : env'[x] # env[x] => x = e
        /\ env'[e].state = "DESTROYING"
    BY OneForward, DestructibleIsLive DEF BeginDestroy, FinalStates
  <1>2. State(e) # "PREPARING"
    BY DEF BeginDestroy, Destructible
  <1>. QED BY <1>1, <1>2, AsksDestroyB DEF BeginDestroy

LEMMA DestroyB ==
  ASSUME EInv, BInv, NEW h \in Handles, NEW e \in Envs, Destroy(h, e)
  PROVE  BInv'
  <1>1. proc = "UP" /\ pc[h].at = "IDLE" /\ call[h].st # "SENT"
    BY AloneCalls DEF Destroy, Free, At, Alone
  <1>. QED BY <1>1, BeginDestroyB DEF Destroy, ExchangeOnly

\* A destruction or measurement is over, and the operation it was part of goes on.
LEMMA ResumeB ==
  ASSUME EInv, BInv, proc = "UP", NEW h \in Handles, Over(h), ExchangeOnly,
         pc[h].at \in {"MEASURE", "DESTROY", "REAP"}, call[h].st = "DONE",
         NEW q, pc' = [pc EXCEPT ![h] = q],
         \/ q = Idle
         \/ q = Incomplete(pc[h])
         \/ q = Complete(pc[h]) /\ (pc[h].at = "MEASURE" \/ Clear(pc[h].env)),
         \A x \in Envs : Forward(x),
         \A x \in Envs : State(x) = "PREPARING" => env'[x] = env[x]
  PROVE  BInv'
  <1>0. pc[h] \in Operation
    BY DEF EInv, StoreTypeOK
  <1>1. HandleMoves(h, q, NoCall)
    BY DEF Over, HandleMoves, ExchangeOnly
  <1>2. GoesOn(h, q, NoCall) /\ NoCall \in Call
    <2>1. CASE q = Idle
      BY <2>1, IdleGoesOn
    <2>2. CASE q = Incomplete(pc[h])
      <3>1. /\ q.at = pc[h].then /\ q.at \in {"IDLE", "COUNT", "SETTLE"}
            /\ q.todo = pc[h].todo /\ q.sweep # "START"
        BY <1>0, <2>2 DEF Incomplete, Operation
      <3>. QED BY <3>1, IdleGoesOn DEF GoesOn, Fits, Alone
    <2>3. CASE q = Complete(pc[h]) /\ (pc[h].at = "MEASURE" \/ Clear(pc[h].env))
      <3>1. /\ q.at = pc[h].then /\ q.at \in {"IDLE", "COUNT", "SETTLE"}
            /\ q.todo = pc[h].todo /\ q.sweep = pc[h].sweep /\ q.then = pc[h].then
        BY <1>0, <2>3 DEF Complete, Operation
      <3>2. q.sweep = "START" => q.then = "SETTLE"
        BY <3>1 DEF BInv, HandleOK, Sweeps
      <3>. QED BY <2>3, <3>1, <3>2, IdleGoesOn DEF GoesOn, Fits, Alone, Owes
    <2>. QED BY <2>1, <2>2, <2>3
  <1>. QED BY <1>1, <1>2, GoesOnB

LEMMA DestroyedB ==
  ASSUME EInv, BInv, NEW h \in Handles, Destroyed(h)
  PROVE  BInv'
  <1>0. proc = "UP" /\ pc[h].at = "DESTROY" /\ call[h].st = "DONE" /\ ExchangeOnly /\ pc[h] \in Operation
    BY DEF Destroyed, Answered, At, ExchangeOnly, EInv, StoreTypeOK
  <1>1. HandleOK(h) /\ pc[h].env \in Envs
    BY <1>0 DEF BInv, HandleOK, Fits
  <1>2. Gone(h) => Clear(pc[h].env)
    BY <1>0, <1>1 DEF HandleOK, Asks, Vouched, Gone, Fits, Alone, OpAt
  <1>3. PICK q : /\ pc' = [pc EXCEPT ![h] = q]
                 /\ \/ q = Idle
                    \/ q = Incomplete(pc[h])
                    \/ q = Complete(pc[h]) /\ Clear(pc[h].env)
    BY <1>2 DEF Destroyed, Resume
  <1>4. CASE env' = env
    BY <1>0, <1>3, <1>4, NoneForward, ResumeB DEF Destroyed
  <1>5. CASE Gone(h) /\ State(pc[h].env) = "DESTROYING" /\ Moves(pc[h].env, "DESTROYED")
    <2>1. PICK e \in Envs : e = pc[h].env
      BY <1>1
    <2>2. HandleMoves(h, q, NoCall) /\ ~Underway(q, NoCall)
      <3>1. q.at \in {"IDLE", "COUNT", "SETTLE"}
        <4>1. CASE q = Idle
          BY <4>1 DEF Idle
        <4>2. CASE q = Incomplete(pc[h])
          BY <1>0, <4>2 DEF Incomplete, Operation
        <4>3. CASE q = Complete(pc[h])
          BY <1>0, <4>3 DEF Complete, Operation
        <4>. QED BY <1>3, <4>1, <4>2, <4>3
      <3>. QED BY <1>0, <1>3, <3>1 DEF HandleMoves, ExchangeOnly, Destroyed, Over, Underway
    <2>3. State(e)' # "NONE"
      BY <1>5, <2>1 DEF Moves, Moved, State, EInv, StoreTypeOK
    <2>4. Clear(e)'
      BY <1>2, <1>5, <2>1, <2>2, <2>3, ClearStaysA
    <2>5. \A x \in Envs : Forward(x) /\ (env'[x] # env[x] => x = e)
      BY <1>5, <2>1, <2>4, OneForward DEF LiveStates, FinalStates
    <2>6. \A x \in Envs : State(x) = "PREPARING" => env'[x] = env[x]
      BY <1>5, <2>1, <2>5
    <2>. QED BY <1>0, <1>3, <2>5, <2>6, ResumeB DEF Destroyed
  <1>. QED BY <1>4, <1>5 DEF Destroyed, Moves

LEMMA ReapedB ==
  ASSUME EInv, BInv, NEW h \in Handles, Reaped(h)
  PROVE  BInv'
  <1>0. proc = "UP" /\ pc[h].at = "REAP" /\ call[h].st = "DONE" /\ ExchangeOnly
    BY DEF Reaped, Answered, At, ExchangeOnly, storeVars
  <1>1. HandleOK(h) /\ pc[h].env \in Envs
    BY <1>0 DEF BInv, HandleOK, Fits
  <1>2. Gone(h) => Clear(pc[h].env)
    BY <1>0, <1>1 DEF HandleOK, Asks, Vouched, Gone, Fits, Alone, OpAt
  <1>3. PICK q : /\ pc' = [pc EXCEPT ![h] = q]
                 /\ q = Incomplete(pc[h]) \/ (q = Complete(pc[h]) /\ Clear(pc[h].env))
    BY <1>2 DEF Reaped
  <1>. QED BY <1>0, <1>3, NoneForward, ResumeB DEF Reaped, storeVars

LEMMA MeasuredB ==
  ASSUME EInv, BInv, NEW h \in Handles, Measured(h)
  PROVE  BInv'
  <1>0. proc = "UP" /\ pc[h].at = "MEASURE" /\ call[h].st = "DONE" /\ ExchangeOnly
    BY DEF Measured, Answered, At, ExchangeOnly
  <1>1. pc[h].env \in Envs
    BY <1>0 DEF BInv, HandleOK, Fits
  <1>2. CASE BeginDestroy(h, pc[h].env)
    <2>1. PICK e \in Envs : e = pc[h].env
      BY <1>1
    <2>. QED BY <1>0, <1>2, <2>1, BeginDestroyB
  <1>3. CASE Resume(h, Complete(pc[h])) /\ Over(h) /\ env' = env
    <2>1. PICK q : pc' = [pc EXCEPT ![h] = q] /\ (q = Idle \/ q = Complete(pc[h]))
      BY <1>3 DEF Resume
    <2>. QED BY <1>0, <1>3, <2>1, NoneForward, ResumeB
  <1>. QED BY <1>2, <1>3 DEF Measured

LEMMA AdmitRunB ==
  ASSUME EInv, BInv, UNCHANGED <<proc, attached, incarnation, env, pc, sandboxVars>>
  PROVE  BInv'
  <1>1. AuthorityKept /\ RuntimeMoves /\ broker' \in {"UP", "DOWN"} /\ UNCHANGED <<call, listing, job>>
    BY RuntimeKept DEF AuthorityKept, sandboxVars, runtimeVars
  <1>2. Makes' /\ Removes' /\ job' \in Job
    BY DEF BInv, SandboxTypeOK, sandboxVars, lateVars, Makes, Removes, State
  <1>. QED BY <1>1, <1>2, JobGoesOn

LEMMA EndRunsB ==
  ASSUME EInv, BInv, NEW h \in Handles, NEW R, EndRuns(h, R)
  PROVE  BInv'
  <1>0. proc = "UP" /\ pc[h].at = "IDLE" /\ call[h].st # "SENT" /\ call[h] = NoCall /\ ExchangeOnly
    BY AloneCalls DEF EndRuns, At, Alone, ExchangeOnly
  <1>1. \A x \in Envs :
          \/ x \notin EndedWith(R) /\ env'[x] = env[x]
          \/ /\ x \in EndedWith(R)
             /\ env'[x] = [state |-> "DESTROYING", run |-> env[x].run, inc |-> env[x].inc]
    BY DEF EndRuns
  <1>2. ASSUME NEW x \in EndedWith(R)
        PROVE  /\ x \in Envs /\ env'[x].state = "DESTROYING" /\ env'[x].inc = env[x].inc
               /\ State(x) \in LiveStates /\ State(x) # "PREPARING"
    <2>1. x \in Envs /\ Destructible(x)
      BY DEF EndedWith
    <2>2. env'[x] = [state |-> "DESTROYING", run |-> env[x].run, inc |-> env[x].inc]
      BY <1>1, <2>1
    <2>. QED BY <2>1, <2>2, DestructibleIsLive DEF Destructible
  <1>3. \A x \in Envs : Forward(x)
    BY <1>1, <1>2 DEF Forward, FinalStates
  <1>4. \A x \in Envs : State(x) = "PREPARING" => env'[x] = env[x]
    BY <1>1, <1>2
  <1>5. CASE UNCHANGED <<pc, call>>
    <2>1. PICK p : p = pc[h]
      OBVIOUS
    <2>2. HandleMoves(h, p, NoCall)
      BY <1>0, <1>5, <2>1 DEF HandleMoves, ExchangeOnly, EInv, StoreTypeOK, BInv, SandboxTypeOK
    <2>3. GoesOn(h, p, NoCall) /\ NoCall \in Call
      BY <1>0, <2>1, IdleGoesOn, NotSweeping DEF GoesOn, Fits, Alone
    <2>. QED BY <1>0, <1>3, <1>4, <2>2, <2>3, GoesOnB
  <1>6. ASSUME NEW e \in EndedWith(R), PerformDestroy(h, e) PROVE BInv'
    BY <1>0, <1>2, <1>3, <1>4, <1>6, AsksDestroyB
  <1>. QED BY <1>5, <1>6 DEF EndRuns

\* A route goes on where no exchange is open.
LEMMA AloneB ==
  ASSUME EInv, BInv, proc = "UP", NEW h \in Handles, pc[h].at \in {"IDLE", "RECLAIM", "COUNT"},
         NEW p, pc' = [pc EXCEPT ![h] = p], p.at \in {"RECLAIM", "COUNT", "BEGIN"},
         p.todo = pc[h].todo, p.sweep = pc[h].sweep, UNCHANGED <<env, call>>, ExchangeOnly
  PROVE  BInv'
  <1>1. call[h].st # "SENT" /\ call' = [call EXCEPT ![h] = NoCall]
    BY AloneCalls DEF Alone
  <1>2. HandleMoves(h, p, NoCall)
    BY <1>1 DEF HandleMoves, ExchangeOnly
  <1>3. GoesOn(h, p, NoCall) /\ NoCall \in Call
    BY IdleGoesOn, NotSweeping DEF GoesOn, Fits, Alone
  <1>. QED BY <1>1, <1>2, <1>3, NoneForward, GoesOnB

LEMMA RouteB ==
  ASSUME EInv, BInv, NEW h \in Handles, NEW r, Route(h, r)
  PROVE  BInv'
  <1>0. pc[h] \in Operation
    BY DEF EInv, StoreTypeOK
  <1>1. PICK p : p = [pc[h] EXCEPT !.at = "RECLAIM", !.run = r]
    OBVIOUS
  <1>2. p.at = "RECLAIM" /\ p.todo = pc[h].todo /\ p.sweep = pc[h].sweep
    BY <1>0, <1>1 DEF Operation
  <1>3. /\ proc = "UP" /\ pc[h].at = "IDLE" /\ pc' = [pc EXCEPT ![h] = p]
        /\ UNCHANGED <<env, call>> /\ ExchangeOnly
    BY <1>1 DEF Route, Free, At, ExchangeOnly, storeVars, sandboxVars, runtimeVars
  <1>. QED BY <1>2, <1>3, AloneB

LEMMA CountLiveB ==
  ASSUME EInv, BInv, NEW h \in Handles, CountLive(h)
  PROVE  BInv'
  <1>0. /\ pc[h] \in Operation /\ proc = "UP" /\ pc[h].at = "COUNT" /\ UNCHANGED <<env, call>> /\ ExchangeOnly
    BY DEF CountLive, At, ExchangeOnly, storeVars, sandboxVars, runtimeVars, EInv, StoreTypeOK
  <1>1. CASE Returns(h)
    <2>1. call[h].st # "SENT" /\ call' = [call EXCEPT ![h] = NoCall]
      BY <1>0, AloneCalls DEF Alone
    <2>. QED BY <1>0, <1>1, <2>1, NoneForward, ReturnsB DEF ExchangeOnly
  <1>2. CASE Step(h, "BEGIN")
    <2>1. PICK p : p = [pc[h] EXCEPT !.at = "BEGIN"]
      OBVIOUS
    <2>2. p.at = "BEGIN" /\ p.todo = pc[h].todo /\ p.sweep = pc[h].sweep
      BY <1>0, <2>1 DEF Operation
    <2>. QED BY <1>0, <1>2, <2>1, <2>2, AloneB DEF Step
  <1>. QED BY <1>1, <1>2 DEF CountLive

LEMMA ReclaimB ==
  ASSUME EInv, BInv, NEW h \in Handles, Reclaim(h)
  PROVE  BInv'
  <1>0. pc[h] \in Operation /\ proc = "UP" /\ pc[h].at = "RECLAIM" /\ ExchangeOnly
    BY DEF Reclaim, At, ExchangeOnly, EInv, StoreTypeOK
  <1>1. CASE Step(h, "COUNT") /\ UNCHANGED <<env, call>>
    <2>1. PICK p : p = [pc[h] EXCEPT !.at = "COUNT"]
      OBVIOUS
    <2>2. p.at = "COUNT" /\ p.todo = pc[h].todo /\ p.sweep = pc[h].sweep
      BY <1>0, <2>1 DEF Operation
    <2>. QED BY <1>0, <1>1, <2>1, <2>2, AloneB DEF Step
  <1>2. ASSUME NEW e \in Reclaimable, Moves(e, "DESTROYING"), Ask(h, "DESTROY", e),
               pc' = [pc EXCEPT ![h].at = "DESTROY", ![h].env = e, ![h].then = "COUNT"]
        PROVE  BInv'
    <2>0. e \in Envs /\ State(e) \in LiveStates /\ State(e) # "PREPARING"
      BY DEF Reclaimable, LiveStates
    <2>1. /\ \A x \in Envs : Forward(x)
          /\ \A x \in Envs : env'[x] # env[x] => x = e
          /\ env'[e].state = "DESTROYING"
      BY <1>2, <2>0, OneForward DEF FinalStates
    <2>2. PICK p : p = [pc[h] EXCEPT !.at = "DESTROY", !.env = e, !.then = "COUNT"]
      OBVIOUS
    <2>3. p.at = "DESTROY" /\ p.env = e /\ p.todo = pc[h].todo /\ p.sweep = pc[h].sweep
      BY <1>0, <2>2 DEF Operation
    <2>4. HandleMoves(h, p, Asked("DESTROY", e))
      BY <1>0, <1>2, <2>2 DEF Ask, Asked, HandleMoves, ExchangeOnly
    <2>5. /\ Asked("DESTROY", e) \in Call /\ Fits(p, Asked("DESTROY", e)) /\ ~Vouched(Asked("DESTROY", e))
      BY <2>0, <2>3, AskedFits DEF OpAt
    <2>6. GoesOn(h, p, Asked("DESTROY", e)) /\ call[h].st # "SENT"
      BY <1>0, <2>1, <2>3, <2>5, NotSweeping, AloneCalls DEF GoesOn, Alone
    <2>. QED BY <1>0, <2>0, <2>1, <2>4, <2>5, <2>6, GoesOnB
  <1>. QED BY <1>1, <1>2 DEF Reclaim

LEMMA BeginPrepareB ==
  ASSUME EInv, BInv, NEW h \in Handles, BeginPrepare(h)
  PROVE  BInv'
  <1>0. /\ pc[h] \in Operation /\ proc = "UP" /\ pc[h].at = "BEGIN" /\ ExchangeOnly
        /\ call[h] = NoCall /\ call[h].st # "SENT" /\ call' = [call EXCEPT ![h] = NoCall]
    <2>1. pc[h] \in Operation /\ proc = "UP" /\ pc[h].at = "BEGIN" /\ ExchangeOnly /\ call' = call
      BY DEF BeginPrepare, At, ExchangeOnly, EInv, StoreTypeOK, sandboxVars, runtimeVars
    <2>. QED BY <2>1, AloneCalls DEF Alone
  <1>1. CASE Returns(h) /\ env' = env
    BY <1>0, <1>1, NoneForward, ReturnsB DEF ExchangeOnly
  <1>. DEFINE fresh == Cardinality(Minted) + 1
  <1>2. CASE /\ Preparable(pc[h].run)
             /\ Intended(fresh, pc[h].run)
             /\ pc' = [pc EXCEPT ![h].at = "ORDER", ![h].env = fresh, ![h].then = "IDLE"]
    <2>1. PICK n \in 0..MaxEnvs : Minted = 1..n
      BY DEF EInv, MintedInOrder
    <2>2. PICK e : e = fresh
      OBVIOUS
    <2>3. e \in Envs /\ State(e) = "NONE"
      <3>1. e = n + 1 /\ n # MaxEnvs
        BY <1>2, <2>1, <2>2, MintedCount DEF Preparable, Envs
      <3>2. e \in Envs /\ e \notin Minted
        BY <2>1, <3>1, SandboxConstants DEF SandboxConstants, Envs
      <3>. QED BY <3>2 DEF Minted
    <2>4. /\ env'[e] = [state |-> "PREPARING", run |-> pc[h].run, inc |-> incarnation]
          /\ \A x \in Envs : x # e => env'[x] = env[x]
      BY <1>2, <2>2, <2>3 DEF Intended, EInv, StoreTypeOK
    <2>5. env'[e].state = "PREPARING" /\ env'[e].inc = incarnation'
      BY <1>0, <2>4 DEF ExchangeOnly
    <2>6. \A x \in Envs : Forward(x)
      BY <2>3, <2>4, <2>5 DEF Forward
    <2>7. PICK p : p = [pc[h] EXCEPT !.at = "ORDER", !.env = e, !.then = "IDLE"]
      OBVIOUS
    <2>8. p.at = "ORDER" /\ p.env = e /\ p.todo = pc[h].todo /\ p.sweep = pc[h].sweep
      BY <1>0, <2>7 DEF Operation
    <2>9. HandleMoves(h, p, NoCall)
      BY <1>0, <1>2, <2>2, <2>7 DEF HandleMoves, ExchangeOnly
    <2>10. Minds(h, p, NoCall)
      BY <2>3, <2>4, <2>8 DEF Minds
    <2>11. Fits(p, NoCall) /\ NoCall \in Call
      BY <2>3, <2>8, IdleGoesOn DEF Fits, Alone
    <2>12. Asks(p, NoCall)'
      <3>1. Untouched(e)
        BY <2>3 DEF BInv, Unminted
      <3>2. Untouched(e)'
        BY <1>0, <3>1 DEF Untouched, ExchangeOnly, runtimeVars, lateVars
      <3>. QED BY <2>5, <2>8, <3>2 DEF Asks, State, Vouched, NoCall
    <2>13. Knows(p, NoCall, listing[h])'
      <3>. SUFFICES ASSUME NEW f \in pc[h].todo PROVE Known(f)'
        BY <2>8 DEF Knows
      <3>1. f.env \in Envs /\ Known(f)
        BY TodoInEnvs DEF BInv, HandleOK, Knows
      <3>2. \A x \in Envs : Clear(x) => Clear(x)'
        BY <2>6, <2>9, <2>10, ClearStaysA, ForwardMeans DEF Minds
      <3>. QED BY <1>0, <2>6, <3>1, <3>2, ForwardMeans DEF Known, ExchangeOnly
    <2>14. Sweeps(p)'
      BY <1>0, <2>8, NotSweeping DEF Sweeps
    <2>. QED BY <1>0, <2>6, <2>9, <2>10, <2>11, <2>12, <2>13, <2>14, HandleStepB
  <1>. QED BY <1>1, <1>2 DEF BeginPrepare

LEMMA SendPrepareB ==
  ASSUME EInv, BInv, NEW h \in Handles, SendPrepare(h)
  PROVE  BInv'
  <1>0. /\ pc[h] \in Operation /\ proc = "UP" /\ pc[h].at = "ORDER" /\ ExchangeOnly /\ env' = env
    BY DEF SendPrepare, At, ExchangeOnly, EInv, StoreTypeOK, storeVars
  <1>1. call[h] = NoCall /\ call[h].st # "SENT" /\ HandleOK(h)
    BY <1>0, AloneCalls DEF Alone, BInv
  <1>2. PICK e \in Envs : e = pc[h].env
    BY <1>0, <1>1 DEF HandleOK, Fits
  <1>3. PICK p : p = [pc[h] EXCEPT !.at = "PREPARE"]
    OBVIOUS
  <1>4. p.at = "PREPARE" /\ p.env = e /\ p.todo = pc[h].todo /\ p.sweep = pc[h].sweep
    BY <1>0, <1>2, <1>3 DEF Operation
  <1>5. HandleMoves(h, p, Asked("PREPARE", e))
    BY <1>0, <1>2, <1>3 DEF HandleMoves, ExchangeOnly, SendPrepare, Step, Ask, Asked
  <1>6. /\ Asked("PREPARE", e) \in Call /\ Asked("PREPARE", e).st = "WAIT" /\ Asked("PREPARE", e).op = "PREPARE"
        /\ Asked("PREPARE", e).env = e /\ ~Vouched(Asked("PREPARE", e))
    BY AskedTyped, SandboxConstants DEF SandboxConstants, Ops, Envs
  <1>7. Fits(p, Asked("PREPARE", e))
    BY <1>4, <1>6 DEF Fits, Alone, OpAt
  <1>8. Minds(h, p, Asked("PREPARE", e))
    BY <1>0, <1>2, <1>4 DEF Minds
  <1>9. Asks(p, Asked("PREPARE", e))'
    <2>1. State(e) = "PREPARING" /\ Untouched(e)
      BY <1>0, <1>1, <1>2 DEF HandleOK, Asks
    <2>2. State(e)' = "PREPARING" /\ Untouched(e)'
      BY <1>0, <2>1 DEF Untouched, State, ExchangeOnly, runtimeVars, lateVars
    <2>. QED BY <1>4, <1>6, <2>2 DEF Asks, Vouched
  <1>10. Knows(p, Asked("PREPARE", e), listing[h])'
    <2>. SUFFICES ASSUME NEW f \in pc[h].todo PROVE Known(f)'
      BY <1>4 DEF Knows
    <2>1. f.env \in Envs /\ Known(f)
      BY TodoInEnvs DEF BInv, HandleOK, Knows
    <2>2. \A x \in Envs : Clear(x) => Clear(x)'
      BY <1>0, <1>5, <1>8, ClearStaysA, NoneForward, ForwardMeans DEF Minds
    <2>. QED BY <1>0, <2>1, <2>2 DEF Known, State, ExchangeOnly
  <1>11. Sweeps(p)'
    BY <1>0, <1>4, NotSweeping DEF Sweeps
  <1>. QED BY <1>0, <1>1, <1>5, <1>6, <1>7, <1>8, <1>9, <1>10, <1>11, NoneForward, HandleStepB

LEMMA RecordPreparedB ==
  ASSUME EInv, BInv, proc = "UP", NEW h \in Handles, pc[h].at \in {"ORDER", "PREPARE"},
         call[h].st # "SENT", NEW to \in {"READY", "DESTROYING", "REFUSED", "UNKNOWN"},
         RecordPrepared(h, to), ExchangeOnly,
         to = "REFUSED" => Clear(pc[h].env) \/ pc[h].at = "ORDER"
  PROVE  BInv'
  <1>0. HandleOK(h) /\ Idle.at = "IDLE" /\ pc \in [Handles -> Operation]
    BY DEF BInv, Idle, EInv, StoreTypeOK
  <1>1. PICK e \in Envs : e = pc[h].env
    BY <1>0 DEF HandleOK, Fits
  <1>2. State(e) = "PREPARING"
    BY <1>0, <1>1 DEF HandleOK, Asks
  <1>3. PICK ended : ended = WithItsRun(env[e].run, to)
    OBVIOUS
  <1>4. /\ ended \in {"READY", "DESTROYING", "REFUSED", "UNKNOWN"}
        /\ ended = "REFUSED" => to = "REFUSED"
    BY <1>3 DEF WithItsRun
  <1>5. /\ Moves(e, ended)
        /\ IF ended = "DESTROYING" THEN PerformDestroy(h, e) ELSE Returns(h) /\ Over(h)
    BY <1>1, <1>2, <1>3 DEF RecordPrepared
  <1>6. ended = "REFUSED" => Clear(e)'
    <2>. SUFFICES ASSUME ended = "REFUSED" PROVE Clear(e)'
      OBVIOUS
    <2>1. HandleMoves(h, Idle, NoCall) /\ ~Underway(Idle, NoCall)
      BY <1>0, <1>5 DEF HandleMoves, ExchangeOnly, Returns, Over, Underway
    <2>2. State(e)' = "REFUSED"
      BY <1>5 DEF Moves, Moved, State, EInv, StoreTypeOK
    <2>3. CASE Clear(e)
      BY <2>1, <2>2, <2>3, ClearStaysA
    <2>4. CASE pc[h].at = "ORDER"
      <3>1. Untouched(e)
        BY <1>0, <1>1, <2>4 DEF HandleOK, Asks
      <3>2. ASSUME NEW g \in Handles, pc'[g].env = e, Underway(pc'[g], call'[g]) PROVE FALSE
        <4>1. g # h
          BY <1>0, <2>1, <3>2 DEF HandleMoves, Underway
        <4>2. pc[g].env = e /\ pc[g].at \in {"ORDER", "PREPARE"}
          BY <1>0, <2>1, <3>2, <4>1 DEF HandleMoves, Underway
        <4>. QED BY <1>1, <2>4, <4>1, <4>2 DEF BInv, Apart
      <3>3. container'[e] \in Left(e)' /\ e \notin helpers' /\ ~(job'.op = "PREPARE" /\ job'.env = e)
        BY <3>1 DEF Untouched, ExchangeOnly, runtimeVars, Left
      <3>. QED BY <2>2, <3>2, <3>3 DEF Clear
    <2>. QED BY <1>1, <1>4, <2>3, <2>4
  <1>7. /\ \A x \in Envs : Forward(x)
        /\ \A x \in Envs : env'[x] # env[x] => x = e
        /\ env'[e].state = ended
    BY <1>2, <1>4, <1>5, <1>6, OneForward DEF LiveStates, FinalStates
  <1>8. CASE ended = "DESTROYING"
    BY <1>1, <1>5, <1>7, <1>8, AsksDestroyB
  <1>9. CASE ended # "DESTROYING"
    BY <1>1, <1>5, <1>7, <1>9, ReturnsB DEF ExchangeOnly, Over
  <1>. QED BY <1>8, <1>9

LEMMA PreparedB ==
  ASSUME EInv, BInv, NEW h \in Handles, Prepared(h)
  PROVE  BInv'
  <1>0. ExchangeOnly
    BY DEF Prepared, ExchangeOnly
  <1>1. CASE At(h, "ORDER") /\ RecordPrepared(h, "REFUSED")
    <2>1. call[h].st # "SENT"
      BY <1>1, AloneCalls DEF At, Alone
    <2>. QED BY <1>0, <1>1, <2>1, RecordPreparedB DEF At
  <1>2. ASSUME Answered(h, "PREPARE"), NEW to \in Judged(call[h].ans), RecordPrepared(h, to) PROVE BInv'
    <2>1. /\ to \in {"READY", "DESTROYING", "REFUSED", "UNKNOWN"}
          /\ to = "REFUSED" => call[h].ans \in {"REFUSED", "NOT_SENT"}
      BY <1>2 DEF Judged
    <2>2. proc = "UP" /\ pc[h].at = "PREPARE" /\ call[h].st = "DONE"
      BY <1>2 DEF Answered, At
    <2>3. call[h].op = "PREPARE"
      BY <2>2 DEF BInv, HandleOK, Fits, Alone, OpAt
    <2>4. to = "REFUSED" => Clear(pc[h].env)
      BY <2>1, <2>2, <2>3 DEF BInv, HandleOK, Asks, Vouched
    <2>. QED BY <1>0, <1>2, <2>1, <2>2, <2>4, RecordPreparedB
  <1>. QED BY <1>1, <1>2 DEF Prepared

LEMMA MeasureEnvironmentB ==
  ASSUME EInv, BInv, NEW h \in Handles, NEW e \in Envs, MeasureEnvironment(h, e)
  PROVE  BInv'
  <1>0. /\ pc[h] \in Operation /\ proc = "UP" /\ pc[h].at = "IDLE" /\ ExchangeOnly /\ env' = env
    BY DEF MeasureEnvironment, Free, At, ExchangeOnly, EInv, StoreTypeOK, storeVars
  <1>1. PICK p : p = [pc[h] EXCEPT !.at = "MEASURE", !.env = e]
    OBVIOUS
  <1>2. p.at = "MEASURE" /\ p.env = e /\ p.todo = pc[h].todo /\ p.sweep = pc[h].sweep
    BY <1>0, <1>1 DEF Operation
  <1>3. pc' = [pc EXCEPT ![h] = p] /\ call' = [call EXCEPT ![h] = Asked(OpAt(p.at), p.env)]
    BY <1>1, <1>2 DEF MeasureEnvironment, AskMeasure, OpAt, Ask, Asked
  <1>4. call[h].st # "SENT" /\ p.sweep # "START"
    BY <1>0, <1>2, AloneCalls, NotSweeping DEF Alone
  <1>5. \A x \in Envs : Forward(x) /\ (State(x) = "PREPARING" => env'[x] = env[x])
    BY <1>0, NoneForward
  <1>6. p.at \in {"MEASURE", "DESTROY", "REAP"} /\ p.env \in Envs /\ p.todo \subseteq pc[h].todo
        /\ p.at \notin {"DESTROY", "REAP"}
    BY <1>2
  <1>7. PICK c : c = Asked(OpAt(p.at), p.env)
    OBVIOUS
  <1>8. c \in Call /\ Fits(p, c) /\ ~Vouched(c)
    BY <1>6, <1>7, AskedFits
  <1>9. HandleMoves(h, p, c)
    BY <1>0, <1>3, <1>7 DEF HandleMoves, ExchangeOnly
  <1>10. GoesOn(h, p, c)
    BY <1>2, <1>4, <1>6, <1>8 DEF GoesOn
  <1>. QED BY <1>0, <1>4, <1>5, <1>8, <1>9, <1>10, GoesOnB

-----------------------------------------------------------------------------
(* Reconciliation *)

\* Where a reconciliation settles: the record is taken from what is left.
LEMMA SettlingB ==
  ASSUME EInv, BInv, NEW h \in Handles, NEW f \in pc[h].todo, At(h, "SETTLE")
  PROVE  /\ proc = "UP" /\ pc[h].at = "SETTLE" /\ call[h] = NoCall /\ call[h].st # "SENT"
         /\ pc[h] \in Operation /\ f.env \in Envs /\ Known(f)
         /\ pc[h].sweep = "START" => pc[h].then = "SETTLE"
  BY AloneCalls, TodoInEnvs DEF At, Alone, EInv, StoreTypeOK, BInv, HandleOK, Knows, Sweeps

LEMMA SettlesB ==
  ASSUME EInv, BInv, NEW h \in Handles, NEW f \in pc[h].todo, At(h, "SETTLE"), ExchangeOnly,
         NEW where \in {"MEASURE", "DESTROY", "REAP"},
         pc' = [pc EXCEPT ![h] = [Settled(h, f) EXCEPT !.at = where, !.env = f.env]],
         Ask(h, OpAt(where), f.env), \A x \in Envs : Forward(x),
         \A x \in Envs : State(x) = "PREPARING" => env'[x] = env[x],
         where \in {"DESTROY", "REAP"} => env'[f.env].state \notin {"NONE", "PREPARING"},
         where = "MEASURE" => f.class = "RUNNING"
  PROVE  BInv'
  <1>0. /\ proc = "UP" /\ pc[h].at = "SETTLE" /\ call[h].st # "SENT"
        /\ pc[h] \in Operation /\ f.env \in Envs /\ Known(f)
        /\ pc[h].sweep = "START" => pc[h].then = "SETTLE"
    BY SettlingB
  <1>1. PICK p : p = [Settled(h, f) EXCEPT !.at = where, !.env = f.env]
    OBVIOUS
  <1>2. /\ p.at = where /\ p.env = f.env /\ p.todo = pc[h].todo \ {f}
        /\ p.sweep = pc[h].sweep /\ p.then = pc[h].then
    BY <1>0, <1>1 DEF Operation, Settled
  <1>3. where = "MEASURE" => ~Earlier(f.env)
    <2>1. incarnation \in Nat
      BY EnvironmentConstants DEF EnvironmentConstants, EInv, StoreTypeOK
    <2>2. where = "MEASURE" => env[f.env].inc = incarnation
      BY <1>0 DEF Known
    <2>. QED BY <2>1, <2>2 DEF Earlier
  <1>4. ASSUME NEW e \in Envs, Earlier(e), Owes(pc[h], e) PROVE Owes(p, e)
    <2>1. PICK g \in pc[h].todo : g.env = e
      BY <1>0, <1>4 DEF Owes
    <2>2. CASE g # f
      BY <1>2, <2>1, <2>2 DEF Owes
    <2>3. CASE g = f
      BY <1>2, <1>3, <1>4, <2>1, <2>3 DEF Owes
    <2>. QED BY <2>2, <2>3
  <1>5. pc' = [pc EXCEPT ![h] = p] /\ call' = [call EXCEPT ![h] = Asked(OpAt(p.at), p.env)]
    BY <1>1, <1>2 DEF Ask, Asked
  <1>6. p.at \in {"MEASURE", "DESTROY", "REAP"} /\ p.env \in Envs /\ p.todo \subseteq pc[h].todo
        /\ (p.at \in {"DESTROY", "REAP"} => env'[p.env].state \notin {"NONE", "PREPARING"})
    BY <1>0, <1>2
  <1>7. p.sweep = "START" => pc[h].sweep = "START" /\ p.then = "SETTLE"
    BY <1>0, <1>2
  <1>8. PICK c : c = Asked(OpAt(p.at), p.env)
    OBVIOUS
  <1>9. c \in Call /\ Fits(p, c) /\ ~Vouched(c)
    BY <1>6, <1>8, AskedFits
  <1>10. HandleMoves(h, p, c)
    BY <1>5, <1>8 DEF HandleMoves, ExchangeOnly
  <1>11. GoesOn(h, p, c)
    BY <1>4, <1>6, <1>7, <1>9 DEF GoesOn
  <1>. QED BY <1>0, <1>9, <1>10, <1>11, GoesOnB

LEMMA SettleRunningB ==
  ASSUME EInv, BInv, NEW h \in Handles, NEW f \in pc[h].todo, SettleRunning(h, f)
  PROVE  BInv'
  <1>1. ExchangeOnly /\ env' = env
    BY DEF SettleRunning, ExchangeOnly, storeVars
  <1>. QED BY <1>1, NoneForward, SettlesB DEF SettleRunning, Settling, OpAt

LEMMA SettleOrphanB ==
  ASSUME EInv, BInv, NEW h \in Handles, NEW f \in pc[h].todo, SettleOrphan(h, f)
  PROVE  BInv'
  <1>1. ExchangeOnly /\ env' = env
    BY DEF SettleOrphan, ExchangeOnly, storeVars
  <1>2. State(f.env) \notin {"NONE", "PREPARING"}
    BY SettlingB DEF SettleOrphan, Settling, Known, FinalStates
  <1>3. env'[f.env].state \notin {"NONE", "PREPARING"}
    BY <1>1, <1>2 DEF State
  <1>. QED BY <1>1, <1>3, NoneForward, SettlesB DEF SettleOrphan, Settling, OpAt

LEMMA SettlePendingB ==
  ASSUME EInv, BInv, NEW h \in Handles, NEW f \in pc[h].todo, SettlePending(h, f)
  PROVE  BInv'
  <1>0. /\ ExchangeOnly /\ proc = "UP" /\ pc[h].at = "SETTLE" /\ call[h] = NoCall /\ call[h].st # "SENT"
        /\ pc[h] \in Operation /\ f.env \in Envs /\ At(h, "SETTLE")
    BY SettlingB DEF SettlePending, Settling, ExchangeOnly
  <1>1. CASE Destructible(f.env)
    <2>1. PICK e \in Envs : e = f.env
      BY <1>0
    <2>2. /\ \A x \in Envs : Forward(x)
          /\ \A x \in Envs : env'[x] # env[x] => x = e
          /\ env'[e].state = "DESTROYING"
      BY <1>1, <2>1, OneForward, DestructibleIsLive DEF SettlePending, FinalStates
    <2>3. State(e) # "PREPARING"
      BY <1>1, <2>1 DEF Destructible
    <2>. QED BY <1>0, <1>1, <2>1, <2>2, <2>3, SettlesB DEF SettlePending, OpAt
  <1>2. CASE ~Destructible(f.env)
    <2>1. PICK p : p = Incomplete(Settled(h, f))
      OBVIOUS
    <2>2. pc' = [pc EXCEPT ![h] = p] /\ env' = env /\ call' = call
      BY <1>2, <2>1 DEF SettlePending
    <2>3. /\ p.at \in {"IDLE", "COUNT", "SETTLE"} /\ p.todo \subseteq pc[h].todo /\ p.sweep # "START"
      BY <1>0, <2>1 DEF Incomplete, Settled, Operation
    <2>4. GoesOn(h, p, NoCall) /\ NoCall \in Call
      BY <2>3, IdleGoesOn DEF GoesOn, Fits, Alone
    <2>5. HandleMoves(h, p, NoCall)
      BY <1>0, <2>2, AloneCalls DEF HandleMoves, ExchangeOnly, Alone
    <2>. QED BY <1>0, <2>2, <2>4, <2>5, NoneForward, GoesOnB
  <1>. QED BY <1>1, <1>2

LEMMA SettleMissingB ==
  ASSUME EInv, BInv, NEW h \in Handles, NEW f \in pc[h].todo, SettleMissing(h, f)
  PROVE  BInv'
  <1>0. /\ ExchangeOnly /\ proc = "UP" /\ pc[h].at = "SETTLE" /\ call[h] = NoCall /\ call[h].st # "SENT"
        /\ pc[h] \in Operation /\ f.env \in Envs /\ Known(f) /\ call' = [call EXCEPT ![h] = NoCall]
        /\ pc[h].sweep = "START" => pc[h].then = "SETTLE"
    <2>1. At(h, "SETTLE") /\ ExchangeOnly /\ call' = call
      BY DEF SettleMissing, Settling, ExchangeOnly, sandboxVars, runtimeVars
    <2>. QED BY <2>1, SettlingB, AloneCalls DEF Alone
  <1>1. PICK to : to = IF f.was = "DESTROYING" THEN "DESTROYED" ELSE "LOST"
    OBVIOUS
  <1>2. PICK e \in Envs : e = f.env
    BY <1>0
  <1>3. CASE ~MovesForward(State(e), to)
    <2>1. Returns(h) /\ env' = env
      BY <1>1, <1>2, <1>3 DEF SettleMissing
    <2>. QED BY <1>0, <2>1, NoneForward, ReturnsB DEF ExchangeOnly
  <1>4. CASE MovesForward(State(e), to)
    <2>0. Clear(e) /\ to \in {"DESTROYED", "LOST"}
      BY <1>0, <1>1, <1>2 DEF Known, SettleMissing
    <2>1. PICK p : p = Settled(h, f)
      OBVIOUS
    <2>2. Moves(e, to) /\ pc' = [pc EXCEPT ![h] = p]
      BY <1>1, <1>2, <1>4, <2>1 DEF SettleMissing
    <2>3. p.at = "SETTLE" /\ p.todo = pc[h].todo \ {f} /\ p.then = pc[h].then /\ p.sweep = pc[h].sweep
      BY <1>0, <2>1 DEF Settled, Operation
    <2>4. HandleMoves(h, p, NoCall) /\ ~Underway(p, NoCall)
      BY <1>0, <2>2, <2>3 DEF HandleMoves, ExchangeOnly, Underway
    <2>5. State(e)' # "NONE"
      BY <2>0, <2>2 DEF Moves, Moved, State, EInv, StoreTypeOK
    <2>6. Clear(e)'
      BY <2>0, <2>4, <2>5, ClearStaysA
    <2>7. State(e) \in LiveStates /\ State(e) # "PREPARING"
      BY <1>4 DEF MovesForward, LiveStates
    <2>8. \A x \in Envs : Forward(x) /\ (env'[x] # env[x] => x = e)
      BY <2>0, <2>2, <2>6, <2>7, OneForward
    <2>9. ASSUME NEW x \in Envs, Owes(pc[h], x) PROVE Owes(p, x) \/ Clear(x)
      BY <1>0, <1>2, <2>0, <2>3, <2>9 DEF Owes
    <2>10. GoesOn(h, p, NoCall) /\ NoCall \in Call
      BY <1>0, <2>3, <2>9, IdleGoesOn DEF GoesOn, Fits, Alone
    <2>. QED BY <1>0, <2>4, <2>7, <2>8, <2>10, GoesOnB
  <1>. QED BY <1>3, <1>4

\* A reconciliation reads the live records, and asks for the listing.
LEMMA StartReconcileB ==
  ASSUME EInv, BInv, proc = "UP", NEW h \in Handles, pc[h].at = "IDLE",
         NEW sweep \in {"START", "LATER"}, StartReconcile(h, sweep), attached' \in {attached, "YES"}
  PROVE  BInv'
  <1>0. /\ call[h].st # "SENT" /\ env' = env /\ incarnation' = incarnation
        /\ UNCHANGED <<proc, broker, job, proxy, listing, runtimeVars>>
    BY AloneCalls DEF StartReconcile, storeVars, Alone
  <1>1. PICK p : p = [Idle EXCEPT !.at = "LIST", !.todo = LiveRecords, !.sweep = sweep]
    OBVIOUS
  <1>2. p.at = "LIST" /\ p.env = 0 /\ p.todo = LiveRecords /\ p.sweep = sweep
    BY <1>1 DEF Idle
  <1>3. PICK c : c = Asked("LIST", 0)
    OBVIOUS
  <1>4. c \in Call /\ c.st = "WAIT" /\ c.op = "LIST" /\ c.env = 0 /\ ~Vouched(c)
    BY <1>3, AskedTyped, SandboxConstants DEF SandboxConstants, Ops
  <1>5. HandleMoves(h, p, c)
    BY <1>0, <1>1, <1>3 DEF HandleMoves, StartReconcile, Ask, Asked
  <1>6. Minds(h, p, c)
    BY <1>0, <1>2 DEF Minds, Underway
  <1>7. Fits(p, c)
    BY <1>2, <1>4 DEF Fits, Alone, OpAt
  <1>8. Asks(p, c)'
    BY <1>2, <1>4 DEF Asks
  <1>9. \A x \in Envs : Clear(x) => Clear(x)'
    BY <1>0, <1>5, <1>6, ClearStaysA, NoneForward, ForwardMeans DEF Minds
  <1>10. Knows(p, c, listing[h])'
    <2>. SUFFICES ASSUME NEW f \in LiveRecords PROVE Known(f)'
      BY <1>2, <1>4 DEF Knows
    <2>1. PICK e \in Live : f = Found(e, State(e), "UNSEEN")
      BY DEF LiveRecords
    <2>2. f.env = e /\ f.was = State(e) /\ f.class = "UNSEEN" /\ e \in Envs /\ State(e) \in LiveStates
      BY <2>1 DEF Found, Live
    <2>3. f.was \in {"PREPARING", "READY"} => env[e].inc = incarnation
      BY <2>2 DEF BInv, Current
    <2>. QED BY <1>0, <2>2, <2>3 DEF Known, State, LiveStates
  <1>11. Sweeps(p)'
    <2>. SUFFICES ASSUME NEW e \in Envs, Earlier(e)' PROVE Owes(p, e) \/ Clear(e)'
      BY <1>2 DEF Sweeps, Owes
    <2>1. CASE State(e) \in FinalStates
      BY <1>9, <2>1 DEF BInv, EndedClear
    <2>2. CASE State(e) \in LiveStates
      <3>1. Found(e, State(e), "UNSEEN") \in p.todo /\ Found(e, State(e), "UNSEEN").env = e
        BY <1>2, <2>2 DEF LiveRecords, Live, Found
      <3>. QED BY <3>1 DEF Owes
    <2>3. State(e) # "NONE" /\ env[e] \in Record
      BY <1>0 DEF Earlier, State, EInv, StoreTypeOK
    <2>. QED BY <2>1, <2>2, <2>3 DEF State, Record
  <1>. QED BY <1>0, <1>4, <1>5, <1>6, <1>7, <1>8, <1>10, <1>11, NoneForward, HandleStepB

LEMMA UnobservableB ==
  ASSUME EInv, BInv, NEW h \in Handles, Unobservable(h)
  PROVE  BInv'
  <1>1. /\ proc = "UP" /\ call[h].st # "SENT" /\ ExchangeOnly /\ env' = env /\ Returns(h)
        /\ call' = [call EXCEPT ![h] = NoCall]
    BY DEF Unobservable, Answered, At, ExchangeOnly, storeVars, Over
  <1>. QED BY <1>1, NoneForward, ReturnsB DEF ExchangeOnly

LEMMA ReconcileEndsB ==
  ASSUME EInv, BInv, NEW h \in Handles, ReconcileEnds(h)
  PROVE  BInv'
  <1>1. /\ proc = "UP" /\ pc[h].at = "SETTLE" /\ ExchangeOnly /\ env' = env /\ Returns(h) /\ call' = call
    BY DEF ReconcileEnds, At, ExchangeOnly, storeVars, sandboxVars, runtimeVars
  <1>2. call[h].st # "SENT" /\ call' = [call EXCEPT ![h] = NoCall]
    BY <1>1, AloneCalls DEF Alone
  <1>. QED BY <1>1, <1>2, NoneForward, ReturnsB DEF ExchangeOnly

\* The classes that a listing puts the records in.
LEMMA ClassOfMeans ==
  ASSUME NEW f, NEW box, NEW aided
  PROVE  /\ ClassOf(f, box, aided) = "ORPHAN" => f.was \in FinalStates
         /\ ClassOf(f, box, aided) = "RUNNING" => f.was = "READY"
         /\ ClassOf(f, box, aided) = "MISSING" => box = "NONE" /\ ~aided
  BY DEF ClassOf

LEMMA ClassifyB ==
  ASSUME EInv, BInv, NEW h \in Handles, Classify(h)
  PROVE  BInv'
  <1>. DEFINE seen == listing[h]
              read == {f.env : f \in pc[h].todo}
              named == {e \in Envs : seen.box[e] # "NONE" \/ e \in seen.aid}
              records == pc[h].todo \cup
                         {Found(e, State(e), "UNSEEN") : e \in {x \in named \ read : x \in Minted}}
              as(f) == Found(f.env, f.was, ClassOf(f, seen.box[f.env], f.env \in seen.aid))
              classed == {as(f) : f \in {x \in records : ~InFlight(x)}}
  <1>0. /\ proc = "UP" /\ pc[h].at = "LIST" /\ call[h].st = "DONE" /\ call[h].ans = "LISTED"
        /\ env' = env /\ incarnation' = incarnation /\ pc[h] \in Operation
        /\ UNCHANGED <<proc, attached, broker, job, proxy, runtimeVars>>
        /\ call' = [call EXCEPT ![h] = NoCall]
        /\ listing' = [listing EXCEPT ![h] = NoListing]
    BY DEF Classify, Answered, At, storeVars, Over, EInv, StoreTypeOK
  <1>1. PICK p : p = [pc[h] EXCEPT !.at = "SETTLE", !.then = "SETTLE", !.todo = classed]
    OBVIOUS
  <1>2. pc' = [pc EXCEPT ![h] = p]
    BY <1>1 DEF Classify
  <1>3. p.at = "SETTLE" /\ p.then = "SETTLE" /\ p.todo = classed /\ p.sweep = pc[h].sweep
    BY <1>0, <1>1 DEF Operation
  <1>4. HandleMoves(h, p, NoCall)
    BY <1>0, <1>2 DEF HandleMoves
  <1>5. Minds(h, p, NoCall)
    BY <1>0, <1>3 DEF Minds, Underway
  <1>6. Fits(p, NoCall) /\ NoCall \in Call /\ Asks(p, NoCall)'
    BY <1>3, IdleGoesOn DEF Fits, Alone, Asks, Vouched, NoCall
  <1>7. \A x \in Envs : Clear(x) => Clear(x)'
    BY <1>0, <1>4, <1>5, ClearStaysA, NoneForward, ForwardMeans DEF Minds
  <1>8. ASSUME NEW f \in records, ~InFlight(f)
        PROVE  /\ f.env \in Envs /\ State(f.env) # "NONE"
               /\ f.was # "PREPARING" /\ State(f.env) # "PREPARING"
               /\ f.was = "READY" => env[f.env].inc = incarnation
               /\ seen.box[f.env] = "NONE" /\ f.env \notin seen.aid => Clear(f.env)
    <2>0. incarnation \in Nat
      BY EnvironmentConstants DEF EnvironmentConstants, EInv, StoreTypeOK
    <2>1. CASE f \in pc[h].todo
      <3>1. f.env \in Envs /\ Known(f) /\ (Unseen(seen, f) => Clear(f.env))
        BY <1>0, <2>1, TodoInEnvs DEF BInv, HandleOK, Knows
      <3>2. f.was # "PREPARING"
        BY <1>8, <2>0, <3>1 DEF InFlight, Known
      <3>. QED BY <3>1, <3>2 DEF Known, Unseen
    <2>2. CASE f \notin pc[h].todo
      <3>1. PICK e \in named : e \in Minted /\ f = Found(e, State(e), "UNSEEN")
        BY <1>8, <2>2
      <3>2. f.env = e /\ f.was = State(e) /\ e \in Envs /\ State(e) # "NONE"
        BY <3>1 DEF Found, Minted
      <3>3. seen.box[f.env] # "NONE" \/ f.env \in seen.aid
        BY <3>1, <3>2
      <3>4. State(e) \in {"PREPARING", "READY"} => env[e].inc = incarnation
        BY <1>0, <3>2 DEF BInv, Current
      <3>5. f.was # "PREPARING"
        BY <1>8, <2>0, <3>2, <3>4 DEF InFlight
      <3>. QED BY <3>2, <3>3, <3>4, <3>5
    <2>. QED BY <2>1, <2>2
  <1>9. Knows(p, NoCall, listing[h])'
    <2>. SUFFICES ASSUME NEW g \in classed PROVE Known(g)'
      BY <1>3 DEF Knows
    <2>1. PICK f \in records : ~InFlight(f) /\ g = as(f)
      OBVIOUS
    <2>2. g.env = f.env /\ g.was = f.was /\ g.class = ClassOf(f, seen.box[f.env], f.env \in seen.aid)
      BY <2>1 DEF Found
    <2>3. g.class = "MISSING" => Clear(f.env)
      <3>1. g.class = "MISSING" => seen.box[f.env] = "NONE" /\ f.env \notin seen.aid
        <4>. HIDE DEF records, named, read
        <4>. QED BY <2>2 DEF ClassOf
      <3>2. seen.box[f.env] = "NONE" /\ f.env \notin seen.aid => Clear(f.env)
        BY <1>8, <2>1
      <3>. QED BY <3>1, <3>2
    <2>4. (g.class = "ORPHAN" => g.was \in FinalStates) /\ (g.class = "RUNNING" => g.was = "READY")
      BY <2>2, ClassOfMeans
    <2>5. /\ f.env \in Envs /\ State(f.env) # "NONE"
          /\ f.was # "PREPARING" /\ State(f.env) # "PREPARING"
          /\ f.was = "READY" => env[f.env].inc = incarnation
      BY <1>8, <2>1
    <2>6. PICK e \in Envs : e = f.env
      BY <2>5
    <2>. QED BY <1>0, <1>7, <2>2, <2>3, <2>4, <2>5, <2>6 DEF Known, State
  <1>10. Sweeps(p)'
    <2>. SUFFICES ASSUME p.sweep = "START", NEW e \in Envs, Earlier(e)' PROVE Owes(p, e) \/ Clear(e)'
      BY <1>3 DEF Sweeps, Owes
    <2>1. Earlier(e)
      BY <1>0 DEF Earlier, State
    <2>2. CASE Clear(e)
      BY <1>7, <2>2
    <2>3. CASE \E f \in pc[h].todo : f.env = e
      <3>1. PICK f \in pc[h].todo : f.env = e
        BY <2>3
      <3>2. Known(f) /\ incarnation \in Nat
        BY EnvironmentConstants DEF EnvironmentConstants, EInv, StoreTypeOK, BInv, HandleOK, Knows
      <3>3. ~InFlight(f)
        BY <2>1, <3>1, <3>2 DEF InFlight, Known, Earlier
      <3>4. as(f) \in p.todo /\ as(f).env = e
        BY <1>3, <3>1, <3>3 DEF Found
      <3>. QED BY <3>4 DEF Owes
    <2>4. Owes(pc[h], e) \/ Clear(e)
      BY <1>3, <2>1 DEF BInv, HandleOK, Sweeps
    <2>. QED BY <1>0, <2>2, <2>3, <2>4 DEF Owes
  <1>. QED BY <1>0, <1>4, <1>5, <1>6, <1>9, <1>10, NoneForward, HandleStepB

-----------------------------------------------------------------------------
(* The process *)

\* No operation and no exchange is open.
LEMMA NobodyB ==
  ASSUME EInv, BInv, pc' = [h \in Handles |-> Idle], call' = [h \in Handles |-> NoCall],
         UNCHANGED <<broker, proxy, runtimeVars>>, JobKept, job' \in Job,
         job'.op = "NONE" => job' = NoJob, job'.by = "none",
         listing' \in [Handles -> [box : [Envs -> Boxes], aid : SUBSET Envs]],
         \A e \in Envs : State(e) # "NONE" => State(e)' # "NONE",
         (\A e \in Envs : Clear(e) => Clear(e)') => \A e \in Envs : Forward(e),
         proc' \in {"UP", "DOWN"}, attached' \in {"YES", "NO"}, Current'
  PROVE  BInv'
  <1>1. \A h \in Handles : pc'[h] = Idle /\ call'[h] = NoCall
    OBVIOUS
  <1>2. \A e \in Envs : Clear(e) => Clear(e)'
    BY <1>1 DEF Clear, Left, Underway, Idle, JobKept, runtimeVars, lateVars
  <1>3. call' \in [Handles -> Call]
    BY IdleGoesOn
  <1>4. ASSUME NEW h \in Handles PROVE HandleOK(h)'
    <2>1. Fits(Idle, NoCall) /\ Asks(Idle, NoCall)' /\ Sweeps(Idle)'
      BY DEF Fits, Asks, Sweeps, Idle, Alone, NoCall, Vouched
    <2>2. Knows(Idle, NoCall, listing[h])'
      BY DEF Knows, Idle
    <2>. QED BY <1>1, <2>1, <2>2 DEF HandleOK, Asks, Sweeps, Knows
  <1>5. Apart'
    BY <1>1 DEF Apart, Idle
  <1>6. Serves'
    BY DEF Serves, BInv, JobKept
  <1>7. DownIdle'
    BY <1>1 DEF DownIdle
  <1>. QED BY <1>2, <1>3, <1>4, <1>5, <1>6, <1>7, RecordsB

LEMMA StartB ==
  ASSUME EInv, BInv, Start
  PROVE  BInv'
  <1>0. /\ proc = "DOWN" /\ proc' = "UP" /\ attached' = "NO" /\ incarnation' = incarnation + 1
        /\ UNCHANGED <<pc, call, listing, job, broker, proxy, runtimeVars>>
    BY DEF Start, sandboxVars, runtimeVars
  <1>1. pc = [h \in Handles |-> Idle] /\ call = [h \in Handles |-> NoCall]
    <2>1. \A h \in Handles : pc[h] = Idle
      BY <1>0 DEF BInv, DownIdle
    <2>2. \A h \in Handles : call[h] = NoCall
      BY <2>1 DEF BInv, HandleOK, Fits, Idle, Alone
    <2>. QED BY <2>1, <2>2 DEF EInv, StoreTypeOK, BInv, SandboxTypeOK
  <1>2. job'.by = "none"
    BY <1>0, <1>1 DEF BInv, Serves, SandboxTypeOK, Job, NoCall
  <1>3. ASSUME NEW e \in Envs
        PROVE  /\ env'[e].inc = env[e].inc
               /\ State(e) = "PREPARING" => env'[e].state = "UNKNOWN"
               /\ State(e) = "READY" => env'[e].state = "DESTROYING"
               /\ State(e) \notin {"PREPARING", "READY"} => env'[e] = env[e]
    <2>1. env'[e] = [state |-> ReapedAtStart(Reopened(State(e))), run |-> env[e].run, inc |-> env[e].inc]
      BY DEF Start
    <2>2. env[e] \in Record
      BY DEF EInv, StoreTypeOK
    <2>. QED BY <2>1, <2>2 DEF ReapedAtStart, Reopened, State, Record
  <1>4. \A e \in Envs : Forward(e) /\ (State(e) # "NONE" => State(e)' # "NONE")
    BY <1>3 DEF Forward, LiveStates, FinalStates, State
  <1>5. Current'
    <2>. SUFFICES ASSUME NEW e \in Envs PROVE env'[e].state \notin {"PREPARING", "READY"}
      BY DEF Current, State
    <2>. QED BY <1>3 DEF State
  <1>6. job' \in Job /\ JobKept /\ (job'.op = "NONE" => job' = NoJob)
        /\ listing' \in [Handles -> [box : [Envs -> Boxes], aid : SUBSET Envs]]
    BY <1>0 DEF BInv, SandboxTypeOK, JobKept, Serves
  <1>. QED BY <1>0, <1>1, <1>2, <1>4, <1>5, <1>6, NobodyB

LEMMA DieB ==
  ASSUME EInv, BInv, Die
  PROVE  BInv'
  <1>0. /\ proc' = "DOWN" /\ attached' = "NO" /\ env' = env
        /\ pc' = [h \in Handles |-> Idle] /\ call' = [h \in Handles |-> NoCall]
        /\ listing' = [h \in Handles |-> NoListing] /\ UNCHANGED <<broker, proxy, runtimeVars>>
    BY DEF Die, CallersGone, storeVars
  <1>1. job \in Job /\ job' = IF job = NoJob THEN NoJob ELSE [job EXCEPT !.by = "none"]
    BY DEF Die, CallersGone, BInv, SandboxTypeOK
  <1>2. job' \in Job /\ job'.by = "none" /\ JobKept
    BY <1>1 DEF Job, NoJob, JobKept
  <1>3. job'.op = "NONE" => job' = NoJob
    BY <1>1, <1>2 DEF JobKept, BInv, Serves
  <1>4. listing' \in [Handles -> [box : [Envs -> Boxes], aid : SUBSET Envs]]
    BY <1>0, NoListingTyped
  <1>5. Current'
    BY <1>0 DEF Current
  <1>6. \A e \in Envs : Forward(e) /\ (State(e) # "NONE" => State(e)' # "NONE")
    BY <1>0, NoneForward DEF State
  <1>. QED BY <1>0, <1>2, <1>3, <1>4, <1>5, <1>6, NobodyB

-----------------------------------------------------------------------------
LEMMA InitBInv == Init => BInv
  <1>. SUFFICES ASSUME Init PROVE BInv
    OBVIOUS
  <1>0. /\ \A h \in Handles : pc[h] = Idle /\ call[h] = NoCall
        /\ \A e \in Envs : State(e) = "NONE" /\ container[e] = "NONE"
        /\ job = NoJob /\ late = {} /\ helpers = {} /\ proxy = {}
    BY DEF Init, SandboxInit, State, NoRecord
  <1>1. SandboxTypeOK /\ proc = "DOWN" /\ attached = "NO" /\ late \subseteq tardy
    <2>1. NoJob \in Job
      BY SandboxConstants DEF SandboxConstants, NoJob, Job
    <2>2. call \in [Handles -> Call]
      BY <1>0, IdleGoesOn DEF Init, SandboxInit
    <2>3. listing \in [Handles -> [box : [Envs -> Boxes], aid : SUBSET Envs]]
      BY NoListingTyped DEF Init, SandboxInit
    <2>4. container \in [Envs -> Boxes]
      BY DEF Init, SandboxInit, Boxes
    <2>. QED BY <2>1, <2>2, <2>3, <2>4 DEF SandboxTypeOK, Init, SandboxInit
  <1>2. ASSUME NEW h \in Handles PROVE HandleOK(h)
    <2>1. Fits(Idle, NoCall) /\ Asks(Idle, NoCall) /\ Sweeps(Idle)
      BY DEF Fits, Asks, Sweeps, Idle, Alone, NoCall, Vouched
    <2>2. Knows(Idle, NoCall, listing[h])
      BY DEF Knows, Idle
    <2>. QED BY <1>0, <2>1, <2>2 DEF HandleOK
  <1>3. Apart /\ DownIdle
    BY <1>0 DEF Apart, DownIdle, Idle
  <1>4. Serves /\ Makes /\ Removes
    BY <1>0 DEF Serves, Makes, Removes, NoJob
  <1>5. Unminted /\ EndedClear /\ Current
    BY <1>0, <1>1 DEF Unminted, EndedClear, Current, Untouched, FinalStates, NoJob
  <1>. QED BY <1>1, <1>2, <1>3, <1>4, <1>5 DEF BInv

LEMMA HandleStepKeepsB ==
  ASSUME EInv, BInv, NEW h \in Handles, HandleStep(h)
  PROVE  BInv'
  BY DestroyedB, ReclaimB, CountLiveB, BeginPrepareB, SendPrepareB, PreparedB, MeasuredB,
     UnobservableB, ClassifyB, ReapedB, ReconcileEndsB, SettleRunningB, SettlePendingB,
     SettleMissingB, SettleOrphanB DEF HandleStep

LEMMA RequestB ==
  ASSUME EInv, BInv, NEW h \in Handles, Request(h)
  PROVE  BInv'
  <1>1. CASE Attach(h)
    BY <1>1, StartReconcileB DEF Attach, At
  <1>2. CASE Reconcile(h)
    BY <1>2, StartReconcileB DEF Reconcile, Free, At
  <1>3. ASSUME NEW e \in Envs, Destroy(h, e) \/ MeasureEnvironment(h, e) PROVE BInv'
    BY <1>3, DestroyB, MeasureEnvironmentB
  <1>4. ASSUME NEW r \in Runs, Route(h, r) PROVE BInv'
    BY <1>4, RouteB
  <1>5. ASSUME NEW R \in SUBSET Runs \ {{}}, EndRuns(h, R) PROVE BInv'
    BY <1>5, EndRunsB
  <1>. QED BY <1>1, <1>2, <1>3, <1>4, <1>5 DEF Request

LEMMA NextB ==
  ASSUME EInv, BInv, [Next]_vars
  PROVE  BInv'
  <1>1. CASE Start \/ Die
    BY <1>1, StartB, DieB
  <1>2. ASSUME NEW r \in Runs, AdmitRun(r) PROVE BInv'
    BY <1>2, AdmitRunB DEF AdmitRun
  <1>3. ASSUME NEW h \in Handles, HandleStep(h) \/ Request(h) PROVE BInv'
    BY <1>3, HandleStepKeepsB, RequestB
  <1>4. CASE SandboxNext /\ UNCHANGED <<proc, attached, storeVars, pc>>
    BY <1>4, SandboxB DEF AuthorityKept, storeVars
  <1>5. CASE UNCHANGED vars
    BY <1>5, AdmitRunB DEF vars
  <1>. QED BY <1>1, <1>2, <1>3, <1>4, <1>5 DEF Next

LEMMA RuntimeInvariant == Spec => [](EInv /\ BInv)
  <1>1. EInv /\ BInv /\ [Next]_vars => BInv'
    BY NextB
  <1>. QED BY <1>1, InitBInv, EnvironmentInvariant, PTL DEF Spec

-----------------------------------------------------------------------------
(* How many environments are live *)

\* The handles that have counted and not minted yet, each of which may have
\* counted the same environments.
Counting == {h \in Handles : pc[h].at = "BEGIN"}
LiveSum == Cardinality(Live) + Cardinality(Counting) < MaxLive + Cardinality(Handles)

LEMMA CountsAreFinite ==
  /\ IsFiniteSet(Live) /\ Cardinality(Live) \in Nat
  /\ IsFiniteSet(Counting) /\ Cardinality(Counting) \in Nat
  /\ Cardinality(Counting) <= Cardinality(Handles) /\ Cardinality(Handles) \in Nat
  /\ MaxLive \in Nat \ {0}
  <1>1. IsFiniteSet(Envs)
    BY FS_Interval, SandboxConstants DEF SandboxConstants, Envs
  <1>2. Live \subseteq Envs /\ Counting \subseteq Handles
    BY DEF Live, Counting
  <1>. QED BY <1>1, <1>2, FS_Subset, FS_CardinalityType, SandboxConstants, EnvironmentConstants
       DEF SandboxConstants, EnvironmentConstants

\* A step that counts for no route and mints nothing.
CountsForNone == \A g \in Handles : pc'[g].at = "BEGIN" => pc[g].at = "BEGIN"
MintsNone == \A e \in Envs : State(e) = "NONE" => env'[e].state = "NONE"

LEMMA CalmStep ==
  ASSUME EInv, LiveSum, StoreMoves, CountsForNone, MintsNone
  PROVE  LiveSum'
  <1>1. Live' \subseteq Live
    <2>. SUFFICES ASSUME NEW e \in Envs, env'[e].state \in LiveStates PROVE State(e) \in LiveStates
      BY DEF Live, State
    <2>. QED BY DEF StoreMoves, RecordMoves, MintsNone, State, LiveStates
  <1>2. Counting' \subseteq Counting
    BY DEF Counting, CountsForNone
  <1>3. Cardinality(Live') <= Cardinality(Live) /\ Cardinality(Live') \in Nat
    BY <1>1, CountsAreFinite, FS_Subset, FS_CardinalityType
  <1>4. Cardinality(Counting') <= Cardinality(Counting) /\ Cardinality(Counting') \in Nat
    BY <1>2, CountsAreFinite, FS_Subset, FS_CardinalityType
  <1>. QED BY <1>3, <1>4, CountsAreFinite DEF LiveSum

\* The handle goes on at a place, and one record moves.
LEMMA PlacedCalm ==
  ASSUME EInv, NEW h \in Handles, NEW p, pc' = [pc EXCEPT ![h] = p], p.at # "BEGIN"
  PROVE  CountsForNone
  BY DEF EInv, StoreTypeOK, CountsForNone

LEMMA MovedCalm ==
  ASSUME EInv, NEW e, NEW to, env' = env \/ (Moves(e, to) /\ State(e) # "NONE")
  PROVE  MintsNone
  BY DEF EInv, StoreTypeOK, MintsNone, Moves, Moved, State

LEMMA ReturnsCalm ==
  ASSUME EInv, NEW h \in Handles, Returns(h)
  PROVE  CountsForNone
  <1>1. Idle.at # "BEGIN"
    BY DEF Idle
  <1>. QED BY <1>1, PlacedCalm DEF Returns

LEMMA PerformDestroyCalm ==
  ASSUME EInv, NEW h \in Handles, NEW e, PerformDestroy(h, e)
  PROVE  CountsForNone
  <1>1. PICK p : p = [pc[h] EXCEPT !.at = "DESTROY", !.env = e]
    OBVIOUS
  <1>2. p.at = "DESTROY" /\ pc' = [pc EXCEPT ![h] = p]
    BY <1>1 DEF EInv, StoreTypeOK, Operation, PerformDestroy
  <1>. QED BY <1>2, PlacedCalm

LEMMA BeginDestroyCalm ==
  ASSUME EInv, NEW h \in Handles, NEW e, BeginDestroy(h, e)
  PROVE  CountsForNone /\ MintsNone
  BY PerformDestroyCalm, MovedCalm DEF BeginDestroy, Destructible

LEMMA ResumeCalm ==
  ASSUME EInv, NEW h \in Handles,
         \/ Resume(h, Complete(pc[h])) \/ Resume(h, Incomplete(pc[h]))
         \/ pc' = [pc EXCEPT ![h] = Complete(pc[h])] \/ pc' = [pc EXCEPT ![h] = Incomplete(pc[h])]
  PROVE  CountsForNone
  <1>1. PICK q : pc' = [pc EXCEPT ![h] = q] /\ q \in {Idle, Complete(pc[h]), Incomplete(pc[h])}
    BY DEF Resume
  <1>2. q.at # "BEGIN"
    <2>1. pc[h] \in Operation
      BY DEF EInv, StoreTypeOK
    <2>2. Idle.at # "BEGIN"
      BY DEF Idle
    <2>3. Complete(pc[h]).at # "BEGIN" /\ Incomplete(pc[h]).at # "BEGIN"
      BY <2>1 DEF Complete, Incomplete, Operation
    <2>. QED BY <1>1, <2>2, <2>3
  <1>. QED BY <1>1, <1>2, PlacedCalm

LEMMA RouteStepCalm ==
  ASSUME EInv, NEW h \in Handles, Reclaim(h) \/ SendPrepare(h) \/ Prepared(h)
  PROVE  CountsForNone /\ MintsNone
  <1>0. pc[h] \in Operation
    BY DEF EInv, StoreTypeOK
  <1>1. ASSUME NEW where \in {"COUNT", "PREPARE"}, Step(h, where) PROVE CountsForNone
    <2>1. PICK p : p = [pc[h] EXCEPT !.at = where]
      OBVIOUS
    <2>2. p.at = where /\ pc' = [pc EXCEPT ![h] = p]
      BY <1>0, <1>1, <2>1 DEF Operation, Step
    <2>. QED BY <2>2, PlacedCalm
  <1>2. CASE Step(h, "COUNT") /\ env' = env
    BY <1>1, <1>2, MovedCalm
  <1>3. ASSUME NEW e \in Reclaimable, Moves(e, "DESTROYING"),
               pc' = [pc EXCEPT ![h].at = "DESTROY", ![h].env = e, ![h].then = "COUNT"]
        PROVE  CountsForNone /\ MintsNone
    <2>1. PICK p : p = [pc[h] EXCEPT !.at = "DESTROY", !.env = e, !.then = "COUNT"]
      OBVIOUS
    <2>2. p.at = "DESTROY" /\ pc' = [pc EXCEPT ![h] = p]
      BY <1>0, <1>3, <2>1 DEF Operation
    <2>3. State(e) # "NONE"
      BY DEF Reclaimable
    <2>. QED BY <1>3, <2>2, <2>3, PlacedCalm, MovedCalm
  <1>4. CASE SendPrepare(h)
    BY <1>1, <1>4, MovedCalm DEF SendPrepare, storeVars
  <1>5. ASSUME NEW to, RecordPrepared(h, to) PROVE CountsForNone /\ MintsNone
    <2>1. CASE State(pc[h].env) # "PREPARING"
      BY <1>5, <2>1, ReturnsCalm, MovedCalm DEF RecordPrepared
    <2>2. CASE State(pc[h].env) = "PREPARING"
      BY <1>5, <2>2, ReturnsCalm, PerformDestroyCalm, MovedCalm DEF RecordPrepared
    <2>. QED BY <2>1, <2>2
  <1>. QED BY <1>2, <1>3, <1>4, <1>5 DEF Reclaim, Prepared

LEMMA AnswerCalm ==
  ASSUME EInv, NEW h \in Handles, Destroyed(h) \/ Measured(h) \/ Reaped(h) \/ Unobservable(h)
  PROVE  CountsForNone /\ MintsNone
  <1>1. CASE Destroyed(h)
    <2>1. CountsForNone
      BY <1>1, ResumeCalm DEF Destroyed
    <2>2. env' = env \/ (Moves(pc[h].env, "DESTROYED") /\ State(pc[h].env) # "NONE")
      BY <1>1 DEF Destroyed, Moves
    <2>. QED BY <2>1, <2>2, MovedCalm
  <1>2. CASE Measured(h)
    BY <1>2, ResumeCalm, MovedCalm, BeginDestroyCalm DEF Measured
  <1>3. CASE Reaped(h)
    BY <1>3, ResumeCalm, MovedCalm DEF Reaped, storeVars
  <1>4. CASE Unobservable(h)
    BY <1>4, ReturnsCalm, MovedCalm DEF Unobservable, storeVars
  <1>. QED BY <1>1, <1>2, <1>3, <1>4

LEMMA ReconcileCalm ==
  ASSUME EInv, NEW h \in Handles, Classify(h) \/ ReconcileEnds(h)
  PROVE  CountsForNone /\ MintsNone
  <1>1. CASE Classify(h)
    <2>1. \A g \in Handles : pc'[g].at = "BEGIN" => pc[g].at = "BEGIN"
      <3>1. PICK todo : pc' = [pc EXCEPT ![h] = [pc[h] EXCEPT !.at = "SETTLE", !.then = "SETTLE", !.todo = todo]]
        BY <1>1 DEF Classify
      <3>2. PICK p : p = [pc[h] EXCEPT !.at = "SETTLE", !.then = "SETTLE", !.todo = todo]
        OBVIOUS
      <3>3. p.at = "SETTLE" /\ pc' = [pc EXCEPT ![h] = p]
        BY <3>1, <3>2 DEF EInv, StoreTypeOK, Operation
      <3>. QED BY <3>3, PlacedCalm DEF CountsForNone
    <2>. QED BY <1>1, <2>1, MovedCalm DEF Classify, storeVars, CountsForNone
  <1>2. CASE ReconcileEnds(h)
    BY <1>2, ReturnsCalm, MovedCalm DEF ReconcileEnds, storeVars
  <1>. QED BY <1>1, <1>2

LEMMA SettleCalm ==
  ASSUME EInv, NEW h \in Handles, NEW f \in pc[h].todo,
         SettleRunning(h, f) \/ SettlePending(h, f) \/ SettleMissing(h, f) \/ SettleOrphan(h, f)
  PROVE  CountsForNone /\ MintsNone
  <1>0. pc[h] \in Operation /\ Settled(h, f) \in Operation
        /\ Settled(h, f).then = pc[h].then /\ Settled(h, f).at = pc[h].at
    BY OperationsOK, SettledOK DEF OperationOK, Settled, Operation
  <1>1. ASSUME NEW where \in {"MEASURE", "DESTROY", "REAP"},
               pc' = [pc EXCEPT ![h] = [Settled(h, f) EXCEPT !.at = where, !.env = f.env]]
        PROVE  CountsForNone
    <2>1. PICK p : p = [Settled(h, f) EXCEPT !.at = where, !.env = f.env]
      OBVIOUS
    <2>2. p.at = where /\ pc' = [pc EXCEPT ![h] = p]
      BY <1>0, <1>1, <2>1 DEF Operation
    <2>. QED BY <2>2, PlacedCalm
  <1>2. CASE SettleRunning(h, f) \/ SettleOrphan(h, f)
    BY <1>1, <1>2, MovedCalm DEF SettleRunning, SettleOrphan, storeVars
  <1>3. CASE SettlePending(h, f)
    <2>1. CASE Destructible(f.env)
      BY <1>1, <1>3, <2>1, MovedCalm DEF SettlePending, Destructible
    <2>2. CASE ~Destructible(f.env)
      <3>1. Incomplete(Settled(h, f)).at # "BEGIN"
        BY <1>0 DEF Incomplete, Operation
      <3>. QED BY <1>3, <2>2, <3>1, PlacedCalm, MovedCalm DEF SettlePending
    <2>. QED BY <2>1, <2>2
  <1>4. CASE SettleMissing(h, f)
    <2>1. PICK to : to = IF f.was = "DESTROYING" THEN "DESTROYED" ELSE "LOST"
      OBVIOUS
    <2>2. CASE MovesForward(State(f.env), to)
      <3>1. State(f.env) # "NONE" /\ pc[h].at = "SETTLE"
        BY <1>4, <2>2 DEF MovesForward, SettleMissing, Settling, At
      <3>. QED BY <1>0, <1>4, <2>1, <2>2, <3>1, PlacedCalm, MovedCalm DEF SettleMissing
    <2>3. CASE ~MovesForward(State(f.env), to)
      BY <1>4, <2>1, <2>3, ReturnsCalm, MovedCalm DEF SettleMissing
    <2>. QED BY <2>2, <2>3
  <1>. QED BY <1>2, <1>3, <1>4

LEMMA RequestCalm ==
  ASSUME EInv, NEW h \in Handles, Request(h)
  PROVE  CountsForNone /\ MintsNone
  <1>0. pc[h] \in Operation
    BY DEF EInv, StoreTypeOK
  <1>1. ASSUME NEW sweep, StartReconcile(h, sweep) PROVE CountsForNone /\ MintsNone
    <2>1. PICK p : p = [Idle EXCEPT !.at = "LIST", !.todo = LiveRecords, !.sweep = sweep]
      OBVIOUS
    <2>2. p.at = "LIST" /\ pc' = [pc EXCEPT ![h] = p]
      BY <1>1, <2>1 DEF Idle, StartReconcile
    <2>. QED BY <1>1, <2>2, PlacedCalm, MovedCalm DEF StartReconcile, storeVars
  <1>2. ASSUME NEW e \in Envs, Destroy(h, e) PROVE CountsForNone /\ MintsNone
    BY <1>2, BeginDestroyCalm DEF Destroy
  <1>3. ASSUME NEW e \in Envs, MeasureEnvironment(h, e) PROVE CountsForNone /\ MintsNone
    <2>1. PICK p : p = [pc[h] EXCEPT !.at = "MEASURE", !.env = e]
      OBVIOUS
    <2>2. p.at = "MEASURE" /\ pc' = [pc EXCEPT ![h] = p]
      BY <1>0, <1>3, <2>1 DEF MeasureEnvironment, AskMeasure, Operation
    <2>. QED BY <1>3, <2>2, PlacedCalm, MovedCalm DEF MeasureEnvironment, storeVars
  <1>4. ASSUME NEW r \in Runs, Route(h, r) PROVE CountsForNone /\ MintsNone
    <2>1. PICK p : p = [pc[h] EXCEPT !.at = "RECLAIM", !.run = r]
      OBVIOUS
    <2>2. p.at = "RECLAIM" /\ pc' = [pc EXCEPT ![h] = p]
      BY <1>0, <1>4, <2>1 DEF Route, Operation
    <2>. QED BY <1>4, <2>2, PlacedCalm, MovedCalm DEF Route, storeVars
  <1>5. ASSUME NEW R, EndRuns(h, R) PROVE CountsForNone /\ MintsNone
    <2>1. CountsForNone
      BY <1>5, PerformDestroyCalm DEF EndRuns, CountsForNone
    <2>2. ASSUME NEW e \in Envs, State(e) = "NONE" PROVE env'[e].state = "NONE"
      BY <1>5, <2>2 DEF EndRuns, EndedWith, Destructible, State
    <2>. QED BY <2>1, <2>2 DEF MintsNone
  <1>. QED BY <1>1, <1>2, <1>3, <1>4, <1>5 DEF Request, Attach, Reconcile

\* The route that counts, and the one that mints.
LEMMA CountLiveSum ==
  ASSUME EInv, LiveSum, NEW h \in Handles, CountLive(h)
  PROVE  LiveSum'
  <1>0. env' = env
    BY DEF CountLive, storeVars
  <1>1. CASE Full
    BY <1>0, <1>1, ReturnsCalm, MovedCalm, CalmStep, CountLiveMoves DEF CountLive
  <1>2. CASE ~Full
    <2>1. Live' = Live
      BY <1>0 DEF Live, State
    <2>2. Cardinality(Live) < MaxLive
      BY <1>2, CountsAreFinite DEF Full
    <2>3. Counting' \subseteq Handles
      BY DEF Counting
    <2>4. Cardinality(Counting') <= Cardinality(Handles) /\ Cardinality(Counting') \in Nat
      BY <2>3, FS_Subset, FS_CardinalityType, SandboxConstants DEF SandboxConstants
    <2>. QED BY <2>1, <2>2, <2>4, CountsAreFinite DEF LiveSum
  <1>. QED BY <1>1, <1>2

LEMMA BeginPrepareSum ==
  ASSUME EInv, LiveSum, NEW h \in Handles, BeginPrepare(h)
  PROVE  LiveSum'
  <1>0. StoreMoves /\ pc[h].at = "BEGIN"
    BY BeginPrepareMoves DEF BeginPrepare, At
  <1>1. CASE MintsNone
    <2>1. CountsForNone
      <3>. SUFFICES ASSUME NEW g \in Handles, g # h PROVE pc'[g] = pc[g]
        BY <1>0 DEF CountsForNone
      <3>. QED BY DEF BeginPrepare, Returns, EInv, StoreTypeOK
    <2>. QED BY <1>0, <1>1, <2>1, CalmStep
  <1>2. CASE ~MintsNone
    <2>1. PICK e \in Envs : State(e) = "NONE" /\ env'[e].state # "NONE"
      BY <1>2 DEF MintsNone
    <2>2. \A f \in Envs \ {e} : env'[f] = env[f]
      BY <1>0, <2>1 DEF StoreMoves, RecordMoves, State, LiveStates
    <2>3. Live' \subseteq Live \cup {e} /\ e \notin Live
      BY <2>1, <2>2 DEF Live, State, LiveStates
    <2>4. pc'[h].at = "ORDER" /\ \A g \in Handles : g # h => pc'[g] = pc[g]
      <3>1. env' # env
        BY <2>1 DEF State
      <3>. QED BY <3>1 DEF BeginPrepare, EInv, StoreTypeOK, Operation
    <2>5. Counting' \subseteq Counting \ {h} /\ h \in Counting
      BY <1>0, <2>4 DEF Counting
    <2>6. IsFiniteSet(Live \cup {e}) /\ Cardinality(Live \cup {e}) = Cardinality(Live) + 1
      BY <2>3, CountsAreFinite, FS_AddElement
    <2>7. Cardinality(Live') <= Cardinality(Live) + 1 /\ Cardinality(Live') \in Nat
      BY <2>3, <2>6, FS_Subset, FS_CardinalityType
    <2>8. IsFiniteSet(Counting \ {h}) /\ Cardinality(Counting \ {h}) = Cardinality(Counting) - 1
      BY <2>5, CountsAreFinite, FS_RemoveElement
    <2>9. Cardinality(Counting') <= Cardinality(Counting) - 1 /\ Cardinality(Counting') \in Nat
      BY <2>5, <2>8, FS_Subset, FS_CardinalityType
    <2>. QED BY <2>7, <2>9, CountsAreFinite DEF LiveSum
  <1>. QED BY <1>1, <1>2

LEMMA NextSum ==
  ASSUME EInv, LiveSum, [Next]_vars
  PROVE  LiveSum'
  <1>0. StoreMoves
    BY NextMoves
  <1>1. CASE Start
    <2>1. CountsForNone
      BY <1>1 DEF Start, CountsForNone
    <2>2. ASSUME NEW e \in Envs, State(e) = "NONE" PROVE env'[e].state = "NONE"
      BY <1>1, <2>2 DEF Start, ReapedAtStart, Reopened
    <2>. QED BY <1>0, <2>1, <2>2, CalmStep DEF MintsNone
  <1>2. CASE Die
    <2>1. CountsForNone
      BY <1>2 DEF Die, CountsForNone, Idle
    <2>2. env' = env
      BY <1>2 DEF Die, storeVars
    <2>. QED BY <1>0, <2>1, <2>2, MovedCalm, CalmStep
  <1>3. CASE UNCHANGED <<env, pc>>
    BY <1>0, <1>3, MovedCalm, CalmStep DEF CountsForNone
  <1>4. ASSUME NEW h \in Handles, HandleStep(h) PROVE LiveSum'
    BY <1>0, <1>4, RouteStepCalm, AnswerCalm, ReconcileCalm, SettleCalm, CountLiveSum, BeginPrepareSum, CalmStep
       DEF HandleStep
  <1>5. ASSUME NEW h \in Handles, Request(h) PROVE LiveSum'
    BY <1>0, <1>5, RequestCalm, CalmStep
  <1>. QED BY <1>1, <1>2, <1>3, <1>4, <1>5 DEF Next, AdmitRun, vars, storeVars

LEMMA SumInvariant == Spec => []LiveSum
  <1>1. Init => LiveSum
    <2>. SUFFICES ASSUME Init PROVE LiveSum
      OBVIOUS
    <2>1. Live = {} /\ Counting = {}
      BY DEF Init, Live, Counting, State, NoRecord, LiveStates, Idle
    <2>. QED BY <2>1, FS_EmptySet, CountsAreFinite DEF LiveSum
  <1>2. EInv /\ LiveSum /\ [Next]_vars => LiveSum'
    BY NextSum
  <1>. QED BY <1>1, <1>2, EnvironmentInvariant, PTL DEF Spec

-----------------------------------------------------------------------------
(* The theorems *)

\* No environment is usable in a run that has ended, whichever handle ended it and
\* whatever another read, asked or was answered in between, across restarts
\* (environment.rs, begin_run_end, end_with_its_run, begin_reaped_at_start).
THEOREM NoReadyWithoutRun == Spec => []ReadyRunIsActive
  <1>1. EInv => ReadyRunIsActive
    BY DEF EInv
  <1>. QED BY <1>1, EnvironmentInvariant, PTL

\* A run never has two environments that are not final, although every handle
\* checks long before it prepares (environment.rs, begin_prepare).
THEOREM OneEnvironmentPerRun == Spec => []OneLivePerRun
  <1>1. EInv => OneLivePerRun
    BY DEF EInv
  <1>. QED BY <1>1, EnvironmentInvariant, PTL

\* A record that has ended never changes again, whatever stale record an
\* operation still holds of it (environment.rs, record_lost and the trigger).
THEOREM EndedIsForEver == Spec => EndedStaysEnded
  <1>1. EInv /\ [Next]_vars =>
          [\A e \in Envs : State(e) \in FinalStates => env'[e] = env[e]]_vars
    <2>. SUFFICES ASSUME EInv, [Next]_vars, NEW e \in Envs, State(e) \in FinalStates
                  PROVE  env'[e] = env[e]
      OBVIOUS
    <2>. QED BY NextMoves DEF StoreMoves, RecordMoves, LiveStates, FinalStates
  <1>. QED BY <1>1, EnvironmentInvariant, PTL DEF Spec, EndedStaysEnded

\* The records, the operations, the broker's job and the exchanges have their
\* types, and a handle has an exchange open exactly where its operation waits for
\* one (broker/link.rs, environment_ops.rs).
THEOREM EnvironmentTypes == Spec => []TypeOK
  <1>1. ASSUME EInv, BInv PROVE TypeOK
    <2>1. ASSUME NEW h \in Handles PROVE pc[h].at \in Alone <=> call[h] = NoCall
      BY <1>1 DEF BInv, HandleOK, Fits, NoCall
    <2>. QED BY <1>1, <2>1 DEF TypeOK, EInv, StoreTypeOK, BInv
  <1>. QED BY <1>1, RuntimeInvariant, PTL

\* A record that has ended tells the truth about the runtime, whatever call of
\* the runtime's client failed, whichever exchange was given up, and however the
\* steps of the handles, the broker and the runtime were interleaved
\* (environment.rs, Prepared::Refused, classify; oci.rs, kept_or_taken_down).
THEOREM EndedTellsTheTruth == Spec => []EndedIsGone
  <1>1. BInv => EndedIsGone
    BY DEF BInv, EndedClear, Clear, EndedIsGone
  <1>. QED BY <1>1, RuntimeInvariant, PTL

\* Nothing is in the runtime, on its way there or in the broker's hands without
\* a record, and there are never more live records than the backstop and one for
\* every other handle (environment.rs, begin_prepare; workload_route.rs, routed).
THEOREM RecordsCover == Spec => []RecordsCoverTheRuntime
  <1>1. ASSUME BInv, LiveSum PROVE RecordsCoverTheRuntime
    <2>1. NothingUnrecorded
      BY <1>1 DEF BInv, Unminted, Untouched, NothingUnrecorded, Minted
    <2>2. LiveWithinBound
      BY <1>1, CountsAreFinite DEF LiveSum, LiveWithinBound
    <2>. QED BY <2>1, <2>2 DEF RecordsCoverTheRuntime
  <1>. QED BY <1>1, RuntimeInvariant, SumInvariant, PTL

\* The reconciliation of a start in which every destruction was proved leaves
\* nothing of an earlier incarnation behind, although the records it settles
\* were read before the listing and the other handles go on meanwhile
\* (environment_ops.rs, environment_reconcile).
THEOREM StartSweeps == Spec => StartSweepsAll
  <1>1. ASSUME EInv, BInv PROVE SweptAtStart
    <2>. SUFFICES ASSUME NEW h \in Handles, pc[h].at = "SETTLE", pc[h].todo = {}, pc[h].sweep = "START",
                         NEW e \in Minted, env[e].inc < incarnation
                  PROVE  container[e] \in Left(e) /\ e \notin helpers
      BY <1>1 DEF SweptAtStart, EInv, StoreTypeOK
    <2>1. e \in Envs /\ Earlier(e)
      BY DEF Minted, Earlier
    <2>2. Clear(e)
      BY <1>1, <2>1 DEF BInv, HandleOK, Sweeps, Owes
    <2>. QED BY <2>2 DEF Clear
  <1>. QED BY <1>1, RuntimeInvariant, PTL DEF StartSweepsAll
=============================================================================
