---------------------------- MODULE WorkloadProofs ----------------------------
(********************************************************************************)
(* Proofs about Workload, for any number of invocations, environments and keys, *)
(* any bounds on what is held, parked and live, and any of the faults.          *)
(********************************************************************************)
EXTENDS Workload, FiniteSetTheorems, TLAPS

-----------------------------------------------------------------------------
(* The inductive invariant *)

\* The start of i is on its way to the broker.
Starting(i) == call.st = "WAIT" /\ call.op = "START" /\ call.inv = i

\* Nothing of i runs, and nothing can still execute it.
Finished(i) ==
    ~Starting(i) /\ job.inv # i /\ thread[i] \in {"NONE", "JUDGES"} /\ i \notin alive
NeverRan(i) == Finished(i) /\ executed[i] = 0
RanOut(i) == Finished(i) /\ executed[i] = 1

\* The table holds each workload once, and exactly those with a slot.
TableIsInStep ==
    /\ table \in Seq(Invs)
    /\ \A m, n \in 1..Len(table) : table[m] = table[n] => m = n
    /\ \A i \in Invs : i \in Held <=> slot[i] # "NONE"

\* The workloads with a row are the first ones, each under a key of its own and in an
\* environment that has been prepared; of the others there is nothing anywhere.
MintedInOrder == \E n \in 0..MaxInvs : {i \in Invs : state[i] # "NONE"} = 1..n
OneKeyEach == \A i, j \in Invs : keyed[i] = keyed[j] /\ keyed[i] # "none" => i = j
Placed(i) ==
    state[i] # "NONE" => keyed[i] \in Keys /\ placed[i] \in Envs /\ env[placed[i]] # "NONE"
Fresh(i) ==
    state[i] = "NONE" =>
        /\ keyed[i] = "none" /\ placed[i] = 0 /\ use[i] = "NONE" /\ parked[i] = 0
        /\ home[i] = 0 /\ thread[i] = "NONE" /\ slot[i] = "NONE" /\ executed[i] = 0
        /\ call.inv # i /\ job.inv # i /\ work.inv # i
RowsAreInStep ==
    MintedInOrder /\ OneKeyEach /\ \A i \in Invs : Placed(i) /\ Fresh(i)

\* The worker, its exchange and the start the broker serves agree on what is asked and by whom.
ExchangeIsInStep ==
    /\ proc = "DOWN" => work = Idle
    /\ call.st = "NONE" => call = NoCall
    /\ work.at \in {"START", "COLLECT", "SETTLE", "WAIT"} => work.inv \in Invs
    /\ call # NoCall => work.at = call.op /\ work.inv = call.inv
    /\ call.op = "START" => call.env = placed[call.inv]
    /\ job.at = "NONE" => job = NoJob
    /\ job.at # "NONE" => job.inv \in Invs /\ job.env = placed[job.inv]
    /\ job.at = "RESERVE" => job.judged = "NONE"
    /\ job.by = "AUTHORITY" => call.st = "SENT" /\ job.inv = call.inv
    /\ call.st = "SENT" => job.by = "AUTHORITY" /\ call.op = "START"

\* How far a workload has come is the same for the exchange, its thread, its slot and the world.
Stage(i) ==
    /\ Starting(i) \/ (job.inv = i /\ job.at = "RESERVE") =>
         thread[i] = "NONE" /\ slot[i] = "NONE" /\ executed[i] = 0
    /\ Starting(i) => job.inv # i
    /\ job.inv = i => executed[i] = 0
    /\ Waiting(i) =>
         /\ job.judged = "NONE" => thread[i] = "JUDGES"
         /\ job.judged = "PASS" => thread[i] = "GATED"
         /\ job.judged \notin {"NONE", "PASS"} => thread[i] = "NONE"
    /\ thread[i] = "JUDGES" => executed[i] = 0
    /\ thread[i] = "GATED" => Waiting(i) /\ job.judged = "PASS" /\ executed[i] = 0
    /\ thread[i] = "GATED" \/ (thread[i] = "JUDGES" /\ Waiting(i)) => slot[i] = "JUDGING"
    /\ thread[i] = "GO" => job.inv # i /\ executed[i] = 0 /\ slot[i] = "RUNNING"
    /\ thread[i] = "RUNS" => executed[i] = 1 /\ slot[i] = "RUNNING"
    /\ i \in alive => executed[i] = 1
    /\ slot[i] \in Endings => thread[i] = "NONE" /\ job.inv # i
    /\ slot[i] = "NEVER_RAN" => NeverRan(i)
    /\ slot[i] = "CLEAN" => RanOut(i)
    /\ slot[i] = "RESIDUE" => executed[i] = 1
StagesAreInStep == \A i \in Invs : Stage(i)

\* A workload's thread and its process are in the environment it was placed in.
HomeIsIts(i) ==
    /\ home[i] \in {0, placed[i]}
    /\ thread[i] # "NONE" \/ i \in alive => home[i] = placed[i]
HomesAreTheirs == \A i \in Invs : HomeIsIts(i)

\* What the authority has heard, and what it has made of it, is so.
Says(i, failed, clean, residue) ==
    /\ failed => NeverRan(i)
    /\ clean => RanOut(i)
    /\ residue => executed[i] = 1
AnswerIsTrue ==
    /\ call.st = "DONE" /\ call.op = "START" =>
         (call.ans \in {"NOT_SENT", "REFUSED", "DRIFTED"} => NeverRan(call.inv))
    /\ call.st = "DONE" /\ call.op = "COLLECT" =>
         Says(call.inv, call.ans = "NEVER_RAN", call.ans = "CLEAN", call.ans = "RESIDUE")
SettlementIsTrue ==
    work.at = "SETTLE" =>
        /\ work.came # "NONE"
        /\ Says(work.inv, work.came \in {"FAILED", "DRIFTED"}, work.came = "CLEAN",
                work.came = "RESIDUE")

\* What is recorded is so, and where an environment is still READY its ended workloads are over.
RowIsTrue(i) ==
    /\ state[i] = "COMPLETED" => executed[i] = 1
    /\ state[i] = "FAILED" => NeverRan(i)
    /\ state[i] \notin {"NONE", "LAUNCHING"} /\ env[placed[i]] = "READY" => Finished(i)
    /\ use[i] = "INJECTED" => state[i] = "COMPLETED"
    /\ use[i] = "FAILED" => state[i] = "FAILED"
    /\ use[i] = "INTENT" <=> state[i] = "LAUNCHING" /\ keyed[i] \in Credentialed
RowsAreTrue == \A i \in Invs : RowIsTrue(i)

\* Of two workloads of one environment, one is over.
OneIsOver ==
    \A i, j \in Invs : i # j /\ placed[i] = placed[j] /\ placed[i] # 0 =>
        Finished(i) \/ Finished(j)

IInv ==
    /\ TypeOK /\ TableIsInStep /\ RowsAreInStep /\ ExchangeIsInStep /\ StagesAreInStep
    /\ HomesAreTheirs /\ AnswerIsTrue /\ SettlementIsTrue /\ RowsAreTrue /\ OneIsOver
-----------------------------------------------------------------------------
(* The table *)

\* What a sequence holds, and that it holds it once.
Holds(t) == {t[n] : n \in 1..Len(t)}
Once(t) == t \in Seq(Invs) /\ \A m, n \in 1..Len(t) : t[m] = t[n] => m = n

\* A sequence that holds each workload once is as long as what it holds.
LEMMA HeldOnce ==
    ASSUME NEW t, Once(t)
    PROVE  Len(t) = Cardinality(Holds(t))
<1>1. Len(t) \in Nat /\ t \in [1..Len(t) -> Invs]
  BY DEF Once
<1>2. t \in Bijection(1..Len(t), Holds(t))
  <2>1. t \in [1..Len(t) -> Holds(t)]
    BY <1>1 DEF Holds
  <2>2. t \in Injection(1..Len(t), Holds(t))
    BY <2>1 DEF Once, Injection, IsInjective
  <2>3. t \in Surjection(1..Len(t), Holds(t))
    BY <2>1 DEF Holds, Surjection
  <2>. QED
    BY <2>2, <2>3 DEF Bijection
<1>3. ExistsBijection(1..Len(t), Holds(t))
  BY <1>2 DEF ExistsBijection
<1>4. IsFiniteSet(1..Len(t)) /\ Cardinality(1..Len(t)) = Len(t)
  BY <1>1, FS_Interval
<1>. QED
  BY <1>3, <1>4, FS_Bijection

\* Without(i) holds what the table does, but not i (Supervisor::forget).
LEMMA WithoutOne ==
    ASSUME NEW i, Once(table)
    PROVE  /\ Once(Without(i))
           /\ Holds(Without(i)) = Held \ {i}
           /\ Len(Without(i)) = IF i \in Held THEN Len(table) - 1 ELSE Len(table)
<1>1. Len(table) \in Nat /\ table \in [1..Len(table) -> Invs]
  BY DEF Once
<1>2. CASE i \notin Held
  BY <1>2 DEF Without, Once, Holds, Held
<1>3. CASE i \in Held
  <2>. DEFINE p == CHOOSE n \in 1..Len(table) : table[n] = i
              u == [n \in 1..(Len(table) - 1) |-> IF n < p THEN table[n] ELSE table[n + 1]]
  <2>1. p \in 1..Len(table) /\ table[p] = i
    BY <1>3 DEF Held
  <2>2. Without(i) = u
    BY <1>3 DEF Without
  <2>. HIDE DEF p
  <2>3. Len(table) - 1 \in Nat
    BY <1>1, <2>1
  <2>4. \A n \in 1..(Len(table) - 1) : u[n] \in Invs
    BY <1>1, <2>1
  <2>5. u \in Seq(Invs) /\ Len(u) = Len(table) - 1
    BY <2>3, <2>4
  <2>6. \A m, n \in 1..Len(u) : u[m] = u[n] => m = n
    <3>. SUFFICES ASSUME NEW m \in 1..(Len(table) - 1), NEW n \in 1..(Len(table) - 1), u[m] = u[n]
                  PROVE  m = n
      BY <2>5
    <3>. DEFINE mm == IF m < p THEN m ELSE m + 1
                nn == IF n < p THEN n ELSE n + 1
    <3>1. mm \in 1..Len(table) /\ nn \in 1..Len(table)
      BY <1>1, <2>1
    <3>2. table[mm] = table[nn]
      OBVIOUS
    <3>3. mm = nn
      BY <3>1, <3>2 DEF Once
    <3>. QED
      BY <3>3, <1>1, <2>1
  <2>7. Holds(u) = Held \ {i}
    <3>1. ASSUME NEW x \in Holds(u) PROVE x \in Held \ {i}
      <4>1. PICK n \in 1..(Len(table) - 1) : x = u[n]
        BY <2>5 DEF Holds
      <4>. DEFINE nn == IF n < p THEN n ELSE n + 1
      <4>2. nn \in 1..Len(table) /\ nn # p /\ x = table[nn]
        BY <4>1, <1>1, <2>1
      <4>3. table[nn] # table[p]
        BY <4>2, <2>1 DEF Once
      <4>. QED
        BY <4>2, <4>3, <2>1 DEF Held
    <3>2. ASSUME NEW x \in Held \ {i} PROVE x \in Holds(u)
      <4>1. PICK n \in 1..Len(table) : x = table[n]
        BY DEF Held
      <4>2. n # p
        BY <4>1, <2>1
      <4>. DEFINE nn == IF n < p THEN n ELSE n - 1
      <4>3. nn \in 1..(Len(table) - 1) /\ x = u[nn]
        BY <4>1, <4>2, <1>1, <2>1
      <4>. QED
        BY <4>3, <2>5 DEF Holds
    <3>. QED
      BY <3>1, <3>2
  <2>. QED
    BY <1>3, <2>2, <2>5, <2>6, <2>7 DEF Once
<1>. QED
  BY <1>2, <1>3

\* One more at the end (Supervisor::reserve).
LEMMA AppendOne ==
    ASSUME NEW t, Once(t), NEW i \in Invs, i \notin Holds(t)
    PROVE  /\ Once(Append(t, i))
           /\ Holds(Append(t, i)) = Holds(t) \cup {i}
           /\ Len(Append(t, i)) = Len(t) + 1
<1>. DEFINE u == Append(t, i)
<1>1. Len(t) \in Nat /\ t \in [1..Len(t) -> Invs] /\ t \in Seq(Invs)
  BY DEF Once
<1>2. u \in Seq(Invs) /\ Len(u) = Len(t) + 1
  BY <1>1
<1>3. \A n \in 1..Len(t) : u[n] = t[n]
  BY <1>1
<1>4. u[Len(t) + 1] = i
  BY <1>1
<1>. HIDE DEF u
<1>5. \A n \in 1..Len(u) : n \in 1..Len(t) \/ n = Len(t) + 1
  BY <1>1, <1>2
<1>6. Holds(u) = Holds(t) \cup {i}
  <2>1. ASSUME NEW x \in Holds(u) PROVE x \in Holds(t) \cup {i}
    BY <1>3, <1>4, <1>5 DEF Holds
  <2>2. ASSUME NEW x \in Holds(t) PROVE x \in Holds(u)
    <3>1. PICK n \in 1..Len(t) : x = t[n]
      BY DEF Holds
    <3>2. n \in 1..Len(u) /\ x = u[n]
      BY <3>1, <1>1, <1>2, <1>3
    <3>. QED
      BY <3>2 DEF Holds
  <2>3. Len(t) + 1 \in 1..Len(u)
    BY <1>1, <1>2
  <2>4. i \in Holds(u)
    BY <2>3, <1>4 DEF Holds
  <2>. QED
    BY <2>1, <2>2, <2>4
<1>7. \A m, n \in 1..Len(u) : u[m] = u[n] => m = n
  <2>. SUFFICES ASSUME NEW m \in 1..Len(u), NEW n \in 1..Len(u), u[m] = u[n]
                PROVE  m = n
    OBVIOUS
  <2>1. \A q \in 1..Len(t) : t[q] # i
    BY DEF Holds
  <2>. QED
    BY <1>3, <1>4, <1>5, <2>1 DEF Once
<1>. QED
  BY <1>2, <1>6, <1>7 DEF u, Once

\* What the table says of itself, from its being in step.
LEMMA TableHolds ==
    ASSUME TableIsInStep
    PROVE  Once(table) /\ Held = Holds(table) /\ Len(table) \in Nat
BY DEF TableIsInStep, Once, Held, Holds

\* A set of numbers that is not empty has a least one.
LEMMA LeastOne ==
    ASSUME NEW S \in SUBSET Nat, S # {}
    PROVE  \E n \in S : \A m \in S : n <= m
<1>1. PICK n \in S : \A m \in Nat : <<m, n>> \in OpToRel(<, Nat) => m \notin S
  BY WFMin, NatLessThanWellFounded
<1>2. \A m \in S : ~(m < n)
  BY <1>1 DEF OpToRel
<1>. QED
  BY <1>2

\* The table's part of the types.
TableFits ==
    Held \subseteq Invs /\ Len(table) <= MaxSupervised /\ Len(table) = Cardinality(Held)

LEMMA TableKept ==
    ASSUME TypeOK, TableIsInStep, table' = table, slot' = slot
    PROVE  TableIsInStep' /\ TableFits'
<1>1. Held' = Held
  BY DEF Held
<1>2. TableFits'
  BY <1>1 DEF TypeOK, SupervisorTypeOK, TableFits
<1>. QED
  BY <1>1, <1>2 DEF TableIsInStep

\* A table that holds each workload once fits its bound if it is no longer than it.
LEMMA TableMade ==
    ASSUME Once(table'), Len(table') <= MaxSupervised,
           \A i \in Invs : i \in Holds(table') <=> slot'[i] # "NONE"
    PROVE  TableIsInStep' /\ TableFits'
<1>1. Held' = Holds(table')
  BY DEF Held, Holds
<1>2. Len(table') = Cardinality(Holds(table'))
  BY HeldOnce
<1>3. Holds(table') \subseteq Invs
  BY DEF Once, Holds
<1>. QED
  BY <1>1, <1>2, <1>3 DEF TableIsInStep, TableFits, Once

\* Forgetting a workload, held or not (Supervisor::forget, Held::drop).
LEMMA TableForgets ==
    ASSUME TypeOK, TableIsInStep, NEW i \in Invs, Forget(i)
    PROVE  TableIsInStep' /\ TableFits'
<1>1. Once(table) /\ Held = Holds(table) /\ Len(table) \in Nat
  BY TableHolds
<1>2. table' = Without(i) /\ slot' = [slot EXCEPT ![i] = "NONE"]
  BY DEF Forget
<1>3. Once(table') /\ Holds(table') = Held \ {i}
  BY <1>1, <1>2, WithoutOne
<1>4. Len(table') <= Len(table)
  BY <1>1, <1>2, WithoutOne
<1>5. Len(table) <= MaxSupervised /\ Len(table') \in Nat
  BY <1>3 DEF TypeOK, SupervisorTypeOK, Once
<1>6. \A j \in Invs : j \in Held \ {i} <=> slot'[j] # "NONE"
  BY <1>2 DEF TableIsInStep, TypeOK, SupervisorTypeOK
<1>. QED
  BY <1>1, <1>3, <1>4, <1>5, <1>6, TableMade, SupervisorConstants

\* A new state of a slot that is there.
LEMMA SlotMoves ==
    ASSUME TypeOK, TableIsInStep, NEW i \in Invs, NEW s, slot[i] # "NONE", s # "NONE",
           table' = table, slot' = [slot EXCEPT ![i] = s]
    PROVE  TableIsInStep' /\ TableFits'
<1>1. Held' = Held
  BY DEF Held
<1>2. TableFits'
  BY <1>1 DEF TypeOK, SupervisorTypeOK, TableFits
<1>3. \A j \in Invs : slot'[j] # "NONE" <=> slot[j] # "NONE"
  BY DEF TypeOK, SupervisorTypeOK
<1>. QED
  BY <1>1, <1>2, <1>3 DEF TableIsInStep

-----------------------------------------------------------------------------
(* What a step leaves alone *)

LEMMA Numbers ==
    /\ Invs \subseteq 0..MaxInvs /\ Envs \subseteq 0..MaxEnvs
    /\ 0 \notin Invs /\ 0 \notin Envs
    /\ 0 \in 0..MaxInvs /\ 0 \in 0..MaxEnvs /\ 0 \in 0..MaxGeneration
    /\ 1..MaxGeneration \subseteq 0..MaxGeneration /\ 0 \notin 1..MaxGeneration
    /\ "none" \notin Keys /\ MaxInvs \in Nat /\ MaxEnvs \in Nat
    /\ 0..MaxInvs \subseteq Invs \cup {0} /\ 0..MaxEnvs \subseteq Envs \cup {0}
BY SupervisorConstants, WorkloadConstants DEF Invs, Envs

\* What is over stays over, and what ran has run.
Steady(i) ==
    /\ state[i] # "NONE" /\ Finished(i) => Finished(i)' /\ executed'[i] = executed[i]
    /\ executed[i] = 1 => executed'[i] = 1

\* The answer to a call, as it reaches the authority or is lost.
Said == {"NOT_SENT", "LOST", "REFUSED", "DRIFTED", "STARTED", "RUNNING", "GONE",
         "UNCONFIRMED"} \cup Endings
AnsweredAs(ans) ==
    /\ call' \in Call /\ call' # NoCall
    /\ call'.st = "DONE" /\ call'.op = call.op /\ call'.inv = call.inv /\ call'.env = call.env
    /\ call'.ans \in {ans, "LOST"}

LEMMA CallIsEnded ==
    ASSUME TypeOK, NEW ans \in Said, call' = CallEnds(ans)
    PROVE  AnsweredAs(ans) /\ call'.ans = ans
<1>1. call' = [st |-> "DONE", op |-> call.op, inv |-> call.inv, env |-> call.env,
               gen |-> IF ans = "STARTED" THEN generation ELSE 0, ans |-> ans]
  BY DEF CallEnds, TypeOK, SupervisorTypeOK, Call
<1>. QED
  BY <1>1, Numbers DEF TypeOK, SupervisorTypeOK, Call, Said, Endings, AnsweredAs, NoCall

LEMMA AnswerArrives ==
    ASSUME TypeOK, NEW ans \in Said, Answers(ans)
    PROVE  AnsweredAs(ans)
<1>1. CASE call' = CallEnds(ans)
  BY <1>1, CallIsEnded
<1>2. CASE call' = CallEnds("LOST")
  BY <1>2, CallIsEnded DEF Said, AnsweredAs
<1>. QED
  BY <1>1, <1>2 DEF Answers

\* The rows a step of the broker leaves as they are still tell the truth.
LEMMA BrokerKeepsRows ==
    ASSUME IInv, AuthorityUnmoved, \A i \in Invs : Steady(i)
    PROVE  /\ MintedInOrder' /\ OneKeyEach' /\ \A i \in Invs : Placed(i)'
           /\ SettlementIsTrue' /\ RowsAreTrue' /\ OneIsOver'
<1>. USE DEF IInv, AuthorityUnmoved, ledgerVars
<1>1. MintedInOrder' /\ OneKeyEach' /\ \A i \in Invs : Placed(i)'
  BY DEF RowsAreInStep, MintedInOrder, OneKeyEach, Placed
<1>2. \A i \in Invs : RowIsTrue(i)'
  <2>. SUFFICES ASSUME NEW i \in Invs PROVE RowIsTrue(i)'
    OBVIOUS
  <2>1. RowIsTrue(i) /\ Steady(i) /\ state[i] \in States
    BY DEF RowsAreTrue, TypeOK
  <2>. QED
    BY <2>1 DEF RowIsTrue, Steady, NeverRan
<1>3. OneIsOver'
  <2>. SUFFICES ASSUME NEW i \in Invs, NEW j \in Invs, i # j, placed[i] = placed[j], placed[i] # 0
                PROVE  Finished(i)' \/ Finished(j)'
    BY DEF OneIsOver
  <2>1. state[i] # "NONE" /\ state[j] # "NONE"
    BY DEF RowsAreInStep, Fresh
  <2>2. Finished(i) \/ Finished(j)
    BY DEF OneIsOver
  <2>. QED
    BY <2>1, <2>2 DEF Steady
<1>4. SettlementIsTrue'
  <2>. SUFFICES ASSUME work.at = "SETTLE", work.came # "NONE"
                PROVE  Says(work.inv, work.came \in {"FAILED", "DRIFTED"}, work.came = "CLEAN",
                            work.came = "RESIDUE")'
    BY DEF SettlementIsTrue
  <2>1. work.inv \in Invs
    BY DEF ExchangeIsInStep
  <2>2. state[work.inv] # "NONE" /\ Steady(work.inv)
    BY <2>1 DEF RowsAreInStep, Fresh
  <2>. QED
    BY <2>2 DEF SettlementIsTrue, Says, NeverRan, RanOut, Steady
<1>. QED
  BY <1>1, <1>2, <1>3, <1>4 DEF RowsAreTrue

\* What the authority has heard stays true.
LEMMA AnswerStays ==
    ASSUME IInv, \A i \in Invs : Steady(i), call' = call
    PROVE  AnswerIsTrue'
<1>. SUFFICES ASSUME call.st = "DONE", call.op \in {"START", "COLLECT"}
              PROVE  AnswerIsTrue'
  BY DEF AnswerIsTrue
<1>1. call.inv \in Invs
  BY DEF IInv, ExchangeIsInStep, NoCall
<1>2. state[call.inv] # "NONE" /\ Steady(call.inv)
  BY <1>1 DEF IInv, RowsAreInStep, Fresh
<1>. QED
  BY <1>2 DEF IInv, AnswerIsTrue, Says, NeverRan, RanOut, Steady

\* What a step of the authority that starts nothing leaves as it is.
Untouched ==
    /\ UNCHANGED <<table, slot, home, thread, alive, executed, keyed, placed>>
    /\ job'.inv = job.inv /\ job'.at = job.at /\ job'.judged = job.judged
    /\ call'.st # "WAIT" \/ call'.op # "START"
    /\ \A i \in Invs : state'[i] = "NONE" <=> state[i] = "NONE"

LEMMA AuthorityKeepsStages ==
    ASSUME IInv, Untouched
    PROVE  /\ MintedInOrder' /\ OneKeyEach' /\ TableIsInStep' /\ TableFits'
           /\ StagesAreInStep' /\ HomesAreTheirs' /\ OneIsOver'
           /\ \A i \in Invs : Finished(i) => Finished(i)'
<1>. USE DEF IInv, Untouched
<1>1. TableIsInStep' /\ TableFits'
  BY TableKept
<1>2. {i \in Invs : state'[i] # "NONE"} = {i \in Invs : state[i] # "NONE"}
  OBVIOUS
<1>3. MintedInOrder' /\ OneKeyEach'
  BY <1>2 DEF RowsAreInStep, MintedInOrder, OneKeyEach
<1>4. \A i \in Invs : Finished(i) => Finished(i)'
  BY DEF Finished, Starting
<1>5. \A i \in Invs : Stage(i)'
  <2>. SUFFICES ASSUME NEW i \in Invs PROVE Stage(i)'
    OBVIOUS
  <2>1. Stage(i) /\ ~Starting(i)'
    BY DEF StagesAreInStep, Starting
  <2>. QED
    BY <2>1, <1>4 DEF Stage, Waiting, NeverRan, RanOut
<1>6. HomesAreTheirs'
  BY DEF HomesAreTheirs, HomeIsIts
<1>7. OneIsOver'
  BY <1>4 DEF OneIsOver
<1>. QED
  BY <1>1, <1>3, <1>4, <1>5, <1>6, <1>7 DEF StagesAreInStep

\* The worker asks the broker.
LEMMA Asked ==
    ASSUME NEW op \in {"START", "COLLECT", "DESTROY"}, NEW i \in 0..MaxInvs, NEW e \in 0..MaxEnvs,
           NEW g \in 0..MaxGeneration, Ask(op, i, e, g)
    PROVE  /\ call' \in Call /\ call' # NoCall
           /\ call'.st = "WAIT" /\ call'.op = op /\ call'.inv = i /\ call'.env = e
BY DEF Ask, Call, NoCall

\* An exchange that is over, and a worker with nothing to do.
LEMMA Nothing ==
    /\ NoCall \in Call /\ NoCall.st = "NONE" /\ NoCall.op = "NONE" /\ NoCall.inv = 0
    /\ Idle \in Work /\ Idle.at = "IDLE" /\ Idle.inv = 0 /\ Idle.gen = 0
    /\ NoJob \in Job /\ NoJob.inv = 0 /\ NoJob.at = "NONE" /\ NoJob.by = "NOBODY"
BY Numbers DEF NoCall, Idle, NoJob, Call, Work, Job

-----------------------------------------------------------------------------
(* The broker's steps *)

LEMMA AcceptStartKeeps ==
    ASSUME IInv, AcceptStart, AuthorityUnmoved
    PROVE  IInv'
<1>. USE Numbers DEF IInv, TypeOK, SupervisorTypeOK
<1>0. \A j \in Invs : Stage(j) /\ Fresh(j) /\ HomeIsIts(j)
  BY DEF StagesAreInStep, RowsAreInStep, HomesAreTheirs
<1>1. /\ call.st = "WAIT" /\ call.op = "START" /\ call # NoCall /\ job = NoJob /\ job.inv = 0
      /\ job.by = "NOBODY"
  BY DEF AcceptStart, Accepts, AuthorityUnmoved, ledgerVars, tableVars, worldVars, NoJob, NoCall
<1>2. call' = [st |-> "SENT", op |-> call.op, inv |-> call.inv, env |-> call.env,
               gen |-> call.gen, ans |-> call.ans]
  BY DEF AcceptStart, Accepts, AuthorityUnmoved, ledgerVars, tableVars, worldVars, Call
<1>3. /\ call' \in Call /\ call'.st = "SENT" /\ call'.op = call.op /\ call'.inv = call.inv
      /\ call'.env = call.env /\ call'.ans = call.ans /\ call' # NoCall
  BY <1>1, <1>2 DEF Call, NoCall
<1>. USE DEF AcceptStart, Accepts, AuthorityUnmoved, ledgerVars, tableVars, worldVars
<1>4. call.inv \in Invs
  BY <1>1, <1>2, <1>3 DEF ExchangeIsInStep, NoCall
<1>5. /\ job' \in Job /\ job'.inv = call.inv /\ job'.env = call.env /\ job'.by = "AUTHORITY"
      /\ job'.at = "RESERVE" /\ job'.judged = "NONE"
  BY DEF Job, Call
<1>6. TableIsInStep' /\ TableFits'
  BY TableKept
<1>7. \A j \in Invs : Steady(j)
  BY <1>1, <1>2, <1>3, <1>4, <1>5, <1>0 DEF Steady, Finished, Starting, Stage
<1>8. TypeOK'
  BY <1>1, <1>2, <1>3, <1>4, <1>5, <1>6 DEF TableFits, Endings
<1>9. \A j \in Invs : Fresh(j)'
  BY <1>1, <1>2, <1>3, <1>4, <1>5, <1>0 DEF Fresh
<1>10. ExchangeIsInStep'
  BY <1>1, <1>2, <1>3, <1>4, <1>5 DEF ExchangeIsInStep
<1>11. \A j \in Invs : Stage(j)'
  BY <1>1, <1>2, <1>3, <1>4, <1>5, <1>0, <1>7
  DEF Stage, Waiting, NeverRan, RanOut, Finished, Starting, Endings
<1>12. \A j \in Invs : HomeIsIts(j)'
  BY <1>1, <1>2, <1>3, <1>4, <1>5, <1>0 DEF HomeIsIts, ExchangeIsInStep
<1>13. AnswerIsTrue'
  BY <1>1, <1>2, <1>3, <1>4, <1>5, <1>7
  DEF AnswerIsTrue, Says, NeverRan, RanOut, Finished, Starting, ExchangeIsInStep,
      StagesAreInStep, Stage, RowsAreInStep, Fresh
<1>. QED
  BY <1>6, <1>7, <1>8, <1>9, <1>10, <1>11, <1>12, <1>13, BrokerKeepsRows
  DEF RowsAreInStep, StagesAreInStep, HomesAreTheirs

LEMMA RefuseStartKeeps ==
    ASSUME IInv, RefuseStart, AuthorityUnmoved
    PROVE  IInv'
<1>. USE Numbers DEF IInv, TypeOK, SupervisorTypeOK, RefuseStart, AuthorityUnmoved, ledgerVars,
         tableVars, worldVars
<1>0. \A j \in Invs : Stage(j) /\ Fresh(j) /\ HomeIsIts(j)
  BY DEF StagesAreInStep, RowsAreInStep, HomesAreTheirs
<1>1. job.inv \in Invs /\ job.at # "NONE"
  BY DEF ExchangeIsInStep, NoJob
<1>2. job' \in Job /\ job' = NoJob /\ job'.inv = 0 /\ job'.at = "NONE" /\ job'.by = "NOBODY"
  BY Numbers DEF Reply, NoJob, Job
<1>3. IF job.by = "AUTHORITY" THEN AnsweredAs("REFUSED") ELSE call' = call
  BY AnswerArrives DEF Reply, Said, Endings
<1>4. job.by = "AUTHORITY" =>
        call # NoCall /\ call.st = "SENT" /\ call.op = "START" /\ call.inv = job.inv
  BY DEF ExchangeIsInStep, NoCall
<1>5. TableIsInStep' /\ TableFits'
  BY TableKept
<1>6. \A j \in Invs : Steady(j)
  BY <1>1, <1>2, <1>3, <1>4, <1>0 DEF Steady, Finished, Starting, AnsweredAs, Stage
<1>7. TypeOK'
  BY <1>1, <1>2, <1>3, <1>4, <1>5 DEF TableFits, AnsweredAs, Endings
<1>8. \A j \in Invs : Fresh(j)'
  BY <1>1, <1>2, <1>3, <1>4, <1>0 DEF Fresh, AnsweredAs
<1>9. ExchangeIsInStep'
  BY <1>1, <1>2, <1>3, <1>4 DEF ExchangeIsInStep, AnsweredAs
<1>10. \A j \in Invs : Stage(j)'
  BY <1>1, <1>2, <1>3, <1>4, <1>0, <1>6
  DEF Stage, Waiting, NeverRan, RanOut, Finished, Starting, AnsweredAs, Endings
<1>11. \A j \in Invs : HomeIsIts(j)'
  BY <1>1, <1>2, <1>3, <1>4, <1>0 DEF HomeIsIts, ExchangeIsInStep
<1>12. AnswerIsTrue'
  <2>1. CASE job.by # "AUTHORITY"
    BY <1>1, <1>2, <1>3, <1>4, <2>1, <1>6, AnswerStays
  <2>2. CASE job.by = "AUTHORITY"
    <3>1. call'.op = "START" /\ call'.inv = job.inv /\ call'.ans \in {"REFUSED", "LOST"}
      BY <1>1, <1>2, <1>3, <1>4, <2>2 DEF AnsweredAs
    <3>2. Stage(job.inv)
      BY <1>1, <1>2, <1>3, <1>4 DEF StagesAreInStep
    <3>. QED
      BY <1>1, <1>2, <1>3, <1>4, <3>1, <3>2
      DEF AnswerIsTrue, NeverRan, Finished, Starting, Stage
  <2>. QED
    BY <2>1, <2>2
<1>. QED
  BY <1>5, <1>6, <1>7, <1>8, <1>9, <1>10, <1>11, <1>12, BrokerKeepsRows
  DEF RowsAreInStep, StagesAreInStep, HomesAreTheirs

LEMMA GiveWordKeeps ==
    ASSUME IInv, GiveWord, AuthorityUnmoved
    PROVE  IInv'
<1>. USE Numbers DEF IInv, TypeOK, SupervisorTypeOK, GiveWord, AuthorityUnmoved, ledgerVars,
         tableVars, worldVars
<1>0. \A j \in Invs : Stage(j) /\ Fresh(j) /\ HomeIsIts(j)
  BY DEF StagesAreInStep, RowsAreInStep, HomesAreTheirs
<1>1. job.inv \in Invs /\ job.at # "NONE"
  BY DEF ExchangeIsInStep, NoJob
<1>2. job' \in Job /\ job' = NoJob /\ job'.inv = 0 /\ job'.at = "NONE" /\ job'.by = "NOBODY"
  BY Numbers DEF Reply, NoJob, Job
<1>3. IF job.by = "AUTHORITY" THEN AnsweredAs("STARTED") ELSE call' = call
  BY AnswerArrives DEF Reply, Said, Endings
<1>4. job.by = "AUTHORITY" =>
        call # NoCall /\ call.st = "SENT" /\ call.op = "START" /\ call.inv = job.inv
  BY DEF ExchangeIsInStep, NoCall
<1>5. thread[job.inv] = "GATED" /\ slot[job.inv] = "JUDGING" /\ executed[job.inv] = 0
  BY <1>1, <1>2, <1>3, <1>4 DEF StagesAreInStep, Stage, Waiting
<1>6. TableIsInStep' /\ TableFits'
  BY <1>1, <1>2, <1>3, <1>4, <1>5, SlotMoves
<1>7. \A j \in Invs : Steady(j)
  BY <1>1, <1>2, <1>3, <1>4, <1>5, <1>0 DEF Steady, Finished, Starting, AnsweredAs, Stage
<1>8. TypeOK'
  BY SMTT(30), <1>1, <1>2, <1>3, <1>4, <1>5, <1>6 DEF TableFits, AnsweredAs, Endings
<1>9. \A j \in Invs : Fresh(j)'
  BY <1>1, <1>2, <1>3, <1>4, <1>5, <1>0 DEF Fresh, AnsweredAs
<1>10. ExchangeIsInStep'
  BY <1>1, <1>2, <1>3, <1>4, <1>5 DEF ExchangeIsInStep, AnsweredAs
<1>11. \A j \in Invs : Stage(j)'
  BY <1>1, <1>2, <1>3, <1>4, <1>5, <1>0, <1>7
  DEF Stage, Waiting, NeverRan, RanOut, Finished, Starting, AnsweredAs, Endings
<1>12. \A j \in Invs : HomeIsIts(j)'
  BY <1>1, <1>2, <1>3, <1>4, <1>5, <1>0 DEF HomeIsIts, ExchangeIsInStep
<1>13. AnswerIsTrue'
  <2>1. CASE job.by # "AUTHORITY"
    BY <1>1, <1>2, <1>3, <1>4, <1>5, <2>1, <1>7, AnswerStays
  <2>2. CASE job.by = "AUTHORITY"
    <3>1. call'.op = "START" /\ call'.inv = job.inv /\ call'.ans \in {"STARTED", "LOST"}
      BY <1>1, <1>2, <1>3, <1>4, <1>5, <2>2 DEF AnsweredAs
    <3>2. Stage(job.inv)
      BY <1>1, <1>2, <1>3, <1>4, <1>5 DEF StagesAreInStep
    <3>. QED
      BY <1>1, <1>2, <1>3, <1>4, <1>5, <3>1, <3>2
      DEF AnswerIsTrue, NeverRan, Finished, Starting, Stage
  <2>. QED
    BY <2>1, <2>2
<1>. QED
  BY <1>6, <1>7, <1>8, <1>9, <1>10, <1>11, <1>12, <1>13, BrokerKeepsRows
  DEF RowsAreInStep, StagesAreInStep, HomesAreTheirs

LEMMA PassOnRefusalKeeps ==
    ASSUME IInv, PassOnRefusal, AuthorityUnmoved
    PROVE  IInv'
<1>. USE Numbers DEF IInv, TypeOK, SupervisorTypeOK, PassOnRefusal, Forget, AuthorityUnmoved,
         ledgerVars, tableVars, worldVars
<1>0. \A j \in Invs : Stage(j) /\ Fresh(j) /\ HomeIsIts(j)
  BY DEF StagesAreInStep, RowsAreInStep, HomesAreTheirs
<1>1. job.inv \in Invs /\ job.at # "NONE"
  BY DEF ExchangeIsInStep, NoJob
<1>2. job' \in Job /\ job' = NoJob /\ job'.inv = 0 /\ job'.at = "NONE" /\ job'.by = "NOBODY"
  BY Numbers DEF Reply, NoJob, Job
<1>3. IF job.by = "AUTHORITY" THEN AnsweredAs(job.judged) ELSE call' = call
  BY AnswerArrives DEF Reply, Said, Endings
<1>4. job.by = "AUTHORITY" =>
        call # NoCall /\ call.st = "SENT" /\ call.op = "START" /\ call.inv = job.inv
  BY DEF ExchangeIsInStep, NoCall
<1>5. thread[job.inv] = "NONE" /\ executed[job.inv] = 0
  BY <1>1, <1>2, <1>3, <1>4 DEF StagesAreInStep, Stage, Waiting
<1>6. TableIsInStep' /\ TableFits'
  BY <1>1, <1>2, <1>3, <1>4, <1>5, TableForgets
<1>7. \A j \in Invs : Steady(j)
  BY <1>1, <1>2, <1>3, <1>4, <1>5, <1>0 DEF Steady, Finished, Starting, AnsweredAs, Stage
<1>8. TypeOK'
  BY ZenonT(60), <1>1, <1>2, <1>3, <1>4, <1>5, <1>6 DEF TableFits, AnsweredAs, Endings
<1>9. \A j \in Invs : Fresh(j)'
  BY <1>1, <1>2, <1>3, <1>4, <1>5, <1>0 DEF Fresh, AnsweredAs
<1>10. ExchangeIsInStep'
  BY <1>1, <1>2, <1>3, <1>4, <1>5 DEF ExchangeIsInStep, AnsweredAs
<1>11. \A j \in Invs : Stage(j)'
  BY <1>1, <1>2, <1>3, <1>4, <1>5, <1>0, <1>7
  DEF Stage, Waiting, NeverRan, RanOut, Finished, Starting, AnsweredAs, Endings
<1>12. \A j \in Invs : HomeIsIts(j)'
  BY <1>1, <1>2, <1>3, <1>4, <1>5, <1>0 DEF HomeIsIts, ExchangeIsInStep
<1>13. AnswerIsTrue'
  <2>1. CASE job.by # "AUTHORITY"
    BY <1>1, <1>2, <1>3, <1>4, <1>5, <2>1, <1>7, AnswerStays
  <2>2. CASE job.by = "AUTHORITY"
    <3>1. call'.op = "START" /\ call'.inv = job.inv /\ call'.ans \in {job.judged, "LOST"}
      BY <1>1, <1>2, <1>3, <1>4, <1>5, <2>2 DEF AnsweredAs
    <3>2. Stage(job.inv)
      BY <1>1, <1>2, <1>3, <1>4, <1>5 DEF StagesAreInStep
    <3>. QED
      BY <1>1, <1>2, <1>3, <1>4, <1>5, <3>1, <3>2
      DEF AnswerIsTrue, NeverRan, Finished, Starting, Stage
  <2>. QED
    BY <2>1, <2>2
<1>. QED
  BY <1>6, <1>7, <1>8, <1>9, <1>10, <1>11, <1>12, <1>13, BrokerKeepsRows
  DEF RowsAreInStep, StagesAreInStep, HomesAreTheirs

LEMMA TimeOutKeeps ==
    ASSUME IInv, TimeOut, AuthorityUnmoved
    PROVE  IInv'
<1>. USE Numbers DEF IInv, TypeOK, SupervisorTypeOK, TimeOut, WordWithheld, Forget,
         AuthorityUnmoved, ledgerVars, tableVars, worldVars
<1>0. \A j \in Invs : Stage(j) /\ Fresh(j) /\ HomeIsIts(j)
  BY DEF StagesAreInStep, RowsAreInStep, HomesAreTheirs
<1>1. job.inv \in Invs /\ job.at # "NONE"
  BY DEF ExchangeIsInStep, NoJob
<1>2. job' \in Job /\ job' = NoJob /\ job'.inv = 0 /\ job'.at = "NONE" /\ job'.by = "NOBODY"
  BY Numbers DEF Reply, NoJob, Job
<1>3. IF job.by = "AUTHORITY" THEN AnsweredAs("REFUSED") ELSE call' = call
  BY AnswerArrives DEF Reply, Said, Endings
<1>4. job.by = "AUTHORITY" =>
        call # NoCall /\ call.st = "SENT" /\ call.op = "START" /\ call.inv = job.inv
  BY DEF ExchangeIsInStep, NoCall
<1>5. thread[job.inv] = "JUDGES" /\ executed[job.inv] = 0
  BY <1>1, <1>2, <1>3, <1>4 DEF StagesAreInStep, Stage, Waiting
<1>6. TableIsInStep' /\ TableFits'
  BY <1>1, <1>2, <1>3, <1>4, <1>5, TableForgets
<1>7. \A j \in Invs : Steady(j)
  BY <1>1, <1>2, <1>3, <1>4, <1>5, <1>0 DEF Steady, Finished, Starting, AnsweredAs, Stage
<1>8. TypeOK'
  BY ZenonT(60), <1>1, <1>2, <1>3, <1>4, <1>5, <1>6 DEF TableFits, AnsweredAs, Endings
<1>9. \A j \in Invs : Fresh(j)'
  BY <1>1, <1>2, <1>3, <1>4, <1>5, <1>0 DEF Fresh, AnsweredAs
<1>10. ExchangeIsInStep'
  BY <1>1, <1>2, <1>3, <1>4, <1>5 DEF ExchangeIsInStep, AnsweredAs
<1>11. \A j \in Invs : Stage(j)'
  BY <1>1, <1>2, <1>3, <1>4, <1>5, <1>0, <1>7
  DEF Stage, Waiting, NeverRan, RanOut, Finished, Starting, AnsweredAs, Endings
<1>12. \A j \in Invs : HomeIsIts(j)'
  BY <1>1, <1>2, <1>3, <1>4, <1>5, <1>0 DEF HomeIsIts, ExchangeIsInStep
<1>13. AnswerIsTrue'
  <2>1. CASE job.by # "AUTHORITY"
    BY <1>1, <1>2, <1>3, <1>4, <1>5, <2>1, <1>7, AnswerStays
  <2>2. CASE job.by = "AUTHORITY"
    <3>1. call'.op = "START" /\ call'.inv = job.inv /\ call'.ans \in {"REFUSED", "LOST"}
      BY <1>1, <1>2, <1>3, <1>4, <1>5, <2>2 DEF AnsweredAs
    <3>2. Stage(job.inv)
      BY <1>1, <1>2, <1>3, <1>4, <1>5 DEF StagesAreInStep
    <3>. QED
      BY <1>1, <1>2, <1>3, <1>4, <1>5, <3>1, <3>2
      DEF AnswerIsTrue, NeverRan, Finished, Starting, Stage
  <2>. QED
    BY <2>1, <2>2
<1>. QED
  BY <1>6, <1>7, <1>8, <1>9, <1>10, <1>11, <1>12, <1>13, BrokerKeepsRows
  DEF RowsAreInStep, StagesAreInStep, HomesAreTheirs

LEMMA CollectKeeps ==
    ASSUME IInv, Collect, AuthorityUnmoved
    PROVE  IInv'
<1>. USE Numbers DEF IInv, TypeOK, SupervisorTypeOK
<1>0. \A j \in Invs : Stage(j) /\ Fresh(j) /\ HomeIsIts(j)
  BY DEF StagesAreInStep, RowsAreInStep, HomesAreTheirs
<1>1. /\ call.st = "WAIT" /\ call.op = "COLLECT" /\ call # NoCall /\ job = NoJob /\ job.inv = 0
      /\ job.by = "NOBODY"
  BY DEF Collect, Accepts, CollectMarks, AuthorityUnmoved, ledgerVars, tableVars, worldVars,
         NoJob, NoCall
<1>2. call.inv \in Invs
  BY <1>1 DEF ExchangeIsInStep, NoCall
<1>3. spent' = spent \/ spent' = spent \cup {call.inv}
  BY DEF Collect, Accepts, CollectMarks, AuthorityUnmoved, ledgerVars, tableVars, worldVars
<1>4. spent' \subseteq Invs
  BY ZenonT(60), <1>1, <1>2, <1>3 DEF TypeOK
<1>5. AnsweredAs(CollectsAs(call.inv, call.gen))
  BY <1>1, <1>2, <1>3, <1>4, AnswerArrives
  DEF Collect, Accepts, CollectMarks, AuthorityUnmoved, ledgerVars, tableVars, worldVars,
      CollectsAs, Said, Endings, TableIsInStep
<1>. USE DEF Collect, Accepts, CollectMarks, AuthorityUnmoved, ledgerVars, tableVars, worldVars
<1>6. TableIsInStep' /\ TableFits'
  BY TableKept
<1>7. \A j \in Invs : Steady(j)
  BY <1>1, <1>2, <1>3, <1>4, <1>5, <1>0 DEF Steady, Finished, Starting, AnsweredAs, Stage
<1>8. TypeOK'
  BY <1>1, <1>2, <1>3, <1>4, <1>5, <1>6 DEF TableFits, AnsweredAs, Endings
<1>9. \A j \in Invs : Fresh(j)'
  BY <1>1, <1>2, <1>3, <1>4, <1>5, <1>0 DEF Fresh, AnsweredAs
<1>10. ExchangeIsInStep'
  BY <1>1, <1>2, <1>3, <1>4, <1>5 DEF ExchangeIsInStep, AnsweredAs
<1>11. \A j \in Invs : Stage(j)'
  BY <1>1, <1>2, <1>3, <1>4, <1>5, <1>0, <1>7
  DEF Stage, Waiting, NeverRan, RanOut, Finished, Starting, AnsweredAs, Endings
<1>12. \A j \in Invs : HomeIsIts(j)'
  BY <1>1, <1>2, <1>3, <1>4, <1>5, <1>0 DEF HomeIsIts, ExchangeIsInStep
<1>13. AnswerIsTrue'
  <2>1. Stage(call.inv)
    BY <1>1, <1>2, <1>3, <1>4, <1>5 DEF StagesAreInStep
  <2>2. call'.op = "COLLECT" /\ call'.inv = call.inv
    BY <1>1, <1>2, <1>3, <1>4, <1>5 DEF AnsweredAs
  <2>3. call'.ans \in Endings => call'.ans = "UNCONFIRMED" \/ slot[call.inv] = call'.ans
    BY <1>1, <1>2, <1>3, <1>4, <1>5 DEF AnsweredAs, CollectsAs, Endings
  <2>. QED
    BY <1>1, <1>2, <1>3, <1>4, <1>5, <2>1, <2>2, <2>3
    DEF AnswerIsTrue, Says, NeverRan, RanOut, Finished, Starting, Stage, Endings
<1>. QED
  BY <1>6, <1>7, <1>8, <1>9, <1>10, <1>11, <1>12, <1>13, BrokerKeepsRows
  DEF RowsAreInStep, StagesAreInStep, HomesAreTheirs

LEMMA RemoveEnvironmentKeeps ==
    ASSUME IInv, RemoveEnvironment, AuthorityUnmoved
    PROVE  IInv'
<1>. USE Numbers DEF IInv, TypeOK, SupervisorTypeOK, RemoveEnvironment, Accepts, ContainerEnds,
         AuthorityUnmoved, ledgerVars, tableVars, worldVars
<1>0. \A j \in Invs : Stage(j) /\ Fresh(j) /\ HomeIsIts(j)
  BY DEF StagesAreInStep, RowsAreInStep, HomesAreTheirs
<1>1. /\ call.st = "WAIT" /\ call.op = "DESTROY" /\ call # NoCall /\ job = NoJob /\ job.inv = 0
      /\ job.by = "NOBODY"
  BY DEF NoJob, NoCall
<1>2. AnsweredAs("GONE")
  BY AnswerArrives DEF Said
<1>3. TableIsInStep' /\ TableFits'
  BY TableKept
<1>4. \A j \in Invs : Steady(j)
  BY <1>1, <1>2, <1>0 DEF Steady, Finished, Starting, AnsweredAs, Stage
<1>5. TypeOK'
  BY <1>1, <1>2, <1>3 DEF TableFits, AnsweredAs, Endings
<1>6. \A j \in Invs : Fresh(j)'
  BY <1>1, <1>2, <1>0 DEF Fresh, AnsweredAs
<1>7. ExchangeIsInStep'
  BY <1>1, <1>2 DEF ExchangeIsInStep, AnsweredAs
<1>8. \A j \in Invs : Stage(j)'
  BY <1>1, <1>2, <1>0, <1>4
  DEF Stage, Waiting, NeverRan, RanOut, Finished, Starting, AnsweredAs, Endings
<1>9. \A j \in Invs : HomeIsIts(j)'
  BY <1>1, <1>2, <1>0 DEF HomeIsIts, ExchangeIsInStep
<1>10. AnswerIsTrue'
  BY <1>1, <1>2, <1>4
  DEF AnswerIsTrue, AnsweredAs, Says, NeverRan, RanOut, Finished, Starting, ExchangeIsInStep,
      StagesAreInStep, Stage, RowsAreInStep, Fresh
<1>. QED
  BY <1>3, <1>4, <1>5, <1>6, <1>7, <1>8, <1>9, <1>10, BrokerKeepsRows
  DEF RowsAreInStep, StagesAreInStep, HomesAreTheirs

LEMMA RemovalFailsKeeps ==
    ASSUME IInv, RemovalFails, AuthorityUnmoved
    PROVE  IInv'
<1>. USE Numbers DEF IInv, TypeOK, SupervisorTypeOK, RemovalFails, Accepts, AuthorityUnmoved,
         ledgerVars, tableVars, worldVars
<1>0. \A j \in Invs : Stage(j) /\ Fresh(j) /\ HomeIsIts(j)
  BY DEF StagesAreInStep, RowsAreInStep, HomesAreTheirs
<1>1. /\ call.st = "WAIT" /\ call.op = "DESTROY" /\ call # NoCall /\ job = NoJob /\ job.inv = 0
      /\ job.by = "NOBODY"
  BY DEF NoJob, NoCall
<1>2. AnsweredAs("REFUSED")
  BY CallIsEnded DEF Said
<1>3. TableIsInStep' /\ TableFits'
  BY TableKept
<1>4. \A j \in Invs : Steady(j)
  BY <1>1, <1>2, <1>0 DEF Steady, Finished, Starting, AnsweredAs, Stage
<1>5. TypeOK'
  BY <1>1, <1>2, <1>3 DEF TableFits, AnsweredAs, Endings
<1>6. \A j \in Invs : Fresh(j)'
  BY <1>1, <1>2, <1>0 DEF Fresh, AnsweredAs
<1>7. ExchangeIsInStep'
  BY <1>1, <1>2 DEF ExchangeIsInStep, AnsweredAs
<1>8. \A j \in Invs : Stage(j)'
  BY <1>1, <1>2, <1>0, <1>4
  DEF Stage, Waiting, NeverRan, RanOut, Finished, Starting, AnsweredAs, Endings
<1>9. \A j \in Invs : HomeIsIts(j)'
  BY <1>1, <1>2, <1>0 DEF HomeIsIts, ExchangeIsInStep
<1>10. AnswerIsTrue'
  BY <1>1, <1>2, <1>4
  DEF AnswerIsTrue, AnsweredAs, Says, NeverRan, RanOut, Finished, Starting, ExchangeIsInStep,
      StagesAreInStep, Stage, RowsAreInStep, Fresh
<1>. QED
  BY <1>3, <1>4, <1>5, <1>6, <1>7, <1>8, <1>9, <1>10, BrokerKeepsRows
  DEF RowsAreInStep, StagesAreInStep, HomesAreTheirs

LEMMA JudgePassesKeeps ==
    ASSUME IInv, NEW i \in Invs, JudgePasses(i), AuthorityUnmoved
    PROVE  IInv'
<1>. USE Numbers DEF IInv, TypeOK, SupervisorTypeOK, JudgePasses, AuthorityUnmoved, ledgerVars,
         tableVars, worldVars
<1>0. \A j \in Invs : Stage(j) /\ Fresh(j) /\ HomeIsIts(j)
  BY DEF StagesAreInStep, RowsAreInStep, HomesAreTheirs
<1>1. job.inv = i /\ job.at = "WAIT"
  BY DEF Waiting
<1>2. /\ job' \in Job /\ job'.inv = job.inv /\ job'.at = job.at /\ job'.by = job.by
      /\ job'.env = job.env /\ job'.judged = "PASS"
  BY DEF Job
<1>3. TableIsInStep' /\ TableFits'
  BY TableKept
<1>4. \A j \in Invs : Steady(j)
  BY <1>1, <1>2, <1>0 DEF Steady, Finished, Starting, Stage
<1>5. TypeOK'
  BY <1>1, <1>2, <1>3 DEF TableFits, Endings
<1>6. \A j \in Invs : Fresh(j)'
  BY <1>1, <1>2, <1>0 DEF Fresh
<1>7. ExchangeIsInStep'
  BY <1>1, <1>2 DEF ExchangeIsInStep
<1>8. \A j \in Invs : Stage(j)'
  BY <1>1, <1>2, <1>0, <1>4 DEF Stage, Waiting, NeverRan, RanOut, Finished, Starting, Endings
<1>9. \A j \in Invs : HomeIsIts(j)'
  BY <1>1, <1>2, <1>0 DEF HomeIsIts, ExchangeIsInStep
<1>10. AnswerIsTrue'
  BY <1>4, AnswerStays
<1>. QED
  BY <1>3, <1>4, <1>5, <1>6, <1>7, <1>8, <1>9, <1>10, BrokerKeepsRows
  DEF RowsAreInStep, StagesAreInStep, HomesAreTheirs

LEMMA JudgeRefusesKeeps ==
    ASSUME IInv, NEW i \in Invs, JudgeRefuses(i), AuthorityUnmoved
    PROVE  IInv'
<1>. USE Numbers DEF IInv, TypeOK, SupervisorTypeOK, JudgeRefuses, ThreadGone, Forget,
         AuthorityUnmoved, ledgerVars, tableVars, worldVars
<1>0. \A j \in Invs : Stage(j) /\ Fresh(j) /\ HomeIsIts(j)
  BY DEF StagesAreInStep, RowsAreInStep, HomesAreTheirs
<1>1. job.inv = i /\ job.at = "WAIT"
  BY DEF Waiting
<1>2. /\ job' \in Job /\ job'.inv = job.inv /\ job'.at = job.at /\ job'.by = job.by
      /\ job'.env = job.env /\ job'.judged \in {"REFUSED", "DRIFTED", "UNCONFIRMED"}
  BY DEF Job
<1>3. executed[i] = 0 /\ slot[i] = "JUDGING"
  BY <1>1, <1>2 DEF StagesAreInStep, Stage
<1>4. TableIsInStep' /\ TableFits'
  BY TableForgets
<1>5. \A j \in Invs : Steady(j)
  BY <1>1, <1>2, <1>3, <1>0 DEF Steady, Finished, Starting, Stage
<1>6. TypeOK'
  BY <1>1, <1>2, <1>3, <1>4 DEF TableFits, Endings
<1>7. \A j \in Invs : Fresh(j)'
  BY <1>1, <1>2, <1>3, <1>0 DEF Fresh
<1>8. ExchangeIsInStep'
  BY <1>1, <1>2, <1>3 DEF ExchangeIsInStep
<1>9. \A j \in Invs : Stage(j)'
  BY <1>1, <1>2, <1>3, <1>0, <1>5
  DEF Stage, Waiting, NeverRan, RanOut, Finished, Starting, Endings
<1>10. \A j \in Invs : HomeIsIts(j)'
  BY <1>1, <1>2, <1>3, <1>0 DEF HomeIsIts, ExchangeIsInStep
<1>11. AnswerIsTrue'
  BY <1>5, AnswerStays
<1>. QED
  BY <1>4, <1>5, <1>6, <1>7, <1>8, <1>9, <1>10, <1>11, BrokerKeepsRows
  DEF RowsAreInStep, StagesAreInStep, HomesAreTheirs

LEMMA JudgesForNobodyKeeps ==
    ASSUME IInv, NEW i \in Invs, JudgesForNobody(i), AuthorityUnmoved
    PROVE  IInv'
<1>. USE Numbers DEF IInv, TypeOK, SupervisorTypeOK, JudgesForNobody, ThreadGone, Forget,
         AuthorityUnmoved, ledgerVars, tableVars, worldVars
<1>0. \A j \in Invs : Stage(j) /\ Fresh(j) /\ HomeIsIts(j)
  BY DEF StagesAreInStep, RowsAreInStep, HomesAreTheirs
<1>1. executed[i] = 0 /\ job.inv # i
  BY DEF Waiting, StagesAreInStep, Stage, ExchangeIsInStep, NoJob, Job
<1>2. TableIsInStep' /\ TableFits'
  BY TableForgets
<1>3. \A j \in Invs : Steady(j)
  BY <1>1, <1>0 DEF Steady, Finished, Starting, Stage
<1>4. TypeOK'
  BY <1>1, <1>2 DEF TableFits, Endings
<1>5. \A j \in Invs : Fresh(j)'
  BY <1>1, <1>0 DEF Fresh
<1>6. ExchangeIsInStep'
  BY <1>1 DEF ExchangeIsInStep
<1>7. \A j \in Invs : Stage(j)'
  BY <1>1, <1>0, <1>3 DEF Stage, Waiting, NeverRan, RanOut, Finished, Starting, Endings
<1>8. \A j \in Invs : HomeIsIts(j)'
  BY <1>1, <1>0 DEF HomeIsIts, ExchangeIsInStep
<1>9. AnswerIsTrue'
  BY <1>3, AnswerStays
<1>. QED
  BY <1>2, <1>3, <1>4, <1>5, <1>6, <1>7, <1>8, <1>9, BrokerKeepsRows
  DEF RowsAreInStep, StagesAreInStep, HomesAreTheirs

LEMMA ExecuteKeeps ==
    ASSUME IInv, NEW i \in Invs, Execute(i), AuthorityUnmoved
    PROVE  IInv'
<1>. USE Numbers DEF IInv, TypeOK, SupervisorTypeOK, Execute, AuthorityUnmoved, ledgerVars,
         tableVars, worldVars
<1>0. \A j \in Invs : Stage(j) /\ Fresh(j) /\ HomeIsIts(j)
  BY DEF StagesAreInStep, RowsAreInStep, HomesAreTheirs
<1>1. executed[i] = 0 /\ job.inv # i /\ slot[i] = "RUNNING" /\ ~Starting(i)
  BY DEF StagesAreInStep, Stage
<1>2. executed' \in [Invs -> 0..1]
  BY <1>1
<1>3. TableIsInStep' /\ TableFits'
  BY TableKept
<1>4. \A j \in Invs : Steady(j)
  BY <1>1, <1>2, <1>0 DEF Steady, Finished, Starting, Stage
<1>5. TypeOK'
  BY <1>1, <1>2, <1>3 DEF TableFits, Endings
<1>6. \A j \in Invs : Fresh(j)'
  BY <1>1, <1>2, <1>0 DEF Fresh
<1>7. ExchangeIsInStep'
  BY <1>1, <1>2 DEF ExchangeIsInStep
<1>8. \A j \in Invs : Stage(j)'
  BY <1>1, <1>2, <1>0, <1>4 DEF Stage, Waiting, NeverRan, RanOut, Finished, Starting, Endings
<1>9. \A j \in Invs : HomeIsIts(j)'
  BY <1>1, <1>2, <1>0 DEF HomeIsIts, ExchangeIsInStep
<1>10. AnswerIsTrue'
  BY <1>4, AnswerStays
<1>. QED
  BY <1>3, <1>4, <1>5, <1>6, <1>7, <1>8, <1>9, <1>10, BrokerKeepsRows
  DEF RowsAreInStep, StagesAreInStep, HomesAreTheirs

LEMMA ClientRefusedKeeps ==
    ASSUME IInv, NEW i \in Invs, ClientRefused(i), AuthorityUnmoved
    PROVE  IInv'
<1>. USE Numbers DEF IInv, TypeOK, SupervisorTypeOK, ClientRefused, Keeps, AuthorityUnmoved,
         ledgerVars, tableVars, worldVars
<1>0. \A j \in Invs : Stage(j) /\ Fresh(j) /\ HomeIsIts(j)
  BY DEF StagesAreInStep, RowsAreInStep, HomesAreTheirs
<1>1. executed[i] = 0 /\ job.inv # i /\ slot[i] = "RUNNING" /\ ~Starting(i) /\ i \notin alive
  BY DEF StagesAreInStep, Stage
<1>2. TableIsInStep' /\ TableFits'
  BY <1>1, SlotMoves
<1>3. \A j \in Invs : Steady(j)
  BY <1>1, <1>0 DEF Steady, Finished, Starting, Stage
<1>4. TypeOK'
  BY <1>1, <1>2 DEF TableFits, Endings
<1>5. \A j \in Invs : Fresh(j)'
  BY <1>1, <1>0 DEF Fresh
<1>6. ExchangeIsInStep'
  BY <1>1 DEF ExchangeIsInStep
<1>7. \A j \in Invs : Stage(j)'
  BY <1>1, <1>0, <1>3 DEF Stage, Waiting, NeverRan, RanOut, Finished, Starting, Endings
<1>8. \A j \in Invs : HomeIsIts(j)'
  BY <1>1, <1>0 DEF HomeIsIts, ExchangeIsInStep
<1>9. AnswerIsTrue'
  BY <1>3, AnswerStays
<1>. QED
  BY <1>2, <1>3, <1>4, <1>5, <1>6, <1>7, <1>8, <1>9, BrokerKeepsRows
  DEF RowsAreInStep, StagesAreInStep, HomesAreTheirs

LEMMA EndsWithoutKeeps ==
    ASSUME IInv, NEW i \in Invs, EndsWithout(i), AuthorityUnmoved
    PROVE  IInv'
<1>. USE Numbers DEF IInv, TypeOK, SupervisorTypeOK, EndsWithout, Keeps, AuthorityUnmoved,
         ledgerVars, tableVars, worldVars
<1>0. \A j \in Invs : Stage(j) /\ Fresh(j) /\ HomeIsIts(j)
  BY DEF StagesAreInStep, RowsAreInStep, HomesAreTheirs
<1>1. job.inv # i /\ slot[i] = "RUNNING" /\ ~Starting(i)
  BY DEF StagesAreInStep, Stage
<1>2. TableIsInStep' /\ TableFits'
  BY <1>1, SlotMoves
<1>3. \A j \in Invs : Steady(j)
  BY <1>1, <1>0 DEF Steady, Finished, Starting, Stage
<1>4. TypeOK'
  BY <1>1, <1>2 DEF TableFits, Endings
<1>5. \A j \in Invs : Fresh(j)'
  BY <1>1, <1>0 DEF Fresh
<1>6. ExchangeIsInStep'
  BY <1>1 DEF ExchangeIsInStep
<1>7. \A j \in Invs : Stage(j)'
  BY <1>1, <1>0, <1>3 DEF Stage, Waiting, NeverRan, RanOut, Finished, Starting, Endings
<1>8. \A j \in Invs : HomeIsIts(j)'
  BY <1>1, <1>0 DEF HomeIsIts, ExchangeIsInStep
<1>9. AnswerIsTrue'
  BY <1>3, AnswerStays
<1>. QED
  BY <1>2, <1>3, <1>4, <1>5, <1>6, <1>7, <1>8, <1>9, BrokerKeepsRows
  DEF RowsAreInStep, StagesAreInStep, HomesAreTheirs

LEMMA EndsCleanKeeps ==
    ASSUME IInv, NEW i \in Invs, EndsClean(i), AuthorityUnmoved
    PROVE  IInv'
<1>. USE Numbers DEF IInv, TypeOK, SupervisorTypeOK, EndsClean, Keeps, AuthorityUnmoved,
         ledgerVars, tableVars, worldVars
<1>0. \A j \in Invs : Stage(j) /\ Fresh(j) /\ HomeIsIts(j)
  BY DEF StagesAreInStep, RowsAreInStep, HomesAreTheirs
<1>1. executed[i] = 1 /\ job.inv # i /\ slot[i] = "RUNNING" /\ ~Starting(i)
  BY DEF StagesAreInStep, Stage
<1>2. i \notin alive' /\ alive' \subseteq alive
  BY DEF In
<1>3. TableIsInStep' /\ TableFits'
  BY <1>1, <1>2, SlotMoves
<1>4. \A j \in Invs : Steady(j)
  BY <1>1, <1>2, <1>0 DEF Steady, Finished, Starting, Stage
<1>5. TypeOK'
  BY <1>1, <1>2, <1>3 DEF TableFits, Endings
<1>6. \A j \in Invs : Fresh(j)'
  BY <1>1, <1>2, <1>0 DEF Fresh
<1>7. ExchangeIsInStep'
  BY <1>1, <1>2 DEF ExchangeIsInStep
<1>8. \A j \in Invs : Stage(j)'
  BY <1>1, <1>2, <1>0, <1>4 DEF Stage, Waiting, NeverRan, RanOut, Finished, Starting, Endings
<1>9. \A j \in Invs : HomeIsIts(j)'
  BY <1>1, <1>2, <1>0 DEF HomeIsIts, ExchangeIsInStep
<1>10. AnswerIsTrue'
  BY <1>4, AnswerStays
<1>. QED
  BY <1>3, <1>4, <1>5, <1>6, <1>7, <1>8, <1>9, <1>10, BrokerKeepsRows
  DEF RowsAreInStep, StagesAreInStep, HomesAreTheirs

LEMMA EndsUncleanKeeps ==
    ASSUME IInv, NEW i \in Invs, EndsUnclean(i), AuthorityUnmoved
    PROVE  IInv'
<1>. USE Numbers DEF IInv, TypeOK, SupervisorTypeOK, EndsUnclean, Keeps, AuthorityUnmoved,
         ledgerVars, tableVars, worldVars
<1>0. \A j \in Invs : Stage(j) /\ Fresh(j) /\ HomeIsIts(j)
  BY DEF StagesAreInStep, RowsAreInStep, HomesAreTheirs
<1>1. executed[i] = 1 /\ job.inv # i /\ slot[i] = "RUNNING" /\ ~Starting(i)
  BY DEF StagesAreInStep, Stage
<1>2. alive' \subseteq alive
  BY DEF In
<1>3. PICK result \in {"RESIDUE", "UNCONFIRMED"} : Keeps(i, result)
  OBVIOUS
<1>4. TableIsInStep' /\ TableFits'
  BY <1>1, <1>2, <1>3, SlotMoves
<1>5. \A j \in Invs : Steady(j)
  BY <1>1, <1>2, <1>3, <1>0 DEF Steady, Finished, Starting, Stage
<1>6. TypeOK'
  BY <1>1, <1>2, <1>3, <1>4 DEF TableFits, Endings
<1>7. \A j \in Invs : Fresh(j)'
  BY <1>1, <1>2, <1>3, <1>0 DEF Fresh
<1>8. ExchangeIsInStep'
  BY <1>1, <1>2, <1>3 DEF ExchangeIsInStep
<1>9. \A j \in Invs : Stage(j)'
  BY SMTT(30), <1>1, <1>2, <1>3, <1>0, <1>5
  DEF Stage, Waiting, NeverRan, RanOut, Finished, Starting, Endings
<1>10. \A j \in Invs : HomeIsIts(j)'
  BY <1>1, <1>2, <1>3, <1>0 DEF HomeIsIts, ExchangeIsInStep
<1>11. AnswerIsTrue'
  BY <1>5, AnswerStays
<1>. QED
  BY <1>4, <1>5, <1>6, <1>7, <1>8, <1>9, <1>10, <1>11, BrokerKeepsRows
  DEF RowsAreInStep, StagesAreInStep, HomesAreTheirs

LEMMA GiveUpKeeps ==
    ASSUME IInv, GiveUp, AuthorityUnmoved
    PROVE  IInv'
<1>. USE Numbers DEF IInv, TypeOK, SupervisorTypeOK
<1>0. \A j \in Invs : Stage(j) /\ Fresh(j) /\ HomeIsIts(j)
  BY DEF StagesAreInStep, RowsAreInStep, HomesAreTheirs
<1>1. job' = [inv |-> job.inv, env |-> job.env, by |-> "NOBODY", at |-> job.at,
              judged |-> job.judged]
  BY DEF GiveUp, AuthorityUnmoved, ledgerVars, tableVars, worldVars, Job
<1>2. /\ job' \in Job /\ job'.inv = job.inv /\ job'.at = job.at /\ job'.env = job.env
      /\ job'.by = "NOBODY" /\ job'.judged = job.judged /\ (job = NoJob => job' = NoJob)
  BY <1>1 DEF Job, NoJob
<1>. USE DEF GiveUp, AuthorityUnmoved, ledgerVars, tableVars, worldVars
<1>3. call # NoCall /\ call.st \in {"WAIT", "SENT"} /\ call.inv = work.inv /\ call.op = work.at
  BY DEF ExchangeIsInStep, NoCall
<1>4. AnsweredAs(IF call.st = "WAIT" THEN "NOT_SENT" ELSE "LOST")
  BY CallIsEnded DEF Said
<1>5. TableIsInStep' /\ TableFits'
  BY TableKept
<1>6. \A j \in Invs : Steady(j)
  BY <1>1, <1>2, <1>3, <1>4, <1>0 DEF Steady, Finished, Starting, AnsweredAs, Stage
<1>7. TypeOK'
  BY <1>1, <1>2, <1>3, <1>4, <1>5 DEF TableFits, AnsweredAs, Endings
<1>8. \A j \in Invs : Fresh(j)'
  BY <1>1, <1>2, <1>3, <1>4, <1>0 DEF Fresh, AnsweredAs
<1>9. ExchangeIsInStep'
  BY <1>2, <1>3, <1>4 DEF ExchangeIsInStep, AnsweredAs
<1>10. \A j \in Invs : Stage(j)'
  BY <1>1, <1>2, <1>3, <1>4, <1>0, <1>6
  DEF Stage, Waiting, NeverRan, RanOut, Finished, Starting, AnsweredAs, Endings
<1>11. \A j \in Invs : HomeIsIts(j)'
  BY <1>1, <1>2, <1>3, <1>4, <1>0 DEF HomeIsIts, ExchangeIsInStep
<1>12. AnswerIsTrue'
  BY SMTT(30), <1>1, <1>2, <1>3, <1>4, <1>6
  DEF AnswerIsTrue, AnsweredAs, Says, NeverRan, RanOut, Finished, Starting, ExchangeIsInStep,
      StagesAreInStep, Stage, RowsAreInStep, Fresh
<1>. QED
  BY <1>5, <1>6, <1>7, <1>8, <1>9, <1>10, <1>11, <1>12, BrokerKeepsRows
  DEF RowsAreInStep, StagesAreInStep, HomesAreTheirs

LEMMA RestartsKeeps ==
    ASSUME IInv, Restarts, AuthorityUnmoved
    PROVE  IInv'
<1>. USE Numbers DEF IInv, TypeOK, SupervisorTypeOK, Restarts, AuthorityUnmoved, ledgerVars,
         tableVars, worldVars
<1>0. \A j \in Invs : Stage(j) /\ Fresh(j) /\ HomeIsIts(j)
  BY DEF StagesAreInStep, RowsAreInStep, HomesAreTheirs
<1>1. job' \in Job /\ job' = NoJob /\ job'.inv = 0 /\ job'.at = "NONE" /\ job'.by = "NOBODY"
  BY Numbers DEF NoJob, Job
<1>2. "LOST" \in Said
  BY DEF Said
<1>3. IF call.st = "SENT" THEN call' = CallEnds("LOST") ELSE call' = call
  OBVIOUS
<1>4. call.st = "SENT" => AnsweredAs("LOST")
  BY <1>1, <1>2, <1>3, CallIsEnded
<1>5. call.st = "SENT" => call # NoCall
  BY DEF NoCall
<1>6. \/ call' = call /\ call.st # "SENT"
      \/ (AnsweredAs("LOST") /\ call # NoCall /\ call.st = "SENT")
  BY <1>1, <1>2, <1>3, <1>4, <1>5 DEF Restarts
<1>7. table' = <<>> /\ Once(table') /\ Len(table') = 0 /\ Holds(table') = {}
  BY DEF Once, Holds
<1>8. generation' \in 1..MaxGeneration
  BY SupervisorConstants
<1>9. TableIsInStep' /\ TableFits'
  BY <1>1, <1>2, <1>3, <1>4, <1>5, <1>6, <1>7, <1>8, TableMade, SupervisorConstants
<1>10. \A j \in Invs : Steady(j)
  BY <1>1, <1>2, <1>3, <1>4, <1>5, <1>6, <1>7, <1>8, <1>0
  DEF Steady, Finished, Starting, AnsweredAs, Stage
<1>11. TypeOK'
  BY <1>1, <1>2, <1>3, <1>4, <1>5, <1>6, <1>7, <1>8, <1>9 DEF TableFits, AnsweredAs, Endings
<1>12. \A j \in Invs : Fresh(j)'
  BY <1>1, <1>2, <1>3, <1>4, <1>5, <1>6, <1>7, <1>8, <1>0 DEF Fresh, AnsweredAs
<1>13. ExchangeIsInStep'
  BY <1>1, <1>2, <1>3, <1>4, <1>5, <1>6, <1>7, <1>8 DEF ExchangeIsInStep, AnsweredAs
<1>14. \A j \in Invs : Stage(j)'
  BY <1>1, <1>2, <1>3, <1>4, <1>5, <1>6, <1>7, <1>8, <1>0, <1>10
  DEF Stage, Waiting, NeverRan, RanOut, Finished, Starting, AnsweredAs, Endings
<1>15. \A j \in Invs : HomeIsIts(j)'
  BY <1>1, <1>2, <1>3, <1>4, <1>5, <1>6, <1>7, <1>8, <1>0 DEF HomeIsIts, ExchangeIsInStep
<1>16. AnswerIsTrue'
  <2>1. CASE call' = call
    BY <1>10, <2>1, AnswerStays
  <2>2. CASE AnsweredAs("LOST")
    BY <2>2 DEF AnsweredAs, AnswerIsTrue, Says
  <2>. QED
    BY <1>1, <1>2, <1>3, <1>4, <1>5, <1>6, <1>7, <1>8, <2>1, <2>2
<1>. QED
  BY <1>9, <1>10, <1>11, <1>12, <1>13, <1>14, <1>15, <1>16, BrokerKeepsRows
  DEF RowsAreInStep, StagesAreInStep, HomesAreTheirs

LEMMA AgeAbandonedKeeps ==
    ASSUME IInv, NEW i \in Invs, AgeAbandoned(i), AuthorityUnmoved
    PROVE  IInv'
<1>. USE Numbers DEF IInv, TypeOK, SupervisorTypeOK, AgeAbandoned, Age, AuthorityUnmoved,
         ledgerVars, tableVars, worldVars
<1>0. \A j \in Invs : Stage(j) /\ Fresh(j) /\ HomeIsIts(j)
  BY DEF StagesAreInStep, RowsAreInStep, HomesAreTheirs
<1>1. TableIsInStep' /\ TableFits'
  BY TableKept
<1>2. \A j \in Invs : Steady(j)
  BY <1>0 DEF Steady, Finished, Starting, Stage
<1>3. TypeOK'
  BY <1>1 DEF TableFits, Endings
<1>4. \A j \in Invs : Fresh(j)'
  BY <1>0 DEF Fresh
<1>5. ExchangeIsInStep'
  BY DEF ExchangeIsInStep
<1>6. \A j \in Invs : Stage(j)'
  BY <1>0, <1>2 DEF Stage, Waiting, NeverRan, RanOut, Finished, Starting, Endings
<1>7. \A j \in Invs : HomeIsIts(j)'
  BY <1>0 DEF HomeIsIts, ExchangeIsInStep
<1>8. AnswerIsTrue'
  BY <1>2, AnswerStays
<1>. QED
  BY <1>1, <1>2, <1>3, <1>4, <1>5, <1>6, <1>7, <1>8, BrokerKeepsRows
  DEF RowsAreInStep, StagesAreInStep, HomesAreTheirs

LEMMA VanishesKeeps ==
    ASSUME IInv, NEW e \in Envs, Vanishes(e), AuthorityUnmoved
    PROVE  IInv'
<1>. USE Numbers DEF IInv, TypeOK, SupervisorTypeOK, Vanishes, ContainerEnds, AuthorityUnmoved,
         ledgerVars, tableVars, worldVars
<1>0. \A j \in Invs : Stage(j) /\ Fresh(j) /\ HomeIsIts(j)
  BY DEF StagesAreInStep, RowsAreInStep, HomesAreTheirs
<1>1. TableIsInStep' /\ TableFits'
  BY TableKept
<1>2. \A j \in Invs : Steady(j)
  BY <1>0 DEF Steady, Finished, Starting, Stage
<1>3. TypeOK'
  BY <1>1 DEF TableFits, Endings
<1>4. \A j \in Invs : Fresh(j)'
  BY <1>0 DEF Fresh
<1>5. ExchangeIsInStep'
  BY DEF ExchangeIsInStep
<1>6. \A j \in Invs : Stage(j)'
  BY <1>0, <1>2 DEF Stage, Waiting, NeverRan, RanOut, Finished, Starting, Endings
<1>7. \A j \in Invs : HomeIsIts(j)'
  BY <1>0 DEF HomeIsIts, ExchangeIsInStep
<1>8. AnswerIsTrue'
  BY <1>2, AnswerStays
<1>. QED
  BY <1>1, <1>2, <1>3, <1>4, <1>5, <1>6, <1>7, <1>8, BrokerKeepsRows
  DEF RowsAreInStep, StagesAreInStep, HomesAreTheirs

LEMMA ReserveKeeps ==
    ASSUME IInv, Reserve, AuthorityUnmoved
    PROVE  IInv'
<1>. USE Numbers DEF IInv, TypeOK, SupervisorTypeOK
<1>0. \A j \in Invs : Stage(j) /\ Fresh(j) /\ HomeIsIts(j)
  BY DEF StagesAreInStep, RowsAreInStep, HomesAreTheirs
<1>1. job.inv \in Invs /\ job.at = "RESERVE" /\ job.judged = "NONE"
  BY DEF ExchangeIsInStep, NoJob, Reserve
<1>2. /\ thread[job.inv] = "NONE" /\ slot[job.inv] = "NONE" /\ executed[job.inv] = 0
      /\ ~Starting(job.inv)
  BY <1>1 DEF StagesAreInStep, Stage
<1>3. /\ job' \in Job /\ job'.inv = job.inv /\ job'.env = job.env /\ job'.by = job.by
      /\ job'.at = "WAIT" /\ job'.judged = "NONE"
  BY <1>1 DEF Reserve, Job
<1>4. PICK v : v = IF Full THEN Oldest ELSE 0
  OBVIOUS
<1>5. /\ table' = Append(Without(v), job.inv)
      /\ slot' = [j \in Invs |-> IF j = job.inv THEN "JUDGING"
                                 ELSE IF j = v THEN "NONE" ELSE slot[j]]
      /\ spent' = spent \ {v}
  BY <1>4 DEF Reserve
<1>6. Once(table) /\ Held = Holds(table) /\ Len(table) \in Nat
  BY TableHolds
<1>7. Oldest = 0 \/ (Oldest \in Held /\ slot[Oldest] \in Endings)
  <2>. DEFINE may == {n \in 1..Len(table) : Forgettable(table[n])}
              first == CHOOSE n \in may : \A m \in may : n <= m
  <2>1. CASE may = {}
    BY <2>1 DEF Oldest
  <2>2. CASE may # {}
    <3>1. Oldest = table[first]
      BY <2>2 DEF Oldest
    <3>2. may \subseteq Nat
      BY <1>6
    <3>3. \E n \in may : \A m \in may : n <= m
      BY <2>2, <3>2, LeastOne
    <3>4. first \in may
      BY <3>3
    <3>. HIDE DEF first
    <3>. QED
      BY <3>1, <3>4 DEF Forgettable, HasEnded, Held
  <2>. QED
    BY <2>1, <2>2
<1>8. /\ v = 0 \/ (v \in Held /\ slot[v] \in Endings)
      /\ Full => v \in Held
  BY <1>4, <1>7, <1>1, TableHolds DEF Reserve, ReserveRefused
<1>9. job.inv \notin Held /\ v # job.inv
  BY <1>1, <1>2, <1>8 DEF TableIsInStep, Endings
<1>10. TableIsInStep' /\ TableFits'
  <2>1. Once(Without(v)) /\ Holds(Without(v)) = Held \ {v}
        /\ Len(Without(v)) = IF v \in Held THEN Len(table) - 1 ELSE Len(table)
    BY <1>6, WithoutOne
  <2>2. Once(table') /\ Holds(table') = (Held \ {v}) \cup {job.inv}
        /\ Len(table') = Len(Without(v)) + 1
    BY <1>1, <1>5, <1>9, <2>1, AppendOne
  <2>3. Len(table') <= MaxSupervised
    <3>1. CASE Full
      BY <3>1, <1>6, <1>8, <2>1, <2>2
    <3>2. CASE ~Full
      BY <3>2, <1>6, <2>1, <2>2, SupervisorConstants DEF Full
    <3>. QED
      BY <3>1, <3>2
  <2>4. \A j \in Invs : j \in Holds(table') <=> slot'[j] # "NONE"
    BY <1>5, <1>9, <2>2 DEF TableIsInStep
  <2>. QED
    BY <2>2, <2>3, <2>4, TableMade
<1>11. /\ thread' = [thread EXCEPT ![job.inv] = "JUDGES"]
       /\ home' = [home EXCEPT ![job.inv] = job.env]
       /\ UNCHANGED <<generation, call, container, alive, executed>>
  BY DEF Reserve, worldVars
<1>12. \A j \in Invs : Steady(j)
  BY <1>1, <1>2, <1>3, <1>5, <1>8, <1>9, <1>11, <1>0
  DEF AuthorityUnmoved, ledgerVars, tableVars, worldVars, Steady, Finished, Starting, Stage
<1>13. TypeOK'
  <2>1. job.env \in 0..MaxEnvs
    BY DEF Job
  <2>2. /\ home' \in [Invs -> 0..MaxEnvs]
        /\ thread' \in [Invs -> {"NONE", "JUDGES", "GATED", "GO", "RUNS"}]
    BY <1>1, <1>11, <2>1
  <2>3. slot' \in [Invs -> {"NONE", "JUDGING", "RUNNING"} \cup Endings] /\ spent' \subseteq Invs
    BY <1>1, <1>5
  <2>. QED
    BY <1>3, <1>10, <1>11, <2>2, <2>3
    DEF AuthorityUnmoved, ledgerVars, tableVars, worldVars, TableFits
<1>14. \A j \in Invs : Fresh(j)'
  BY <1>1, <1>2, <1>3, <1>5, <1>8, <1>9, <1>11, <1>0
  DEF AuthorityUnmoved, ledgerVars, tableVars, worldVars, Fresh
<1>15. ExchangeIsInStep'
  BY <1>1, <1>2, <1>3, <1>5, <1>8, <1>9, <1>11
  DEF AuthorityUnmoved, ledgerVars, tableVars, worldVars, ExchangeIsInStep
<1>16. \A j \in Invs : Stage(j)'
  BY <1>1, <1>2, <1>3, <1>5, <1>8, <1>9, <1>11, <1>0, <1>12
  DEF AuthorityUnmoved, ledgerVars, tableVars, worldVars, Stage, Waiting, NeverRan, RanOut,
      Finished, Starting, Endings
<1>17. \A j \in Invs : HomeIsIts(j)'
  BY <1>1, <1>2, <1>3, <1>5, <1>8, <1>9, <1>11, <1>0
  DEF AuthorityUnmoved, ledgerVars, tableVars, worldVars, HomeIsIts, ExchangeIsInStep
<1>18. AnswerIsTrue'
  BY <1>11, <1>12, AnswerStays
<1>. QED
  BY <1>10, <1>12, <1>13, <1>14, <1>15, <1>16, <1>17, <1>18, BrokerKeepsRows
  DEF RowsAreInStep, StagesAreInStep, HomesAreTheirs



-----------------------------------------------------------------------------
(* The authority's steps *)

LEMMA PrepareEnvironmentKeeps ==
    ASSUME IInv, NEW e \in Envs, PrepareEnvironment(e)
    PROVE  IInv'
<1>. USE Numbers DEF IInv, TypeOK, SupervisorTypeOK
<1>0. \A j \in Invs : Placed(j) /\ Fresh(j) /\ RowIsTrue(j)
  BY DEF RowsAreInStep, RowsAreTrue
<1>1. call = NoCall /\ call.st = "NONE" /\ work.at = "IDLE"
  BY Nothing DEF PrepareEnvironment, Free, At, BrokerUnmoved, ledgerVars, tableVars, worldVars
<1>2. UNCHANGED <<proc, incarnation, state, keyed, placed, use, work, parked, generation, call, job,
                    slot, home, spent, thread, alive, executed>>
  BY DEF PrepareEnvironment, Free, At, BrokerUnmoved, ledgerVars, tableVars, worldVars
<1>3. /\ work' = work /\ call' = call /\ job' = job /\ env' = [env EXCEPT ![e] = "READY"]
      /\ env[e] = "NONE"
  BY DEF PrepareEnvironment, Free, At, BrokerUnmoved, ledgerVars, tableVars, worldVars
<1>4. /\ env' \in [Envs -> {"NONE", "READY", "DESTROYING", "DESTROYED"}]
      /\ container' \in [Envs -> {"NONE", "UP", "GONE"}]
  BY DEF PrepareEnvironment, Free, At, BrokerUnmoved, ledgerVars, tableVars, worldVars
<1>5. Untouched
  BY <1>1, <1>2, <1>3, <1>4
  DEF PrepareEnvironment, Free, At, BrokerUnmoved, ledgerVars, tableVars, worldVars, Untouched,
      Starting
<1>6. /\ TableFits' /\ TableIsInStep' /\ StagesAreInStep' /\ HomesAreTheirs'
      /\ MintedInOrder' /\ OneKeyEach' /\ OneIsOver'
      /\ \A j \in Invs : Finished(j) => Finished(j)'
  BY <1>5, AuthorityKeepsStages
<1>7. TypeOK'
  BY SMTT(30), <1>1, <1>2, <1>3, <1>4, <1>6 DEF TableFits
<1>8. \A j \in Invs : Placed(j)' /\ Fresh(j)'
  BY <1>1, <1>2, <1>3, <1>4, <1>0
  DEF PrepareEnvironment, Free, At, BrokerUnmoved, ledgerVars, tableVars, worldVars, Placed,
      Fresh
<1>9. ExchangeIsInStep'
  BY <1>1, <1>2, <1>3, <1>4
  DEF PrepareEnvironment, Free, At, BrokerUnmoved, ledgerVars, tableVars, worldVars,
      ExchangeIsInStep
<1>10. AnswerIsTrue'
  BY <1>1, <1>2, <1>3, <1>4
  DEF PrepareEnvironment, Free, At, BrokerUnmoved, ledgerVars, tableVars, worldVars,
      AnswerIsTrue
<1>11. SettlementIsTrue'
  BY <1>1, <1>2, <1>3, <1>4
  DEF PrepareEnvironment, Free, At, BrokerUnmoved, ledgerVars, tableVars, worldVars,
      SettlementIsTrue, Says, Comings
<1>12. \A j \in Invs : RowIsTrue(j)'
  BY <1>1, <1>2, <1>3, <1>4, <1>0, <1>6
  DEF PrepareEnvironment, Free, At, BrokerUnmoved, ledgerVars, tableVars, worldVars, RowIsTrue,
      NeverRan, Placed
<1>. QED
  BY <1>6, <1>7, <1>8, <1>9, <1>10, <1>11, <1>12 DEF RowsAreInStep, RowsAreTrue

LEMMA EndRunKeeps ==
    ASSUME IInv, NEW e \in Envs, EndRun(e)
    PROVE  IInv'
<1>. USE Numbers DEF IInv, TypeOK, SupervisorTypeOK, EndRun, Free, At, BrokerUnmoved,
         ledgerVars, tableVars, worldVars
<1>0. \A j \in Invs : Placed(j) /\ Fresh(j) /\ RowIsTrue(j)
  BY DEF RowsAreInStep, RowsAreTrue
<1>1. call = NoCall /\ call.st = "NONE" /\ work.at = "IDLE"
  BY Nothing
<1>2. work' \in Work /\ work'.at = "DESTROY" /\ work'.inv = 0 /\ work' # Idle
  BY ZenonT(60) DEF PerformDestroy, Idle, Work
<1>3. /\ call' \in Call /\ call' # NoCall /\ call'.st = "WAIT" /\ call'.op = "DESTROY"
      /\ call'.inv = 0
  BY Asked DEF PerformDestroy
<1>4. Untouched
  BY <1>1, <1>2, <1>3 DEF Untouched, Starting
<1>5. /\ TableFits' /\ TableIsInStep' /\ StagesAreInStep' /\ HomesAreTheirs'
      /\ MintedInOrder' /\ OneKeyEach' /\ OneIsOver'
      /\ \A j \in Invs : Finished(j) => Finished(j)'
  BY <1>4, AuthorityKeepsStages
<1>6. TypeOK'
  BY <1>1, <1>2, <1>3, <1>5 DEF TableFits, States
<1>7. \A j \in Invs : Placed(j)' /\ Fresh(j)'
  BY <1>1, <1>2, <1>3, <1>0 DEF Placed, Fresh
<1>8. ExchangeIsInStep'
  BY <1>1, <1>2, <1>3 DEF ExchangeIsInStep
<1>9. AnswerIsTrue'
  BY <1>1, <1>2, <1>3 DEF AnswerIsTrue
<1>10. SettlementIsTrue'
  BY <1>1, <1>2, <1>3 DEF SettlementIsTrue, Says, Comings
<1>11. \A j \in Invs : RowIsTrue(j)'
  BY <1>1, <1>2, <1>3, <1>0, <1>5 DEF RowIsTrue, NeverRan, Placed
<1>. QED
  BY <1>5, <1>6, <1>7, <1>8, <1>9, <1>10, <1>11 DEF RowsAreInStep, RowsAreTrue

LEMMA ReclaimKeeps ==
    ASSUME IInv, NEW e \in Envs, Reclaim(e)
    PROVE  IInv'
<1>. USE Numbers DEF IInv, TypeOK, SupervisorTypeOK, Reclaim, Free, At, BrokerUnmoved,
         ledgerVars, tableVars, worldVars
<1>0. \A j \in Invs : Placed(j) /\ Fresh(j) /\ RowIsTrue(j)
  BY DEF RowsAreInStep, RowsAreTrue
<1>1. call = NoCall /\ call.st = "NONE" /\ work.at = "IDLE"
  BY Nothing
<1>2. work' \in Work /\ work'.at = "DESTROY" /\ work'.inv = 0 /\ work' # Idle
  BY ZenonT(60) DEF PerformDestroy, Idle, Work
<1>3. /\ call' \in Call /\ call' # NoCall /\ call'.st = "WAIT" /\ call'.op = "DESTROY"
      /\ call'.inv = 0
  BY Asked DEF PerformDestroy
<1>4. Untouched
  BY <1>1, <1>2, <1>3 DEF Untouched, Starting
<1>5. /\ TableFits' /\ TableIsInStep' /\ StagesAreInStep' /\ HomesAreTheirs'
      /\ MintedInOrder' /\ OneKeyEach' /\ OneIsOver'
      /\ \A j \in Invs : Finished(j) => Finished(j)'
  BY <1>4, AuthorityKeepsStages
<1>6. TypeOK'
  BY <1>1, <1>2, <1>3, <1>5 DEF TableFits, States
<1>7. \A j \in Invs : Placed(j)' /\ Fresh(j)'
  BY <1>1, <1>2, <1>3, <1>0 DEF Placed, Fresh
<1>8. ExchangeIsInStep'
  BY <1>1, <1>2, <1>3 DEF ExchangeIsInStep
<1>9. AnswerIsTrue'
  BY <1>1, <1>2, <1>3 DEF AnswerIsTrue
<1>10. SettlementIsTrue'
  BY <1>1, <1>2, <1>3 DEF SettlementIsTrue, Says, Comings
<1>11. \A j \in Invs : RowIsTrue(j)'
  BY <1>1, <1>2, <1>3, <1>0, <1>5 DEF RowIsTrue, NeverRan, Placed
<1>. QED
  BY <1>5, <1>6, <1>7, <1>8, <1>9, <1>10, <1>11 DEF RowsAreInStep, RowsAreTrue

LEMMA EnvironmentGoneKeeps ==
    ASSUME IInv, EnvironmentGone
    PROVE  IInv'
<1>. USE Numbers DEF IInv, TypeOK, SupervisorTypeOK, EnvironmentGone, BrokerUnmoved, ledgerVars,
         tableVars, worldVars
<1>0. \A j \in Invs : Placed(j) /\ Fresh(j) /\ RowIsTrue(j)
  BY DEF RowsAreInStep, RowsAreTrue
<1>1. call # NoCall /\ call.st = "DONE" /\ call.op = "DESTROY"
  BY Nothing DEF Answered, At, ExchangeIsInStep
<1>2. /\ call' = NoCall /\ call' \in Call /\ call'.st = "NONE" /\ call'.op = "NONE"
      /\ call'.inv = 0
  BY Nothing DEF Over
<1>3. work' = Idle /\ work' \in Work /\ work'.at = "IDLE" /\ work'.inv = 0
  BY Nothing
<1>4. /\ env' \in [Envs -> {"NONE", "READY", "DESTROYING", "DESTROYED"}]
      /\ \A f \in Envs : env'[f] = env[f] \/ env'[f] = "DESTROYED"
  BY DEF EnvironmentGone
<1>5. Untouched
  BY <1>1, <1>2, <1>3, <1>4 DEF Untouched, Starting
<1>6. /\ TableFits' /\ TableIsInStep' /\ StagesAreInStep' /\ HomesAreTheirs'
      /\ MintedInOrder' /\ OneKeyEach' /\ OneIsOver'
      /\ \A j \in Invs : Finished(j) => Finished(j)'
  BY <1>5, AuthorityKeepsStages
<1>7. TypeOK'
  BY <1>1, <1>2, <1>3, <1>4, <1>6 DEF TableFits, States
<1>8. \A j \in Invs : Placed(j)' /\ Fresh(j)'
  BY <1>1, <1>2, <1>3, <1>4, <1>0 DEF Placed, Fresh
<1>9. ExchangeIsInStep'
  BY <1>1, <1>2, <1>3, <1>4 DEF ExchangeIsInStep
<1>10. AnswerIsTrue'
  BY <1>1, <1>2, <1>3, <1>4 DEF AnswerIsTrue
<1>11. SettlementIsTrue'
  BY <1>1, <1>2, <1>3, <1>4 DEF SettlementIsTrue, Says, Comings
<1>12. \A j \in Invs : RowIsTrue(j)'
  BY <1>1, <1>2, <1>3, <1>4, <1>0, <1>6 DEF RowIsTrue, NeverRan, Placed
<1>. QED
  BY <1>6, <1>7, <1>8, <1>9, <1>10, <1>11, <1>12 DEF RowsAreInStep, RowsAreTrue

LEMMA OrderFailsKeeps ==
    ASSUME IInv, OrderFails
    PROVE  IInv'
<1>. USE Numbers DEF IInv, TypeOK, SupervisorTypeOK, OrderFails, At, BrokerUnmoved, ledgerVars,
         tableVars, worldVars
<1>0. \A j \in Invs : Placed(j) /\ Fresh(j) /\ RowIsTrue(j)
  BY DEF RowsAreInStep, RowsAreTrue
<1>1. /\ call # NoCall /\ call.st = "WAIT" /\ call.op = "START" /\ call.inv = work.inv
      /\ work.inv \in Invs /\ proc = "UP"
  BY Nothing DEF ExchangeIsInStep
<1>2. /\ call' = NoCall /\ call' \in Call /\ call'.st = "NONE" /\ call'.op = "NONE"
      /\ call'.inv = 0
  BY Nothing DEF Over
<1>3. PICK came \in {"FAILED", "DRIFTED"} : Comes(came)
  OBVIOUS
<1>4. work' = [at |-> "SETTLE", inv |-> work.inv, env |-> work.env, gen |-> work.gen,
               came |-> came]
  BY <1>1, <1>2, <1>3 DEF Comes, Work
<1>5. work' \in Work /\ work'.at = "SETTLE" /\ work'.inv = work.inv /\ work'.came = came
  BY <1>1, <1>2, <1>3, <1>4 DEF Work, Comings
<1>6. NeverRan(work.inv)'
  BY <1>1, <1>2, <1>3, <1>4, <1>5 DEF StagesAreInStep, Stage, NeverRan, Finished, Starting
<1>7. Untouched
  BY <1>1, <1>2, <1>3, <1>4, <1>5, <1>6 DEF Untouched, Starting
<1>8. /\ TableFits' /\ TableIsInStep' /\ StagesAreInStep' /\ HomesAreTheirs'
      /\ MintedInOrder' /\ OneKeyEach' /\ OneIsOver'
      /\ \A j \in Invs : Finished(j) => Finished(j)'
  BY <1>7, AuthorityKeepsStages
<1>9. TypeOK'
  BY <1>1, <1>2, <1>3, <1>4, <1>5, <1>6, <1>8 DEF TableFits, States
<1>10. \A j \in Invs : Placed(j)' /\ Fresh(j)'
  BY <1>1, <1>2, <1>3, <1>4, <1>5, <1>6, <1>0 DEF Placed, Fresh
<1>11. ExchangeIsInStep'
  BY <1>1, <1>2, <1>3, <1>4, <1>5, <1>6 DEF ExchangeIsInStep
<1>12. AnswerIsTrue'
  BY <1>1, <1>2, <1>3, <1>4, <1>5, <1>6 DEF AnswerIsTrue
<1>13. SettlementIsTrue'
  BY <1>1, <1>2, <1>3, <1>4, <1>5, <1>6 DEF SettlementIsTrue, Says, Comings
<1>14. \A j \in Invs : RowIsTrue(j)'
  BY <1>1, <1>2, <1>3, <1>4, <1>5, <1>6, <1>0, <1>8 DEF RowIsTrue, NeverRan, Placed
<1>. QED
  BY <1>8, <1>9, <1>10, <1>11, <1>12, <1>13, <1>14 DEF RowsAreInStep, RowsAreTrue

LEMMA StartEndsKeeps ==
    ASSUME IInv, StartEnds
    PROVE  IInv'
<1>. USE Numbers DEF IInv, TypeOK, SupervisorTypeOK, StartEnds, BrokerUnmoved, ledgerVars,
         tableVars, worldVars
<1>0. \A j \in Invs : Placed(j) /\ Fresh(j) /\ RowIsTrue(j)
  BY DEF RowsAreInStep, RowsAreTrue
<1>1. /\ call # NoCall /\ call.st = "DONE" /\ call.op = "START" /\ call.inv = work.inv
      /\ work.inv \in Invs
  BY Nothing DEF Answered, At, ExchangeIsInStep
<1>2. /\ call' = NoCall /\ call' \in Call /\ call'.st = "NONE" /\ call'.op = "NONE"
      /\ call'.inv = 0
  BY Nothing DEF Over
<1>3. EndingOfStart(call.ans) \in Comings
  BY DEF EndingOfStart, Comings
<1>4. work' = [at |-> "SETTLE", inv |-> work.inv, env |-> work.env, gen |-> work.gen,
               came |-> EndingOfStart(call.ans)]
  BY <1>1, <1>2, <1>3 DEF Comes, Work
<1>5. /\ work' \in Work /\ work'.at = "SETTLE" /\ work'.inv = work.inv
      /\ work'.came = EndingOfStart(call.ans)
  BY <1>1, <1>2, <1>3, <1>4 DEF Work
<1>6. work'.came \in {"FAILED", "DRIFTED"} => call.ans \in {"NOT_SENT", "REFUSED", "DRIFTED"}
  BY <1>1, <1>2, <1>3, <1>4, <1>5 DEF EndingOfStart, ProvablyWithoutEffect
<1>7. work'.came \notin {"CLEAN", "RESIDUE"} /\ proc = "UP"
  BY <1>1, <1>2, <1>3, <1>4, <1>5, <1>6 DEF Answered, At, EndingOfStart
<1>8. work'.came \in {"FAILED", "DRIFTED"} => NeverRan(work.inv)'
  BY <1>1, <1>2, <1>3, <1>4, <1>5, <1>6, <1>7 DEF AnswerIsTrue, NeverRan, Finished, Starting
<1>9. Untouched
  BY <1>1, <1>2, <1>3, <1>4, <1>5, <1>6, <1>7, <1>8 DEF Untouched, Starting
<1>10. /\ TableFits' /\ TableIsInStep' /\ StagesAreInStep' /\ HomesAreTheirs'
      /\ MintedInOrder' /\ OneKeyEach' /\ OneIsOver'
      /\ \A j \in Invs : Finished(j) => Finished(j)'
  BY <1>9, AuthorityKeepsStages
<1>11. TypeOK'
  BY <1>1, <1>2, <1>3, <1>4, <1>5, <1>6, <1>7, <1>8, <1>10 DEF TableFits, States
<1>12. \A j \in Invs : Placed(j)' /\ Fresh(j)'
  BY <1>1, <1>2, <1>3, <1>4, <1>5, <1>6, <1>7, <1>8, <1>0 DEF Placed, Fresh
<1>13. ExchangeIsInStep'
  BY <1>1, <1>2, <1>3, <1>4, <1>5, <1>6, <1>7, <1>8 DEF ExchangeIsInStep
<1>14. AnswerIsTrue'
  BY <1>1, <1>2, <1>3, <1>4, <1>5, <1>6, <1>7, <1>8 DEF AnswerIsTrue
<1>15. SettlementIsTrue'
  BY <1>1, <1>2, <1>3, <1>4, <1>5, <1>6, <1>7, <1>8 DEF SettlementIsTrue, Says, Comings
<1>16. \A j \in Invs : RowIsTrue(j)'
  BY <1>1, <1>2, <1>3, <1>4, <1>5, <1>6, <1>7, <1>8, <1>0, <1>10 DEF RowIsTrue, NeverRan, Placed
<1>. QED
  BY <1>10, <1>11, <1>12, <1>13, <1>14, <1>15, <1>16 DEF RowsAreInStep, RowsAreTrue

LEMMA ParkKeeps ==
    ASSUME IInv, Park
    PROVE  IInv'
<1>. USE Numbers DEF IInv, TypeOK, SupervisorTypeOK, Park, BrokerUnmoved, ledgerVars, tableVars,
         worldVars
<1>0. \A j \in Invs : Placed(j) /\ Fresh(j) /\ RowIsTrue(j)
  BY DEF RowsAreInStep, RowsAreTrue
<1>1. /\ call # NoCall /\ call.st = "DONE" /\ call.op = "START" /\ call.inv = work.inv
      /\ work.inv \in Invs
  BY Nothing DEF Answered, At, ExchangeIsInStep
<1>2. /\ call' = NoCall /\ call' \in Call /\ call'.st = "NONE" /\ call'.op = "NONE"
      /\ call'.inv = 0
  BY Nothing DEF Over
<1>3. call.gen \in 0..MaxGeneration /\ proc = "UP"
  BY DEF Call, Park, Answered, At
<1>4. \/ parked' = [parked EXCEPT ![work.inv] = call.gen] /\ work' = Idle
      \/ work' = [work EXCEPT !.at = "WAIT", !.gen = call.gen] /\ parked' = parked
  BY DEF Park
<1>5. /\ work' \in Work /\ work'.at \in {"IDLE", "WAIT"}
      /\ (work'.at = "WAIT" => work'.inv = work.inv) /\ work'.inv \in {0, work.inv}
  <2>1. CASE work' = Idle
    BY <2>1, Nothing
  <2>2. CASE work' = [work EXCEPT !.at = "WAIT", !.gen = call.gen]
    BY <1>1, <1>2, <1>3, <1>4, <2>2 DEF Work
  <2>. QED
    BY <1>1, <1>2, <1>3, <1>4, <2>1, <2>2
<1>6. /\ parked' \in [Invs -> 0..MaxGeneration]
      /\ \A j \in Invs : j # work.inv => parked'[j] = parked[j]
  BY SMTT(30), <1>1, <1>2, <1>3, <1>4, <1>5
<1>7. Untouched
  BY <1>1, <1>2, <1>3, <1>4, <1>5, <1>6 DEF Untouched, Starting
<1>8. /\ TableFits' /\ TableIsInStep' /\ StagesAreInStep' /\ HomesAreTheirs'
      /\ MintedInOrder' /\ OneKeyEach' /\ OneIsOver'
      /\ \A j \in Invs : Finished(j) => Finished(j)'
  BY <1>7, AuthorityKeepsStages
<1>9. TypeOK'
  BY <1>1, <1>2, <1>3, <1>4, <1>5, <1>6, <1>8 DEF TableFits, States
<1>10. \A j \in Invs : Placed(j)' /\ Fresh(j)'
  BY SMTT(30), <1>1, <1>2, <1>3, <1>4, <1>5, <1>6, <1>0 DEF Placed, Fresh
<1>11. ExchangeIsInStep'
  BY <1>1, <1>2, <1>3, <1>4, <1>5, <1>6 DEF ExchangeIsInStep
<1>12. AnswerIsTrue'
  BY <1>1, <1>2, <1>3, <1>4, <1>5, <1>6 DEF AnswerIsTrue
<1>13. SettlementIsTrue'
  BY <1>1, <1>2, <1>3, <1>4, <1>5, <1>6 DEF SettlementIsTrue, Says, Comings
<1>14. \A j \in Invs : RowIsTrue(j)'
  BY <1>1, <1>2, <1>3, <1>4, <1>5, <1>6, <1>0, <1>8 DEF RowIsTrue, NeverRan, Placed
<1>. QED
  BY <1>8, <1>9, <1>10, <1>11, <1>12, <1>13, <1>14 DEF RowsAreInStep, RowsAreTrue

LEMMA CollectParkedKeeps ==
    ASSUME IInv, NEW i \in Invs, CollectParked(i)
    PROVE  IInv'
<1>. USE Numbers DEF IInv, TypeOK, SupervisorTypeOK, CollectParked, BrokerUnmoved, ledgerVars,
         tableVars, worldVars
<1>0. \A j \in Invs : Placed(j) /\ Fresh(j) /\ RowIsTrue(j)
  BY DEF RowsAreInStep, RowsAreTrue
<1>1. call = NoCall /\ proc = "UP" /\ call.st = "NONE"
  BY Nothing DEF Free, At
<1>2. state[i] # "NONE" /\ placed[i] \in 0..MaxEnvs
  BY DEF Free, At, Parked, RowsAreInStep, Fresh
<1>3. work' \in Work /\ work'.at = "COLLECT" /\ work'.inv = i
  <2>1. CASE work' = [Idle EXCEPT !.at = "COLLECT", !.inv = i, !.env = placed[i]]
    BY <1>1, <1>2, <2>1 DEF Idle, Work
  <2>2. CASE work' = [work EXCEPT !.at = "COLLECT"] /\ i = work.inv
    BY <1>1, <1>2, <2>2 DEF Work
  <2>. QED
    BY <2>1, <2>2 DEF CollectParked
<1>4. /\ call' \in Call /\ call' # NoCall /\ call'.st = "WAIT" /\ call'.op = "COLLECT"
      /\ call'.inv = i
  BY <1>1, <1>2, <1>3, Asked DEF Work
<1>5. Untouched
  BY <1>1, <1>2, <1>3, <1>4 DEF Untouched, Starting
<1>6. /\ TableFits' /\ TableIsInStep' /\ StagesAreInStep' /\ HomesAreTheirs'
      /\ MintedInOrder' /\ OneKeyEach' /\ OneIsOver'
      /\ \A j \in Invs : Finished(j) => Finished(j)'
  BY <1>5, AuthorityKeepsStages
<1>7. TypeOK'
  BY <1>1, <1>2, <1>3, <1>4, <1>6 DEF TableFits, States
<1>8. \A j \in Invs : Placed(j)' /\ Fresh(j)'
  BY <1>1, <1>2, <1>3, <1>4, <1>0 DEF Placed, Fresh
<1>9. ExchangeIsInStep'
  BY <1>1, <1>2, <1>3, <1>4 DEF ExchangeIsInStep
<1>10. AnswerIsTrue'
  BY <1>1, <1>2, <1>3, <1>4 DEF AnswerIsTrue
<1>11. SettlementIsTrue'
  BY <1>1, <1>2, <1>3, <1>4 DEF SettlementIsTrue, Says, Comings
<1>12. \A j \in Invs : RowIsTrue(j)'
  BY <1>1, <1>2, <1>3, <1>4, <1>0, <1>6 DEF RowIsTrue, NeverRan, Placed
<1>. QED
  BY <1>6, <1>7, <1>8, <1>9, <1>10, <1>11, <1>12 DEF RowsAreInStep, RowsAreTrue

LEMMA StillRunningKeeps ==
    ASSUME IInv, StillRunning
    PROVE  IInv'
<1>. USE Numbers DEF IInv, TypeOK, SupervisorTypeOK
<1>0. \A j \in Invs : Placed(j) /\ Fresh(j) /\ RowIsTrue(j)
  BY DEF RowsAreInStep, RowsAreTrue
<1>1. /\ call # NoCall /\ call.st = "DONE" /\ call.op = "COLLECT" /\ call.inv = work.inv
      /\ work.inv \in Invs
  BY Nothing
  DEF StillRunning, BrokerUnmoved, ledgerVars, tableVars, worldVars, Answered, At,
      ExchangeIsInStep
<1>2. /\ call' = NoCall /\ call' \in Call /\ call'.st = "NONE" /\ call'.op = "NONE"
      /\ call'.inv = 0
  BY Nothing DEF StillRunning, BrokerUnmoved, ledgerVars, tableVars, worldVars, Over
<1>3. proc = "UP" /\ work' = IF work.gen = 0 THEN Idle ELSE [work EXCEPT !.at = "WAIT"]
  BY DEF StillRunning, Answered, At
<1>4. /\ work' \in Work /\ work'.at \in {"IDLE", "WAIT"}
      /\ (work'.at = "WAIT" => work'.inv = work.inv) /\ work'.inv \in {0, work.inv}
  BY <1>1, <1>2, <1>3, Nothing DEF Work
<1>. USE DEF StillRunning, BrokerUnmoved, ledgerVars, tableVars, worldVars
<1>5. Untouched
  BY <1>1, <1>2, <1>3, <1>4 DEF Untouched, Starting
<1>6. /\ TableFits' /\ TableIsInStep' /\ StagesAreInStep' /\ HomesAreTheirs'
      /\ MintedInOrder' /\ OneKeyEach' /\ OneIsOver'
      /\ \A j \in Invs : Finished(j) => Finished(j)'
  BY <1>5, AuthorityKeepsStages
<1>7. TypeOK'
  BY <1>1, <1>2, <1>3, <1>4, <1>6 DEF TableFits, States
<1>8. \A j \in Invs : Placed(j)' /\ Fresh(j)'
  BY <1>1, <1>2, <1>3, <1>4, <1>0 DEF Placed, Fresh
<1>9. ExchangeIsInStep'
  BY <1>1, <1>2, <1>3, <1>4 DEF ExchangeIsInStep
<1>10. AnswerIsTrue'
  BY <1>1, <1>2, <1>3, <1>4 DEF AnswerIsTrue
<1>11. SettlementIsTrue'
  BY <1>1, <1>2, <1>3, <1>4 DEF SettlementIsTrue, Says, Comings
<1>12. \A j \in Invs : RowIsTrue(j)'
  BY <1>1, <1>2, <1>3, <1>4, <1>0, <1>6 DEF RowIsTrue, NeverRan, Placed
<1>. QED
  BY <1>6, <1>7, <1>8, <1>9, <1>10, <1>11, <1>12 DEF RowsAreInStep, RowsAreTrue

LEMMA CollectionEndsKeeps ==
    ASSUME IInv, CollectionEnds
    PROVE  IInv'
<1>. USE Numbers DEF IInv, TypeOK, SupervisorTypeOK, CollectionEnds, BrokerUnmoved, ledgerVars,
         tableVars, worldVars
<1>0. \A j \in Invs : Placed(j) /\ Fresh(j) /\ RowIsTrue(j)
  BY DEF RowsAreInStep, RowsAreTrue
<1>1. /\ call # NoCall /\ call.st = "DONE" /\ call.op = "COLLECT" /\ call.inv = work.inv
      /\ work.inv \in Invs
  BY Nothing DEF Answered, At, ExchangeIsInStep
<1>2. /\ call' = NoCall /\ call' \in Call /\ call'.st = "NONE" /\ call'.op = "NONE"
      /\ call'.inv = 0
  BY Nothing DEF Over
<1>3. EndingOfCollection(call.ans) \in Comings
  BY DEF EndingOfCollection, Comings
<1>4. work' = [at |-> "SETTLE", inv |-> work.inv, env |-> work.env, gen |-> work.gen,
               came |-> EndingOfCollection(call.ans)]
  BY <1>1, <1>2, <1>3 DEF Comes, Work
<1>5. /\ work' \in Work /\ work'.at = "SETTLE" /\ work'.inv = work.inv
      /\ work'.came = EndingOfCollection(call.ans)
  BY <1>1, <1>2, <1>3, <1>4 DEF Work
<1>6. /\ work'.came \in {"FAILED", "DRIFTED"} => call.ans = "NEVER_RAN"
      /\ work'.came = "CLEAN" => call.ans = "CLEAN"
      /\ work'.came = "RESIDUE" => call.ans = "RESIDUE"
      /\ proc = "UP"
  BY <1>1, <1>2, <1>3, <1>4, <1>5 DEF EndingOfCollection, CollectionEnds, Answered, At
<1>7. Says(work.inv, work'.came \in {"FAILED", "DRIFTED"},
           work'.came = "CLEAN", work'.came = "RESIDUE")
  BY <1>1, <1>2, <1>3, <1>4, <1>5, <1>6 DEF AnswerIsTrue, Says
<1>8. /\ NeverRan(work.inv) => NeverRan(work.inv)'
      /\ RanOut(work.inv) => RanOut(work.inv)'
      /\ executed' = executed
  BY <1>1, <1>2, <1>3, <1>4, <1>5, <1>6, <1>7 DEF NeverRan, RanOut, Finished, Starting
<1>9. Untouched
  BY <1>1, <1>2, <1>3, <1>4, <1>5, <1>6, <1>7, <1>8 DEF Untouched, Starting
<1>10. /\ TableFits' /\ TableIsInStep' /\ StagesAreInStep' /\ HomesAreTheirs'
      /\ MintedInOrder' /\ OneKeyEach' /\ OneIsOver'
      /\ \A j \in Invs : Finished(j) => Finished(j)'
  BY <1>9, AuthorityKeepsStages
<1>11. TypeOK'
  BY <1>1, <1>2, <1>3, <1>4, <1>5, <1>6, <1>7, <1>8, <1>10 DEF TableFits, States
<1>12. \A j \in Invs : Placed(j)' /\ Fresh(j)'
  BY <1>1, <1>2, <1>3, <1>4, <1>5, <1>6, <1>7, <1>8, <1>0 DEF Placed, Fresh
<1>13. ExchangeIsInStep'
  BY <1>1, <1>2, <1>3, <1>4, <1>5, <1>6, <1>7, <1>8 DEF ExchangeIsInStep
<1>14. AnswerIsTrue'
  BY <1>1, <1>2, <1>3, <1>4, <1>5, <1>6, <1>7, <1>8 DEF AnswerIsTrue
<1>15. SettlementIsTrue'
  BY <1>1, <1>2, <1>3, <1>4, <1>5, <1>6, <1>7, <1>8 DEF SettlementIsTrue, Says, Comings
<1>16. \A j \in Invs : RowIsTrue(j)'
  BY <1>1, <1>2, <1>3, <1>4, <1>5, <1>6, <1>7, <1>8, <1>0, <1>10 DEF RowIsTrue, NeverRan, Placed
<1>. QED
  BY <1>10, <1>11, <1>12, <1>13, <1>14, <1>15, <1>16 DEF RowsAreInStep, RowsAreTrue

LEMMA SettleKeeps ==
    ASSUME IInv, Settle
    PROVE  IInv'
<1>. USE Numbers DEF IInv, TypeOK, SupervisorTypeOK
<1>0. \A j \in Invs : Placed(j) /\ Fresh(j) /\ RowIsTrue(j)
  BY DEF RowsAreInStep, RowsAreTrue
<1>1. /\ proc = "UP" /\ work.at = "SETTLE" /\ call = NoCall /\ work.inv \in Invs
      /\ state[work.inv] = "LAUNCHING"
  BY DEF Settle, BrokerUnmoved, ledgerVars, tableVars, worldVars, At, ExchangeIsInStep
<1>2. placed[work.inv] \in Envs
  BY <1>1 DEF RowsAreInStep, Placed
<1>3. work.came \in Comings \cup {"NONE"}
  BY DEF Work
<1>4. PICK i : i = work.inv
  OBVIOUS
<1>5. /\ state' = [state EXCEPT ![i] = Recorded(work.came)]
      /\ use' = [use EXCEPT ![i] = UseEnds(i, work.came)]
      /\ parked' = [parked EXCEPT ![i] = 0]
  BY <1>1, <1>2, <1>3, <1>4 DEF Settle
<1>6. /\ \/ /\ CostsEnvironment(work.came) /\ env' = [env EXCEPT ![placed[i]] = "DESTROYING"]
      /\ PerformDestroy(placed[i])
      \/ /\ ~CostsEnvironment(work.came) \/ env[placed[i]] \notin {"READY", "DESTROYING"}
         /\ env' = env /\ work' = Idle /\ call' = call
  BY <1>1, <1>2, <1>3, <1>4, <1>5 DEF Settle
<1>7. PerformDestroy(placed[i]) =>
        work' = [at |-> "DESTROY", inv |-> 0, env |-> placed[i], gen |-> 0,
                 came |-> "NONE"]
  BY ZenonT(60) DEF PerformDestroy, Idle
<1>8. work' \in Work /\ work'.at \in {"IDLE", "DESTROY"} /\ work'.inv = 0
  BY <1>1, <1>2, <1>3, <1>4, <1>5, <1>6, <1>7, Nothing DEF Work
<1>. USE DEF Settle, BrokerUnmoved, ledgerVars, tableVars, worldVars
<1>9. \/ call' = NoCall /\ work'.at = "IDLE"
      \/ /\ call' \in Call /\ call' # NoCall /\ work'.at = "DESTROY"
         /\ call'.st = "WAIT" /\ call'.op = "DESTROY" /\ call'.inv = 0
  BY <1>1, <1>2, <1>3, <1>4, <1>5, <1>6, <1>7, <1>8, Nothing, Asked DEF PerformDestroy
<1>10. /\ Recorded(work.came) \in {"COMPLETED", "FAILED", "UNKNOWN"}
       /\ UseEnds(i, work.came) \in {"NONE", "INJECTED", "FAILED", "UNKNOWN"}
  BY DEF Recorded, UseEnds
<1>11. /\ env' \in [Envs -> {"NONE", "READY", "DESTROYING", "DESTROYED"}]
       /\ \A f \in Envs : env'[f] = env[f] \/ env'[f] = "DESTROYING"
  BY <1>1, <1>2, <1>3, <1>4, <1>5, <1>6, <1>7, <1>8, <1>9, <1>10
<1>12. Untouched
  BY <1>1, <1>2, <1>3, <1>4, <1>5, <1>6, <1>7, <1>8, <1>9, <1>10, <1>11, Nothing DEF Untouched
<1>13. /\ TableFits' /\ TableIsInStep' /\ StagesAreInStep' /\ HomesAreTheirs'
      /\ MintedInOrder' /\ OneKeyEach' /\ OneIsOver'
      /\ \A j \in Invs : Finished(j) => Finished(j)'
  BY <1>12, AuthorityKeepsStages
<1>14. TypeOK'
  BY SMTT(30), <1>1, <1>2, <1>3, <1>4, <1>5, <1>6, <1>7, <1>8, <1>9, <1>10, <1>11, <1>13, Nothing
  DEF TableFits, States
<1>15. \A j \in Invs : Placed(j)' /\ Fresh(j)'
  BY <1>1, <1>2, <1>3, <1>4, <1>5, <1>6, <1>7, <1>8, <1>9, <1>10, <1>11, <1>0, Nothing
  DEF Placed, Fresh
<1>16. ExchangeIsInStep'
  BY <1>1, <1>2, <1>3, <1>4, <1>5, <1>6, <1>7, <1>8, <1>9, <1>10, <1>11, Nothing
  DEF ExchangeIsInStep
<1>17. AnswerIsTrue'
  BY <1>1, <1>2, <1>3, <1>4, <1>5, <1>6, <1>7, <1>8, <1>9, <1>10, <1>11, Nothing
  DEF AnswerIsTrue
<1>18. SettlementIsTrue'
  BY <1>1, <1>2, <1>3, <1>4, <1>5, <1>6, <1>7, <1>8, <1>9, <1>10, <1>11
  DEF SettlementIsTrue, Says, Comings
<1>19. \A j \in Invs : RowIsTrue(j)'
  <2>. SUFFICES ASSUME NEW j \in Invs PROVE RowIsTrue(j)'
    OBVIOUS
  <2>2. CASE j # i
    BY <1>1, <1>2, <1>3, <1>4, <1>5, <1>6, <1>7, <1>8, <1>9, <1>10, <1>11, <1>0, <2>2, <1>13
    DEF RowIsTrue, NeverRan, Placed
  <2>3. CASE j = i
    <3>1. executed' = executed /\ placed' = placed /\ keyed' = keyed
      BY DEF Settle, BrokerUnmoved, ledgerVars, tableVars, worldVars
    <3>2. Says(i, work.came \in {"FAILED", "DRIFTED"}, work.came = "CLEAN", work.came = "RESIDUE")
      BY <1>1, <1>2, <1>3, <1>4, <1>5, <1>6, <1>7, <1>8, <1>9, <1>10, <1>11 DEF SettlementIsTrue
    <3>3. /\ state'[i] = "COMPLETED" => work.came \in {"CLEAN", "RESIDUE"}
          /\ state'[i] = "FAILED" => work.came \in {"FAILED", "DRIFTED"}
          /\ state'[i] \in {"COMPLETED", "FAILED", "UNKNOWN"}
      BY <1>1, <1>2, <1>3, <1>4, <1>5, <1>6, <1>7, <1>8, <1>9, <1>10, <1>11 DEF Recorded
    <3>4. work.came # "NONE" /\ env'[placed[i]] \in {env[placed[i]], "DESTROYING"}
      BY <1>1, <1>2, <1>3, <1>4, <1>5, <1>6, <1>7, <1>8, <1>9, <1>10, <1>11 DEF SettlementIsTrue
    <3>5. env'[placed[i]] = "READY" => work.came \in {"FAILED", "CLEAN"}
      BY <1>1, <1>2, <1>3, <1>4, <1>5, <1>6, <1>7, <1>8, <1>9, <1>10, <1>11, <3>4
      DEF CostsEnvironment, Comings
    <3>6. /\ use'[i] = "INJECTED" => state'[i] = "COMPLETED"
          /\ use'[i] = "FAILED" => state'[i] = "FAILED"
          /\ use'[i] # "INTENT"
      BY <1>1, <1>2, <1>3, <1>4, <1>5, <1>6, <1>7, <1>8, <1>9, <1>10, <1>11 DEF UseEnds
    <3>. HIDE DEF Settle
    <3>. QED
      BY <1>13, <2>3, <3>1, <3>2, <3>3, <3>5, <3>6 DEF RowIsTrue, Says, NeverRan, RanOut
  <2>. QED
    BY <2>2, <2>3
<1>. QED
  BY <1>13, <1>14, <1>15, <1>16, <1>17, <1>18, <1>19 DEF RowsAreInStep, RowsAreTrue

LEMMA CrashKeeps ==
    ASSUME IInv, Crash
    PROVE  IInv'
<1>. USE Numbers DEF IInv, TypeOK, SupervisorTypeOK
<1>0. \A j \in Invs : Placed(j) /\ Fresh(j) /\ RowIsTrue(j)
  BY DEF RowsAreInStep, RowsAreTrue
<1>1. /\ call' = NoCall /\ call' \in Call /\ call'.st = "NONE" /\ call'.op = "NONE"
      /\ call'.inv = 0
  BY Nothing DEF Crash, BrokerUnmoved, ledgerVars, tableVars, worldVars, Over
<1>2. work' = Idle /\ work' \in Work /\ work'.at = "IDLE" /\ work'.inv = 0
  BY Nothing DEF Crash, BrokerUnmoved, ledgerVars, tableVars, worldVars
<1>3. job' = [inv |-> job.inv, env |-> job.env, by |-> "NOBODY", at |-> job.at,
              judged |-> job.judged]
  BY DEF Crash, Job
<1>4. /\ job' \in Job /\ job'.inv = job.inv /\ job'.at = job.at /\ job'.env = job.env
      /\ job'.by = "NOBODY" /\ job'.judged = job.judged /\ (job = NoJob => job' = NoJob)
  BY <1>1, <1>2, <1>3 DEF Job, NoJob
<1>. USE DEF Crash, BrokerUnmoved, ledgerVars, tableVars, worldVars
<1>5. parked' = [j \in Invs |-> 0]
  BY DEF Crash
<1>6. Untouched
  BY <1>1, <1>2, <1>3, <1>4, <1>5 DEF Untouched, Starting
<1>7. /\ TableFits' /\ TableIsInStep' /\ StagesAreInStep' /\ HomesAreTheirs'
      /\ MintedInOrder' /\ OneKeyEach' /\ OneIsOver'
      /\ \A j \in Invs : Finished(j) => Finished(j)'
  BY <1>6, AuthorityKeepsStages
<1>8. TypeOK'
  BY <1>1, <1>2, <1>3, <1>4, <1>5, <1>7 DEF TableFits, States
<1>9. \A j \in Invs : Placed(j)' /\ Fresh(j)'
  BY <1>1, <1>2, <1>3, <1>4, <1>5, <1>0 DEF Placed, Fresh
<1>10. ExchangeIsInStep'
  BY <1>1, <1>2, <1>3, <1>4, <1>5 DEF ExchangeIsInStep
<1>11. AnswerIsTrue'
  BY <1>1, <1>2, <1>3, <1>4, <1>5 DEF AnswerIsTrue
<1>12. SettlementIsTrue'
  BY <1>1, <1>2, <1>3, <1>4, <1>5 DEF SettlementIsTrue, Says, Comings
<1>13. \A j \in Invs : RowIsTrue(j)'
  BY <1>1, <1>2, <1>3, <1>4, <1>5, <1>0, <1>7 DEF RowIsTrue, NeverRan, Placed
<1>. QED
  BY <1>7, <1>8, <1>9, <1>10, <1>11, <1>12, <1>13 DEF RowsAreInStep, RowsAreTrue

LEMMA StartKeeps ==
    ASSUME IInv, Start
    PROVE  IInv'
<1>. USE Numbers DEF IInv, TypeOK, SupervisorTypeOK
<1>0. \A j \in Invs : Placed(j) /\ Fresh(j) /\ RowIsTrue(j)
  BY DEF RowsAreInStep, RowsAreTrue
<1>1. work = Idle /\ call = NoCall /\ call.st = "NONE" /\ call.op = "NONE" /\ work.at = "IDLE"
  BY Nothing DEF Start, ExchangeIsInStep
<1>2. incarnation' \in 0..MaxIncarnation
  BY WorkloadConstants DEF Start
<1>3. /\ proc' = "UP"
      /\ state' = [j \in Invs |-> IF state[j] = "LAUNCHING" THEN "UNKNOWN" ELSE state[j]]
      /\ use' = [j \in Invs |-> IF use[j] = "INTENT" THEN "UNKNOWN" ELSE use[j]]
      /\ env' = [f \in Envs |-> IF env[f] = "READY" THEN "DESTROYING" ELSE env[f]]
      /\ UNCHANGED <<keyed, placed, work, parked, generation, call, job, table, slot, home, spent,
                     thread, container, alive, executed>>
  BY DEF Start, Interrupted, supervisorVars, tableVars, worldVars
<1>4. Untouched
  BY <1>1, <1>2, <1>3 DEF Untouched, Starting
<1>5. /\ TableFits' /\ TableIsInStep' /\ StagesAreInStep' /\ HomesAreTheirs'
      /\ MintedInOrder' /\ OneKeyEach' /\ OneIsOver'
      /\ \A j \in Invs : Finished(j) => Finished(j)'
  BY <1>4, AuthorityKeepsStages
<1>6. TypeOK'
  BY <1>1, <1>2, <1>3, <1>5 DEF TableFits, States
<1>7. \A j \in Invs : Placed(j)' /\ Fresh(j)'
  BY <1>1, <1>2, <1>3, <1>0 DEF Placed, Fresh
<1>8. ExchangeIsInStep'
  BY <1>1, <1>2, <1>3 DEF ExchangeIsInStep
<1>9. AnswerIsTrue'
  BY <1>1, <1>2, <1>3 DEF AnswerIsTrue
<1>10. SettlementIsTrue'
  BY <1>1, <1>2, <1>3 DEF SettlementIsTrue, Says, Comings
<1>11. \A j \in Invs : RowIsTrue(j)'
  BY <1>1, <1>2, <1>3, <1>0, <1>5 DEF RowIsTrue, NeverRan, Placed
<1>. QED
  BY <1>5, <1>6, <1>7, <1>8, <1>9, <1>10, <1>11 DEF RowsAreInStep, RowsAreTrue

\* The workload a launch mints is the first without a row.
LEMMA LaunchIsFresh ==
    ASSUME IInv, NEW k \in Keys, NEW e \in Envs, Launch(k, e)
    PROVE  NextInv \in Invs /\ state[NextInv] = "NONE" /\ MintedInOrder'
<1>. USE Numbers DEF IInv, TypeOK, SupervisorTypeOK
<1>1. PICK i \in Invs : i = NextInv
  BY DEF Launch
<1>2. PICK n \in 0..MaxInvs : {j \in Invs : state[j] # "NONE"} = 1..n
  BY DEF RowsAreInStep, MintedInOrder
<1>3. Cardinality(1..n) = n
  BY <1>2, FS_Interval
<1>4. i = n + 1
  BY <1>1, <1>2, <1>3 DEF NextInv
<1>5. {j \in Invs : state'[j] # "NONE"} = {j \in Invs : state[j] # "NONE"} \cup {i}
  BY <1>1 DEF Launch, RecordIntent
<1>6. n + 1 \in 0..MaxInvs /\ (1..n) \cup {n + 1} = 1..(n + 1)
  BY SMTT(30), <1>1, <1>4
<1>7. {j \in Invs : state'[j] # "NONE"} = 1..(n + 1)
  BY <1>2, <1>4, <1>5, <1>6
<1>8. MintedInOrder'
  BY <1>6, <1>7 DEF MintedInOrder
<1>9. i \notin 1..n
  BY <1>2, <1>4
<1>. QED
  BY <1>1, <1>2, <1>8, <1>9

LEMMA LaunchKeeps ==
    ASSUME IInv, NEW k \in Keys, NEW e \in Envs, Launch(k, e)
    PROVE  IInv'
<1>. USE Numbers DEF IInv, TypeOK, SupervisorTypeOK
<1>1. /\ call = NoCall /\ call.st = "NONE" /\ call.op = "NONE" /\ work.at = "IDLE"
      /\ proc = "UP" /\ env[e] = "READY"
      /\ \A j \in Invs : state[j] = "LAUNCHING" => placed[j] # e
      /\ \A j \in Invs : keyed[j] # k
  BY Nothing DEF Launch, Free, At, KeyBound, IdleEnvironment, LaunchingIn
<1>2. PICK i \in Invs : i = NextInv
  BY DEF Launch
<1>3. state[i] = "NONE" /\ MintedInOrder'
  BY <1>2, LaunchIsFresh
<1>4. Fresh(i)
  BY DEF RowsAreInStep
<1>5. /\ state' = [state EXCEPT ![i] = "LAUNCHING"]
      /\ keyed' = [keyed EXCEPT ![i] = k]
      /\ placed' = [placed EXCEPT ![i] = e]
      /\ use' = [use EXCEPT ![i] = IF k \in Credentialed THEN "INTENT" ELSE "NONE"]
      /\ UNCHANGED <<proc, incarnation, env, parked, generation, job, table, slot, home, spent,
                     thread, container, alive, executed>>
  BY <1>2 DEF Launch, RecordIntent, BrokerUnmoved, tableVars, worldVars
<1>6. work' \in Work /\ work'.at = "START" /\ work'.inv = i
  BY <1>2 DEF Launch, Idle, Work
<1>7. /\ call' \in Call /\ call' # NoCall
      /\ call'.st = "WAIT" /\ call'.op = "START" /\ call'.inv = i /\ call'.env = e
  BY <1>2, Asked DEF Launch
<1>8. TableIsInStep' /\ TableFits'
  BY <1>5, TableKept
<1>9. TypeOK'
  BY <1>5, <1>6, <1>7, <1>8 DEF TableFits, States
<1>10. \A j \in Invs : j # i /\ Finished(j) => Finished(j)'
  BY <1>5, <1>7 DEF Finished, Starting
<1>11. OneKeyEach'
  BY SMTT(30), <1>1, <1>5 DEF RowsAreInStep, OneKeyEach
<1>12. \A j \in Invs : Placed(j)' /\ Fresh(j)'
  <2>. SUFFICES ASSUME NEW j \in Invs PROVE Placed(j)' /\ Fresh(j)'
    OBVIOUS
  <2>1. Placed(j) /\ Fresh(j)
    BY DEF RowsAreInStep
  <2>. QED
    BY <1>1, <1>5, <1>6, <1>7, <2>1 DEF Placed, Fresh
<1>13. ExchangeIsInStep'
  BY <1>1, <1>3, <1>4, <1>5, <1>6, <1>7 DEF ExchangeIsInStep, Fresh
<1>14. i \notin alive
  BY <1>3, <1>4 DEF Fresh, StagesAreInStep, Stage
<1>15. \A j \in Invs : Stage(j)'
  <2>. SUFFICES ASSUME NEW j \in Invs PROVE Stage(j)'
    OBVIOUS
  <2>1. Stage(j)
    BY DEF StagesAreInStep
  <2>2. CASE j # i
    BY <1>1, <1>5, <1>7, <1>10, <2>1, <2>2
    DEF Stage, Waiting, NeverRan, RanOut, Starting
  <2>3. CASE j = i
    BY <1>3, <1>4, <1>5, <1>7, <1>14, <2>3 DEF Stage, Fresh, Waiting, Endings
  <2>. QED
    BY <2>2, <2>3
<1>16. HomesAreTheirs'
  <2>. SUFFICES ASSUME NEW j \in Invs PROVE HomeIsIts(j)'
    BY DEF HomesAreTheirs
  <2>. QED
    BY <1>3, <1>4, <1>5, <1>14 DEF HomesAreTheirs, HomeIsIts, Fresh
<1>17. AnswerIsTrue' /\ SettlementIsTrue'
  BY <1>6, <1>7 DEF AnswerIsTrue, SettlementIsTrue
<1>18. \A j \in Invs : RowIsTrue(j)'
  <2>. SUFFICES ASSUME NEW j \in Invs PROVE RowIsTrue(j)'
    OBVIOUS
  <2>1. RowIsTrue(j)
    BY DEF RowsAreTrue
  <2>2. CASE j # i
    BY <1>5, <1>10, <2>1, <2>2 DEF RowIsTrue, NeverRan
  <2>3. CASE j = i
    BY <1>5, <2>3 DEF RowIsTrue
  <2>. QED
    BY <2>2, <2>3
<1>19. OneIsOver'
  <2>1. \A j \in Invs : j # i /\ placed[j] = e => Finished(j)
    <3>. SUFFICES ASSUME NEW j \in Invs, placed[j] = e PROVE Finished(j)
      OBVIOUS
    <3>1. state[j] \notin {"NONE", "LAUNCHING"}
      BY <1>1 DEF RowsAreInStep, Fresh
    <3>. QED
      BY <1>1, <3>1 DEF RowsAreTrue, RowIsTrue
  <2>. SUFFICES ASSUME NEW j \in Invs, NEW h \in Invs, j # h, placed'[j] = placed'[h],
                       placed'[j] # 0
                PROVE  Finished(j)' \/ Finished(h)'
    BY DEF OneIsOver
  <2>2. CASE j = i
    BY <1>5, <1>10, <2>1, <2>2
  <2>3. CASE h = i
    BY <1>5, <1>10, <2>1, <2>3
  <2>4. CASE j # i /\ h # i
    BY <1>5, <1>10, <2>4 DEF OneIsOver
  <2>. QED
    BY <2>2, <2>3, <2>4
<1>. QED
  BY <1>3, <1>8, <1>9, <1>11, <1>12, <1>13, <1>15, <1>16, <1>17, <1>18, <1>19
  DEF RowsAreInStep, StagesAreInStep, RowsAreTrue


-----------------------------------------------------------------------------
(* The invariant *)

LEMMA InitIsSound == Init => IInv
<1>. SUFFICES ASSUME Init PROVE IInv
  OBVIOUS
<1>. USE Numbers, Nothing DEF Init, SupervisorInit
<1>1. Once(table) /\ Holds(table) = {} /\ Held = {} /\ Len(table) = 0
  BY DEF Once, Holds, Held
<1>2. TypeOK
  <2>1. Len(table) = Cardinality(Held) /\ Held \subseteq Invs /\ Len(table) <= MaxSupervised
    BY <1>1, FS_EmptySet, SupervisorConstants
  <2>2. generation \in 1..MaxGeneration /\ incarnation \in 0..MaxIncarnation
    BY SupervisorConstants, WorkloadConstants
  <2>. QED
    BY <2>1, <2>2 DEF TypeOK, SupervisorTypeOK, States
<1>3. TableIsInStep
  BY <1>1 DEF TableIsInStep, Once
<1>4. RowsAreInStep
  <2>1. {i \in Invs : state[i] # "NONE"} = 1..0
    OBVIOUS
  <2>2. MintedInOrder
    BY <2>1 DEF MintedInOrder
  <2>. QED
    BY <2>2 DEF RowsAreInStep, OneKeyEach, Placed, Fresh
<1>5. ExchangeIsInStep
  BY DEF ExchangeIsInStep
<1>6. StagesAreInStep
  BY DEF StagesAreInStep, Stage, Starting, Waiting, Endings
<1>7. HomesAreTheirs
  BY DEF HomesAreTheirs, HomeIsIts
<1>8. AnswerIsTrue /\ SettlementIsTrue
  BY DEF AnswerIsTrue, SettlementIsTrue
<1>9. RowsAreTrue /\ OneIsOver
  BY DEF RowsAreTrue, RowIsTrue, OneIsOver
<1>. QED
  BY <1>2, <1>3, <1>4, <1>5, <1>6, <1>7, <1>8, <1>9 DEF IInv

LEMMA StutterKeeps == ASSUME IInv, UNCHANGED vars PROVE IInv'
<1>. USE DEF vars, ledgerVars, supervisorVars, tableVars, worldVars, IInv
<1>1. TableIsInStep' /\ TableFits'
  BY TableKept
<1>2. TypeOK'
  BY <1>1 DEF TypeOK, SupervisorTypeOK, TableFits
<1>3. RowsAreInStep' /\ ExchangeIsInStep' /\ HomesAreTheirs'
  BY DEF RowsAreInStep, MintedInOrder, OneKeyEach, Placed, Fresh, ExchangeIsInStep,
         HomesAreTheirs, HomeIsIts
<1>4. \A i \in Invs : (Finished(i)' <=> Finished(i)) /\ (Starting(i)' <=> Starting(i))
  BY DEF Finished, Starting
<1>5. \A i \in Invs : Stage(i)'
  BY <1>4 DEF StagesAreInStep, Stage, Waiting, NeverRan, RanOut
<1>6. \A i \in Invs : Steady(i)
  BY <1>4 DEF Steady
<1>. QED
  BY <1>1, <1>2, <1>3, <1>5, <1>6, AnswerStays, BrokerKeepsRows
  DEF StagesAreInStep, AuthorityUnmoved

LEMMA NextKeeps == IInv /\ [Next]_vars => IInv'
<1>. SUFFICES ASSUME IInv, [Next]_vars PROVE IInv'
  OBVIOUS
<1>1. CASE UNCHANGED vars
  BY <1>1, StutterKeeps
<1>2. ASSUME NEW e \in Envs, PrepareEnvironment(e) \/ EndRun(e) \/ Reclaim(e) PROVE IInv'
  BY <1>2, PrepareEnvironmentKeeps, EndRunKeeps, ReclaimKeeps
<1>3. ASSUME NEW k \in Keys, NEW e \in Envs, Launch(k, e) PROVE IInv'
  BY <1>3, LaunchKeeps
<1>4. ASSUME NEW i \in Invs, CollectParked(i) PROVE IInv'
  BY <1>4, CollectParkedKeeps
<1>5. CASE AuthorityStep
  BY <1>5, EnvironmentGoneKeeps, OrderFailsKeeps, StartEndsKeeps, ParkKeeps, StillRunningKeeps,
     CollectionEndsKeeps, SettleKeeps
  DEF AuthorityStep, Sandboxed
<1>6. CASE Crash \/ Start
  BY <1>6, CrashKeeps, StartKeeps
<1>7. CASE BrokerStep /\ AuthorityUnmoved
  BY <1>7, AcceptStartKeeps, ReserveKeeps, RefuseStartKeeps, GiveWordKeeps, PassOnRefusalKeeps,
     TimeOutKeeps, CollectKeeps, RemoveEnvironmentKeeps, RemovalFailsKeeps
  DEF BrokerStep
<1>8. CASE (GiveUp \/ Restarts) /\ AuthorityUnmoved
  BY <1>8, GiveUpKeeps, RestartsKeeps
<1>9. ASSUME NEW i \in Invs, ThreadStep(i) \/ AgeAbandoned(i), AuthorityUnmoved PROVE IInv'
  BY <1>9, AgeAbandonedKeeps, JudgePassesKeeps, JudgeRefusesKeeps, JudgesForNobodyKeeps,
     ExecuteKeeps,
     ClientRefusedKeeps, EndsWithoutKeeps, EndsCleanKeeps, EndsUncleanKeeps
  DEF ThreadStep
<1>10. ASSUME NEW e \in Envs, Vanishes(e), AuthorityUnmoved PROVE IInv'
  BY <1>10, VanishesKeeps
<1>. QED
  BY <1>1, <1>2, <1>3, <1>4, <1>5, <1>6, <1>7, <1>8, <1>9, <1>10 DEF Next

(*****************************************************************************)
(* The inductive invariant holds in every state of the authority's workloads *)
(* and the broker's supervisor.                                              *)
(*****************************************************************************)
THEOREM InductiveInvariant == Spec => []IInv
<1>. QED
  BY InitIsSound, NextKeeps, PTL DEF Spec

(********************************************************************************)
(* No workload meets another in its environment, running or left over: the row  *)
(* the authority keeps and the table the broker keeps are lost at different     *)
(* times, and every ending that does not prove its workload over costs the      *)
(* environment (destroy_reason; Supervisor::reserve, reap).                     *)
(********************************************************************************)
THEOREM WorkloadsAreApart == Spec => []NoWorkloadMeetsAnother
<1>1. IInv => NoWorkloadMeetsAnother
  <2>. SUFFICES ASSUME IInv PROVE ReadyAndIdleIsClean /\ OneRunsAtATime
    BY DEF NoWorkloadMeetsAnother, IInv
  <2>. USE Numbers DEF IInv
  <2>1. ReadyAndIdleIsClean
    <3>. SUFFICES ASSUME NEW e \in Envs, env[e] = "READY", LaunchingIn(e) = {},
                         NEW i \in Invs, home[i] = e
                  PROVE  i \notin alive /\ thread[i] \notin {"GO", "RUNS"}
      BY DEF ReadyAndIdleIsClean, In
    <3>1. placed[i] = e /\ state[i] # "NONE"
      BY DEF HomesAreTheirs, HomeIsIts, RowsAreInStep, Fresh
    <3>2. state[i] # "LAUNCHING"
      BY <3>1 DEF LaunchingIn
    <3>3. Finished(i)
      BY <3>1, <3>2 DEF RowsAreTrue, RowIsTrue
    <3>. QED
      BY <3>3 DEF Finished
  <2>2. OneRunsAtATime
    <3>. SUFFICES ASSUME NEW i \in alive, NEW j \in alive, home[i] = home[j], i # j
                  PROVE  FALSE
      BY DEF OneRunsAtATime
    <3>1. i \in Invs /\ j \in Invs
      BY DEF TypeOK, SupervisorTypeOK
    <3>2. placed[i] = placed[j]
      BY <3>1 DEF HomesAreTheirs, HomeIsIts
    <3>3. state[i] # "NONE"
      BY <3>1 DEF StagesAreInStep, Stage, RowsAreInStep, Fresh
    <3>4. placed[i] # 0
      BY <3>1, <3>3 DEF RowsAreInStep, Placed
    <3>. QED
      BY <3>1, <3>2, <3>4 DEF OneIsOver, Finished
  <2>. QED
    BY <2>1, <2>2
<1>. QED
  BY <1>1, InductiveInvariant, PTL

(********************************************************************************)
(* What the store says of a credential's use agrees with what happened to it    *)
(* (spawn::ending_of, reconcile_open).                                          *)
(********************************************************************************)
THEOREM UseIsTrue == Spec => []UseTellsTheTruth
<1>1. IInv => UseTellsTheTruth
  BY DEF IInv, RowsAreTrue, RowIsTrue, NeverRan, Finished, UseTellsTheTruth
<1>. QED
  BY <1>1, InductiveInvariant, PTL

-----------------------------------------------------------------------------
(* The refinement of AtMostOnce *)

\* What the keys' rows say, of any rows.
RowsOf(kd, k) == {i \in Invs : kd[i] = k}
NewestOf(kd, k) == CHOOSE i \in RowsOf(kd, k) : \A j \in RowsOf(kd, k) : j <= i
Status(s) == IF s = "LAUNCHING" THEN "OPEN" ELSE s
Reads(kd, st, k) == IF RowsOf(kd, k) = {} THEN "NONE" ELSE Status(st[NewestOf(kd, k)])
OwnRow(kd) == \A i, j \in Invs : kd[i] = kd[j] /\ kd[i] # "none" => i = j

LEMMA KeyIsItsRows ==
    ASSUME NEW kd, NEW st, NEW k \in Keys, OwnRow(kd)
    PROVE  /\ (\A i \in Invs : kd[i] # k) => Reads(kd, st, k) = "NONE"
           /\ \A i \in Invs : kd[i] = k => Reads(kd, st, k) = Status(st[i])
<1>1. ASSUME \A i \in Invs : kd[i] # k
      PROVE  Reads(kd, st, k) = "NONE"
  BY <1>1 DEF Reads, RowsOf
<1>2. ASSUME NEW i \in Invs, kd[i] = k
      PROVE  Reads(kd, st, k) = Status(st[i])
  <2>1. RowsOf(kd, k) = {i}
    BY <1>2, Numbers DEF RowsOf, OwnRow
  <2>2. NewestOf(kd, k) = CHOOSE h \in {i} : \A j \in {i} : j <= h
    BY <2>1 DEF NewestOf
  <2>3. (CHOOSE h \in {i} : \A j \in {i} : j <= h) = i
    BY Numbers DEF Invs
  <2>. QED
    BY <2>1, <2>2, <2>3 DEF Reads
<1>. QED
  BY <1>1, <1>2

LEMMA KeysRead ==
    /\ \A k \in Keys : KeyState[k] = Reads(keyed, state, k)
    /\ \A k \in Keys : KeyState'[k] = Reads(keyed', state', k)
BY DEF KeyState, Reads, RowsOf, NewestOf, Of, Newest, Status

LEMMA KeysOwn == ASSUME IInv PROVE OwnRow(keyed)
BY DEF IInv, RowsAreInStep, OneKeyEach, OwnRow

LEMMA KeysOwnNext == ASSUME IInv' PROVE OwnRow(keyed')
BY DEF IInv, RowsAreInStep, OneKeyEach, OwnRow

\* A key without a row is NONE, and one with a row is its row's, before and after a step.
LEMMA KeyNow ==
    ASSUME IInv, NEW k \in Keys
    PROVE  /\ (\A i \in Invs : keyed[i] # k) => KeyState[k] = "NONE"
           /\ \A i \in Invs : keyed[i] = k => KeyState[k] = Status(state[i])
<1>1. KeyState[k] = Reads(keyed, state, k)
  BY KeysRead
<1>. QED
  BY <1>1, KeysOwn, KeyIsItsRows

LEMMA KeyNext ==
    ASSUME IInv', NEW k \in Keys
    PROVE  /\ (\A i \in Invs : keyed'[i] # k) => KeyState'[k] = "NONE"
           /\ \A i \in Invs : keyed'[i] = k => KeyState'[k] = Status(state'[i])
<1>1. KeyState'[k] = Reads(keyed', state', k)
  BY KeysRead
<1>. QED
  BY <1>1, KeysOwnNext, KeyIsItsRows

\* A key's effect is its row's execution.
LEMMA EffectNow ==
    ASSUME IInv, NEW k \in Keys
    PROVE  /\ (\A i \in Invs : keyed[i] # k) => k \notin KeyEffect
           /\ \A i \in Invs : keyed[i] = k => (k \in KeyEffect <=> executed[i] = 1)
<1>1. k \in KeyEffect <=> \E i \in Invs : keyed[i] = k /\ executed[i] > 0
  BY DEF KeyEffect, Of
<1>2. \A i \in Invs : executed[i] > 0 <=> executed[i] = 1
  BY DEF IInv, TypeOK, SupervisorTypeOK
<1>3. \A i, j \in Invs : keyed[i] = k /\ keyed[j] = k => i = j
  BY Numbers DEF IInv, RowsAreInStep, OneKeyEach
<1>. QED
  BY <1>1, <1>2, <1>3

\* The rows are as they were.
LEMMA SameRows ==
    ASSUME UNCHANGED <<keyed, state>>
    PROVE  KeyState' = KeyState
BY DEF KeyState, Of, Newest

LEMMA SameRuns ==
    ASSUME UNCHANGED <<keyed, executed>>
    PROVE  KeyEffect' = KeyEffect
BY DEF KeyEffect, Of

\* A launch is the intent of its key.
LEMMA LaunchMaps ==
    ASSUME IInv, IInv', NEW k \in Keys, NEW e \in Envs, Launch(k, e)
    PROVE  O!Intend(k)
<1>. DEFINE i == NextInv
<1>1. i \in Invs /\ \A j \in Invs : keyed[j] # k
  BY DEF Launch, KeyBound
<1>2. /\ state' = [state EXCEPT ![i] = "LAUNCHING"] /\ keyed' = [keyed EXCEPT ![i] = k]
      /\ executed' = executed
  BY DEF Launch, RecordIntent, BrokerUnmoved, worldVars
<1>. HIDE DEF i
<1>3. state[i] = "NONE" /\ keyed[i] = "none"
  BY <1>1, LaunchIsFresh DEF i, IInv, RowsAreInStep, Fresh
<1>4. KeyState[k] = "NONE" /\ k \notin KeyEffect
  BY <1>1, KeyNow, EffectNow
<1>5. keyed \in [Invs -> Keys \cup {"none"}] /\ state \in [Invs -> States]
  BY DEF IInv, TypeOK
<1>8. \A m \in Keys : KeyState'[m] = IF m = k THEN "OPEN" ELSE KeyState[m]
  <2>. SUFFICES ASSUME NEW m \in Keys
                PROVE  KeyState'[m] = IF m = k THEN "OPEN" ELSE KeyState[m]
    OBVIOUS
  <2>1. CASE m = k
    <3>1. keyed'[i] = k /\ state'[i] = "LAUNCHING"
      BY <1>1, <1>2, <1>5
    <3>. QED
      BY <2>1, <3>1, <1>1, KeyNext DEF Status
  <2>2. CASE m # k /\ \A j \in Invs : keyed[j] # m
    <3>1. \A j \in Invs : keyed'[j] # m
      BY <1>1, <1>2, <1>5, <2>2
    <3>. QED
      BY <2>2, <3>1, KeyNow, KeyNext
  <2>3. ASSUME m # k, NEW j \in Invs, keyed[j] = m
        PROVE  KeyState'[m] = KeyState[m]
    <3>1. keyed'[j] = m /\ state'[j] = state[j]
      BY <1>1, <1>2, <1>3, <1>5, <2>3, Numbers
    <3>. QED
      BY <2>3, <3>1, KeyNow, KeyNext
  <2>. QED
    BY <2>1, <2>2, <2>3
<1>9. KeyState' = [KeyState EXCEPT ![k] = "OPEN"]
  BY <1>8 DEF KeyState
<1>10. \A m \in Keys : m \in KeyEffect' <=> m \in KeyEffect
  <2>. SUFFICES ASSUME NEW m \in Keys PROVE m \in KeyEffect' <=> m \in KeyEffect
    OBVIOUS
  <2>1. executed[i] = 0
    BY <1>1, <1>3 DEF IInv, RowsAreInStep, Fresh
  <2>2. \A j \in Invs : j # i => (keyed'[j] = m <=> keyed[j] = m)
    BY <1>1, <1>2, <1>5
  <2>3. keyed[i] # m
    BY <1>3, Numbers
  <2>. QED
    BY <1>1, <1>2, <2>1, <2>2, <2>3 DEF KeyEffect, Of
<1>11. KeyEffect' = KeyEffect
  BY <1>10 DEF KeyEffect
<1>. QED
  BY <1>4, <1>9, <1>11 DEF O!Intend

\* An execution is its key's effect.
LEMMA ExecuteMaps ==
    ASSUME IInv, NEW i \in Invs, Execute(i), AuthorityUnmoved
    PROVE  \E k \in Keys : O!Happen(k)
<1>1. /\ thread[i] = "GO" /\ executed' = [executed EXCEPT ![i] = @ + 1]
      /\ UNCHANGED <<keyed, state>>
  BY DEF Execute, AuthorityUnmoved, ledgerVars
<1>2. executed[i] = 0 /\ state[i] \in {"LAUNCHING", "UNKNOWN"} /\ keyed[i] \in Keys
  BY <1>1 DEF IInv, StagesAreInStep, Stage, RowsAreTrue, RowIsTrue, NeverRan, Finished,
              RowsAreInStep, Placed, Fresh, TypeOK, States
<1>3. PICK k \in Keys : k = keyed[i]
  BY <1>2
<1>4. KeyState[k] \in {"OPEN", "UNKNOWN"} /\ k \notin KeyEffect
  BY <1>2, <1>3, KeyNow, EffectNow DEF Status
<1>5. \A j \in Invs : keyed[j] = k => j = i
  BY <1>3, Numbers DEF IInv, RowsAreInStep, OneKeyEach
<1>6. /\ \A j \in Invs : j # i => executed'[j] = executed[j]
      /\ executed'[i] > 0
  BY <1>1, <1>2 DEF IInv, TypeOK, SupervisorTypeOK
<1>7. \A m \in Keys : m \in KeyEffect' <=> m \in KeyEffect \cup {k}
  <2>. SUFFICES ASSUME NEW m \in Keys PROVE m \in KeyEffect' <=> m \in KeyEffect \cup {k}
    OBVIOUS
  <2>1. CASE m = k
    BY <2>1, <1>1, <1>3, <1>6 DEF KeyEffect, Of
  <2>2. CASE m # k
    BY <2>2, <1>1, <1>3, <1>6 DEF KeyEffect, Of
  <2>. QED
    BY <2>1, <2>2
<1>8. KeyEffect' = KeyEffect \cup {k}
  BY <1>7 DEF KeyEffect
<1>9. KeyState' = KeyState
  BY <1>1, SameRows
<1>. QED
  BY <1>4, <1>8, <1>9 DEF O!Happen

\* A settlement records its key's outcome.
LEMMA SettleMaps ==
    ASSUME IInv, IInv', Settle
    PROVE  \E K \in SUBSET Keys : O!Record(K)
<1>1. /\ work.at = "SETTLE" /\ work.inv \in Invs /\ state[work.inv] = "LAUNCHING"
      /\ state' = [state EXCEPT ![work.inv] = Recorded(work.came)]
      /\ UNCHANGED <<keyed, executed>>
  BY DEF Settle, At, BrokerUnmoved, worldVars, IInv, ExchangeIsInStep
<1>2. PICK i \in Invs : i = work.inv
  BY <1>1
<1>3. PICK k \in Keys : k = keyed[i]
  BY <1>1, <1>2 DEF IInv, RowsAreInStep, Placed
<1>4. KeyState[k] = "OPEN" /\ (k \in KeyEffect <=> executed[i] = 1)
  BY <1>1, <1>2, <1>3, KeyNow, EffectNow DEF Status
<1>. DEFINE new == [m \in {k} |-> Recorded(work.came)]
<1>5. Recorded(work.came) \in {"COMPLETED", "FAILED", "UNKNOWN"}
  BY DEF Recorded
<1>6. O!Truthful(k, Recorded(work.came))
  <2>1. Says(i, work.came \in {"FAILED", "DRIFTED"}, work.came = "CLEAN", work.came = "RESIDUE")
    BY <1>1, <1>2 DEF IInv, SettlementIsTrue
  <2>2. /\ Recorded(work.came) = "COMPLETED" => work.came \in {"CLEAN", "RESIDUE"}
        /\ Recorded(work.came) = "FAILED" => work.came \in {"FAILED", "DRIFTED"}
    BY DEF Recorded
  <2>. QED
    BY <1>4, <1>5, <2>1, <2>2 DEF O!Truthful, Says, NeverRan, RanOut
<1>7. \A m \in Keys : KeyState'[m] = IF m \in {k} THEN new[m] ELSE KeyState[m]
  <2>. SUFFICES ASSUME NEW m \in Keys
                PROVE  KeyState'[m] = IF m = k THEN Recorded(work.came) ELSE KeyState[m]
    OBVIOUS
  <2>2. state \in [Invs -> States]
    BY DEF IInv, TypeOK
  <2>3. CASE m = k
    <3>1. state'[i] = Recorded(work.came)
      BY <1>1, <1>2, <2>2
    <3>. QED
      BY <1>1, <1>3, <1>5, <2>3, <3>1, KeyNext DEF Status
  <2>4. CASE m # k /\ \A j \in Invs : keyed[j] # m
    BY <1>1, <2>4, KeyNow, KeyNext
  <2>5. ASSUME m # k, NEW j \in Invs, keyed[j] = m PROVE KeyState'[m] = KeyState[m]
    <3>1. state'[j] = state[j]
      BY <1>1, <1>2, <1>3, <2>2, <2>5
    <3>. QED
      BY <1>1, <2>5, <3>1, KeyNow, KeyNext
  <2>. QED
    BY <2>3, <2>4, <2>5
<1>8. KeyState' = [m \in Keys |-> IF m \in {k} THEN new[m] ELSE KeyState[m]]
  BY <1>7 DEF KeyState
<1>9. /\ new \in [{k} -> {"COMPLETED", "FAILED", "UNKNOWN"}]
      /\ \A m \in {k} : O!Truthful(m, new[m])
  BY <1>5, <1>6
<1>10. KeyEffect' = KeyEffect
  BY <1>1, SameRuns
<1>11. O!Record({k})
  BY <1>4, <1>8, <1>9, <1>10 DEF O!Record
<1>. QED
  BY <1>11

\* A start of the authority records every key left open.
LEMMA StartMaps ==
    ASSUME IInv, IInv', Start
    PROVE  \E K \in SUBSET Keys : O!Record(K)
<1>1. /\ state' = [i \in Invs |-> IF state[i] = "LAUNCHING" THEN "UNKNOWN" ELSE state[i]]
      /\ UNCHANGED <<keyed, executed>>
  BY DEF Start, Interrupted, supervisorVars, worldVars
<1>. DEFINE K == {k \in Keys : KeyState[k] = "OPEN"}
            new == [k \in K |-> "UNKNOWN"]
<1>3. \A k \in Keys : KeyState'[k] = IF KeyState[k] = "OPEN" THEN "UNKNOWN" ELSE KeyState[k]
  <2>. SUFFICES ASSUME NEW k \in Keys
                PROVE  KeyState'[k] = IF KeyState[k] = "OPEN" THEN "UNKNOWN" ELSE KeyState[k]
    OBVIOUS
  <2>1. CASE \A j \in Invs : keyed[j] # k
    BY <1>1, <2>1, KeyNow, KeyNext
  <2>2. ASSUME NEW j \in Invs, keyed[j] = k
        PROVE  KeyState'[k] = IF KeyState[k] = "OPEN" THEN "UNKNOWN" ELSE KeyState[k]
    <3>1. /\ KeyState[k] = Status(state[j]) /\ KeyState'[k] = Status(state'[j])
          /\ state[j] \in States
      BY <1>1, <2>2, KeyNow, KeyNext DEF IInv, TypeOK
    <3>. QED
      BY <3>1, <1>1 DEF Status, States
  <2>. QED
    BY <2>1, <2>2
<1>4. KeyState' = [k \in Keys |-> IF k \in K THEN new[k] ELSE KeyState[k]]
  BY <1>3 DEF KeyState
<1>5. new \in [K -> {"COMPLETED", "FAILED", "UNKNOWN"}] /\ \A k \in K : O!Truthful(k, new[k])
  BY DEF O!Truthful
<1>6. KeyEffect' = KeyEffect
  BY <1>1, SameRuns
<1>7. O!Record(K)
  BY <1>4, <1>5, <1>6 DEF O!Record
<1>. QED
  BY <1>7

LEMMA RecordSteps == ASSUME NEW K \in SUBSET Keys, O!Record(K) PROVE O!ONext
  BY DEF O!Record, O!ONext

LEMMA StepMaps == IInv /\ IInv' /\ [Next]_vars => [O!ONext]_(O!oVars)
<1>. SUFFICES ASSUME IInv, IInv', [Next]_vars
              PROVE  O!ONext \/ UNCHANGED <<KeyState, KeyEffect>>
  BY DEF O!oVars
<1>1. ASSUME UNCHANGED <<keyed, state, executed>> PROVE UNCHANGED <<KeyState, KeyEffect>>
  BY <1>1, SameRows, SameRuns
<1>2. CASE UNCHANGED vars
  BY <1>1, <1>2 DEF vars, ledgerVars, supervisorVars, worldVars
<1>3. ASSUME NEW e \in Envs, PrepareEnvironment(e) \/ EndRun(e) \/ Reclaim(e)
      PROVE  UNCHANGED <<KeyState, KeyEffect>>
  BY <1>1, <1>3 DEF PrepareEnvironment, EndRun, Reclaim, BrokerUnmoved, ledgerVars, worldVars
<1>4. ASSUME NEW k \in Keys, NEW e \in Envs, Launch(k, e) PROVE O!ONext
  BY <1>4, LaunchMaps DEF O!ONext
<1>5. ASSUME NEW i \in Invs, CollectParked(i) PROVE UNCHANGED <<KeyState, KeyEffect>>
  BY <1>1, <1>5 DEF CollectParked, BrokerUnmoved, ledgerVars, worldVars
<1>6. CASE AuthorityStep
  <2>1. CASE Settle
    BY <2>1, SettleMaps, RecordSteps
  <2>2. CASE EnvironmentGone \/ OrderFails \/ StartEnds \/ Park \/ StillRunning \/ CollectionEnds
    BY <1>1, <2>2 DEF EnvironmentGone, OrderFails, StartEnds, Park, StillRunning,
                      CollectionEnds, BrokerUnmoved, ledgerVars, worldVars
  <2>. QED
    BY <1>6, <2>1, <2>2 DEF AuthorityStep, Sandboxed
<1>7. CASE Crash
  BY <1>1, <1>7 DEF Crash, ledgerVars, worldVars
<1>8. CASE Start
  BY <1>8, StartMaps, RecordSteps
<1>9. CASE BrokerStep /\ AuthorityUnmoved
  BY <1>1, <1>9 DEF BrokerStep, AcceptStart, Reserve, RefuseStart, GiveWord, PassOnRefusal,
                    TimeOut, Collect, RemoveEnvironment, RemovalFails, AuthorityUnmoved,
                    ledgerVars, worldVars
<1>10. CASE (GiveUp \/ Restarts) /\ AuthorityUnmoved
  BY <1>1, <1>10 DEF GiveUp, Restarts, AuthorityUnmoved, ledgerVars, worldVars
<1>11. ASSUME NEW i \in Invs, ThreadStep(i) \/ AgeAbandoned(i), AuthorityUnmoved
       PROVE  O!ONext \/ UNCHANGED <<KeyState, KeyEffect>>
  <2>1. CASE Execute(i)
    BY <1>11, <2>1, ExecuteMaps DEF O!ONext
  <2>2. CASE ~Execute(i)
    BY <1>1, <1>11, <2>2
    DEF ThreadStep, AgeAbandoned, Age, JudgePasses, JudgeRefuses, JudgesForNobody,
        ClientRefused, EndsWithout, EndsClean, EndsUnclean, AuthorityUnmoved, ledgerVars,
        worldVars
  <2>. QED
    BY <2>1, <2>2
<1>12. ASSUME NEW e \in Envs, Vanishes(e), AuthorityUnmoved
       PROVE  UNCHANGED <<KeyState, KeyEffect>>
  BY <1>1, <1>12 DEF Vanishes, AuthorityUnmoved, ledgerVars
<1>. QED
  BY <1>2, <1>3, <1>4, <1>5, <1>6, <1>7, <1>8, <1>9, <1>10, <1>11, <1>12 DEF Next

(*******************************************************************************)
(* A key's launch is executed at most once, never before its intent is         *)
(* durable, never after it is recorded FAILED, and COMPLETED only if it was,   *)
(* whatever is lost, given up or restarted on either side (begin, start,       *)
(* record_outcome, reconcile_open and the supervisor's gate).                  *)
(*******************************************************************************)
THEOREM LaunchesImplementAtMostOnce == Spec => ImplementsAtMostOnce
<1>1. Init => O!OInit
  BY Numbers DEF Init, SupervisorInit, O!OInit, KeyState, KeyEffect, Of
<1>. QED
  BY <1>1, StepMaps, InductiveInvariant, PTL DEF Spec, ImplementsAtMostOnce, O!OSpec

-----------------------------------------------------------------------------
(* No ending is lost *)

\* Every answer of the broker arrives, and what the runtime says is conclusive.  An answer that
\* is lost, or a workload nothing is proved of, is recorded UNKNOWN in any case.
AnswersArrive == "LOSE" \notin Faults /\ "UNSURE" \notin Faults

\* The authority counts on the present broker for the ending of i: it is parked, waited for, or
\* has just been started.
CountsOn(i) ==
    \/ parked[i] = generation
    \/ work.inv = i /\ work.gen = generation
    \/ call.inv = i /\ call.ans = "STARTED" /\ call.gen = generation

\* No generation is named that has not been, and a launch is asked for at the one it started in.
GenerationsAreKnown ==
    /\ \A i \in Invs : parked[i] <= generation
    /\ work.gen <= generation /\ call.gen <= generation
    /\ work.at \in {"START", "WAIT"} \/ work.gen # 0 => parked[work.inv] = 0
    /\ work.at = "START" => work.gen = 0
    /\ call.op = "COLLECT" /\ call.st = "WAIT" => call.gen = AskedOf(call.inv)

\* Only an ending is spent.  What is counted on has a slot that neither an exchange nor a judging
\* thread takes away, and is not spent while a start may want its place; and while a start goes
\* on for nobody, nothing is counted on.
IsKept(i) ==
    slot[i] \in {"RUNNING"} \cup Endings /\ job.inv # i /\ thread[i] \in {"NONE", "GO", "RUNS"}
EndingsAreKept ==
    /\ \A i \in Invs : i \in spent => slot[i] \in Endings
    /\ \A i \in Invs : CountsOn(i) => IsKept(i)
    /\ job.at = "RESERVE" \/ call.op = "START" => \A i \in Invs : CountsOn(i) => i \notin spent
    /\ job.at # "NONE" /\ job.by = "NOBODY" => \A i \in Invs : ~CountsOn(i)

\* An ending that says nothing is of a container that is gone; and whatever the authority has
\* heard or concluded that says nothing has its reason.
HasReason(i) == container[placed[i]] = "GONE" \/ AskedOf(i) # generation
UnknownHasReason ==
    /\ \A i \in Invs : slot[i] = "UNCONFIRMED" => container[placed[i]] = "GONE"
    /\ call.st = "DONE" /\ call.op = "COLLECT" =>
         /\ call.ans \in {"RUNNING"} \cup Endings
         /\ call.ans = "UNCONFIRMED" => HasReason(call.inv)
    /\ work.at = "SETTLE" /\ work.came = "UNKNOWN" => HasReason(work.inv)

CollectInv == GenerationsAreKnown /\ EndingsAreKept /\ UnknownHasReason

\* What the proofs use of the types.
LEMMA CollectTypes ==
    ASSUME IInv
    PROVE  /\ generation \in 1..MaxGeneration /\ generation \in Int /\ generation # 0
           /\ call \in Call /\ job \in Job /\ work \in Work
           /\ slot \in [Invs -> {"NONE", "JUDGING", "RUNNING"} \cup Endings]
           /\ thread \in [Invs -> {"NONE", "JUDGES", "GATED", "GO", "RUNS"}]
           /\ parked \in [Invs -> 0..MaxGeneration] /\ \A i \in Invs : parked[i] \in Int
           /\ work.gen \in Int /\ call.gen \in Int
           /\ placed \in [Invs -> 0..MaxEnvs] /\ container \in [Envs -> {"NONE", "UP", "GONE"}]
           /\ work.at \in {"START", "COLLECT", "DESTROY"} <=> call # NoCall
BY SupervisorConstants DEF IInv, TypeOK, SupervisorTypeOK, Call, Work

\* At the start nothing is counted on.
LEMMA CollectInit == Init => CollectInv
BY SupervisorConstants, Nothing
DEF Init, SupervisorInit, CollectInv, GenerationsAreKnown, EndingsAreKept, UnknownHasReason,
    CountsOn, Endings, NoCall, Idle, NoJob

\* An exchange that ends without a fault ends as the broker says.
LEMMA CallDone ==
    ASSUME IInv, NEW ans \in Said, call' = CallEnds(ans)
    PROVE  /\ call'.st = "DONE" /\ call'.op = call.op /\ call'.inv = call.inv /\ call'.ans = ans
           /\ call'.gen = IF ans = "STARTED" THEN generation ELSE 0
BY DEF IInv, TypeOK, SupervisorTypeOK, Call, CallEnds

\* And so does a start that is answered, for the authority or for nobody.
LEMMA Replied ==
    ASSUME AnswersArrive, IInv, NEW ans \in Said, Reply(ans)
    PROVE  /\ job' = NoJob
           /\ job.by # "AUTHORITY" => job.by = "NOBODY" /\ call' = call
           /\ job.by = "AUTHORITY" =>
                /\ call.op = "START" /\ call.inv = job.inv /\ call.st = "SENT"
                /\ call'.st = "DONE" /\ call'.op = "START" /\ call'.inv = job.inv
                /\ call'.ans = ans
                /\ call'.gen = IF ans = "STARTED" THEN generation ELSE 0
<1>1. job' = NoJob
  BY DEF Reply
<1>2. job.by \in {"NOBODY", "AUTHORITY"}
  BY CollectTypes DEF Job
<1>3. job.by # "AUTHORITY" => job.by = "NOBODY" /\ call' = call
  BY <1>2 DEF Reply
<1>4. ASSUME job.by = "AUTHORITY" PROVE call' = CallEnds(ans)
  BY <1>4 DEF Reply, Answers, AnswersArrive
<1>5. job.by = "AUTHORITY" => call.op = "START" /\ call.inv = job.inv /\ call.st = "SENT"
  BY DEF IInv, ExchangeIsInStep
<1>. QED
  BY <1>1, <1>3, <1>4, <1>5, CallDone

\* A start that is not made is not counted on (Supervisor::start's refusals).
LEMMA RefusalCollects ==
    ASSUME AnswersArrive, IInv, CollectInv, AuthorityUnmoved,
           NEW ans \in {"REFUSED", "DRIFTED", "UNCONFIRMED"}, Reply(ans), job.at # "NONE",
           UNCHANGED <<generation, container, thread>>, spent' \subseteq spent,
           \A j \in Invs :
             slot'[j] = slot[j] \/ (j = job.inv /\ slot'[j] = "NONE" /\ j \notin spent')
    PROVE  CollectInv'
<1>. USE CollectTypes, Numbers DEF CollectInv
<1>0. /\ job' = NoJob /\ job'.at = "NONE" /\ job'.inv = 0
      /\ \/ job.by = "NOBODY" /\ call' = call
         \/ /\ call.op = "START" /\ call'.op = "START" /\ call'.st = "DONE"
            /\ call'.ans # "STARTED" /\ call'.gen = 0
  BY Replied DEF Said, NoJob
<1>same. UNCHANGED <<work, parked, placed>>
  BY DEF AuthorityUnmoved, ledgerVars
<1>1. GenerationsAreKnown'
  BY <1>0, <1>same DEF GenerationsAreKnown, AskedOf, Parked
<1>2. \A i \in Invs : CountsOn(i)' => CountsOn(i)
  BY <1>0, <1>same DEF CountsOn
<1>3. EndingsAreKept'
  <2>1. \A i \in Invs : CountsOn(i)' => IsKept(i)'
    BY <1>0, <1>2 DEF EndingsAreKept, IsKept
  <2>. QED
    BY <1>0, <1>2, <2>1 DEF EndingsAreKept
<1>4. UnknownHasReason'
  BY <1>0, <1>same DEF UnknownHasReason, HasReason, AskedOf, Parked
<1>. QED
  BY <1>1, <1>3, <1>4

\* The authority's steps, one lemma per action.
LEMMA PrepareEnvironmentCollects ==
    ASSUME AnswersArrive, IInv, CollectInv, NEW e \in Envs, PrepareEnvironment(e)
    PROVE  CollectInv'
<1>. USE CollectTypes, Numbers DEF CollectInv, IInv
<1>0. UNCHANGED <<generation, call, job, slot, thread, spent, work, parked, placed>>
      /\ container' = [container EXCEPT ![e] = "UP"] /\ env[e] = "NONE"
  BY DEF PrepareEnvironment, tableVars
<1>1. GenerationsAreKnown' /\ EndingsAreKept'
  BY <1>0 DEF GenerationsAreKnown, EndingsAreKept, CountsOn, IsKept, AskedOf, Parked
<1>2. \A i \in Invs : state[i] # "NONE" => placed[i] # e /\ placed[i] \in Envs
  BY <1>0 DEF RowsAreInStep, Placed
<1>3. \A i \in Invs : state[i] # "NONE" => container'[placed[i]] = container[placed[i]]
  BY <1>0, <1>2
<1>4. \A i \in Invs : slot[i] # "NONE" \/ call.inv = i \/ work.inv = i => state[i] # "NONE"
  BY DEF RowsAreInStep, Fresh
<1>5. call.st = "DONE" /\ call.op = "COLLECT" => call.inv \in Invs
  BY DEF ExchangeIsInStep, NoCall
<1>6. work.at = "SETTLE" => work.inv \in Invs
  BY DEF ExchangeIsInStep
<1>7. UnknownHasReason'
  BY <1>0, <1>3, <1>4, <1>5, <1>6 DEF UnknownHasReason, HasReason, AskedOf, Parked
<1>. QED
  BY <1>1, <1>7

LEMMA EndRunCollects ==
    ASSUME AnswersArrive, IInv, CollectInv, NEW e \in Envs, EndRun(e)
    PROVE  CollectInv'
<1>. USE CollectTypes, Numbers DEF CollectInv, IInv
<1>1. GenerationsAreKnown'
  BY DEF GenerationsAreKnown, AskedOf, Parked, NoCall, Idle, EndRun, Free, At, PerformDestroy,
    Ask, BrokerUnmoved, tableVars, worldVars
<1>2. EndingsAreKept'
  BY DEF EndingsAreKept, CountsOn, IsKept, NoCall, Idle, EndRun, Free, At, PerformDestroy, Ask,
    BrokerUnmoved, tableVars, worldVars
<1>3. UnknownHasReason'
  BY DEF UnknownHasReason, HasReason, AskedOf, Parked, NoCall, Idle, EndRun, Free, At,
    PerformDestroy, Ask, BrokerUnmoved, tableVars, worldVars
<1>. QED
  BY <1>1, <1>2, <1>3

LEMMA ReclaimCollects ==
    ASSUME AnswersArrive, IInv, CollectInv, NEW e \in Envs, Reclaim(e)
    PROVE  CollectInv'
<1>. USE CollectTypes, Numbers DEF CollectInv, IInv
<1>1. GenerationsAreKnown'
  BY DEF GenerationsAreKnown, AskedOf, Parked, NoCall, Idle, Reclaim, Free, At, PerformDestroy,
    Ask, BrokerUnmoved, tableVars, worldVars, ledgerVars
<1>2. EndingsAreKept'
  BY DEF EndingsAreKept, CountsOn, IsKept, NoCall, Idle, Reclaim, Free, At, PerformDestroy, Ask,
    BrokerUnmoved, tableVars, worldVars, ledgerVars
<1>3. UnknownHasReason'
  BY DEF UnknownHasReason, HasReason, AskedOf, Parked, NoCall, Idle, Reclaim, Free, At,
    PerformDestroy, Ask, BrokerUnmoved, tableVars, worldVars, ledgerVars
<1>. QED
  BY <1>1, <1>2, <1>3

LEMMA EnvironmentGoneCollects ==
    ASSUME AnswersArrive, IInv, CollectInv, EnvironmentGone
    PROVE  CollectInv'
<1>. USE CollectTypes, Numbers DEF CollectInv, IInv
<1>1. GenerationsAreKnown'
  BY DEF GenerationsAreKnown, AskedOf, Parked, NoCall, Idle, EnvironmentGone, Answered, At,
    Over, BrokerUnmoved, tableVars, worldVars
<1>2. EndingsAreKept'
  BY DEF EndingsAreKept, CountsOn, IsKept, NoCall, Idle, EnvironmentGone, Answered, At, Over,
    BrokerUnmoved, tableVars, worldVars
<1>3. UnknownHasReason'
  BY DEF UnknownHasReason, HasReason, AskedOf, Parked, NoCall, Idle, EnvironmentGone, Answered,
    At, Over, BrokerUnmoved, tableVars, worldVars
<1>. QED
  BY <1>1, <1>2, <1>3

LEMMA OrderFailsCollects ==
    ASSUME AnswersArrive, IInv, CollectInv, OrderFails
    PROVE  CollectInv'
<1>. USE CollectTypes, Numbers DEF CollectInv, IInv
<1>1. GenerationsAreKnown'
  BY DEF GenerationsAreKnown, AskedOf, Parked, NoCall, Idle, OrderFails, Answered, At, Comes,
    Over, BrokerUnmoved, tableVars, worldVars, ledgerVars, ExchangeIsInStep
<1>2. EndingsAreKept'
  BY DEF EndingsAreKept, CountsOn, IsKept, NoCall, Idle, OrderFails, Answered, At, Comes, Over,
    BrokerUnmoved, tableVars, worldVars, ledgerVars, ExchangeIsInStep
<1>3. UnknownHasReason'
  BY DEF UnknownHasReason, HasReason, AskedOf, Parked, NoCall, Idle, OrderFails, Answered, At,
    Comes, Over, BrokerUnmoved, tableVars, worldVars, ledgerVars, ExchangeIsInStep
<1>. QED
  BY <1>1, <1>2, <1>3

LEMMA StartEndsCollects ==
    ASSUME AnswersArrive, IInv, CollectInv, StartEnds
    PROVE  CollectInv'
<1>. USE CollectTypes, Numbers DEF CollectInv, IInv
<1>1. GenerationsAreKnown'
  BY DEF GenerationsAreKnown, AskedOf, Parked, NoCall, Idle, StartEnds, Answered, At, Comes,
    Over, BrokerUnmoved, tableVars, worldVars, ledgerVars, ExchangeIsInStep
<1>2. EndingsAreKept'
  BY DEF EndingsAreKept, CountsOn, IsKept, NoCall, Idle, StartEnds, Answered, At, Comes, Over,
    BrokerUnmoved, tableVars, worldVars, ledgerVars, ExchangeIsInStep
<1>3. UnknownHasReason'
  BY DEF UnknownHasReason, GenerationsAreKnown, HasReason, AskedOf, Parked, NoCall, Idle,
    StartEnds, Answered, At, Comes, Over, BrokerUnmoved, tableVars, worldVars, ledgerVars,
    ExchangeIsInStep
<1>. QED
  BY <1>1, <1>2, <1>3

LEMMA ParkCollects ==
    ASSUME AnswersArrive, IInv, CollectInv, Park
    PROVE  CollectInv'
<1>. USE CollectTypes, Numbers DEF CollectInv, IInv
<1>0. /\ UNCHANGED <<generation, job, slot, thread, spent, placed, container>>
      /\ call' = NoCall /\ call'.st = "NONE" /\ call'.op = "NONE" /\ call'.gen = 0
      /\ call'.ans = "NONE"
      /\ work.at = "START" /\ call.st = "DONE" /\ call.ans = "STARTED" /\ call # NoCall
  BY DEF Park, Answered, At, Over, BrokerUnmoved, tableVars, worldVars, ledgerVars, NoCall
<1>inv. work.inv \in Invs /\ call.inv = work.inv /\ call.op = "START" /\ work.gen = 0
  BY <1>0 DEF ExchangeIsInStep, GenerationsAreKnown
<1>1. CASE parked' = [parked EXCEPT ![work.inv] = call.gen] /\ work' = Idle
  <2>1. work'.at = "IDLE" /\ work'.gen = 0 /\ work'.inv = 0
    BY <1>1 DEF Idle
  <2>2. GenerationsAreKnown'
    BY <1>0, <1>1, <1>inv, <2>1 DEF GenerationsAreKnown
  <2>3. \A i \in Invs : CountsOn(i)' => CountsOn(i)
    BY <1>0, <1>1, <1>inv, <2>1 DEF CountsOn
  <2>4. EndingsAreKept'
    BY <1>0, <1>inv, <2>3 DEF EndingsAreKept, IsKept
  <2>5. UnknownHasReason'
    BY <1>0, <2>1 DEF UnknownHasReason
  <2>. QED
    BY <2>2, <2>4, <2>5
<1>2. CASE work' = [work EXCEPT !.at = "WAIT", !.gen = call.gen] /\ parked' = parked
  <2>1. work'.at = "WAIT" /\ work'.gen = call.gen /\ work'.inv = work.inv
    BY <1>2 DEF Work
  <2>2. GenerationsAreKnown'
    BY <1>0, <1>2, <1>inv, <2>1 DEF GenerationsAreKnown
  <2>3. \A i \in Invs : CountsOn(i)' => CountsOn(i)
    BY <1>0, <1>2, <1>inv, <2>1 DEF CountsOn
  <2>4. EndingsAreKept'
    BY <1>0, <1>inv, <2>3 DEF EndingsAreKept, IsKept
  <2>5. UnknownHasReason'
    BY <1>0, <2>1 DEF UnknownHasReason
  <2>. QED
    BY <2>2, <2>4, <2>5
<1>. QED
  BY <1>1, <1>2 DEF Park

LEMMA CollectParkedCollects ==
    ASSUME AnswersArrive, IInv, CollectInv, NEW j \in Invs, CollectParked(j)
    PROVE  CollectInv'
<1>. USE CollectTypes, Numbers DEF CollectInv, IInv
<1>0. /\ UNCHANGED <<generation, job, slot, thread, spent, placed, container, parked>>
      /\ work.at \in {"IDLE", "WAIT"}
  BY DEF CollectParked, Free, At, BrokerUnmoved, tableVars, worldVars, ledgerVars
<1>1. PICK g : /\ Ask("COLLECT", j, placed[j], g)
               /\ \/ /\ work.at = "IDLE" /\ j \in Parked /\ g = parked[j]
                     /\ work' = [Idle EXCEPT !.at = "COLLECT", !.inv = j, !.env = placed[j]]
                  \/ /\ work.at = "WAIT" /\ j = work.inv /\ g = work.gen
                     /\ work' = [work EXCEPT !.at = "COLLECT"]
  BY DEF CollectParked, Free, At
<1>2. call'.st = "WAIT" /\ call'.op = "COLLECT" /\ call'.inv = j /\ call'.gen = g
      /\ call'.ans = "NONE"
  BY <1>1 DEF Ask
<1>3. /\ work'.at = "COLLECT" /\ work'.inv = j
      /\ work.at = "IDLE" => work'.gen = 0 /\ g = parked[j] /\ g # 0
      /\ work.at = "WAIT" => work'.gen = work.gen /\ g = work.gen /\ j = work.inv /\ parked[j] = 0
  BY <1>1 DEF Idle, Work, Parked, GenerationsAreKnown
<1>4. GenerationsAreKnown'
  BY <1>0, <1>2, <1>3 DEF GenerationsAreKnown, AskedOf, Parked
<1>5. \A i \in Invs : CountsOn(i)' => CountsOn(i)
  BY <1>0, <1>2, <1>3 DEF CountsOn
<1>6. job'.at # "RESERVE" \/ \A i \in Invs : ~CountsOn(i) \/ i \notin spent
  BY <1>0 DEF EndingsAreKept
<1>7. EndingsAreKept'
  BY <1>0, <1>2, <1>5, <1>6 DEF EndingsAreKept, IsKept
<1>8. UnknownHasReason'
  BY <1>0, <1>2, <1>3 DEF UnknownHasReason
<1>. QED
  BY <1>4, <1>7, <1>8

LEMMA StillRunningCollects ==
    ASSUME AnswersArrive, IInv, CollectInv, StillRunning
    PROVE  CollectInv'
<1>. USE CollectTypes, Numbers DEF CollectInv, IInv
<1>1. GenerationsAreKnown'
  BY DEF GenerationsAreKnown, AskedOf, Parked, NoCall, Idle, StillRunning, Answered, At, Over,
    BrokerUnmoved, tableVars, worldVars, ledgerVars, ExchangeIsInStep
<1>2. EndingsAreKept'
  BY DEF EndingsAreKept, CountsOn, IsKept, NoCall, Idle, StillRunning, Answered, At, Over,
    BrokerUnmoved, tableVars, worldVars, ledgerVars, ExchangeIsInStep
<1>3. UnknownHasReason'
  BY DEF UnknownHasReason, HasReason, AskedOf, Parked, NoCall, Idle, StillRunning, Answered, At,
    Over, BrokerUnmoved, tableVars, worldVars, ledgerVars, ExchangeIsInStep
<1>. QED
  BY <1>1, <1>2, <1>3

LEMMA CollectionEndsCollects ==
    ASSUME AnswersArrive, IInv, CollectInv, CollectionEnds
    PROVE  CollectInv'
<1>. USE CollectTypes, Numbers DEF CollectInv, IInv
<1>0. /\ UNCHANGED <<generation, job, slot, thread, spent, placed, container, parked>>
      /\ call' = NoCall /\ call'.st = "NONE" /\ call'.op = "NONE" /\ call'.gen = 0
      /\ call'.ans = "NONE"
      /\ work.at = "COLLECT" /\ call.st = "DONE" /\ call # NoCall /\ call.ans # "RUNNING"
  BY DEF CollectionEnds, Answered, At, Over, BrokerUnmoved, tableVars, worldVars, ledgerVars,
    NoCall,
         AnswersArrive
<1>inv. call.inv = work.inv /\ call.op = "COLLECT"
  BY <1>0 DEF ExchangeIsInStep
<1>1. work'.at = "SETTLE" /\ work'.inv = work.inv /\ work'.gen = work.gen
      /\ work'.came = EndingOfCollection(call.ans)
  BY DEF CollectionEnds, Comes, Work
<1>2. GenerationsAreKnown'
  BY <1>0, <1>1 DEF GenerationsAreKnown
<1>3. \A i \in Invs : CountsOn(i)' => CountsOn(i)
  BY <1>0, <1>1 DEF CountsOn
<1>4. EndingsAreKept'
  BY <1>0, <1>3 DEF EndingsAreKept, IsKept
<1>5. work'.came = "UNKNOWN" => HasReason(work.inv)
  BY <1>0, <1>inv, <1>1 DEF UnknownHasReason, EndingOfCollection, Endings
<1>6. UnknownHasReason'
  BY <1>0, <1>1, <1>5 DEF UnknownHasReason, HasReason, AskedOf, Parked
<1>. QED
  BY <1>2, <1>4, <1>6

LEMMA SettleCollects ==
    ASSUME AnswersArrive, IInv, CollectInv, Settle
    PROVE  CollectInv'
<1>. USE CollectTypes, Numbers DEF CollectInv, IInv
<1>0. /\ UNCHANGED <<generation, job, slot, thread, spent, placed, container>>
      /\ parked' = [parked EXCEPT ![work.inv] = 0] /\ work.at = "SETTLE" /\ call = NoCall
  BY DEF Settle, At, BrokerUnmoved, tableVars, worldVars
<1>inv. work.inv \in Invs
  BY <1>0 DEF ExchangeIsInStep
<1>1. /\ work'.gen = 0 /\ work'.at \in {"IDLE", "DESTROY"} /\ work'.came = "NONE"
      /\ call'.op \in {"NONE", "DESTROY"} /\ call'.gen = 0 /\ call'.ans = "NONE"
  <2>1. PerformDestroy(placed[work.inv]) \/ (work' = Idle /\ call' = call)
    BY DEF Settle
  <2>2. CASE PerformDestroy(placed[work.inv])
    BY <2>2 DEF PerformDestroy, Ask, Idle
  <2>3. CASE work' = Idle /\ call' = call
    BY <1>0, <2>3 DEF Idle, NoCall
  <2>. QED
    BY <2>1, <2>2, <2>3
<1>2. GenerationsAreKnown'
  BY <1>0, <1>1, <1>inv DEF GenerationsAreKnown
<1>3. \A i \in Invs : CountsOn(i)' => CountsOn(i)
  BY <1>0, <1>1, <1>inv DEF CountsOn
<1>4. EndingsAreKept'
  BY <1>0, <1>1, <1>3 DEF EndingsAreKept, IsKept
<1>5. UnknownHasReason'
  BY <1>0, <1>1 DEF UnknownHasReason
<1>. QED
  BY <1>2, <1>4, <1>5

LEMMA CrashCollects ==
    ASSUME AnswersArrive, IInv, CollectInv, Crash
    PROVE  CollectInv'
<1>. USE CollectTypes, Numbers DEF CollectInv, IInv
<1>1. GenerationsAreKnown'
  BY DEF GenerationsAreKnown, AskedOf, Parked, NoCall, Idle, Crash, tableVars, worldVars,
    ledgerVars
<1>2. EndingsAreKept'
  BY DEF EndingsAreKept, CountsOn, IsKept, NoCall, Idle, Crash, tableVars, worldVars, ledgerVars
<1>3. UnknownHasReason'
  BY DEF UnknownHasReason, HasReason, AskedOf, Parked, NoCall, Idle, Crash, tableVars,
    worldVars, ledgerVars
<1>. QED
  BY <1>1, <1>2, <1>3

LEMMA StartCollects ==
    ASSUME AnswersArrive, IInv, CollectInv, Start
    PROVE  CollectInv'
<1>. USE CollectTypes, Numbers DEF CollectInv, IInv
<1>1. GenerationsAreKnown'
  BY DEF GenerationsAreKnown, AskedOf, Parked, Start, supervisorVars, tableVars, worldVars
<1>2. EndingsAreKept'
  BY DEF EndingsAreKept, CountsOn, IsKept, Start, supervisorVars, tableVars, worldVars
<1>3. UnknownHasReason'
  BY DEF UnknownHasReason, HasReason, AskedOf, Parked, Start, supervisorVars, tableVars, worldVars
<1>. QED
  BY <1>1, <1>2, <1>3

LEMMA LaunchCollects ==
    ASSUME AnswersArrive, IInv, CollectInv, NEW k \in Keys, NEW e \in Envs, Launch(k, e)
    PROVE  CollectInv'
<1>. USE CollectTypes, Numbers DEF CollectInv, IInv
<1>. DEFINE n == NextInv
<1>0. /\ UNCHANGED <<generation, job, slot, thread, spent, container, parked>>
      /\ n \in Invs /\ placed' = [placed EXCEPT ![n] = e] /\ Parked \cap spent = {}
      /\ work.at = "IDLE"
      /\ work' = [Idle EXCEPT !.at = "START", !.inv = n, !.env = e]
      /\ Ask("START", n, e, 0)
  BY DEF Launch, RecordIntent, Collected, Free, At, BrokerUnmoved, tableVars, worldVars
<1>1. state[n] = "NONE"
  BY <1>0, LaunchIsFresh
<1>2. parked[n] = 0 /\ slot[n] = "NONE"
  BY <1>0, <1>1 DEF RowsAreInStep, Fresh
<1>. HIDE DEF n
<1>3. work'.at = "START" /\ work'.inv = n /\ work'.gen = 0 /\ work'.came = "NONE"
  BY <1>0 DEF Idle
<1>4. call'.st = "WAIT" /\ call'.op = "START" /\ call'.inv = n /\ call'.gen = 0
      /\ call'.ans = "NONE"
  BY <1>0 DEF Ask
<1>5. GenerationsAreKnown'
  BY <1>0, <1>2, <1>3, <1>4 DEF GenerationsAreKnown
<1>6. \A i \in Invs : CountsOn(i)' => CountsOn(i) /\ i \in Parked
  BY <1>0, <1>3, <1>4 DEF CountsOn, Parked
<1>7. EndingsAreKept'
  BY <1>0, <1>6 DEF EndingsAreKept, IsKept
<1>8. UnknownHasReason'
  BY <1>0, <1>2, <1>3, <1>4 DEF UnknownHasReason
<1>. QED
  BY <1>5, <1>7, <1>8

\* The broker's steps: its exchanges, its judging threads, its table and its restarts.
LEMMA AcceptStartCollects ==
    ASSUME AnswersArrive, IInv, CollectInv, AcceptStart, AuthorityUnmoved
    PROVE  CollectInv'
<1>. USE CollectTypes, Numbers DEF CollectInv, IInv
<1>0. /\ UNCHANGED <<generation, slot, thread, spent, placed, container, parked, work>>
      /\ call.st = "WAIT" /\ call.op = "START" /\ job'.inv = call.inv /\ job'.at = "RESERVE"
      /\ job'.by = "AUTHORITY" /\ call' = [call EXCEPT !.st = "SENT"] /\ call # NoCall
  BY DEF AcceptStart, Accepts, AuthorityUnmoved, ledgerVars, tableVars, worldVars, NoCall
<1>1. /\ call'.st = "SENT" /\ call'.op = call.op /\ call'.inv = call.inv /\ call'.gen = call.gen
      /\ call'.ans = call.ans
  BY <1>0 DEF Call
<1>2. work.inv = call.inv /\ call.inv \in Invs /\ Starting(call.inv)
  BY <1>0 DEF ExchangeIsInStep, Starting
<1>3. slot[call.inv] = "NONE"
  BY <1>2 DEF StagesAreInStep, Stage
<1>4. GenerationsAreKnown'
  BY <1>0, <1>1 DEF GenerationsAreKnown, AskedOf, Parked
<1>5. \A i \in Invs : CountsOn(i)' => CountsOn(i)
  BY <1>0, <1>1 DEF CountsOn
<1>6. \A i \in Invs : CountsOn(i) => i # call.inv /\ i \notin spent
  BY <1>0, <1>2, <1>3 DEF EndingsAreKept, IsKept, Endings
<1>7. EndingsAreKept'
  BY <1>0, <1>5, <1>6 DEF EndingsAreKept, IsKept
<1>8. UnknownHasReason'
  BY <1>0, <1>1 DEF UnknownHasReason, HasReason, AskedOf, Parked
<1>. QED
  BY <1>4, <1>7, <1>8

LEMMA ReserveCollects ==
    ASSUME AnswersArrive, IInv, CollectInv, Reserve, AuthorityUnmoved
    PROVE  CollectInv'
<1>. USE CollectTypes, Numbers DEF CollectInv, IInv
<1>. DEFINE evicted == IF Full THEN Oldest ELSE 0
<1>0. /\ UNCHANGED <<generation, call, placed, container, parked, work>> /\ job.at = "RESERVE"
      /\ job.inv \in Invs
      /\ slot' = [i \in Invs |-> IF i = job.inv THEN "JUDGING"
                               ELSE IF i = evicted THEN "NONE" ELSE slot[i]]
      /\ spent' = spent \ {evicted} /\ thread' = [thread EXCEPT ![job.inv] = "JUDGES"]
      /\ job' = [job EXCEPT !.at = "WAIT"]
  BY DEF Reserve, AuthorityUnmoved, ledgerVars, worldVars, ExchangeIsInStep
<1>1. job'.at = "WAIT" /\ job'.inv = job.inv /\ job'.by = job.by
  BY <1>0 DEF Job
<1>2. evicted = 0 \/ evicted \in spent
  <2>. SUFFICES ASSUME Full, Oldest # 0 PROVE Oldest \in spent
    OBVIOUS
  <2>. DEFINE may == {n \in 1..Len(table) : Forgettable(table[n])}
              m == CHOOSE n \in may : \A q \in may : n <= q
  <2>1. may # {} /\ Oldest = table[m]
    BY DEF Oldest
  <2>2. Len(table) \in Nat
    BY TableHolds
  <2>3. may \in SUBSET Nat
    BY <2>2
  <2>4. \E n \in may : \A q \in may : n <= q
    <3>. HIDE DEF may
    <3>. QED
      BY <2>1, <2>3, LeastOne
  <2>5. m \in may
    BY <2>4
  <2>. QED
    BY <2>1, <2>5 DEF Forgettable
<1>. HIDE DEF evicted
<1>3. GenerationsAreKnown'
  BY <1>0 DEF GenerationsAreKnown, AskedOf, Parked
<1>4. \A i \in Invs : CountsOn(i)' => CountsOn(i)
  BY <1>0 DEF CountsOn
<1>5. \A i \in Invs : CountsOn(i) => i # job.inv /\ i \notin spent /\ i # evicted
  BY <1>0, <1>2 DEF EndingsAreKept, IsKept
<1>6. \A i \in Invs : CountsOn(i)' => IsKept(i)'
  BY <1>0, <1>1, <1>4, <1>5 DEF EndingsAreKept, IsKept
<1>7. slot[job.inv] = "NONE"
  BY <1>0 DEF StagesAreInStep, Stage
<1>8. \A i \in Invs : i \in spent' => slot'[i] \in Endings
  BY <1>0, <1>7 DEF EndingsAreKept, Endings
<1>9. EndingsAreKept'
  BY <1>0, <1>1, <1>4, <1>5, <1>6, <1>8 DEF EndingsAreKept
<1>10. UnknownHasReason'
  BY <1>0 DEF UnknownHasReason, HasReason, AskedOf, Parked
<1>. QED
  BY <1>3, <1>9, <1>10

LEMMA RefuseStartCollects ==
    ASSUME AnswersArrive, IInv, CollectInv, RefuseStart, AuthorityUnmoved
    PROVE  CollectInv'
<1>. QED
  BY RefusalCollects DEF RefuseStart, tableVars, worldVars

LEMMA GiveWordCollects ==
    ASSUME AnswersArrive, IInv, CollectInv, GiveWord, AuthorityUnmoved
    PROVE  CollectInv'
<1>. USE CollectTypes, Numbers DEF CollectInv, IInv
<1>0. /\ UNCHANGED <<generation, spent, placed, container, parked, work>>
      /\ job.at = "WAIT" /\ job.inv \in Invs
      /\ slot' = [slot EXCEPT ![job.inv] = "RUNNING"]
      /\ thread' = [thread EXCEPT ![job.inv] = "GO"]
  BY DEF GiveWord, AuthorityUnmoved, ledgerVars, worldVars, ExchangeIsInStep
<1>1. /\ job'.at = "NONE" /\ job'.inv = 0
      /\ \/ job.by = "NOBODY" /\ call' = call
         \/ /\ call.op = "START" /\ call.inv = job.inv /\ call'.st = "DONE" /\ call'.op = "START"
            /\ call'.inv = job.inv /\ call'.ans = "STARTED" /\ call'.gen = generation
  BY Replied DEF GiveWord, Said, NoJob
<1>2. GenerationsAreKnown'
  BY <1>0, <1>1 DEF GenerationsAreKnown, AskedOf, Parked
<1>3. \A i \in Invs : CountsOn(i)' => CountsOn(i) \/ i = job.inv
  BY <1>0, <1>1 DEF CountsOn
<1>4. \A i \in Invs : CountsOn(i)' => IsKept(i)'
  BY <1>0, <1>1, <1>3 DEF EndingsAreKept, IsKept
<1>5. job.inv \notin spent
  BY <1>0 DEF GiveWord, Waiting, StagesAreInStep, Stage, EndingsAreKept, Endings
<1>6. EndingsAreKept'
  BY <1>0, <1>1, <1>3, <1>4, <1>5 DEF EndingsAreKept
<1>7. UnknownHasReason'
  BY <1>0, <1>1 DEF UnknownHasReason, HasReason, AskedOf, Parked
<1>. QED
  BY <1>2, <1>6, <1>7

LEMMA PassOnRefusalCollects ==
    ASSUME AnswersArrive, IInv, CollectInv, PassOnRefusal, AuthorityUnmoved
    PROVE  CollectInv'
<1>. QED
  BY RefusalCollects DEF PassOnRefusal, Forget, worldVars

LEMMA TimeOutCollects ==
    ASSUME AnswersArrive, IInv, CollectInv, TimeOut, AuthorityUnmoved
    PROVE  CollectInv'
<1>. QED
  BY RefusalCollects DEF TimeOut, WordWithheld, Forget, worldVars

LEMMA CollectCollects ==
    ASSUME AnswersArrive, IInv, CollectInv, Collect, AuthorityUnmoved
    PROVE  CollectInv'
<1>. USE CollectTypes, Numbers DEF CollectInv, IInv
<1>. DEFINE i0 == call.inv
            says == CollectsAs(i0, call.gen)
<1>0. /\ UNCHANGED <<generation, job, slot, thread, placed, container, parked, work>>
      /\ job = NoJob /\ call.op = "COLLECT" /\ call.st = "WAIT" /\ call # NoCall
  BY DEF Collect, Accepts, AuthorityUnmoved, ledgerVars, worldVars, NoCall
<1>inv. i0 \in Invs /\ work.at = "COLLECT" /\ work.inv = i0 /\ job.at = "NONE"
  BY <1>0 DEF ExchangeIsInStep, NoJob
<1>1. says \in {"RUNNING"} \cup Endings /\ (says = "UNCONFIRMED" => HasReason(i0))
  <2>0. call.gen = AskedOf(i0)
    BY <1>0 DEF GenerationsAreKnown
  <2>1. CASE call.gen # generation
    BY <2>0, <2>1 DEF CollectsAs, HasReason, Endings
  <2>2. CASE call.gen = generation
    <3>1. CountsOn(i0)
      BY <1>inv, <2>0, <2>2 DEF AskedOf, Parked, CountsOn
    <3>2. slot[i0] \in {"RUNNING"} \cup Endings
      BY <1>inv, <3>1 DEF EndingsAreKept, IsKept
    <3>3. i0 \in Held /\ slot[i0] # "JUDGING"
      BY <1>inv, <3>2 DEF TableIsInStep, Endings
    <3>4. says = slot[i0]
      BY <2>2, <3>3 DEF CollectsAs
    <3>. QED
      BY <1>inv, <3>2, <3>4 DEF UnknownHasReason, HasReason
  <2>. QED
    BY <2>1, <2>2
<1>2. call' = CallEnds(says)
  BY DEF Collect, Answers, AnswersArrive
<1>3. /\ call'.st = "DONE" /\ call'.op = "COLLECT" /\ call'.inv = i0 /\ call'.ans = says
      /\ call'.gen = 0
  BY <1>0, <1>1, <1>2, CallDone DEF Said, Endings
<1>. HIDE DEF says, i0
<1>4. GenerationsAreKnown'
  BY <1>0, <1>3 DEF GenerationsAreKnown
<1>5. \A i \in Invs : CountsOn(i)' => CountsOn(i)
  BY <1>0, <1>1, <1>3 DEF CountsOn, Endings
<1>9. \A i \in Invs : i \in spent' => slot'[i] \in Endings
  BY <1>0 DEF Collect, CollectMarks, HasEnded, EndingsAreKept
<1>6. EndingsAreKept'
  BY <1>0, <1>inv, <1>3, <1>5, <1>9 DEF EndingsAreKept, IsKept
<1>7. \A i : HasReason(i) => HasReason(i)'
  BY <1>0 DEF HasReason, AskedOf, Parked
<1>8. UnknownHasReason'
  BY <1>0, <1>inv, <1>1, <1>3, <1>7 DEF UnknownHasReason
<1>. QED
  BY <1>4, <1>6, <1>8

LEMMA RemoveEnvironmentCollects ==
    ASSUME AnswersArrive, IInv, CollectInv, RemoveEnvironment, AuthorityUnmoved
    PROVE  CollectInv'
<1>. USE CollectTypes, Numbers DEF CollectInv, IInv
<1>0. /\ UNCHANGED <<generation, job, slot, thread, spent, placed, parked, work>>
      /\ container' = [container EXCEPT ![call.env] = "GONE"]
      /\ call.op = "DESTROY" /\ call.st = "WAIT" /\ call' = CallEnds("GONE")
  BY DEF RemoveEnvironment, ContainerEnds, Accepts, Answers, AnswersArrive, AuthorityUnmoved,
         ledgerVars, tableVars
<1>1. call'.st = "DONE" /\ call'.op = "DESTROY" /\ call'.inv = call.inv
      /\ call'.ans = "GONE" /\ call'.gen = 0
  BY <1>0, CallDone DEF Said
<1>2. GenerationsAreKnown'
  BY <1>0, <1>1 DEF GenerationsAreKnown, AskedOf, Parked
<1>3. \A i \in Invs : CountsOn(i)' => CountsOn(i)
  BY <1>0, <1>1 DEF CountsOn
<1>4. EndingsAreKept'
  BY <1>0, <1>1, <1>3 DEF EndingsAreKept, IsKept
<1>5. \A f : container[f] = "GONE" => container'[f] = "GONE"
  BY <1>0
<1>6. UnknownHasReason'
  BY <1>0, <1>1, <1>5 DEF UnknownHasReason, HasReason, AskedOf, Parked
<1>. QED
  BY <1>2, <1>4, <1>6

LEMMA RestartsCollects ==
    ASSUME AnswersArrive, IInv, CollectInv, Restarts, AuthorityUnmoved
    PROVE  CollectInv'
<1>. USE CollectTypes, Numbers DEF CollectInv, IInv
<1>0. /\ UNCHANGED <<placed, container, parked, work>> /\ generation' = generation + 1
      /\ job' = NoJob /\ job'.at = "NONE" /\ job'.inv = 0 /\ spent' = {}
      /\ slot' = [i \in Invs |-> "NONE"]
      /\ call' = IF call.st = "SENT" THEN CallEnds("LOST") ELSE call
  BY DEF Restarts, AuthorityUnmoved, ledgerVars, worldVars, NoJob
<1>1. \/ call' = call
      \/ call.op = "START" /\ call'.op = "START" /\ call'.inv = call.inv
         /\ call'.ans = "LOST" /\ call'.gen = 0
  BY <1>0, CallDone DEF Said, ExchangeIsInStep
<1>2. GenerationsAreKnown'
  BY <1>0, <1>1 DEF GenerationsAreKnown, AskedOf, Parked
<1>3. \A i \in Invs : ~CountsOn(i)'
  BY <1>0, <1>1 DEF GenerationsAreKnown, CountsOn
<1>4. EndingsAreKept'
  BY <1>0, <1>3 DEF EndingsAreKept
<1>5. \A i \in Invs : HasReason(i)'
  BY <1>0 DEF GenerationsAreKnown, HasReason, AskedOf, Parked
<1>6. /\ call'.st = "DONE" /\ call'.op = "COLLECT" => call.inv \in Invs /\ call' = call
      /\ work.at = "SETTLE" => work.inv \in Invs
  BY <1>1 DEF ExchangeIsInStep, NoCall
<1>7. UnknownHasReason'
  BY <1>0, <1>1, <1>5, <1>6 DEF UnknownHasReason
<1>. QED
  BY <1>2, <1>4, <1>7

LEMMA JudgePassesCollects ==
    ASSUME AnswersArrive, IInv, CollectInv, NEW j \in Invs, JudgePasses(j), AuthorityUnmoved
    PROVE  CollectInv'
<1>. USE CollectTypes, Numbers DEF CollectInv, IInv
<1>1. GenerationsAreKnown'
  BY DEF GenerationsAreKnown, AskedOf, Parked, JudgePasses, Waiting, AuthorityUnmoved,
    ledgerVars, tableVars, worldVars
<1>2. EndingsAreKept'
  BY DEF EndingsAreKept, CountsOn, IsKept, JudgePasses, Waiting, AuthorityUnmoved, ledgerVars,
    tableVars, worldVars
<1>3. UnknownHasReason'
  BY DEF UnknownHasReason, HasReason, AskedOf, Parked, JudgePasses, Waiting, AuthorityUnmoved,
    ledgerVars, tableVars, worldVars
<1>. QED
  BY <1>1, <1>2, <1>3

LEMMA JudgeRefusesCollects ==
    ASSUME AnswersArrive, IInv, CollectInv, NEW j \in Invs, JudgeRefuses(j), AuthorityUnmoved
    PROVE  CollectInv'
<1>. USE CollectTypes, Numbers DEF CollectInv, IInv
<1>0. /\ UNCHANGED <<generation, call, placed, container, parked, work>>
      /\ job.at = "WAIT" /\ job.inv = j
      /\ slot' = [slot EXCEPT ![j] = "NONE"] /\ thread' = [thread EXCEPT ![j] = "NONE"]
      /\ spent' = spent \ {j}
      /\ job'.at = job.at /\ job'.inv = job.inv /\ job'.by = job.by
  BY DEF JudgeRefuses, Waiting, ThreadGone, Forget, AuthorityUnmoved, ledgerVars, worldVars, Job
<1>1. GenerationsAreKnown'
  BY <1>0 DEF GenerationsAreKnown, AskedOf, Parked
<1>2. \A i \in Invs : CountsOn(i)' => CountsOn(i)
  BY <1>0 DEF CountsOn
<1>3. \A i \in Invs : CountsOn(i)' => IsKept(i)'
  BY <1>0, <1>2 DEF EndingsAreKept, IsKept
<1>4. EndingsAreKept'
  BY <1>0, <1>2, <1>3 DEF EndingsAreKept
<1>5. UnknownHasReason'
  BY <1>0 DEF UnknownHasReason, HasReason, AskedOf, Parked
<1>. QED
  BY <1>1, <1>4, <1>5

LEMMA JudgesForNobodyCollects ==
    ASSUME AnswersArrive, IInv, CollectInv, NEW j \in Invs, JudgesForNobody(j), AuthorityUnmoved
    PROVE  CollectInv'
<1>. USE CollectTypes, Numbers DEF CollectInv, IInv
<1>1. GenerationsAreKnown'
  BY DEF GenerationsAreKnown, AskedOf, Parked, JudgesForNobody, Waiting, ThreadGone, Forget,
    AuthorityUnmoved, ledgerVars, tableVars, worldVars
<1>2. EndingsAreKept'
  BY DEF EndingsAreKept, CountsOn, IsKept, JudgesForNobody, Waiting, ThreadGone, Forget,
    AuthorityUnmoved, ledgerVars, tableVars, worldVars
<1>3. UnknownHasReason'
  BY DEF UnknownHasReason, HasReason, AskedOf, Parked, JudgesForNobody, Waiting, ThreadGone,
    Forget, AuthorityUnmoved, ledgerVars, tableVars, worldVars
<1>. QED
  BY <1>1, <1>2, <1>3

LEMMA ExecuteCollects ==
    ASSUME AnswersArrive, IInv, CollectInv, NEW j \in Invs, Execute(j), AuthorityUnmoved
    PROVE  CollectInv'
<1>. USE CollectTypes, Numbers DEF CollectInv, IInv
<1>1. GenerationsAreKnown'
  BY DEF GenerationsAreKnown, AskedOf, Parked, Execute, AuthorityUnmoved, ledgerVars, tableVars,
    worldVars
<1>2. EndingsAreKept'
  BY DEF EndingsAreKept, CountsOn, IsKept, Execute, AuthorityUnmoved, ledgerVars, tableVars,
    worldVars
<1>3. UnknownHasReason'
  BY DEF UnknownHasReason, HasReason, AskedOf, Parked, Execute, AuthorityUnmoved, ledgerVars,
    tableVars, worldVars
<1>. QED
  BY <1>1, <1>2, <1>3

LEMMA ClientRefusedCollects ==
    ASSUME AnswersArrive, IInv, CollectInv, NEW j \in Invs, ClientRefused(j), AuthorityUnmoved
    PROVE  CollectInv'
<1>. USE CollectTypes, Numbers DEF CollectInv, IInv
<1>1. GenerationsAreKnown'
  BY DEF GenerationsAreKnown, AskedOf, Parked, ClientRefused, Keeps, Endings, StagesAreInStep,
    Stage, AuthorityUnmoved, ledgerVars, tableVars, worldVars
<1>2. EndingsAreKept'
  BY DEF EndingsAreKept, CountsOn, IsKept, ClientRefused, Keeps, Endings, StagesAreInStep,
    Stage, AuthorityUnmoved, ledgerVars, tableVars, worldVars
<1>3. UnknownHasReason'
  BY DEF UnknownHasReason, HasReason, AskedOf, Parked, ClientRefused, Keeps, Endings,
    StagesAreInStep, Stage, AuthorityUnmoved, ledgerVars, tableVars, worldVars
<1>. QED
  BY <1>1, <1>2, <1>3

LEMMA EndsWithoutCollects ==
    ASSUME AnswersArrive, IInv, CollectInv, NEW j \in Invs, EndsWithout(j), AuthorityUnmoved
    PROVE  CollectInv'
<1>. USE CollectTypes, Numbers DEF CollectInv, IInv
<1>0. /\ UNCHANGED <<generation, call, job, spent, placed, container, parked, work>>
      /\ thread[j] \in {"GO", "RUNS"} /\ container[home[j]] = "GONE"
      /\ slot' = [slot EXCEPT ![j] = "UNCONFIRMED"] /\ thread' = [thread EXCEPT ![j] = "NONE"]
  BY DEF EndsWithout, Keeps, AuthorityUnmoved, ledgerVars, worldVars
<1>1. home[j] = placed[j]
  BY <1>0 DEF HomesAreTheirs, HomeIsIts
<1>2. GenerationsAreKnown'
  BY <1>0 DEF GenerationsAreKnown, AskedOf, Parked
<1>3. EndingsAreKept'
  BY <1>0 DEF EndingsAreKept, CountsOn, IsKept, Endings
<1>4. UnknownHasReason'
  BY <1>0, <1>1 DEF UnknownHasReason, HasReason, AskedOf, Parked
<1>. QED
  BY <1>2, <1>3, <1>4

LEMMA EndsCleanCollects ==
    ASSUME AnswersArrive, IInv, CollectInv, NEW j \in Invs, EndsClean(j), AuthorityUnmoved
    PROVE  CollectInv'
<1>. USE CollectTypes, Numbers DEF CollectInv, IInv
<1>1. GenerationsAreKnown'
  BY DEF GenerationsAreKnown, AskedOf, Parked, EndsClean, Keeps, Endings, StagesAreInStep,
    Stage, AuthorityUnmoved, ledgerVars, tableVars, worldVars
<1>2. EndingsAreKept'
  BY DEF EndingsAreKept, CountsOn, IsKept, EndsClean, Keeps, Endings, StagesAreInStep, Stage,
    AuthorityUnmoved, ledgerVars, tableVars, worldVars
<1>3. UnknownHasReason'
  BY DEF UnknownHasReason, HasReason, AskedOf, Parked, EndsClean, Keeps, Endings,
    StagesAreInStep, Stage, AuthorityUnmoved, ledgerVars, tableVars, worldVars
<1>. QED
  BY <1>1, <1>2, <1>3

LEMMA AgeAbandonedCollects ==
    ASSUME AnswersArrive, IInv, CollectInv, NEW j \in Invs, AgeAbandoned(j), AuthorityUnmoved
    PROVE  CollectInv'
<1>. USE CollectTypes, Numbers DEF CollectInv, IInv
<1>0. /\ UNCHANGED <<generation, call, job, slot, thread, placed, container, parked, work>>
      /\ spent' = spent \cup {j} /\ slot[j] \in Endings
      /\ (j \notin Parked /\ work.inv # j) \/ work.at = "WAIT"
  BY DEF AgeAbandoned, Abandoned, Age, HasEnded, At, AuthorityUnmoved, ledgerVars, worldVars
<1>1. CASE work.at = "WAIT"
  <2>1. call = NoCall /\ call.op = "NONE" /\ job.by # "AUTHORITY"
    BY <1>1, Nothing DEF ExchangeIsInStep
  <2>2. job.at = "RESERVE" => \A i \in Invs : ~CountsOn(i)
    BY <2>1 DEF EndingsAreKept, Job
  <2>3. \A i \in Invs : CountsOn(i)' <=> CountsOn(i)
    BY <1>0 DEF CountsOn
  <2>. QED
    BY <1>0, <2>1, <2>2, <2>3
    DEF GenerationsAreKnown, EndingsAreKept, UnknownHasReason, IsKept, HasReason, AskedOf, Parked
<1>2. CASE j \notin Parked /\ work.inv # j
  <2>1. call # NoCall => call.inv = work.inv
    BY DEF ExchangeIsInStep
  <2>2. ~CountsOn(j)
    BY <1>2, <2>1 DEF CountsOn, Parked, NoCall
  <2>3. \A i \in Invs : CountsOn(i)' <=> CountsOn(i)
    BY <1>0 DEF CountsOn
  <2>. QED
    BY <1>0, <2>2, <2>3
    DEF GenerationsAreKnown, EndingsAreKept, UnknownHasReason, IsKept, HasReason, AskedOf, Parked
<1>. QED
  BY <1>0, <1>1, <1>2

LEMMA VanishesCollects ==
    ASSUME AnswersArrive, IInv, CollectInv, NEW e \in Envs, Vanishes(e), AuthorityUnmoved
    PROVE  CollectInv'
<1>. USE CollectTypes, Numbers DEF CollectInv, IInv
<1>1. GenerationsAreKnown'
  BY DEF GenerationsAreKnown, AskedOf, Parked, Vanishes, ContainerEnds, AuthorityUnmoved,
    ledgerVars, tableVars, worldVars
<1>2. EndingsAreKept'
  BY DEF EndingsAreKept, CountsOn, IsKept, Vanishes, ContainerEnds, AuthorityUnmoved,
    ledgerVars, tableVars, worldVars
<1>3. UnknownHasReason'
  BY DEF UnknownHasReason, HasReason, AskedOf, Parked, Vanishes, ContainerEnds,
    AuthorityUnmoved, ledgerVars, tableVars, worldVars
<1>. QED
  BY <1>1, <1>2, <1>3

\* Every step keeps it.
LEMMA CollectKept == ASSUME AnswersArrive, IInv, CollectInv, [Next]_vars PROVE CollectInv'
<1>1. CASE UNCHANGED vars
  BY <1>1 DEF vars, ledgerVars, supervisorVars, tableVars, worldVars, CollectInv,
              GenerationsAreKnown, EndingsAreKept, UnknownHasReason, CountsOn, IsKept, HasReason,
              AskedOf, Parked
<1>2. ASSUME NEW e \in Envs, PrepareEnvironment(e) \/ EndRun(e) \/ Reclaim(e) PROVE CollectInv'
  BY <1>2, PrepareEnvironmentCollects, EndRunCollects, ReclaimCollects
<1>3. ASSUME NEW k \in Keys, NEW e \in Envs, Launch(k, e) PROVE CollectInv'
  BY <1>3, LaunchCollects
<1>4. ASSUME NEW i \in Invs, CollectParked(i) PROVE CollectInv'
  BY <1>4, CollectParkedCollects
<1>5. CASE AuthorityStep
  BY <1>5, EnvironmentGoneCollects, OrderFailsCollects, StartEndsCollects, ParkCollects,
     StillRunningCollects, CollectionEndsCollects, SettleCollects
  DEF AuthorityStep, Sandboxed
<1>6. CASE Crash \/ Start
  BY <1>6, CrashCollects, StartCollects
<1>7. CASE BrokerStep /\ AuthorityUnmoved
  BY <1>7, AcceptStartCollects, ReserveCollects, RefuseStartCollects, GiveWordCollects,
     PassOnRefusalCollects, TimeOutCollects, CollectCollects, RemoveEnvironmentCollects
  DEF BrokerStep, RemovalFails, AnswersArrive
<1>8. CASE (GiveUp \/ Restarts) /\ AuthorityUnmoved
  BY <1>8, RestartsCollects DEF GiveUp, AnswersArrive
<1>9. ASSUME NEW i \in Invs, ThreadStep(i) \/ AgeAbandoned(i), AuthorityUnmoved PROVE CollectInv'
  BY <1>9, AgeAbandonedCollects, JudgePassesCollects, JudgeRefusesCollects,
     JudgesForNobodyCollects, ExecuteCollects, ClientRefusedCollects, EndsWithoutCollects,
     EndsCleanCollects
  DEF ThreadStep, EndsUnclean, AnswersArrive
<1>10. ASSUME NEW e \in Envs, Vanishes(e), AuthorityUnmoved PROVE CollectInv'
  BY <1>10, VanishesCollects
<1>. QED
  BY <1>1, <1>2, <1>3, <1>4, <1>5, <1>6, <1>7, <1>8, <1>9, <1>10 DEF Next

\* A row becomes UNKNOWN by a settlement with a reason, or at a start.
Lost(i) == state[i] = "LAUNCHING" /\ state'[i] = "UNKNOWN"
LEMMA LostHasReason ==
    ASSUME AnswersArrive, IInv, CollectInv, [Next]_vars, NEW i \in Invs, Lost(i)
    PROVE  container[placed[i]] = "GONE" \/ proc = "DOWN" \/ AskedOf(i) # generation
<1>. USE DEF IInv
<1>0. state \in [Invs -> States]
  BY DEF TypeOK
<1>1. CASE Settle
  <2>1. work.at = "SETTLE" /\ work.inv \in Invs
        /\ state' = [state EXCEPT ![work.inv] = Recorded(work.came)]
    BY <1>1 DEF Settle, At, ExchangeIsInStep
  <2>2. i = work.inv /\ Recorded(work.came) = "UNKNOWN"
    BY <1>0, <2>1 DEF Lost
  <2>3. work.came \in Comings
    BY <2>1, CollectTypes DEF Work, SettlementIsTrue
  <2>4. work.came = "UNKNOWN"
    BY <2>2, <2>3 DEF Recorded, Comings
  <2>. QED
    BY <2>1, <2>2, <2>4 DEF CollectInv, UnknownHasReason, HasReason
<1>2. CASE Start
  BY <1>2 DEF Start
<1>3. ASSUME NEW k \in Keys, NEW e \in Envs, Launch(k, e) PROVE FALSE
  BY <1>0, <1>3 DEF Launch, RecordIntent, Lost
<1>4. CASE state' = state
  BY <1>4 DEF Lost
<1>5. CASE UNCHANGED vars
  BY <1>4, <1>5 DEF vars, ledgerVars
<1>6. ASSUME NEW e \in Envs, PrepareEnvironment(e) \/ EndRun(e) \/ Reclaim(e) PROVE state' = state
  BY <1>6 DEF PrepareEnvironment, EndRun, Reclaim, ledgerVars
<1>7. ASSUME NEW j \in Invs, CollectParked(j) PROVE state' = state
  BY <1>7 DEF CollectParked, ledgerVars
<1>8. ASSUME AuthorityStep, ~Settle PROVE state' = state
  BY <1>8 DEF AuthorityStep, Sandboxed, EnvironmentGone, OrderFails, StartEnds, Park,
    StillRunning,
              CollectionEnds, ledgerVars
<1>9. ASSUME Crash PROVE state' = state
  BY <1>9 DEF Crash, ledgerVars
<1>10. ASSUME AuthorityUnmoved PROVE state' = state
  BY <1>10 DEF AuthorityUnmoved, ledgerVars
<1>. QED
  BY <1>1, <1>2, <1>3, <1>4, <1>5, <1>6, <1>7, <1>8, <1>9, <1>10 DEF Next

(*******************************************************************************)
(* Where every answer arrives and says what it is about, an ending is lost     *)
(* only with its container, its broker or the authority that would have        *)
(* collected it: neither a full table nor the order of starts and collections, *)
(* nor a wait of the worker for one launch while others end, makes a finished  *)
(* workload UNKNOWN (Supervisor::reserve, forgettable; Worker::collect).       *)
(*******************************************************************************)
THEOREM EndingsAreCollected == ASSUME AnswersArrive PROVE Spec => EndingIsNotLost
<1>1. IInv /\ CollectInv /\ [Next]_vars => CollectInv'
  BY CollectKept
<1>2. IInv /\ CollectInv /\ [Next]_vars =>
        [\A i \in Invs : state[i] = "LAUNCHING" /\ state'[i] = "UNKNOWN"
                          => \/ container[placed[i]] = "GONE"
                             \/ proc = "DOWN"
                             \/ AskedOf(i) # generation]_vars
  BY LostHasReason DEF Lost
<1>. QED
  BY <1>1, <1>2, CollectInit, InductiveInvariant, PTL DEF Spec, EndingIsNotLost

=============================================================================
