-------------------------- MODULE ToolInvokeProofs --------------------------
(****************************************************************************)
(* Proofs about the filesystem tools: ToolInvoke, for any number of changes *)
(* of the concurrent writer and any of the faults, and at the end PathWalk, *)
(* which finds what a tool acts on, for every tree and any number of        *)
(* changes to it.                                                           *)
(*                                                                          *)
(* A power cut may leave any namespace of onDisk in place of the one in     *)
(* use, so what the invariant says of the workspace it says of every one of *)
(* them: no object is lost and none half-written, and the ledger's outcome  *)
(* is true of it.  Of the broker's job it says, for each place a mutation   *)
(* goes through, what its steps have already put on the disk (Traced) and   *)
(* what it still owes (Prepared, Effects, Proved): that a later step is     *)
(* safe, and that an answer is true, follows only from these.               *)
(****************************************************************************)
EXTENDS ToolInvoke, PathWalk, FiniteSetTheorems, TLAPS

-----------------------------------------------------------------------------
(* What holds of every namespace a power cut may leave *)

Writing == {"REPLACE", "PATCH", "CREATE"}
Exchanging == {"REPLACE", "PATCH"}

\* The object is under a name of the workspace, or is anywhere at all.
Seen(s, o) == s.at["leaf"] = o \/ s.at["dest"] = o \/ o \in s.aside
Somewhere(s, o) == Seen(s, o) \/ s.at["new"] = o \/ s.at["held"] = o

\* No object is lost but the target an operation may remove.
Kept(op, s) ==
    /\ Somewhere(s, "S")
    /\ ~Somewhere(s, "T") =>
        /\ op \in {"REPLACE", "PATCH", "DELETE"}
        /\ op = "PATCH" => s.content["T"] = "BASE"
        /\ op # "DELETE" => Seen(s, "N")
        /\ s.applied = "YES"

\* What is in the staging directory tells a reclamation what it may remove.
Judged(op, s) ==
    /\ s.dir = "NONE" => Empty(s)
    /\ op = "MOVE" => s.dir = "NONE"
    /\ s.at["new"] = "N" => op \in Writing
    /\ s.at["new"] \in {"T", "S"} => op \in Exchanging /\ s.record = "COMPLETE"
    /\ s.at["held"] # "none" => op = "DELETE" /\ s.at["held"] # "N"

Sound(op, s) ==
    /\ s \in Namespace
    /\ Kept(op, s)
    /\ Judged(op, s)
    /\ Seen(s, "N") => s.content["N"] = "POST"

Pristine(s) == s.applied = "NO" /\ ~Somewhere(s, "N") /\ s.dir = "NONE"
Refusable(op, s) == s.applied = "NO" \/ (op = "MOVE" /\ s.applied = "MIXED")
Effected(op, s) == s.applied = "YES" \/ (op = "PATCH" /\ s.applied = "NO" /\ ~Somewhere(s, "N"))

\* The ledger's outcome, in a namespace.
Truth(inv, s) ==
    /\ inv.state = "FAILED" => Refusable(inv.op, s)
    /\ inv.state = "COMPLETED" => Effected(inv.op, s)

\* An answer, in a namespace a power cut may leave, and in the one that is.
Answered(op, task, ans, s) ==
    task = "PERFORM" => /\ ans \in {"NOT_SENT", "REFUSED"} => Refusable(op, s)
                        /\ ans \in {"DONE", "DEBRIS"} => Effected(op, s)
Reported(task, ans, s) ==
    /\ task = "PERFORM" /\ ans \in {"NOT_SENT", "DONE"} => s.dir = "NONE"
    /\ task = "RECLAIM" /\ ans \in {"ABSENT", "REMOVED"} => s.dir = "NONE"
    /\ task = "RECLAIM" /\ ans = "FOREIGN" => s.dir # "OURS"

-----------------------------------------------------------------------------
(* The broker's places *)

Preparing == {"MODE", "MADE", "NEW", "WRITE", "FSYNC", "RECORD", "FILL", "UNRECORD",
              "CHECK", "EFFECT"}
Recorded == {"CHECK", "EFFECT", "PROVE", "RESTORE", "RESTORED", "SYNC_BACK", "SYNC"}
Proving == {"PROVE", "RESTORE"}
Taking == {"MARK", "MARKED", "UNLINK"}
Untaking == {"UNMARK", "UNMARKED"}
Removing == {"CLEAN", "CLEANED"}
Ending == {"RMDIR", "GONE"}
Places == Preparing \cup Recorded \cup Taking \cup Untaking \cup Removing \cup Ending
            \cup {"NONE", "BEGIN", "MAKE", "UNLINKED", "JUDGE", "ANSWER"}
Todos == {<<>>, <<"record">>, <<"new">>, <<"taken">>, <<"record", "new">>,
          <<"new", "record">>, <<"record", "taken">>}
\* What a refusal and a reclamation clear, and what an operation that is done removes.
Clearing == {<<"record", "new">>, <<"new">>, <<>>}
Finishing(op) ==
    CASE op \in Exchanging -> {<<"new", "record">>, <<"record">>, <<>>}
      [] op = "CREATE" -> {<<"record">>, <<>>}
      [] OTHER -> {<<"record", "taken">>, <<"taken">>, <<>>}
Job == [task : {"NONE", "PERFORM", "RECLAIM"}, op : Operations \cup {"NONE"}, at : Places,
        took : Objects \cup {"none"}, seen : Objects \cup {"none"}, todo : Todos,
        left : {"NO", "YES"}, ans : Answers \cup {"NONE"}, by : {"NOBODY", "AUTHORITY"}]

\* Where a job of each kind may be.
Placed(j) ==
    /\ j.task = "NONE" => j = NoJob
    /\ j.task = "PERFORM" =>
        /\ j.op # "NONE"
        /\ j.at \notin {"NONE", "JUDGE"}
        /\ j.op = "MOVE" => j.at \in {"BEGIN", "EFFECT", "PROVE", "RESTORE", "RESTORED",
                                      "SYNC_BACK", "SYNC", "ANSWER"}
        /\ j.at \in {"NEW", "WRITE", "FSYNC"} => j.op # "DELETE"
        /\ j.at \in {"PROVE", "RESTORE", "RESTORED", "SYNC_BACK"} => j.op # "CREATE"
        /\ j.at \in Taking \cup Untaking \cup {"UNLINKED"} => j.op = "DELETE"
        /\ j.at \in Removing \cup Ending => j.ans \in {"REFUSED", "DONE"}
    /\ j.task = "RECLAIM" =>
        /\ j.at \in {"JUDGE", "ANSWER"} \cup Removing \cup Ending
        /\ j.at \in Removing \cup Ending => j.ans = "REMOVED"
        /\ j.at # "ANSWER" => j.left = "NO"
    /\ j.at \in Removing =>
        /\ j.ans \in {"REFUSED", "REMOVED"} => j.todo \in Clearing
        /\ j.ans = "DONE" => j.todo \in Finishing(j.op)
    /\ j.at = "CLEANED" => j.todo # <<>>
    /\ j.at = "ANSWER" => j.ans \notin {"LOST", "NOT_SENT", "NONE"}

\* What a job has done, in every namespace a power cut may leave.
Traced(j, s) ==
    /\ j.task = "PERFORM" =>
        /\ j.at \in {"BEGIN", "MAKE"} => Pristine(s)
        /\ j.at \in Preparing => s.applied = "NO" /\ ~Seen(s, "N")
        /\ j.at \in {"MODE", "MADE", "NEW"} => Empty(s)
        /\ j.at \in Taking \cup {"UNLINKED"} => s.applied = "YES"
        /\ j.at \in Removing \cup Ending /\ j.ans = "REFUSED" => s.applied = "NO"
        /\ j.at \in Removing \cup Ending /\ j.ans = "DONE" => s.applied = "YES"
    /\ j.at = "ANSWER" => Answered(j.op, j.task, j.ans, s)

\* What a job knows of the namespace that is.
Effects(j, s) ==
    /\ j.at \in Proving \cup Taking \cup Untaking \cup {"SYNC"} =>
        s.applied = "YES" /\ (j.op \in Exchanging => Seen(s, "N"))
    /\ j.at \in Proving \cup Taking \cup Untaking => Somewhere(s, "T")
    /\ j.at \in Proving /\ j.op \in Exchanging => s.at["new"] = j.took /\ j.took \in {"T", "S"}
    /\ j.at \in Proving \cup Taking \cup Untaking \cup {"SYNC"} /\ j.op = "DELETE" =>
        s.at["held"] = j.took /\ j.took \in {"T", "S"}
    /\ j.at \in {"RESTORED", "SYNC_BACK"} => Refusable(j.op, s)
    /\ j.at = "SYNC_BACK" /\ j.op \in Exchanging => s.at["new"] = "N"
    /\ j.at = "SYNC_BACK" => s.at["held"] = "none"
\* The target was proved, and what is removed is it.
Displacing(j) == j.at = "CLEAN" /\ j.todo = <<"new", "record">>
Proved(j, s) ==
    /\ j.at = "SYNC" /\ j.op \in Exchanging => s.at["new"] = "T"
    /\ (j.at = "SYNC" \/ (j.at \in Removing /\ j.ans = "DONE")) /\ j.op \in Exchanging =>
        /\ Seen(s, "N") /\ ~Seen(s, "T")
        /\ j.op = "PATCH" => s.content["T"] = "BASE"
    /\ j.at \in Taking \cup {"SYNC"} /\ j.op = "DELETE" => s.at["held"] = "T"
    /\ j.at \in Removing =>
        IF Displacing(j) THEN s.at["new"] \in {"T", "none"} ELSE s.at["new"] \in {"N", "none"}
Prepared(j, s) ==
    /\ j.at \in (Preparing \ {"MODE"}) \cup Recorded \cup Taking \cup Untaking /\ j.op # "MOVE" =>
        s.dir = "OURS"
    /\ j.at = "MODE" => s.dir # "NONE"
    /\ j.at \in Recorded /\ j.op \in Writing => s.record = "COMPLETE"
    /\ j.at \in Preparing \ {"MODE", "MADE", "NEW"} =>
        /\ s.at["new"] = IF j.op \in Writing THEN "N" ELSE "none"
        /\ s.at["held"] = "none"
    /\ j.at \in Preparing \ {"MODE", "MADE", "NEW", "WRITE", "FSYNC"} /\ j.op \in Writing =>
        s.content["N"] = "POST"
    /\ (j.at = "SYNC" \/ (j.at \in Removing /\ j.ans = "DONE")) /\ j.op = "CREATE" =>
        s.at["new"] = "none"
    /\ j.at = "GONE" => s.dir = "NONE"
    /\ j.at = "ANSWER" => Reported(j.task, j.ans, s)
Doing(j, s) == Effects(j, s) /\ Proved(j, s) /\ Prepared(j, s)

-----------------------------------------------------------------------------
(* The authority's side *)

\* The invocation has not reached a broker.
Unsent == \/ invocation.state = "NONE"
          \/ work = "HANDOFF"
          \/ call.task = "PERFORM" /\ (call.st = "WAIT" \/ call.ans = "NOT_SENT")

Typed ==
    /\ writes \in 0..MaxWrites
    /\ job \in Job /\ call \in Call
    /\ proc \in {"UP", "DOWN"}
    /\ work \in {"IDLE", "HANDOFF", "PERFORM", "SWEEP", "RECLAIM"}
    /\ invocation \in [state : {"NONE", "INTENT", "COMPLETED", "FAILED", "UNKNOWN"},
                       op : Operations \cup {"NONE"}]
    /\ staging \in {"NONE", "EXPECTED", "CLEARED", "REMOVED", "FOREIGN"} \cup Retained

Control ==
    /\ proc = "DOWN" => work = "IDLE"
    /\ IF work \in {"PERFORM", "RECLAIM"} THEN call.task = work /\ call.st # "NONE" /\ call.op = invocation.op
       ELSE call = NoCall
    /\ call.st \in {"WAIT", "SENT"} => call.ans = "NONE"
    /\ job.task # "NONE" => job.op = invocation.op
    /\ job.by = "AUTHORITY" <=> call.st = "SENT"
    /\ call.st = "SENT" => job.task = call.task
    /\ invocation.state = "NONE" <=> invocation.op = "NONE"
    /\ invocation.state = "NONE" => work \in {"IDLE", "SWEEP"} /\ staging = "NONE"
    /\ work \in {"HANDOFF", "PERFORM"} => invocation.state = "INTENT"
    /\ job.task = "PERFORM" => invocation.state \in {"INTENT", "UNKNOWN"}
    /\ Unsent => job = NoJob
    /\ call.st = "DONE" /\ call.ans \notin {"LOST", "NOT_SENT"} => job = NoJob

Disk(s) ==
    /\ Sound(invocation.op, s)
    /\ Truth(invocation, s)
    /\ Unsent => Pristine(s)
    /\ Traced(job, s)
    /\ call.st = "DONE" => Answered(invocation.op, call.task, call.ans, s)

IInv ==
    /\ Typed /\ Control /\ Placed(job)
    /\ ns \in onDisk
    /\ \A s \in onDisk : Disk(s)
    /\ Doing(job, ns)
    /\ call.st = "DONE" => Reported(call.task, call.ans, ns)

-----------------------------------------------------------------------------
(* Links *)

LEMMA NamesAreFinite == IsFiniteSet(Names)
  <1>1. IsFiniteSet({"leaf", "dest", "new", "held"})
    <2>1. IsFiniteSet({}) BY FS_EmptySet
    <2>2. IsFiniteSet({} \cup {"leaf"}) BY <2>1, FS_AddElement
    <2>3. IsFiniteSet(({} \cup {"leaf"}) \cup {"dest"}) BY <2>2, FS_AddElement
    <2>4. IsFiniteSet((({} \cup {"leaf"}) \cup {"dest"}) \cup {"new"}) BY <2>3, FS_AddElement
    <2>5. IsFiniteSet(((({} \cup {"leaf"}) \cup {"dest"}) \cup {"new"}) \cup {"held"})
      BY <2>4, FS_AddElement
    <2>6. ((({} \cup {"leaf"}) \cup {"dest"}) \cup {"new"}) \cup {"held"}
            = {"leaf", "dest", "new", "held"}
      OBVIOUS
    <2>. QED BY <2>5, <2>6
  <1>. QED BY <1>1 DEF Names

\* An object exists exactly where some name, or the writer, has it.
LEMMA ExistsSomewhere ==
  ASSUME NEW s, NEW o
  PROVE  Exists(s, o) <=> Somewhere(s, o)
  <1>. DEFINE L == {n \in Names : s.at[n] = o}
  <1>1. IsFiniteSet(L) BY NamesAreFinite, FS_Subset
  <1>2. Cardinality(L) \in Nat BY <1>1, FS_CardinalityType
  <1>3. Cardinality(L) = 0 <=> L = {} BY <1>1, FS_EmptySet
  <1>4. L # {} <=> s.at["leaf"] = o \/ s.at["dest"] = o \/ s.at["new"] = o \/ s.at["held"] = o
    BY DEF Names
  <1>5. Links(s, o) = Cardinality(L) + (IF o \in s.aside THEN 1 ELSE 0) BY DEF Links
  <1>. HIDE DEF L
  <1>6. Exists(s, o) <=> L # {} \/ o \in s.aside BY <1>2, <1>3, <1>5 DEF Exists
  <1>. QED BY <1>4, <1>6 DEF Somewhere, Seen

\* A target with one link, displaced by an exchange, is nowhere else.
LEMMA OneLink ==
  ASSUME NEW s, s.at["new"] = "T", Links(s, "T") = 1
  PROVE  ~Seen(s, "T")
  <1>. DEFINE L == {n \in Names : s.at[n] = "T"}
  <1>1. IsFiniteSet(L) BY NamesAreFinite, FS_Subset
  <1>2. "new" \in L BY DEF Names
  <1>3. Cardinality(L) \in Nat /\ Cardinality(L) # 0
    BY <1>1, <1>2, FS_CardinalityType, FS_EmptySet
  <1>4. Links(s, "T") = Cardinality(L) + (IF "T" \in s.aside THEN 1 ELSE 0) BY DEF Links
  <1>5. Cardinality(L) = 1 /\ "T" \notin s.aside
    <2>. HIDE DEF L
    <2>. QED BY <1>3, <1>4
  <1>6. \E x : L = {x} BY <1>1, <1>5, FS_Singleton
  <1>7. s.at["leaf"] # "T" /\ s.at["dest"] # "T"
    <2>1. "leaf" \notin L /\ "dest" \notin L BY <1>2, <1>6
    <2>. QED BY <2>1 DEF Names
  <1>. QED BY <1>5, <1>7 DEF Seen

-----------------------------------------------------------------------------
(* What a system call does to a sound namespace *)

LEMMA SoundDir ==
  ASSUME NEW op, NEW s, Sound(op, s), op # "MOVE", Empty(s),
         NEW d \in {"NONE", "FRESH", "OURS"}
  PROVE  Sound(op, [s EXCEPT !.dir = d])
  BY DEF Sound, Namespace, Kept, Judged, Seen, Somewhere, Empty

LEMMA SoundRecord ==
  ASSUME NEW op, NEW s, Sound(op, s), NEW r \in {"NONE", "PARTIAL", "COMPLETE"},
         r # "NONE" => s.dir # "NONE",
         r # "COMPLETE" => s.at["new"] \in {"N", "none"}
  PROVE  Sound(op, [s EXCEPT !.record = r])
  BY DEF Sound, Namespace, Kept, Judged, Seen, Somewhere, Empty

LEMMA SoundTaken ==
  ASSUME NEW op, NEW s, Sound(op, s), NEW k \in {"NONE", "MARK"}, k # "NONE" => s.dir # "NONE"
  PROVE  Sound(op, [s EXCEPT !.taken = k])
  BY DEF Sound, Namespace, Kept, Judged, Seen, Somewhere, Empty

LEMMA SoundContent ==
  ASSUME NEW op, NEW s, Sound(op, s), NEW text \in {"BASE", "OTHER", "PART", "CACHED", "POST"},
         Seen(s, "N") => text = "POST"
  PROVE  Sound(op, [s EXCEPT !.content = [@ EXCEPT !["N"] = text]])
  BY DEF Sound, Namespace, Kept, Judged, Seen, Somewhere, Empty

LEMMA SoundNew ==
  ASSUME NEW op \in Writing, NEW s, Sound(op, s), s.dir # "NONE", s.at["new"] = "none"
  PROVE  Sound(op, [s EXCEPT !.at = [@ EXCEPT !["new"] = "N"]])
  BY DEF Sound, Namespace, Kept, Judged, Seen, Somewhere, Empty, Names, Objects, Writing

\* Removing the entry "new": the broker's own file, or a target that was proved.
LEMMA SoundDropNew ==
  ASSUME NEW op, NEW s, Sound(op, s), s.at["new"] # "S",
         s.at["new"] = "T" => /\ s.applied = "YES" /\ Seen(s, "N")
                              /\ op = "PATCH" => s.content["T"] = "BASE"
  PROVE  Sound(op, [s EXCEPT !.at = [@ EXCEPT !["new"] = "none"]])
  BY DEF Sound, Namespace, Kept, Judged, Seen, Somewhere, Empty, Names, Objects, Exchanging

LEMMA SoundUnlink ==
  ASSUME NEW s, Sound("DELETE", s), s.at["held"] = "T", s.applied = "YES"
  PROVE  Sound("DELETE", [s EXCEPT !.at = [@ EXCEPT !["held"] = "none"]])
  BY DEF Sound, Namespace, Kept, Judged, Seen, Somewhere, Empty, Names, Objects, Exchanging,
         Writing

\* A rename or an exchange of two names.
Swap(s, a, b, applied) ==
    [s EXCEPT !.at = [s.at EXCEPT ![a] = s.at[b], ![b] = s.at[a]], !.applied = applied]

LEMMA SwapFields ==
  ASSUME NEW s \in Namespace, NEW a \in Names, NEW b \in Names, a # b,
         NEW x \in {"NO", "YES", "MIXED"}
  PROVE  LET t == Swap(s, a, b, x)
         IN /\ t \in Namespace
            /\ t.at[a] = s.at[b] /\ t.at[b] = s.at[a]
            /\ \A n \in Names \ {a, b} : t.at[n] = s.at[n]
            /\ t.aside = s.aside /\ t.content = s.content /\ t.dir = s.dir
            /\ t.record = s.record /\ t.taken = s.taken /\ t.applied = x
  BY DEF Swap, Namespace

\* The effect of each operation.
LEMMA SoundEffect ==
  ASSUME NEW op, NEW s, Sound(op, s), s.applied = "NO", ~Seen(s, "N"), s.at["leaf"] # "N",
         NEW from \in Names, NEW to \in Names,
         \/ /\ op \in Writing /\ from = "new" /\ to = "leaf" /\ s.at["new"] = "N"
            /\ s.content["N"] = "POST" /\ s.record = "COMPLETE" /\ s.dir = "OURS"
            /\ op = "CREATE" => s.at["leaf"] = "none"
         \/ /\ op = "DELETE" /\ from = "leaf" /\ to = "held" /\ s.at["held"] = "none"
            /\ s.dir = "OURS"
         \/ op = "MOVE" /\ from = "leaf" /\ to = "dest"
  PROVE  Sound(op, Swap(s, from, to, "YES"))
  <1>. DEFINE t == Swap(s, from, to, "YES")
  <1>0. from # to /\ s \in Namespace BY DEF Sound
  <1>1. /\ t \in Namespace
        /\ t.at[from] = s.at[to] /\ t.at[to] = s.at[from]
        /\ \A n \in Names \ {from, to} : t.at[n] = s.at[n]
        /\ t.aside = s.aside /\ t.content = s.content /\ t.dir = s.dir
        /\ t.record = s.record /\ t.taken = s.taken /\ t.applied = "YES"
    BY <1>0, SwapFields
  <1>. HIDE DEF t
  <1>2. \A o : Somewhere(t, o) <=> Somewhere(s, o)
    BY <1>1 DEF Somewhere, Seen, Names
  <1>3. Kept(op, t) BY <1>2 DEF Sound, Kept
  <1>4. Judged(op, t) BY <1>0, <1>1 DEF Sound, Judged, Empty, Names, Writing, Exchanging, Namespace, Objects
  <1>5. Seen(t, "N") => t.content["N"] = "POST"
    BY <1>0, <1>1 DEF Seen, Names
  <1>. QED BY <1>1, <1>3, <1>4, <1>5 DEF Sound, t

\* Its undo.
LEMMA SoundRestore ==
  ASSUME NEW op, NEW s, Sound(op, s), Somewhere(s, "T"), NEW from \in Names, NEW x \in {"NO", "MIXED"},
         \/ /\ op \in Exchanging /\ from = "new" /\ s.at["new"] \in {"T", "S"}
         \/ /\ op = "DELETE" /\ from = "held" /\ s.at["leaf"] = "none"
         \/ op = "MOVE" /\ from = "dest"
  PROVE  Sound(op, Swap(s, from, "leaf", x))
  <1>. DEFINE t == Swap(s, from, "leaf", x)
  <1>0. /\ from # "leaf" /\ "leaf" \in Names /\ s \in Namespace
        /\ x \in {"NO", "YES", "MIXED"}
    BY DEF Sound, Names
  <1>1. /\ t \in Namespace
        /\ t.at[from] = s.at["leaf"] /\ t.at["leaf"] = s.at[from]
        /\ \A n \in Names \ {from, "leaf"} : t.at[n] = s.at[n]
        /\ t.aside = s.aside /\ t.content = s.content /\ t.dir = s.dir
        /\ t.record = s.record /\ t.taken = s.taken /\ t.applied = x
    BY <1>0 DEF Swap, Namespace
  <1>. HIDE DEF t
  <1>2. \A o : Somewhere(t, o) <=> Somewhere(s, o)
    BY <1>1 DEF Somewhere, Seen, Names
  <1>3. Kept(op, t) BY <1>2 DEF Sound, Kept
  <1>4. Judged(op, t) BY <1>0, <1>1 DEF Sound, Judged, Empty, Names, Writing, Exchanging, Namespace, Objects
  <1>5. Seen(t, "N") => Seen(s, "N")
    BY <1>1 DEF Sound, Judged, Seen, Names, Exchanging
  <1>. QED BY <1>1, <1>3, <1>4, <1>5 DEF Sound, t

-----------------------------------------------------------------------------
(* The concurrent writer *)

\* What the writer leaves alone.
Rewritten(s, t) ==
    /\ t \in Namespace
    /\ t.dir = s.dir /\ t.record = s.record /\ t.taken = s.taken /\ t.applied = s.applied
    /\ t.at["new"] = s.at["new"] /\ t.at["held"] = s.at["held"]
    /\ t.content["N"] = s.content["N"]
    /\ \A o \in Objects : Seen(t, o) <=> Seen(s, o)
    /\ t.content["T"] # s.content["T"] => Seen(s, "T")

LEMMA WriterRewrites ==
  ASSUME ns \in Namespace, WriterStep
  PROVE  \E t : Rewritten(ns, t) /\ Writes(t)
  <1>1. ASSUME NEW n \in {"leaf", "dest"}, TakesAway(n)
        PROVE  \E t : Rewritten(ns, t) /\ Writes(t)
    <2>. DEFINE t == [Bound(n, "none") EXCEPT !.aside = @ \cup {ns.at[n]}]
    <2>1. Rewritten(ns, t)
      BY <1>1 DEF Rewritten, TakesAway, Vacant, Bound, Namespace, Seen, Names, Objects
    <2>. QED BY <2>1, <1>1 DEF TakesAway
  <1>2. ASSUME NEW n \in {"leaf", "dest"}, NEW o \in {"T", "S"}, Occupies(n, o)
        PROVE  \E t : Rewritten(ns, t) /\ Writes(t)
    <2>. DEFINE t == [Bound(n, o) EXCEPT !.aside = @ \ {o}]
    <2>1. Rewritten(ns, t)
      BY <1>2 DEF Rewritten, Occupies, Vacant, Bound, Namespace, Seen, Names, Objects
    <2>. QED BY <2>1, <1>2 DEF Occupies
  <1>3. CASE Hardlinks
    <2>. DEFINE t == [ns EXCEPT !.aside = @ \cup {ns.at["leaf"]}]
    <2>1. Rewritten(ns, t)
      BY <1>3 DEF Rewritten, Hardlinks, Vacant, Namespace, Seen, Names, Objects
    <2>. QED BY <2>1, <1>3 DEF Hardlinks
  <1>4. ASSUME NEW text \in {"OTHER", "POST"}, Edits(text)
        PROVE  \E t : Rewritten(ns, t) /\ Writes(t)
    <2>. DEFINE t == [ns EXCEPT !.content = [@ EXCEPT !["T"] = text]]
    <2>1. Rewritten(ns, t)
      BY <1>4 DEF Rewritten, Edits, Binds, Namespace, Seen, Names, Objects
    <2>. QED BY <2>1, <1>4 DEF Edits
  <1>5. \A n \in {"leaf"} \cup (IF Underway = "MOVE" THEN {"dest"} ELSE {}) : n \in {"leaf", "dest"}
    OBVIOUS
  <1>. QED BY <1>1, <1>2, <1>3, <1>4, <1>5 DEF WriterStep

LEMMA RewrittenSomewhere ==
  ASSUME NEW s, NEW t, Rewritten(s, t), NEW o \in Objects
  PROVE  Somewhere(t, o) <=> Somewhere(s, o)
  BY DEF Rewritten, Somewhere

LEMMA RewrittenIsSound ==
  ASSUME NEW op, NEW s, NEW t, Sound(op, s), Rewritten(s, t)
  PROVE  Sound(op, t)
  <1>1. \A o \in Objects : Somewhere(t, o) <=> Somewhere(s, o) BY RewrittenSomewhere
  <1>2. \A o \in Objects : Seen(t, o) <=> Seen(s, o) BY DEF Rewritten
  <1>3. Kept(op, t)
    <2>1. Seen(s, "T") => Somewhere(s, "T") BY DEF Somewhere
    <2>. QED BY <1>1, <1>2, <2>1 DEF Sound, Kept, Rewritten, Objects
  <1>4. Judged(op, t) BY DEF Sound, Judged, Rewritten, Empty
  <1>. QED BY <1>2, <1>3, <1>4 DEF Sound, Rewritten, Objects

LEMMA RewrittenIsTraced ==
  ASSUME NEW s, NEW t, Rewritten(s, t)
  PROVE  /\ Pristine(s) => Pristine(t)
         /\ \A inv : Truth(inv, s) => Truth(inv, t)
         /\ \A j : Traced(j, s) => Traced(j, t)
         /\ \A op, task, ans : Answered(op, task, ans, s) => Answered(op, task, ans, t)
         /\ \A task, ans : Reported(task, ans, s) => Reported(task, ans, t)
  <1>1. Somewhere(t, "N") <=> Somewhere(s, "N") BY RewrittenSomewhere DEF Objects
  <1>2. Seen(t, "N") <=> Seen(s, "N") BY DEF Rewritten, Objects
  <1>3. t.applied = s.applied /\ t.dir = s.dir BY DEF Rewritten
  <1>4. Empty(t) <=> Empty(s) BY DEF Rewritten, Empty
  <1>5. Pristine(s) => Pristine(t) BY <1>1, <1>3 DEF Pristine
  <1>6. \A op : (Refusable(op, s) => Refusable(op, t)) /\ (Effected(op, s) => Effected(op, t))
    BY <1>1, <1>3 DEF Refusable, Effected
  <1>7. \A op, task, ans : Answered(op, task, ans, s) => Answered(op, task, ans, t)
    BY <1>6 DEF Answered
  <1>8. \A j : Traced(j, s) => Traced(j, t) BY <1>2, <1>3, <1>4, <1>5, <1>7 DEF Traced
  <1>. QED BY <1>3, <1>5, <1>6, <1>7, <1>8 DEF Truth, Reported

LEMMA RewrittenIsDone ==
  ASSUME NEW j, NEW s, NEW t, Rewritten(s, t), Doing(j, s)
  PROVE  Doing(j, t)
  <1>1. \A o \in Objects : (Somewhere(t, o) <=> Somewhere(s, o)) /\ (Seen(t, o) <=> Seen(s, o))
    BY RewrittenSomewhere DEF Rewritten
  <1>2. /\ t.dir = s.dir /\ t.record = s.record /\ t.taken = s.taken /\ t.applied = s.applied
        /\ t.at["new"] = s.at["new"] /\ t.at["held"] = s.at["held"]
        /\ t.content["N"] = s.content["N"]
        /\ t.content["T"] # s.content["T"] => Seen(s, "T")
    BY DEF Rewritten
  <1>3. Effects(j, t) BY <1>1, <1>2 DEF Doing, Effects, Objects, Refusable
  <1>4. Proved(j, t) BY <1>1, <1>2 DEF Doing, Proved, Objects
  <1>5. Prepared(j, t) BY <1>1, <1>2 DEF Doing, Prepared, Objects, Reported
  <1>. QED BY <1>3, <1>4, <1>5 DEF Doing

-----------------------------------------------------------------------------
(* Steps of the broker *)

\* A job that goes on: what is left to show of a step of it.
LEMMA BrokerMoves ==
  ASSUME IInv, AuthorityUnmoved, Still, job.task # "NONE",
         job' \in Job, Placed(job'),
         job'.task = job.task, job'.op = job.op, job'.by = job.by,
         ns' \in onDisk', onDisk' \subseteq onDisk \cup {ns'},
         Sound(invocation.op, ns'), Truth(invocation, ns'),
         \A s \in onDisk' : Traced(job', s),
         Doing(job', ns')
  PROVE  IInv'
  <1>1. /\ invocation' = invocation /\ call' = call /\ work' = work /\ proc' = proc
        /\ staging' = staging /\ writes' = writes
    BY DEF AuthorityUnmoved, Still
  <1>2. ~Unsent /\ job # NoJob BY DEF IInv, Control, NoJob
  <1>3. Unsent' <=> Unsent BY <1>1 DEF Unsent
  <1>4. call.st = "DONE" => call.ans = "LOST" \/ (call.ans = "NOT_SENT" /\ call.task # "PERFORM")
    BY <1>2 DEF IInv, Control, Unsent
  <1>5. \A s : call.st = "DONE" => Answered(invocation.op, call.task, call.ans, s)
                                    /\ Reported(call.task, call.ans, s)
    BY <1>4 DEF Answered, Reported
  <1>6. Typed' BY <1>1 DEF IInv, Typed
  <1>7. Control' BY <1>1, <1>2, <1>3 DEF IInv, Control, NoJob
  <1>8. ASSUME NEW s \in onDisk' PROVE Disk(s)'
    <2>1. Sound(invocation.op, s) /\ Truth(invocation, s) BY <1>8 DEF IInv, Disk
    <2>2. Traced(job', s) BY <1>8
    <2>. QED BY <1>1, <1>2, <1>3, <1>5, <2>1, <2>2 DEF Disk
  <1>. QED BY <1>1, <1>5, <1>6, <1>7, <1>8 DEF IInv

\* Nothing is concluded of an invocation that is being performed.
LEMMA TruthMeanwhile ==
  ASSUME IInv, job.task = "PERFORM", NEW s
  PROVE  Truth(invocation, s)
  BY DEF IInv, Control, Truth

LEMMA JobEnds ==
  ASSUME NEW j \in Job, NEW ans \in Answers
  PROVE  LET k == [j EXCEPT !.at = "ANSWER", !.ans = ans]
         IN /\ k \in Job /\ k.at = "ANSWER" /\ k.ans = ans
            /\ k.task = j.task /\ k.op = j.op /\ k.by = j.by
  BY DEF Job, Places

\* What is known of a job and of every namespace when the broker takes a step.
LEMMA Standing ==
  ASSUME IInv, job.at # "NONE"
  PROVE  /\ job \in Job /\ Placed(job) /\ job.task # "NONE" /\ job.op = invocation.op
         /\ ns \in onDisk /\ Doing(job, ns)
         /\ \A s \in onDisk : Sound(job.op, s) /\ Truth(invocation, s) /\ Traced(job, s)
         /\ ns \in Namespace
  BY DEF IInv, Typed, Control, Disk, Placed, NoJob, Sound

\* A refusal before anything was made, or after everything was undone.
LEMMA EndsRefused ==
  ASSUME IInv, AuthorityUnmoved, Still, job.at # "NONE", job.task = "PERFORM",
         ns' = ns, ns \in onDisk', onDisk' \subseteq onDisk,
         \A s \in onDisk' : Refusable(job.op, s), Ends("REFUSED")
  PROVE  IInv'
  <1>1. /\ job \in Job /\ Placed(job) /\ job.op = invocation.op /\ ns \in onDisk
        /\ \A s \in onDisk : Sound(job.op, s)
    BY Standing
  <1>2. /\ job' \in Job /\ job'.at = "ANSWER" /\ job'.ans = "REFUSED"
        /\ job'.task = job.task /\ job'.op = job.op /\ job'.by = job.by
    BY <1>1, JobEnds DEF Ends, Answers
  <1>4. Placed(job') BY <1>1, <1>2 DEF Placed, Taking, Untaking, Removing, Ending
  <1>5. \A s \in onDisk' : Traced(job', s)
    BY <1>2 DEF Traced, Answered, Preparing, Taking, Removing, Ending
  <1>6. Doing(job', ns')
    BY <1>2 DEF Doing, Effects, Proved, Prepared, Preparing, Recorded, Proving, Taking, Untaking,
                Removing, Reported
  <1>. QED BY <1>1, <1>2, <1>4, <1>5, <1>6, BrokerMoves, TruthMeanwhile

\* An answer that says nothing.
LEMMA EndsUnsure ==
  ASSUME IInv, AuthorityUnmoved, Still, Untouched, job.at # "NONE",
         job' \in Job, job'.at = "ANSWER", job'.ans = "UNSURE",
         job'.task = job.task, job'.op = job.op, job'.by = job.by
  PROVE  IInv'
  <1>1. /\ job \in Job /\ Placed(job) /\ job.op = invocation.op /\ ns \in onDisk
        /\ job.task # "NONE"
        /\ \A s \in onDisk : Sound(job.op, s) /\ Truth(invocation, s)
    BY Standing
  <1>3. ns' = ns /\ onDisk' = onDisk BY DEF Untouched, fsVars
  <1>4. Placed(job') BY <1>1 DEF Placed, Taking, Untaking, Removing, Ending
  <1>5. \A s \in onDisk' : Traced(job', s)
    BY <1>3 DEF Traced, Answered, Preparing, Taking, Removing, Ending
  <1>6. Doing(job', ns')
    BY DEF Doing, Effects, Proved, Prepared, Preparing, Recorded, Proving, Taking, Untaking,
                Removing, Reported
  <1>. QED BY <1>1, <1>3, <1>4, <1>5, <1>6, BrokerMoves

\* A refusal that clears the staging directory: what is in it is the broker's own.
LEMMA DiscardsKeeps ==
  ASSUME IInv, AuthorityUnmoved, Still, job.at # "NONE", job.task = "PERFORM", job.op # "MOVE",
         NEW todo \in Clearing, Removes(todo, "REFUSED"),
         ns' \in onDisk', onDisk' \subseteq onDisk \cup {ns'},
         Sound(job.op, ns'), \A s \in onDisk' : s.applied = "NO", ns'.at["new"] \in {"N", "none"}
  PROVE  IInv'
  <1>1. job \in Job /\ Placed(job) /\ job.op = invocation.op BY Standing
  <1>0. todo \in Todos /\ todo # <<"new", "record">>
    BY DEF Clearing, Todos
  <1>2. /\ job' \in Job /\ job'.at = "CLEAN" /\ job'.ans = "REFUSED" /\ job'.todo = todo
        /\ job'.task = job.task /\ job'.op = job.op /\ job'.by = job.by
    BY <1>0, <1>1 DEF Removes, Answers, Job, Places, Removing
  <1>4. Placed(job')
    BY <1>0, <1>1, <1>2 DEF Placed, Taking, Untaking, Removing, Ending
  <1>5. \A s \in onDisk' : Traced(job', s)
    BY <1>2 DEF Traced, Answered, Preparing, Taking, Removing, Ending
  <1>6. Doing(job', ns')
    BY <1>0, <1>2 DEF Displacing, Doing, Effects, Proved, Prepared, Preparing, Recorded, Proving, Taking, Untaking,
                Removing, Reported
  <1>. QED BY <1>1, <1>2, <1>4, <1>5, <1>6, BrokerMoves, TruthMeanwhile

LEMMA BeginKeeps ==
  ASSUME IInv, Begin, AuthorityUnmoved, job.task = "PERFORM"
  PROVE  IInv'
  <1>. USE DEF At
  <1>0. /\ job \in Job /\ Placed(job) /\ job.op = invocation.op /\ job.at # "NONE"
        /\ ns \in onDisk /\ Doing(job, ns) /\ ns \in Namespace
        /\ \A s \in onDisk : Sound(job.op, s) /\ Traced(job, s)
    BY Standing DEF Begin, At, Placed, NoJob
  <1>s. Still BY DEF Begin
  <1>1. Untouched /\ job.at = "BEGIN" BY DEF Begin
  <1>2. CASE Ends("REFUSED")
    <2>1. \A s \in onDisk : Refusable(job.op, s)
      BY <1>0, <1>1 DEF Traced, Pristine, Refusable
    <2>. QED BY <1>0, <1>s, <1>1, <1>2, <2>1, EndsRefused DEF Untouched, fsVars
  <1>3. CASE Goes(IF job.op = "MOVE" THEN "EFFECT" ELSE "MAKE")
    <2>1. /\ job' \in Job /\ job'.at = IF job.op = "MOVE" THEN "EFFECT" ELSE "MAKE"
        /\ job'.task = job.task /\ job'.op = job.op /\ job'.by = job.by /\ job'.took = job.took
        /\ job'.seen = job.seen /\ job'.todo = job.todo /\ job'.left = job.left
        /\ job'.ans = job.ans
      BY <1>0, <1>3 DEF Goes, Job, Places, Preparing, Recorded, Proving, Taking, Untaking, Removing, Ending
    <2>2. ns' = ns /\ ns' \in onDisk' /\ onDisk' = onDisk
      BY <1>0, <1>1 DEF Untouched, fsVars
    <2>3. Sound(job.op, ns')
      BY <1>0, <1>3, <2>2
    <2>4. Placed(job') BY <1>0, <1>1, <2>1 DEF Placed, Preparing, Recorded, Proving, Taking, Untaking, Removing, Ending
    <2>5. \A s \in onDisk' : Traced(job', s)
      BY <1>0, <1>1, <2>1, <2>2 DEF Traced, Preparing, Recorded, Proving, Taking, Untaking, Removing, Ending, Pristine, Somewhere
    <2>6. Doing(job', ns')
      BY <1>0, <1>1, <2>1, <2>2 DEF Doing, Effects, Proved, Prepared, Preparing, Recorded, Proving, Taking, Untaking, Removing, Ending, Writing, Sound, Judged, Traced, Pristine, Empty
    <2>. QED BY <1>0, <1>s, <2>1, <2>2, <2>3, <2>4, <2>5, <2>6, BrokerMoves, TruthMeanwhile
  <1>. QED BY <1>2, <1>3 DEF Begin

LEMMA AlreadyAppliedKeeps ==
  ASSUME IInv, AlreadyApplied, AuthorityUnmoved, job.task = "PERFORM"
  PROVE  IInv'
  <1>. USE DEF At
  <1>0. /\ job \in Job /\ Placed(job) /\ job.op = invocation.op /\ job.at # "NONE"
        /\ ns \in onDisk /\ Doing(job, ns) /\ ns \in Namespace
        /\ \A s \in onDisk : Sound(job.op, s) /\ Traced(job, s)
    BY Standing DEF AlreadyApplied, At, Placed, NoJob
  <1>s. Still BY DEF AlreadyApplied
  <1>1. Untouched /\ job.at = "BEGIN" /\ Ends("DONE") /\ job.op = "PATCH"
    BY DEF AlreadyApplied, HoldsResult
  <1>2. /\ job' \in Job /\ job'.at = "ANSWER" /\ job'.ans = "DONE"
        /\ job'.task = job.task /\ job'.op = job.op /\ job'.by = job.by
    BY <1>0, <1>1 DEF Ends, Answers, Job, Places
  <1>3. ns' = ns /\ onDisk' = onDisk BY <1>1 DEF Untouched, fsVars
  <1>4. Placed(job') BY <1>0, <1>1, <1>2 DEF Placed, Preparing, Recorded, Proving, Taking, Untaking, Removing, Ending
  <1>5. \A s \in onDisk' : Traced(job', s)
    BY <1>0, <1>1, <1>2, <1>3 DEF Traced, Answered, Effected, Pristine, Preparing, Recorded, Proving, Taking, Untaking, Removing, Ending
  <1>6. Doing(job', ns')
    BY <1>0, <1>1, <1>2, <1>3 DEF Doing, Effects, Proved, Prepared, Reported, Traced, Pristine, Preparing, Recorded, Proving, Taking, Untaking, Removing, Ending
  <1>. QED BY <1>0, <1>s, <1>2, <1>3, <1>4, <1>5, <1>6, BrokerMoves, TruthMeanwhile

LEMMA MakeKeeps ==
  ASSUME IInv, Make, AuthorityUnmoved, job.task = "PERFORM"
  PROVE  IInv'
  <1>. USE DEF At
  <1>0. /\ job \in Job /\ Placed(job) /\ job.op = invocation.op /\ job.at # "NONE"
        /\ ns \in onDisk /\ Doing(job, ns) /\ ns \in Namespace
        /\ \A s \in onDisk : Sound(job.op, s) /\ Traced(job, s)
    BY Standing DEF Make, At, Placed, NoJob
  <1>s. Still BY DEF Make
  <1>m. job.op # "MOVE" BY <1>0 DEF Placed, Make
  <1>e. At("MAKE") => Empty(ns) BY <1>0 DEF Traced, Pristine, Sound, Judged
  <1>1. CASE At("MAKE") /\ Changes([ns EXCEPT !.dir = "FRESH"]) /\ Goes("MODE")
    <2>1. /\ job' \in Job /\ job'.at = "MODE"
        /\ job'.task = job.task /\ job'.op = job.op /\ job'.by = job.by /\ job'.took = job.took
        /\ job'.seen = job.seen /\ job'.todo = job.todo /\ job'.left = job.left
        /\ job'.ans = job.ans
      BY <1>0, <1>1 DEF Goes, Job, Places, Preparing, Recorded, Proving, Taking, Untaking, Removing, Ending
    <2>2. ns' = [ns EXCEPT !.dir = "FRESH"] /\ ns' \in onDisk' /\ onDisk' \subseteq onDisk \cup {ns'}
      BY <1>0, <1>1 DEF Changes
    <2>3. Sound(job.op, ns')
      BY <1>0, <1>1, <2>2, <1>m, <1>e, SoundDir
    <2>4. Placed(job') BY <1>0, <1>1, <2>1 DEF Placed, Preparing, Recorded, Proving, Taking, Untaking, Removing, Ending
    <2>5. \A s \in onDisk' : Traced(job', s)
      BY <1>0, <1>1, <2>1, <2>2 DEF Traced, Preparing, Recorded, Proving, Taking, Untaking, Removing, Ending, Pristine, Empty, Sound, Judged, Namespace, Seen, Somewhere
    <2>6. Doing(job', ns')
      BY <1>0, <1>1, <2>1, <2>2 DEF Doing, Effects, Proved, Prepared, Preparing, Recorded, Proving, Taking, Untaking, Removing, Ending, Namespace
    <2>. QED BY <1>0, <1>s, <2>1, <2>2, <2>3, <2>4, <2>5, <2>6, BrokerMoves, TruthMeanwhile
  <1>2. CASE At("MODE") /\ Changes([ns EXCEPT !.dir = "OURS"]) /\ Goes("MADE")
    <2>1. /\ job' \in Job /\ job'.at = "MADE"
        /\ job'.task = job.task /\ job'.op = job.op /\ job'.by = job.by /\ job'.took = job.took
        /\ job'.seen = job.seen /\ job'.todo = job.todo /\ job'.left = job.left
        /\ job'.ans = job.ans
      BY <1>0, <1>2 DEF Goes, Job, Places, Preparing, Recorded, Proving, Taking, Untaking, Removing, Ending
    <2>2. ns' = [ns EXCEPT !.dir = "OURS"] /\ ns' \in onDisk' /\ onDisk' \subseteq onDisk \cup {ns'}
      BY <1>0, <1>2 DEF Changes
    <2>3. Sound(job.op, ns')
      BY <1>0, <1>2, <2>2, <1>m, SoundDir DEF Traced, Preparing
    <2>4. Placed(job') BY <1>0, <1>2, <2>1 DEF Placed, Preparing, Recorded, Proving, Taking, Untaking, Removing, Ending
    <2>5. \A s \in onDisk' : Traced(job', s)
      BY <1>0, <1>2, <2>1, <2>2 DEF Traced, Preparing, Recorded, Proving, Taking, Untaking, Removing, Ending, Empty, Namespace, Seen
    <2>6. Doing(job', ns')
      BY <1>0, <1>2, <2>1, <2>2 DEF Doing, Effects, Proved, Prepared, Preparing, Recorded, Proving, Taking, Untaking, Removing, Ending, Namespace
    <2>. QED BY <1>0, <1>s, <2>1, <2>2, <2>3, <2>4, <2>5, <2>6, BrokerMoves, TruthMeanwhile
  <1>3. CASE At("MADE") /\ Synced /\ Goes(IF job.op = "DELETE" THEN "RECORD" ELSE "NEW")
    <2>1. /\ job' \in Job /\ job'.at = IF job.op = "DELETE" THEN "RECORD" ELSE "NEW"
        /\ job'.task = job.task /\ job'.op = job.op /\ job'.by = job.by /\ job'.took = job.took
        /\ job'.seen = job.seen /\ job'.todo = job.todo /\ job'.left = job.left
        /\ job'.ans = job.ans
      BY <1>0, <1>3 DEF Goes, Job, Places, Preparing, Recorded, Proving, Taking, Untaking, Removing, Ending
    <2>2. ns' = ns /\ ns' \in onDisk' /\ onDisk' = {ns'}
      BY <1>0, <1>3 DEF Commits, Synced
    <2>3. Sound(job.op, ns')
      BY <1>0, <1>3, <2>2
    <2>4. Placed(job') BY <1>0, <1>m, <1>3, <2>1 DEF Placed, Preparing, Recorded, Proving, Taking, Untaking, Removing, Ending
    <2>5. \A s \in onDisk' : Traced(job', s)
      BY <1>0, <1>3, <2>1, <2>2 DEF Traced, Preparing, Recorded, Proving, Taking, Untaking, Removing, Ending, Empty
    <2>6. Doing(job', ns')
      BY <1>0, <1>3, <2>1, <2>2 DEF Doing, Effects, Proved, Prepared, Preparing, Recorded, Proving, Taking, Untaking, Removing, Ending, Writing, Empty, Traced
    <2>. QED BY <1>0, <1>s, <2>1, <2>2, <2>3, <2>4, <2>5, <2>6, BrokerMoves, TruthMeanwhile
  <1>4. CASE (At("MAKE") \/ At("MODE")) /\ Untouched /\ Ends("REFUSED")
    <2>1. \A s \in onDisk : Refusable(job.op, s)
      BY <1>0, <1>4 DEF Traced, Pristine, Refusable, Preparing
    <2>. QED BY <1>0, <1>s, <1>4, <2>1, EndsRefused DEF Untouched, fsVars
  <1>5. CASE At("MADE") /\ Untouched /\ Removes(<<>>, "REFUSED")
    <2>1. /\ ns' = ns /\ onDisk' = onDisk
          /\ \A s \in onDisk' : s.applied = "NO"
          /\ ns'.at["new"] \in {"N", "none"}
      BY <1>0, <1>5 DEF Untouched, fsVars, Traced, Preparing, Empty
    <2>2. <<>> \in Clearing BY DEF Clearing
    <2>. QED BY <1>0, <1>s, <1>m, <1>5, <2>1, <2>2, DiscardsKeeps
  <1>. QED BY <1>1, <1>2, <1>3, <1>4, <1>5 DEF Make

LEMMA WriteNewKeeps ==
  ASSUME IInv, WriteNew, AuthorityUnmoved, job.task = "PERFORM"
  PROVE  IInv'
  <1>. USE DEF At
  <1>0. /\ job \in Job /\ Placed(job) /\ job.op = invocation.op /\ job.at # "NONE"
        /\ ns \in onDisk /\ Doing(job, ns) /\ ns \in Namespace
        /\ \A s \in onDisk : Sound(job.op, s) /\ Traced(job, s)
    BY Standing DEF WriteNew, At, Placed, NoJob
  <1>s. Still BY DEF WriteNew
  <1>w. job.op \in Writing /\ job.op # "MOVE" BY <1>0 DEF Placed, WriteNew, Writing, Job, Operations
  <1>d. ns.dir = "OURS" /\ ~Seen(ns, "N")
    BY <1>0, <1>w DEF WriteNew, Doing, Prepared, Traced, Preparing
  <1>n. At("NEW") => Empty(ns) /\ ns.at["new"] = "none" BY <1>0 DEF Traced, Empty
  <1>1. CASE At("NEW") /\ Changes(Bound("new", "N")) /\ Goes("WRITE")
    <2>1. /\ job' \in Job /\ job'.at = "WRITE"
        /\ job'.task = job.task /\ job'.op = job.op /\ job'.by = job.by /\ job'.took = job.took
        /\ job'.seen = job.seen /\ job'.todo = job.todo /\ job'.left = job.left
        /\ job'.ans = job.ans
      BY <1>0, <1>1 DEF Goes, Job, Places, Preparing, Recorded, Proving, Taking, Untaking, Removing, Ending
    <2>2. ns' = Bound("new", "N") /\ ns' \in onDisk' /\ onDisk' \subseteq onDisk \cup {ns'}
      BY <1>0, <1>1 DEF Changes
    <2>3. Sound(job.op, ns')
      BY <1>0, <1>1, <2>2, <1>w, <1>d, <1>n, SoundNew DEF Bound
    <2>4. Placed(job') BY <1>0, <1>1, <2>1 DEF Placed, Preparing, Recorded, Proving, Taking, Untaking, Removing, Ending
    <2>5. \A s \in onDisk' : Traced(job', s)
      BY <1>0, <1>1, <2>1, <2>2 DEF Traced, Preparing, Recorded, Proving, Taking, Untaking, Removing, Ending, Bound, Namespace, Seen, Names
    <2>6. Doing(job', ns')
      BY <1>0, <1>1, <1>w, <1>d, <1>n, <2>1, <2>2 DEF Doing, Effects, Proved, Prepared, Preparing, Recorded, Proving, Taking, Untaking, Removing, Ending, Bound, Namespace, Names, Writing, Empty
    <2>. QED BY <1>0, <1>s, <2>1, <2>2, <2>3, <2>4, <2>5, <2>6, BrokerMoves, TruthMeanwhile
  <1>2. CASE At("WRITE") /\ Changes(Content("CACHED")) /\ Goes("FSYNC")
    <2>1. /\ job' \in Job /\ job'.at = "FSYNC"
        /\ job'.task = job.task /\ job'.op = job.op /\ job'.by = job.by /\ job'.took = job.took
        /\ job'.seen = job.seen /\ job'.todo = job.todo /\ job'.left = job.left
        /\ job'.ans = job.ans
      BY <1>0, <1>2 DEF Goes, Job, Places, Preparing, Recorded, Proving, Taking, Untaking, Removing, Ending
    <2>2. ns' = Content("CACHED") /\ ns' \in onDisk' /\ onDisk' \subseteq onDisk \cup {ns'}
      BY <1>0, <1>2 DEF Changes
    <2>3. Sound(job.op, ns')
      BY <1>0, <1>2, <2>2, <1>d, SoundContent DEF Content
    <2>4. Placed(job') BY <1>0, <1>2, <2>1 DEF Placed, Preparing, Recorded, Proving, Taking, Untaking, Removing, Ending
    <2>5. \A s \in onDisk' : Traced(job', s)
      BY <1>0, <1>2, <2>1, <2>2 DEF Traced, Preparing, Recorded, Proving, Taking, Untaking, Removing, Ending, Content, Namespace, Seen
    <2>6. Doing(job', ns')
      BY <1>0, <1>2, <2>1, <2>2 DEF Doing, Effects, Proved, Prepared, Preparing, Recorded, Proving, Taking, Untaking, Removing, Ending, Content, Namespace
    <2>. QED BY <1>0, <1>s, <2>1, <2>2, <2>3, <2>4, <2>5, <2>6, BrokerMoves, TruthMeanwhile
  <1>3. CASE At("FSYNC") /\ Written /\ Goes("RECORD")
    <2>1. /\ job' \in Job /\ job'.at = "RECORD"
        /\ job'.task = job.task /\ job'.op = job.op /\ job'.by = job.by /\ job'.took = job.took
        /\ job'.seen = job.seen /\ job'.todo = job.todo /\ job'.left = job.left
        /\ job'.ans = job.ans
      BY <1>0, <1>3 DEF Goes, Job, Places, Preparing, Recorded, Proving, Taking, Untaking, Removing, Ending
    <2>2. ns' = Content("POST") /\ ns' \in onDisk' /\ onDisk' = {ns'}
      BY <1>0, <1>3 DEF Commits, Written
    <2>3. Sound(job.op, ns')
      BY <1>0, <1>3, <2>2, <1>d, SoundContent DEF Content
    <2>4. Placed(job') BY <1>0, <1>3, <2>1 DEF Placed, Preparing, Recorded, Proving, Taking, Untaking, Removing, Ending
    <2>5. \A s \in onDisk' : Traced(job', s)
      BY <1>0, <1>3, <2>1, <2>2 DEF Traced, Preparing, Recorded, Proving, Taking, Untaking, Removing, Ending, Content, Namespace, Seen
    <2>6. Doing(job', ns')
      BY <1>0, <1>3, <2>1, <2>2 DEF Doing, Effects, Proved, Prepared, Preparing, Recorded, Proving, Taking, Untaking, Removing, Ending, Content, Namespace
    <2>. QED BY <1>0, <1>s, <2>1, <2>2, <2>3, <2>4, <2>5, <2>6, BrokerMoves, TruthMeanwhile
  <1>4. CASE (At("NEW") \/ At("WRITE") \/ At("FSYNC")) /\ Untouched /\ Discards
    <2>1. /\ ns' = ns /\ onDisk' = onDisk
          /\ \A s \in onDisk' : s.applied = "NO"
          /\ ns'.at["new"] \in {"N", "none"}
      BY <1>0, <1>4, <1>n, <1>w DEF Untouched, fsVars, Traced, Doing, Prepared, Preparing
    <2>2. <<"record", "new">> \in Clearing BY DEF Clearing
    <2>. QED BY <1>0, <1>s, <1>w, <1>4, <2>1, <2>2, DiscardsKeeps DEF Discards
  <1>. QED BY <1>1, <1>2, <1>3, <1>4 DEF WriteNew

LEMMA RecordKeeps ==
  ASSUME IInv, Record, AuthorityUnmoved, job.task = "PERFORM"
  PROVE  IInv'
  <1>. USE DEF At
  <1>0. /\ job \in Job /\ Placed(job) /\ job.op = invocation.op /\ job.at # "NONE"
        /\ ns \in onDisk /\ Doing(job, ns) /\ ns \in Namespace
        /\ \A s \in onDisk : Sound(job.op, s) /\ Traced(job, s)
    BY Standing DEF Record, At, Placed, NoJob
  <1>s. Still BY DEF Record
  <1>w. job.op # "MOVE" BY <1>0 DEF Placed, Record
  <1>d. /\ ns.dir = "OURS" /\ ns.at["new"] \in {"N", "none"}
        /\ \A s \in onDisk : s.applied = "NO" /\ ~Seen(s, "N")
    BY <1>0, <1>w DEF Record, Doing, Prepared, Traced, Preparing
  <1>c. <<"record", "new">> \in Clearing BY DEF Clearing
  <1>1. CASE At("RECORD") /\ Changes([ns EXCEPT !.record = "PARTIAL"]) /\ Goes("FILL")
    <2>1. /\ job' \in Job /\ job'.at = "FILL"
        /\ job'.task = job.task /\ job'.op = job.op /\ job'.by = job.by /\ job'.took = job.took
        /\ job'.seen = job.seen /\ job'.todo = job.todo /\ job'.left = job.left
        /\ job'.ans = job.ans
      BY <1>0, <1>1 DEF Goes, Job, Places, Preparing, Recorded, Proving, Taking, Untaking, Removing, Ending
    <2>2. ns' = [ns EXCEPT !.record = "PARTIAL"] /\ ns' \in onDisk' /\ onDisk' \subseteq onDisk \cup {ns'}
      BY <1>0, <1>1 DEF Changes
    <2>3. Sound(job.op, ns')
      BY <1>0, <1>1, <2>2, <1>d, SoundRecord
    <2>4. Placed(job') BY <1>0, <1>1, <2>1 DEF Placed, Preparing, Recorded, Proving, Taking, Untaking, Removing, Ending
    <2>5. \A s \in onDisk' : Traced(job', s)
      BY <1>0, <1>1, <2>1, <2>2 DEF Traced, Preparing, Recorded, Proving, Taking, Untaking, Removing, Ending, Namespace, Seen
    <2>6. Doing(job', ns')
      BY <1>0, <1>1, <2>1, <2>2 DEF Doing, Effects, Proved, Prepared, Preparing, Recorded, Proving, Taking, Untaking, Removing, Ending, Namespace
    <2>. QED BY <1>0, <1>s, <2>1, <2>2, <2>3, <2>4, <2>5, <2>6, BrokerMoves, TruthMeanwhile
  <1>2. CASE At("RECORD") /\ Untouched /\ Discards
    <2>1. ns' = ns /\ onDisk' = onDisk BY <1>2 DEF Untouched, fsVars
    <2>. QED BY <1>0, <1>s, <1>w, <1>d, <1>c, <1>2, <2>1, DiscardsKeeps DEF Discards
  <1>3. CASE At("FILL") /\ Commits([ns EXCEPT !.record = "COMPLETE"]) /\ Goes("CHECK")
    <2>1. /\ job' \in Job /\ job'.at = "CHECK"
        /\ job'.task = job.task /\ job'.op = job.op /\ job'.by = job.by /\ job'.took = job.took
        /\ job'.seen = job.seen /\ job'.todo = job.todo /\ job'.left = job.left
        /\ job'.ans = job.ans
      BY <1>0, <1>3 DEF Goes, Job, Places, Preparing, Recorded, Proving, Taking, Untaking, Removing, Ending
    <2>2. ns' = [ns EXCEPT !.record = "COMPLETE"] /\ ns' \in onDisk' /\ onDisk' = {ns'}
      BY <1>0, <1>3 DEF Commits
    <2>3. Sound(job.op, ns')
      BY <1>0, <1>3, <2>2, <1>d, SoundRecord
    <2>4. Placed(job') BY <1>0, <1>3, <2>1 DEF Placed, Preparing, Recorded, Proving, Taking, Untaking, Removing, Ending
    <2>5. \A s \in onDisk' : Traced(job', s)
      BY <1>0, <1>3, <2>1, <2>2 DEF Traced, Preparing, Recorded, Proving, Taking, Untaking, Removing, Ending, Namespace, Seen
    <2>6. Doing(job', ns')
      BY <1>0, <1>3, <2>1, <2>2 DEF Doing, Effects, Proved, Prepared, Preparing, Recorded, Proving, Taking, Untaking, Removing, Ending, Namespace
    <2>. QED BY <1>0, <1>s, <2>1, <2>2, <2>3, <2>4, <2>5, <2>6, BrokerMoves, TruthMeanwhile
  <1>4. ASSUME NEW r \in {"PARTIAL", "COMPLETE"}, At("FILL"), Goes("UNRECORD"),
               Changes([ns EXCEPT !.record = r])
        PROVE  IInv'
    <2>1. /\ job' \in Job /\ job'.at = "UNRECORD"
        /\ job'.task = job.task /\ job'.op = job.op /\ job'.by = job.by /\ job'.took = job.took
        /\ job'.seen = job.seen /\ job'.todo = job.todo /\ job'.left = job.left
        /\ job'.ans = job.ans
      BY <1>0, <1>4 DEF Goes, Job, Places, Preparing, Recorded, Proving, Taking, Untaking, Removing, Ending
    <2>2. ns' = [ns EXCEPT !.record = r] /\ ns' \in onDisk' /\ onDisk' \subseteq onDisk \cup {ns'}
      BY <1>0, <1>4 DEF Changes
    <2>3. Sound(job.op, ns')
      BY <1>0, <1>4, <2>2, <1>d, SoundRecord
    <2>4. Placed(job') BY <1>0, <1>4, <2>1 DEF Placed, Preparing, Recorded, Proving, Taking, Untaking, Removing, Ending
    <2>5. \A s \in onDisk' : Traced(job', s)
      BY <1>0, <1>4, <2>1, <2>2 DEF Traced, Preparing, Recorded, Proving, Taking, Untaking, Removing, Ending, Namespace, Seen
    <2>6. Doing(job', ns')
      BY <1>0, <1>4, <2>1, <2>2 DEF Doing, Effects, Proved, Prepared, Preparing, Recorded, Proving, Taking, Untaking, Removing, Ending, Namespace
    <2>. QED BY <1>0, <1>s, <2>1, <2>2, <2>3, <2>4, <2>5, <2>6, BrokerMoves, TruthMeanwhile
  <1>5. CASE At("UNRECORD") /\ Discards /\ (Changes([ns EXCEPT !.record = "NONE"])
                                               \/ Commits([ns EXCEPT !.record = "NONE"]))
    <2>1. /\ ns' = [ns EXCEPT !.record = "NONE"] /\ ns' \in onDisk'
          /\ onDisk' \subseteq onDisk \cup {ns'}
      BY <1>0, <1>5 DEF Changes, Commits
    <2>2. Sound(job.op, ns') BY <1>0, <1>d, <2>1, SoundRecord
    <2>3. ns'.at = ns.at /\ ns'.applied = ns.applied BY <1>0, <2>1 DEF Namespace
    <2>4. \A s \in onDisk' : s.applied = "NO" BY <1>0, <1>d, <2>1, <2>3
    <2>. QED BY <1>0, <1>s, <1>w, <1>d, <1>c, <1>5, <2>1, <2>2, <2>3, <2>4, DiscardsKeeps DEF Discards
  <1>6. CASE At("UNRECORD") /\ Discards /\ Untouched
    <2>1. ns' = ns /\ onDisk' = onDisk BY <1>6 DEF Untouched, fsVars
    <2>. QED BY <1>0, <1>s, <1>w, <1>d, <1>c, <1>6, <2>1, DiscardsKeeps DEF Discards
  <1>. QED BY <1>1, <1>2, <1>3, <1>4, <1>5, <1>6 DEF Record

LEMMA CheckKeeps ==
  ASSUME IInv, Check, AuthorityUnmoved, job.task = "PERFORM"
  PROVE  IInv'
  <1>. USE DEF At
  <1>0. /\ job \in Job /\ Placed(job) /\ job.op = invocation.op /\ job.at # "NONE"
        /\ ns \in onDisk /\ Doing(job, ns) /\ ns \in Namespace
        /\ \A s \in onDisk : Sound(job.op, s) /\ Traced(job, s)
    BY Standing DEF Check, At, Placed, NoJob
  <1>s. Still BY DEF Check
  <1>w. job.op # "MOVE" /\ Untouched BY <1>0 DEF Placed, Check
  <1>1. CASE At("CHECK") /\ Goes("EFFECT")
    <2>1. /\ job' \in Job /\ job'.at = "EFFECT"
        /\ job'.task = job.task /\ job'.op = job.op /\ job'.by = job.by /\ job'.took = job.took
        /\ job'.seen = job.seen /\ job'.todo = job.todo /\ job'.left = job.left
        /\ job'.ans = job.ans
      BY <1>0, <1>1 DEF Goes, Job, Places, Preparing, Recorded, Proving, Taking, Untaking, Removing, Ending
    <2>2. ns' = ns /\ ns' \in onDisk' /\ onDisk' = onDisk
      BY <1>0, <1>w DEF Untouched, fsVars
    <2>3. Sound(job.op, ns')
      BY <1>0, <1>1, <2>2
    <2>4. Placed(job') BY <1>0, <1>1, <2>1 DEF Placed, Preparing, Recorded, Proving, Taking, Untaking, Removing, Ending
    <2>5. \A s \in onDisk' : Traced(job', s)
      BY <1>0, <1>1, <2>1, <2>2 DEF Traced, Preparing, Recorded, Proving, Taking, Untaking, Removing, Ending
    <2>6. Doing(job', ns')
      BY <1>0, <1>1, <2>1, <2>2 DEF Doing, Effects, Proved, Prepared, Preparing, Recorded, Proving, Taking, Untaking, Removing, Ending
    <2>. QED BY <1>0, <1>s, <2>1, <2>2, <2>3, <2>4, <2>5, <2>6, BrokerMoves, TruthMeanwhile
  <1>2. CASE At("CHECK") /\ Discards
    <2>1. /\ ns' = ns /\ onDisk' = onDisk
          /\ \A s \in onDisk' : s.applied = "NO"
          /\ ns'.at["new"] \in {"N", "none"}
      BY <1>0, <1>2, <1>w DEF Untouched, fsVars, Traced, Doing, Prepared, Preparing
    <2>2. <<"record", "new">> \in Clearing BY DEF Clearing
    <2>. QED BY <1>0, <1>s, <1>w, <1>2, <2>1, <2>2, DiscardsKeeps DEF Discards
  <1>. QED BY <1>1, <1>2 DEF Check

LEMMA EffectKeeps ==
  ASSUME IInv, Effect, AuthorityUnmoved, job.task = "PERFORM"
  PROVE  IInv'
  <1>. USE DEF At
  <1>0. /\ job \in Job /\ Placed(job) /\ job.op = invocation.op /\ job.at # "NONE"
        /\ ns \in onDisk /\ Doing(job, ns) /\ ns \in Namespace
        /\ \A s \in onDisk : Sound(job.op, s) /\ Traced(job, s)
    BY Standing DEF Effect, At, Placed, NoJob
  <1>s. Still BY DEF Effect
  <1>1. job.at = "EFFECT" BY DEF Effect
  <1>. DEFINE from == Source(job.op)
              to == Target(job.op)
  <1>2. /\ \A s \in onDisk : s.applied = "NO" /\ ~Seen(s, "N")
        /\ ns.at["new"] = (IF job.op \in Writing THEN "N" ELSE "none") /\ ns.at["held"] = "none"
        /\ job.op # "MOVE" => ns.dir = "OURS"
        /\ job.op \in Writing => ns.content["N"] = "POST" /\ ns.record = "COMPLETE"
    BY <1>0, <1>1 DEF Traced, Doing, Prepared, Preparing, Recorded
  <1>3. CASE /\ Renames(from, to, job.op)
             /\ Changes([ns EXCEPT !.at = Swapped(from, to), !.applied = "YES"])
             /\ job' = [job EXCEPT !.at = IF job.op = "CREATE" THEN "SYNC" ELSE "PROVE",
                                   !.took = ns.at["leaf"]]
    <2>1. job.op \in Operations BY <1>0 DEF Job, Placed
    <2>2. /\ from \in Names /\ to \in Names /\ from # to
          /\ job.op \in Writing => from = "new" /\ to = "leaf"
          /\ job.op = "DELETE" => from = "leaf" /\ to = "held"
          /\ job.op = "MOVE" => from = "leaf" /\ to = "dest"
          /\ job.op \in Writing \cup {"DELETE", "MOVE"}
      BY <2>1 DEF Source, Target, Names, Writing, Operations
    <2>. HIDE DEF from, to
    <2>3. ns.at["leaf"] \in Objects \cup {"none"} /\ ns.at["leaf"] # "N"
      BY <1>0, <1>2 DEF Namespace, Names, Seen
    <2>4. /\ job.op = "CREATE" => ns.at["leaf"] = "none"
          /\ job.op # "CREATE" => ns.at["leaf"] \in {"T", "S"}
      BY <1>3, <2>2, <2>3 DEF Renames, Exchanges, Vacant, Objects, Writing
    <2>5. /\ ns' = Swap(ns, from, to, "YES") /\ ns' \in onDisk' /\ onDisk' \subseteq onDisk \cup {ns'}
      BY <1>3 DEF Changes, Swapped, Swap
    <2>6. /\ ns'.at[from] = ns.at[to] /\ ns'.at[to] = ns.at[from]
          /\ \A n \in Names \ {from, to} : ns'.at[n] = ns.at[n]
          /\ ns'.aside = ns.aside /\ ns'.content = ns.content /\ ns'.dir = ns.dir
          /\ ns'.record = ns.record /\ ns'.taken = ns.taken /\ ns'.applied = "YES"
      BY <1>0, <2>2, <2>5 DEF Swap, Namespace
    <2>7. Sound(job.op, ns')
      <3>1. Sound(job.op, Swap(ns, from, to, "YES"))
        <4>1. CASE job.op \in Writing BY <4>1, <1>0, <1>2, <2>2, <2>3, <2>4, SoundEffect
        <4>2. CASE job.op = "DELETE" BY <4>2, <1>0, <1>2, <2>2, <2>3, <2>4, SoundEffect
        <4>3. CASE job.op = "MOVE" BY <4>3, <1>0, <1>2, <2>2, <2>3, <2>4, SoundEffect
        <4>. QED BY <4>1, <4>2, <4>3, <2>2
      <3>. QED BY <3>1, <2>5
    <2>. DEFINE where == IF job.op = "CREATE" THEN "SYNC" ELSE "PROVE"
    <2>w. where \in Places BY DEF Places, Recorded
    <2>8. /\ job' \in Job /\ job'.at = where
          /\ job'.took = ns.at["leaf"]
          /\ job'.task = job.task /\ job'.op = job.op /\ job'.by = job.by
      <3>1. job' = [job EXCEPT !.at = where, !.took = ns.at["leaf"]] BY <1>3
      <3>. HIDE DEF where
      <3>. QED BY <1>0, <2>3, <2>w, <3>1 DEF Job
    <2>9. Placed(job') BY <1>0, <1>1, <2>8 DEF Placed, Preparing, Recorded, Proving, Taking, Untaking, Removing, Ending
    <2>10. \A s \in onDisk' : Traced(job', s) BY <2>8 DEF Traced, Preparing, Recorded, Proving, Taking, Untaking, Removing, Ending
    <2>11. Effects(job', ns')
      <3>1. Somewhere(ns, "T") BY <1>0, <1>2 DEF Sound, Kept
      <3>2. Somewhere(ns', "T") BY <3>1, <2>2, <2>6 DEF Somewhere, Seen, Names
      <3>3. job.op \in Exchanging => Seen(ns', "N") /\ ns'.at["new"] = ns.at["leaf"]
        BY <1>2, <2>2, <2>6 DEF Exchanging, Writing, Seen
      <3>4. job.op = "DELETE" => ns'.at["held"] = ns.at["leaf"] BY <2>2, <2>6
      <3>. QED BY <2>4, <2>6, <2>8, <3>2, <3>3, <3>4 DEF Effects, Exchanging, Preparing, Recorded, Proving, Taking, Untaking, Removing, Ending
    <2>12. Proved(job', ns') BY <2>8 DEF Proved, Exchanging, Preparing, Recorded, Proving, Taking, Untaking, Removing, Ending
    <2>13. Prepared(job', ns')
      <3>1. job.op = "CREATE" => ns'.at["new"] = "none" BY <2>2, <2>4, <2>6 DEF Writing
      <3>. QED BY <1>2, <2>6, <2>8, <3>1 DEF Prepared, Preparing, Recorded, Proving, Taking, Untaking, Removing, Ending
    <2>. QED
      BY <1>0, <1>s, <2>5, <2>7, <2>8, <2>9, <2>10, <2>11, <2>12, <2>13, BrokerMoves, TruthMeanwhile
      DEF Doing
  <1>4. CASE Untouched /\ Ends("UNSURE")
    <2>1. /\ job' \in Job /\ job'.at = "ANSWER" /\ job'.ans = "UNSURE"
          /\ job'.task = job.task /\ job'.op = job.op /\ job'.by = job.by
      BY <1>0, <1>4 DEF Ends, Answers, Job, Places
    <2>. QED BY <1>0, <1>s, <1>4, <2>1, EndsUnsure
  <1>5. CASE Untouched /\ Refuses
    <2>1. ns' = ns /\ onDisk' = onDisk BY <1>5 DEF Untouched, fsVars
    <2>2. CASE job.op = "MOVE"
      <3>1. \A s \in onDisk : Refusable(job.op, s) BY <1>2 DEF Refusable
      <3>. QED BY <1>0, <1>s, <1>5, <2>2, <3>1, EndsRefused DEF Refuses, Untouched, fsVars
    <2>3. CASE job.op # "MOVE"
      <3>1. <<"record", "new">> \in Clearing BY DEF Clearing
      <3>. QED BY <1>0, <1>s, <1>2, <1>5, <2>1, <2>3, <3>1, DiscardsKeeps DEF Refuses, Discards
    <2>. QED BY <2>2, <2>3
  <1>. QED BY <1>3, <1>4, <1>5 DEF Effect

LEMMA ProveKeeps ==
  ASSUME IInv, Prove, AuthorityUnmoved, job.task = "PERFORM"
  PROVE  IInv'
  <1>. USE DEF At
  <1>0. /\ job \in Job /\ Placed(job) /\ job.op = invocation.op /\ job.at # "NONE"
        /\ ns \in onDisk /\ Doing(job, ns) /\ ns \in Namespace
        /\ \A s \in onDisk : Sound(job.op, s) /\ Traced(job, s)
    BY Standing DEF Prove, At, Placed, NoJob
  <1>s. Still BY DEF Prove
  <1>1. job.at = "PROVE" /\ Untouched BY DEF Prove
  <1>2. ns' = ns /\ onDisk' = onDisk BY <1>1 DEF Untouched, fsVars
  <1>3. /\ ns.applied = "YES" /\ Somewhere(ns, "T")
        /\ job.op \in Exchanging => Seen(ns, "N") /\ ns.at["new"] = job.took /\ job.took \in {"T", "S"}
        /\ job.op = "DELETE" => ns.at["held"] = job.took /\ job.took \in {"T", "S"}
        /\ job.op # "MOVE" => ns.dir = "OURS"
        /\ job.op \in Writing => ns.record = "COMPLETE"
        /\ job.op # "CREATE"
    BY <1>0, <1>1 DEF Doing, Effects, Prepared, Placed, Proving, Recorded
  <1>4. CASE Intact(job.op) /\ Goes("SYNC")
    <2>1. /\ job' \in Job /\ job'.at = "SYNC"
        /\ job'.task = job.task /\ job'.op = job.op /\ job'.by = job.by /\ job'.took = job.took
        /\ job'.seen = job.seen /\ job'.todo = job.todo /\ job'.left = job.left
        /\ job'.ans = job.ans
      BY <1>0, <1>4 DEF Goes, Job, Places, Preparing, Recorded, Proving, Taking, Untaking, Removing, Ending
    <2>2. job.op \in Exchanging => /\ ns.at["new"] = "T" /\ ~Seen(ns, "T")
                                   /\ job.op = "PATCH" => ns.content["T"] = "BASE"
      BY <1>4, OneLink DEF Intact, Exchanging, Exchanges, Binds, Displaced, Unchanged
    <2>3. job.op = "DELETE" => ns.at["held"] = "T" BY <1>4 DEF Intact, Binds, Displaced
    <2>4. Placed(job') BY <1>0, <1>1, <2>1 DEF Placed, Preparing, Recorded, Proving, Taking, Untaking, Removing, Ending
    <2>5. \A s \in onDisk' : Traced(job', s) BY <2>1 DEF Traced, Preparing, Recorded, Proving, Taking, Untaking, Removing, Ending
    <2>6. Doing(job', ns')
      <3>1. Effects(job', ns') BY <1>2, <1>3, <2>1 DEF Effects, Preparing, Recorded, Proving, Taking, Untaking, Removing, Ending
      <3>2. Proved(job', ns')
        <4>1. job'.at = "SYNC" /\ job'.op = job.op BY <2>1
        <4>. QED BY <1>2, <1>3, <4>1, <2>2, <2>3 DEF Proved, Taking, Removing
      <3>3. Prepared(job', ns') BY <1>2, <1>3, <2>1 DEF Prepared, Preparing, Recorded, Proving, Taking, Untaking, Removing, Ending
      <3>. QED BY <3>1, <3>2, <3>3 DEF Doing
    <2>. QED BY <1>0, <1>s, <1>2, <2>1, <2>4, <2>5, <2>6, BrokerMoves, TruthMeanwhile
  <1>5. CASE /\ ~Vacant(Displaced(job.op))
             /\ job' = [job EXCEPT !.at = IF job.op = "DELETE" THEN "UNMARK" ELSE "RESTORE",
                                   !.seen = ns.at[Displaced(job.op)]]
    <2>1. ns.at[Displaced(job.op)] \in Objects \cup {"none"}
      BY <1>0 DEF Displaced, Namespace, Names
    <2>. DEFINE where == IF job.op = "DELETE" THEN "UNMARK" ELSE "RESTORE"
                was == ns.at[Displaced(job.op)]
    <2>w. where \in Places BY DEF Places, Recorded, Untaking
    <2>2. /\ job' \in Job /\ job'.at = where
          /\ job'.took = job.took /\ job'.seen = was
          /\ job'.task = job.task /\ job'.op = job.op /\ job'.by = job.by
      <3>1. job' = [job EXCEPT !.at = where, !.seen = was] BY <1>5
      <3>2. was \in Objects \cup {"none"} BY <2>1
      <3>. HIDE DEF where, was
      <3>. QED BY <1>0, <2>w, <3>1, <3>2 DEF Job
    <2>4. Placed(job') BY <1>0, <1>1, <2>2 DEF Placed, Preparing, Recorded, Proving, Taking, Untaking, Removing, Ending
    <2>5. \A s \in onDisk' : Traced(job', s) BY <2>2 DEF Traced, Preparing, Recorded, Proving, Taking, Untaking, Removing, Ending
    <2>6. Doing(job', ns')
      BY <1>2, <1>3, <2>2 DEF Doing, Effects, Proved, Prepared, Preparing, Recorded, Proving, Taking, Untaking, Removing, Ending
    <2>. QED BY <1>0, <1>s, <1>2, <2>2, <2>4, <2>5, <2>6, BrokerMoves, TruthMeanwhile
  <1>6. CASE Ends("UNSURE")
    <2>1. /\ job' \in Job /\ job'.at = "ANSWER" /\ job'.ans = "UNSURE"
          /\ job'.task = job.task /\ job'.op = job.op /\ job'.by = job.by
      BY <1>0, <1>6 DEF Ends, Answers, Job, Places
    <2>. QED BY <1>0, <1>s, <1>1, <2>1, EndsUnsure
  <1>. QED BY <1>4, <1>5, <1>6 DEF Prove

LEMMA RestoreKeeps ==
  ASSUME IInv, Restore, AuthorityUnmoved, job.task = "PERFORM"
  PROVE  IInv'
  <1>. USE DEF At
  <1>0. /\ job \in Job /\ Placed(job) /\ job.op = invocation.op /\ job.at # "NONE"
        /\ ns \in onDisk /\ Doing(job, ns) /\ ns \in Namespace
        /\ \A s \in onDisk : Sound(job.op, s) /\ Traced(job, s)
    BY Standing DEF Restore, At, Placed, NoJob
  <1>s. Still BY DEF Restore
  <1>. DEFINE from == Displaced(job.op)
              other == IF Exchanges(job.op) THEN "N" ELSE "none"
              x == IF Binds(from, job.took) THEN "NO" ELSE "MIXED"
  <1>1. /\ job.op \in Exchanging \cup {"DELETE", "MOVE"} /\ from \in Names
        /\ job.op \in Exchanging => from = "new"
        /\ job.op = "DELETE" => from = "held"
        /\ job.op = "MOVE" => from = "dest"
        /\ job.op \in Exchanging <=> Exchanges(job.op)
    BY <1>0 DEF Restore, Placed, Job, Operations, Exchanging, Displaced, Names, Exchanges
  <1>2. CASE /\ At("RESTORE") /\ Renames(from, "leaf", job.op) /\ Goes("RESTORED")
             /\ Changes([ns EXCEPT !.at = Swapped(from, "leaf"), !.applied = x])
    <2>1. /\ job' \in Job /\ job'.at = "RESTORED"
        /\ job'.task = job.task /\ job'.op = job.op /\ job'.by = job.by /\ job'.took = job.took
        /\ job'.seen = job.seen /\ job'.todo = job.todo /\ job'.left = job.left
        /\ job'.ans = job.ans
      BY <1>0, <1>2 DEF Goes, Job, Places, Preparing, Recorded, Proving, Taking, Untaking, Removing, Ending
    <2>2. /\ Somewhere(ns, "T")
          /\ job.op \in Exchanging => ns.at["new"] = job.took /\ job.took \in {"T", "S"}
          /\ job.op = "DELETE" => ns.at["held"] = job.took
          /\ job.op # "MOVE" => ns.dir = "OURS"
          /\ job.op \in Writing => ns.record = "COMPLETE"
      BY <1>0, <1>2 DEF Doing, Effects, Prepared, Proving, Recorded
    <2>3. job.op # "MOVE" => x = "NO" BY <1>1, <2>2 DEF Binds
    <2>4. job.op = "DELETE" => ns.at["leaf"] = "none"
      BY <1>1, <1>2 DEF Renames, Vacant, Exchanging
    <2>5. x \in {"NO", "MIXED"} OBVIOUS
    <2>. HIDE DEF from, x
    <2>6. /\ ns' = Swap(ns, from, "leaf", x) /\ ns' \in onDisk' /\ onDisk' \subseteq onDisk \cup {ns'}
      BY <1>2 DEF Changes, Swapped, Swap
    <2>7. Sound(job.op, ns')
      <3>1. Sound(job.op, ns) BY <1>0
      <3>2. CASE job.op \in Exchanging BY <3>1, <3>2, <1>1, <2>2, <2>5, <2>6, SoundRestore
      <3>3. CASE job.op = "DELETE" BY <3>1, <3>3, <1>1, <2>2, <2>4, <2>5, <2>6, SoundRestore
      <3>4. CASE job.op = "MOVE" BY <3>1, <3>4, <1>1, <2>2, <2>5, <2>6, SoundRestore
      <3>. QED BY <1>1, <3>2, <3>3, <3>4
    <2>8. ns'.dir = ns.dir /\ ns'.record = ns.record /\ ns'.applied = x
      BY <1>0, <2>6 DEF Swap, Namespace
    <2>9. Placed(job') BY <1>0, <1>2, <2>1 DEF Placed, Preparing, Recorded, Proving, Taking, Untaking, Removing, Ending
    <2>10. \A s \in onDisk' : Traced(job', s) BY <2>1 DEF Traced, Preparing, Recorded, Proving, Taking, Untaking, Removing, Ending
    <2>11. Effects(job', ns') BY <2>1, <2>3, <2>5, <2>8 DEF Effects, Refusable, Preparing, Recorded, Proving, Taking, Untaking, Removing, Ending
    <2>12. Proved(job', ns') BY <2>1 DEF Proved, Preparing, Recorded, Proving, Taking, Untaking, Removing, Ending
    <2>13. Prepared(job', ns') BY <2>1, <2>2, <2>8 DEF Prepared, Preparing, Recorded, Proving, Taking, Untaking, Removing, Ending
    <2>. QED
      BY <1>0, <1>s, <2>1, <2>6, <2>7, <2>9, <2>10, <2>11, <2>12, <2>13, BrokerMoves, TruthMeanwhile
      DEF Doing
  <1>3. CASE At("RESTORED") /\ Untouched /\ Binds(from, other) /\ Goes("SYNC_BACK")
    <2>1. /\ job' \in Job /\ job'.at = "SYNC_BACK"
        /\ job'.task = job.task /\ job'.op = job.op /\ job'.by = job.by /\ job'.took = job.took
        /\ job'.seen = job.seen /\ job'.todo = job.todo /\ job'.left = job.left
        /\ job'.ans = job.ans
      BY <1>0, <1>3 DEF Goes, Job, Places, Preparing, Recorded, Proving, Taking, Untaking, Removing, Ending
    <2>2. ns' = ns /\ onDisk' = onDisk BY <1>3 DEF Untouched, fsVars
    <2>3. job.op \in Exchanging => ns.at["new"] = "N" BY <1>1, <1>3 DEF Binds
    <2>4. ns.at["held"] = "none"
      <3>1. CASE job.op = "DELETE" BY <3>1, <1>1, <1>3 DEF Binds, Exchanging
      <3>2. CASE job.op # "DELETE" BY <3>2, <1>0 DEF Sound, Judged
      <3>. QED BY <3>1, <3>2
    <2>5. Placed(job') BY <1>0, <1>3, <2>1 DEF Placed, Preparing, Recorded, Proving, Taking, Untaking, Removing, Ending
    <2>6. \A s \in onDisk' : Traced(job', s) BY <2>1 DEF Traced, Preparing, Recorded, Proving, Taking, Untaking, Removing, Ending
    <2>7. Doing(job', ns')
      BY <1>0, <1>3, <2>1, <2>2, <2>3, <2>4 DEF Doing, Effects, Proved, Prepared, Preparing, Recorded, Proving, Taking, Untaking, Removing, Ending
    <2>. QED BY <1>0, <1>s, <2>1, <2>2, <2>5, <2>6, <2>7, BrokerMoves, TruthMeanwhile
  <1>4. CASE At("SYNC_BACK") /\ Synced /\ Refuses
    <2>1. ns' = ns /\ onDisk' = {ns} BY <1>4 DEF Synced, Commits
    <2>2. Refusable(job.op, ns) BY <1>0, <1>4 DEF Doing, Effects
    <2>3. CASE job.op = "MOVE" BY <1>0, <1>s, <1>4, <2>1, <2>2, <2>3, EndsRefused DEF Refuses
    <2>4. CASE job.op # "MOVE"
      <3>1. <<"record", "new">> \in Clearing BY DEF Clearing
      <3>2. ns.at["new"] \in {"N", "none"}
        BY <1>0, <1>1, <1>4, <2>4 DEF Doing, Effects, Sound, Judged, Namespace, Names, Objects, Exchanging
      <3>3. ns.applied = "NO" BY <2>2, <2>4 DEF Refusable
      <3>4. Sound(job.op, ns') BY <1>0, <2>1
      <3>. QED BY <1>0, <1>s, <1>4, <2>1, <2>4, <3>1, <3>2, <3>3, <3>4, DiscardsKeeps DEF Refuses, Discards
    <2>. QED BY <2>3, <2>4
  <1>5. CASE Untouched /\ Ends("UNSURE")
    <2>1. /\ job' \in Job /\ job'.at = "ANSWER" /\ job'.ans = "UNSURE"
          /\ job'.task = job.task /\ job'.op = job.op /\ job'.by = job.by
      BY <1>0, <1>5 DEF Ends, Answers, Job, Places
    <2>. QED BY <1>0, <1>s, <1>5, <2>1, EndsUnsure
  <1>. QED BY <1>2, <1>3, <1>4, <1>5 DEF Restore

LEMMA SyncKeeps ==
  ASSUME IInv, Sync, AuthorityUnmoved, job.task = "PERFORM"
  PROVE  IInv'
  <1>. USE DEF At
  <1>0. /\ job \in Job /\ Placed(job) /\ job.op = invocation.op /\ job.at # "NONE"
        /\ ns \in onDisk /\ Doing(job, ns) /\ ns \in Namespace
        /\ \A s \in onDisk : Sound(job.op, s) /\ Traced(job, s)
    BY Standing DEF Sync, At, Placed, NoJob
  <1>s. Still BY DEF Sync
  <1>1. job.at = "SYNC" BY DEF Sync
  <1>2. /\ ns.applied = "YES"
        /\ job.op \in Exchanging => /\ ns.at["new"] = "T" /\ Seen(ns, "N") /\ ~Seen(ns, "T")
                                    /\ job.op = "PATCH" => ns.content["T"] = "BASE"
        /\ job.op = "DELETE" => ns.at["held"] = job.took /\ ns.at["held"] = "T"
        /\ job.op # "MOVE" => ns.dir = "OURS"
    BY <1>0, <1>1 DEF Doing, Effects, Proved, Prepared, Recorded
  <1>3. CASE Synced /\ job.op = "DELETE" /\ Goes("MARK")
    <2>1. /\ job' \in Job /\ job'.at = "MARK"
        /\ job'.task = job.task /\ job'.op = job.op /\ job'.by = job.by /\ job'.took = job.took
        /\ job'.seen = job.seen /\ job'.todo = job.todo /\ job'.left = job.left
        /\ job'.ans = job.ans
      BY <1>0, <1>3 DEF Goes, Job, Places, Preparing, Recorded, Proving, Taking, Untaking, Removing, Ending
    <2>2. ns' = ns /\ onDisk' = {ns} BY <1>3 DEF Synced, Commits
    <2>3. Placed(job') BY <1>0, <1>3, <2>1 DEF Placed, Preparing, Recorded, Proving, Taking, Untaking, Removing, Ending
    <2>4. \A s \in onDisk' : Traced(job', s) BY <1>2, <2>1, <2>2 DEF Traced, Preparing, Recorded, Proving, Taking, Untaking, Removing, Ending
    <2>5. Somewhere(ns, "T") BY <1>2, <1>3 DEF Somewhere
    <2>6. Doing(job', ns')
      BY <1>2, <1>3, <2>1, <2>2, <2>5 DEF Doing, Effects, Proved, Prepared, Exchanging, Preparing, Recorded, Proving, Taking, Untaking, Removing, Ending
    <2>. QED BY <1>0, <1>s, <2>1, <2>2, <2>3, <2>4, <2>6, BrokerMoves, TruthMeanwhile
  <1>4. CASE Synced /\ job.op = "MOVE" /\ Ends("DONE")
    <2>1. /\ job' \in Job /\ job'.at = "ANSWER" /\ job'.ans = "DONE"
          /\ job'.task = job.task /\ job'.op = job.op /\ job'.by = job.by
      BY <1>0, <1>4 DEF Ends, Answers, Job, Places
    <2>2. ns' = ns /\ onDisk' = {ns} BY <1>4 DEF Synced, Commits
    <2>3. Placed(job') BY <1>0, <1>4, <2>1 DEF Placed, Preparing, Recorded, Proving, Taking, Untaking, Removing, Ending
    <2>4. \A s \in onDisk' : Traced(job', s)
      BY <1>2, <2>1, <2>2 DEF Traced, Answered, Effected, Preparing, Recorded, Proving, Taking, Untaking, Removing, Ending
    <2>5. ns.dir = "NONE" BY <1>0, <1>4 DEF Sound, Judged
    <2>6. Doing(job', ns')
      BY <2>1, <2>2, <2>5 DEF Doing, Effects, Proved, Prepared, Reported, Preparing, Recorded, Proving, Taking, Untaking, Removing, Ending
    <2>. QED BY <1>0, <1>s, <2>1, <2>2, <2>3, <2>4, <2>6, BrokerMoves, TruthMeanwhile
  <1>5. CASE Synced /\ job.op \notin {"DELETE", "MOVE"} /\ Removes(After(job.op), "DONE")
    <2>0. /\ After(job.op) \in Todos /\ After(job.op) \in Finishing(job.op)
          /\ job.op \in Writing
          /\ job.op = "CREATE" => After(job.op) # <<"new", "record">>
          /\ job.op # "CREATE" => After(job.op) = <<"new", "record">>
      <3>1. job.op \in Writing BY <1>0, <1>5 DEF Job, Placed, Operations, Writing
      <3>2. CASE job.op = "CREATE" BY <3>1, <3>2 DEF After, Todos, Finishing, Exchanging
      <3>3. CASE job.op # "CREATE" BY <3>1, <3>3 DEF After, Todos, Finishing, Exchanging, Writing
      <3>. QED BY <3>1, <3>2, <3>3
    <2>1. /\ job' \in Job /\ job'.at = "CLEAN" /\ job'.ans = "DONE" /\ job'.todo = After(job.op)
          /\ job'.task = job.task /\ job'.op = job.op /\ job'.by = job.by
      BY <1>0, <1>5, <2>0 DEF Removes, Answers, Job, Places, Removing
    <2>2. ns' = ns /\ onDisk' = {ns} BY <1>5 DEF Synced, Commits
    <2>3. Placed(job') BY <1>0, <1>5, <2>0, <2>1 DEF Placed, Preparing, Recorded, Proving, Taking, Untaking, Removing, Ending
    <2>4. \A s \in onDisk' : Traced(job', s) BY <1>2, <2>1, <2>2 DEF Traced, Preparing, Recorded, Proving, Taking, Untaking, Removing, Ending
    <2>5. job.op = "CREATE" => ns.at["new"] = "none"
      BY <1>0, <1>1 DEF Doing, Prepared
    <2>6. Effects(job', ns') BY <2>1 DEF Effects, Preparing, Recorded, Proving, Taking, Untaking, Removing, Ending
    <2>7. Proved(job', ns')
      <3>1. Displacing(job') <=> job.op # "CREATE" BY <2>0, <2>1 DEF Displacing
      <3>. QED BY <1>2, <2>0, <2>1, <2>2, <2>5, <3>1 DEF Proved, Exchanging, Writing, Preparing, Recorded, Proving, Taking, Untaking, Removing, Ending
    <2>8. Prepared(job', ns') BY <2>1, <2>2, <2>5 DEF Prepared, Preparing, Recorded, Proving, Taking, Untaking, Removing, Ending
    <2>. QED BY <1>0, <1>s, <2>1, <2>2, <2>3, <2>4, <2>6, <2>7, <2>8, BrokerMoves, TruthMeanwhile
         DEF Doing
  <1>6. CASE Untouched /\ Ends("UNSURE")
    <2>1. /\ job' \in Job /\ job'.at = "ANSWER" /\ job'.ans = "UNSURE"
          /\ job'.task = job.task /\ job'.op = job.op /\ job'.by = job.by
      BY <1>0, <1>6 DEF Ends, Answers, Job, Places
    <2>. QED BY <1>0, <1>s, <1>6, <2>1, EndsUnsure
  <1>. QED BY <1>3, <1>4, <1>5, <1>6 DEF Sync

LEMMA RemoveTakenKeeps ==
  ASSUME IInv, RemoveTaken, AuthorityUnmoved, job.task = "PERFORM"
  PROVE  IInv'
  <1>. USE DEF At
  <1>0. /\ job \in Job /\ Placed(job) /\ job.op = invocation.op /\ job.at # "NONE"
        /\ ns \in onDisk /\ Doing(job, ns) /\ ns \in Namespace
        /\ \A s \in onDisk : Sound(job.op, s) /\ Traced(job, s)
    BY Standing DEF RemoveTaken, At, Placed, NoJob
  <1>s. Still BY DEF RemoveTaken
  <1>1. job.op = "DELETE" BY <1>0 DEF RemoveTaken, Placed, Taking, Untaking
  <1>2. job.at \in Taking \cup Untaking =>
          /\ ns.applied = "YES" /\ Somewhere(ns, "T") /\ ns.dir = "OURS"
          /\ ns.at["held"] = job.took /\ job.took \in {"T", "S"}
    BY <1>0, <1>1 DEF Doing, Effects, Prepared
  <1>3. job.at \in Taking => ns.at["held"] = "T" BY <1>0, <1>1 DEF Doing, Proved
  <1>4. job.at \in Taking \cup {"UNLINKED"} => \A s \in onDisk : s.applied = "YES"
    BY <1>0 DEF Traced
  <1>5. CASE At("MARK") /\ Changes([ns EXCEPT !.taken = "MARK"]) /\ Goes("MARKED")
    <2>1. /\ job' \in Job /\ job'.at = "MARKED"
        /\ job'.task = job.task /\ job'.op = job.op /\ job'.by = job.by /\ job'.took = job.took
        /\ job'.seen = job.seen /\ job'.todo = job.todo /\ job'.left = job.left
        /\ job'.ans = job.ans
      BY <1>0, <1>5 DEF Goes, Job, Places, Preparing, Recorded, Proving, Taking, Untaking, Removing, Ending
    <2>2. /\ ns' = [ns EXCEPT !.taken = "MARK"] /\ ns' \in onDisk'
          /\ onDisk' \subseteq onDisk \cup {ns'}
      BY <1>5 DEF Changes
    <2>3. Sound(job.op, ns') BY <1>0, <1>2, <1>5, <2>2, SoundTaken DEF Taking
    <2>4. Placed(job') BY <1>0, <1>1, <1>5, <2>1 DEF Placed, Preparing, Recorded, Proving, Taking, Untaking, Removing, Ending
    <2>5. /\ ns'.at = ns.at /\ ns'.applied = ns.applied /\ ns'.dir = ns.dir /\ ns'.aside = ns.aside
      BY <1>0, <2>2 DEF Namespace
    <2>6. \A s \in onDisk' : Traced(job', s)
      BY <1>2, <1>4, <1>5, <2>1, <2>2, <2>5 DEF Traced, Preparing, Recorded, Proving, Taking, Untaking, Removing, Ending
    <2>7. Somewhere(ns', "T") BY <1>2, <1>5, <2>5 DEF Somewhere, Seen, Taking
    <2>8. Doing(job', ns')
      BY <1>1, <1>2, <1>3, <1>5, <2>1, <2>5, <2>7
      DEF Doing, Effects, Proved, Prepared, Exchanging, Writing, Preparing, Recorded, Proving, Taking, Untaking, Removing, Ending
    <2>. QED BY <1>0, <1>s, <2>1, <2>2, <2>3, <2>4, <2>6, <2>8, BrokerMoves, TruthMeanwhile
  <1>6. CASE At("MARKED") /\ Synced /\ Goes("UNLINK")
    <2>1. /\ job' \in Job /\ job'.at = "UNLINK"
        /\ job'.task = job.task /\ job'.op = job.op /\ job'.by = job.by /\ job'.took = job.took
        /\ job'.seen = job.seen /\ job'.todo = job.todo /\ job'.left = job.left
        /\ job'.ans = job.ans
      BY <1>0, <1>6 DEF Goes, Job, Places, Preparing, Recorded, Proving, Taking, Untaking, Removing, Ending
    <2>2. ns' = ns /\ onDisk' = {ns} BY <1>6 DEF Synced, Commits
    <2>3. Placed(job') BY <1>0, <1>1, <1>6, <2>1 DEF Placed, Preparing, Recorded, Proving, Taking, Untaking, Removing, Ending
    <2>4. \A s \in onDisk' : Traced(job', s) BY <1>2, <1>6, <2>1, <2>2 DEF Traced, Preparing, Recorded, Proving, Taking, Untaking, Removing, Ending
    <2>5. Doing(job', ns')
      BY <1>1, <1>2, <1>3, <1>6, <2>1, <2>2
      DEF Doing, Effects, Proved, Prepared, Exchanging, Writing, Preparing, Recorded, Proving, Taking, Untaking, Removing, Ending
    <2>. QED BY <1>0, <1>s, <2>1, <2>2, <2>3, <2>4, <2>5, BrokerMoves, TruthMeanwhile
  <1>7. CASE At("UNLINK") /\ Changes(Bound("held", "none")) /\ Goes("UNLINKED")
    <2>1. /\ job' \in Job /\ job'.at = "UNLINKED"
        /\ job'.task = job.task /\ job'.op = job.op /\ job'.by = job.by /\ job'.took = job.took
        /\ job'.seen = job.seen /\ job'.todo = job.todo /\ job'.left = job.left
        /\ job'.ans = job.ans
      BY <1>0, <1>7 DEF Goes, Job, Places, Preparing, Recorded, Proving, Taking, Untaking, Removing, Ending
    <2>2. /\ ns' = [ns EXCEPT !.at = [@ EXCEPT !["held"] = "none"]] /\ ns' \in onDisk'
          /\ onDisk' \subseteq onDisk \cup {ns'}
      BY <1>7 DEF Changes, Bound
    <2>3. Sound(job.op, ns') BY <1>0, <1>1, <1>2, <1>3, <1>7, <2>2, SoundUnlink DEF Taking
    <2>4. Placed(job') BY <1>0, <1>1, <1>7, <2>1 DEF Placed, Preparing, Recorded, Proving, Taking, Untaking, Removing, Ending
    <2>5. ns'.applied = ns.applied BY <1>0, <2>2 DEF Namespace
    <2>6. \A s \in onDisk' : Traced(job', s)
      BY <1>2, <1>4, <1>7, <2>1, <2>2, <2>5 DEF Traced, Preparing, Recorded, Proving, Taking, Untaking, Removing, Ending
    <2>7. Doing(job', ns') BY <2>1 DEF Doing, Effects, Proved, Prepared, Preparing, Recorded, Proving, Taking, Untaking, Removing, Ending
    <2>. QED BY <1>0, <1>s, <2>1, <2>2, <2>3, <2>4, <2>6, <2>7, BrokerMoves, TruthMeanwhile
  <1>8. CASE (At("MARK") \/ At("MARKED") \/ At("UNLINK")) /\ Untouched /\ PutsBack
    <2>0. ns.at["held"] \in Objects \cup {"none"} BY <1>0 DEF Namespace, Names
    <2>1. /\ job' \in Job /\ job'.at = "UNMARK" /\ job'.took = job.took
          /\ job'.task = job.task /\ job'.op = job.op /\ job'.by = job.by
      BY <1>0, <1>8, <2>0 DEF PutsBack, Job, Places, Untaking
    <2>2. ns' = ns /\ onDisk' = onDisk BY <1>8 DEF Untouched, fsVars
    <2>3. Placed(job') BY <1>0, <1>1, <1>8, <2>1 DEF Placed, Preparing, Recorded, Proving, Taking, Untaking, Removing, Ending
    <2>4. \A s \in onDisk' : Traced(job', s) BY <2>1 DEF Traced, Preparing, Recorded, Proving, Taking, Untaking, Removing, Ending
    <2>5. Doing(job', ns')
      BY <1>1, <1>2, <1>8, <2>1, <2>2
      DEF Doing, Effects, Proved, Prepared, Exchanging, Writing, Preparing, Recorded, Proving, Taking, Untaking, Removing, Ending
    <2>. QED BY <1>0, <1>s, <2>1, <2>2, <2>3, <2>4, <2>5, BrokerMoves, TruthMeanwhile
  <1>9. CASE At("UNLINKED") /\ Synced /\ Removes(<<"record", "taken">>, "DONE")
    <2>. DEFINE todo == <<"record", "taken">>
    <2>0. todo \in Todos /\ todo \in Finishing("DELETE") /\ todo # <<"new", "record">>
      BY DEF Todos, Finishing, Exchanging
    <2>1. /\ job' \in Job /\ job'.at = "CLEAN" /\ job'.ans = "DONE" /\ job'.todo = todo
          /\ job'.task = job.task /\ job'.op = job.op /\ job'.by = job.by
      <3>1. job' = [job EXCEPT !.at = "CLEAN", !.todo = todo, !.ans = "DONE"] BY <1>9 DEF Removes
      <3>. HIDE DEF todo
      <3>. QED BY <1>0, <2>0, <3>1 DEF Answers, Job, Places, Removing
    <2>. HIDE DEF todo
    <2>2. ns' = ns /\ onDisk' = {ns} BY <1>9 DEF Synced, Commits
    <2>3. Placed(job') BY <1>0, <1>1, <1>9, <2>0, <2>1 DEF Placed, Preparing, Recorded, Proving, Taking, Untaking, Removing, Ending
    <2>4. \A s \in onDisk' : Traced(job', s) BY <1>0, <1>4, <1>9, <2>1, <2>2 DEF Traced, Preparing, Recorded, Proving, Taking, Untaking, Removing, Ending
    <2>5. ns.at["new"] = "none"
      BY <1>0, <1>1 DEF Sound, Judged, Namespace, Names, Objects, Writing, Exchanging
    <2>6. ~Displacing(job') BY <2>0, <2>1 DEF Displacing
    <2>7. Doing(job', ns')
      BY <1>1, <2>1, <2>2, <2>5, <2>6 DEF Doing, Effects, Proved, Prepared, Exchanging, Writing, Preparing, Recorded, Proving, Taking, Untaking, Removing, Ending
    <2>. QED BY <1>0, <1>s, <2>1, <2>2, <2>3, <2>4, <2>7, BrokerMoves, TruthMeanwhile
  <1>10. CASE (At("UNMARK") /\ Untouched /\ Goes("RESTORE")) \/ (At("UNMARKED") /\ Synced /\ Goes("RESTORE"))
    <2>1. /\ job' \in Job /\ job'.at = "RESTORE"
        /\ job'.task = job.task /\ job'.op = job.op /\ job'.by = job.by /\ job'.took = job.took
        /\ job'.seen = job.seen /\ job'.todo = job.todo /\ job'.left = job.left
        /\ job'.ans = job.ans
      BY <1>0, <1>10 DEF Goes, Job, Places, Preparing, Recorded, Proving, Taking, Untaking, Removing, Ending
    <2>2. ns' = ns /\ ns' \in onDisk' /\ onDisk' \subseteq onDisk
      BY <1>0, <1>10 DEF Untouched, fsVars, Synced, Commits
    <2>3. Placed(job') BY <1>0, <1>1, <1>10, <2>1 DEF Placed, Preparing, Recorded, Proving, Taking, Untaking, Removing, Ending
    <2>4. \A s \in onDisk' : Traced(job', s) BY <2>1 DEF Traced, Preparing, Recorded, Proving, Taking, Untaking, Removing, Ending
    <2>5. Doing(job', ns')
      BY <1>1, <1>2, <1>10, <2>1, <2>2
      DEF Doing, Effects, Proved, Prepared, Exchanging, Writing, Preparing, Recorded, Proving, Taking, Untaking, Removing, Ending
    <2>. QED BY <1>0, <1>s, <2>1, <2>2, <2>3, <2>4, <2>5, BrokerMoves, TruthMeanwhile
  <1>11. CASE At("UNMARK") /\ Changes([ns EXCEPT !.taken = "NONE"]) /\ Goes("UNMARKED")
    <2>1. /\ job' \in Job /\ job'.at = "UNMARKED"
        /\ job'.task = job.task /\ job'.op = job.op /\ job'.by = job.by /\ job'.took = job.took
        /\ job'.seen = job.seen /\ job'.todo = job.todo /\ job'.left = job.left
        /\ job'.ans = job.ans
      BY <1>0, <1>11 DEF Goes, Job, Places, Preparing, Recorded, Proving, Taking, Untaking, Removing, Ending
    <2>2. /\ ns' = [ns EXCEPT !.taken = "NONE"] /\ ns' \in onDisk'
          /\ onDisk' \subseteq onDisk \cup {ns'}
      BY <1>11 DEF Changes
    <2>3. Sound(job.op, ns') BY <1>0, <2>2, SoundTaken
    <2>4. Placed(job') BY <1>0, <1>1, <1>11, <2>1 DEF Placed, Preparing, Recorded, Proving, Taking, Untaking, Removing, Ending
    <2>5. /\ ns'.at = ns.at /\ ns'.applied = ns.applied /\ ns'.dir = ns.dir /\ ns'.aside = ns.aside
      BY <1>0, <2>2 DEF Namespace
    <2>6. \A s \in onDisk' : Traced(job', s) BY <2>1 DEF Traced, Preparing, Recorded, Proving, Taking, Untaking, Removing, Ending
    <2>7. Somewhere(ns', "T") BY <1>2, <1>11, <2>5 DEF Somewhere, Seen, Untaking
    <2>8. Doing(job', ns')
      BY <1>1, <1>2, <1>11, <2>1, <2>5, <2>7
      DEF Doing, Effects, Proved, Prepared, Exchanging, Writing, Preparing, Recorded, Proving, Taking, Untaking, Removing, Ending
    <2>. QED BY <1>0, <1>s, <2>1, <2>2, <2>3, <2>4, <2>6, <2>8, BrokerMoves, TruthMeanwhile
  <1>12. CASE Untouched /\ Ends("UNSURE")
    <2>1. /\ job' \in Job /\ job'.at = "ANSWER" /\ job'.ans = "UNSURE"
          /\ job'.task = job.task /\ job'.op = job.op /\ job'.by = job.by
      BY <1>0, <1>12 DEF Ends, Answers, Job, Places
    <2>. QED BY <1>0, <1>s, <1>12, <2>1, EndsUnsure
  <1>. QED BY <1>5, <1>6, <1>7, <1>8, <1>9, <1>10, <1>11, <1>12 DEF RemoveTaken

-----------------------------------------------------------------------------
(* Removing *)

LEMMA TodoFacts ==
  ASSUME NEW todo \in Todos, todo # <<>>
  PROVE  /\ Head(todo) \in {"record", "new", "taken"} /\ Tail(todo) \in Todos
         /\ Tail(todo) # <<"new", "record">>
         /\ Head(todo) # "new" => todo # <<"new", "record">>
         /\ todo \in Clearing => Tail(todo) \in Clearing /\ todo # <<"new", "record">>
         /\ \A op : todo \in Finishing(op) =>
              /\ Tail(todo) \in Finishing(op)
              /\ op \notin Exchanging => Head(todo) # "new"
              /\ op \in Exchanging /\ Head(todo) = "new" => todo = <<"new", "record">>
  <1>1. CASE todo = <<"record">>
    <2>1. Head(todo) = "record" /\ Tail(todo) = <<>> BY <1>1
    <2>. QED BY <1>1, <2>1 DEF Todos, Clearing, Finishing
  <1>2. CASE todo = <<"new">>
    <2>1. Head(todo) = "new" /\ Tail(todo) = <<>> BY <1>2
    <2>. QED BY <1>2, <2>1 DEF Todos, Clearing, Finishing
  <1>3. CASE todo = <<"taken">>
    <2>1. Head(todo) = "taken" /\ Tail(todo) = <<>> BY <1>3
    <2>. QED BY <1>3, <2>1 DEF Todos, Clearing, Finishing
  <1>4. CASE todo = <<"record", "new">>
    <2>1. Head(todo) = "record" /\ Tail(todo) = <<"new">> BY <1>4
    <2>. QED BY <1>4, <2>1 DEF Todos, Clearing, Finishing
  <1>5. CASE todo = <<"new", "record">>
    <2>1. Head(todo) = "new" /\ Tail(todo) = <<"record">> BY <1>5
    <2>. QED BY <1>5, <2>1 DEF Todos, Clearing, Finishing
  <1>6. CASE todo = <<"record", "taken">>
    <2>1. Head(todo) = "record" /\ Tail(todo) = <<"taken">> BY <1>6
    <2>. QED BY <1>6, <2>1 DEF Todos, Clearing, Finishing
  <1>. QED BY <1>1, <1>2, <1>3, <1>4, <1>5, <1>6 DEF Todos

\* What is known where entries are removed.
LEMMA RemovingFacts ==
  ASSUME IInv, job.at \in Removing
  PROVE  /\ job.todo \in Todos
         /\ job.ans \in {"REFUSED", "REMOVED", "DONE"}
         /\ job.ans \in {"REFUSED", "REMOVED"} => job.todo \in Clearing
         /\ job.ans = "DONE" => /\ job.todo \in Finishing(job.op) /\ ns.applied = "YES"
                                /\ job.op = "CREATE" => ns.at["new"] = "none"
         /\ job.ans = "DONE" /\ job.op \in Exchanging =>
              /\ Seen(ns, "N") /\ ~Seen(ns, "T")
              /\ job.op = "PATCH" => ns.content["T"] = "BASE"
         /\ Displacing(job) => ns.at["new"] \in {"T", "none"} /\ job.ans = "DONE" /\ job.op \in Exchanging
         /\ ~Displacing(job) => ns.at["new"] \in {"N", "none"}
  <1>1. job.at # "NONE" BY DEF Removing
  <1>2. /\ job \in Job /\ Placed(job) /\ job.task # "NONE" /\ ns \in onDisk /\ Doing(job, ns)
        /\ Traced(job, ns)
    BY <1>1, Standing
  <1>3. /\ job.todo \in Todos
        /\ job.ans \in {"REFUSED", "REMOVED", "DONE"}
        /\ job.ans \in {"REFUSED", "REMOVED"} => job.todo \in Clearing
        /\ job.ans = "DONE" => job.todo \in Finishing(job.op) /\ job.task = "PERFORM"
    BY <1>2 DEF Placed, Job, Removing
  <1>4. job.ans = "DONE" => ns.applied = "YES" BY <1>2, <1>3 DEF Traced
  <1>5. /\ job.ans = "DONE" /\ job.op \in Exchanging =>
              /\ Seen(ns, "N") /\ ~Seen(ns, "T")
              /\ job.op = "PATCH" => ns.content["T"] = "BASE"
        /\ Displacing(job) => ns.at["new"] \in {"T", "none"}
        /\ ~Displacing(job) => ns.at["new"] \in {"N", "none"}
    BY <1>2 DEF Doing, Proved
  <1>6. job.ans = "DONE" /\ job.op = "CREATE" => ns.at["new"] = "none" BY <1>2 DEF Doing, Prepared
  <1>7. Displacing(job) => job.ans = "DONE" /\ job.op \in Exchanging
    <2>1. SUFFICES ASSUME job.todo = <<"new", "record">> PROVE job.ans = "DONE" /\ job.op \in Exchanging
      BY DEF Displacing
    <2>2. job.todo # <<>> /\ Head(job.todo) = "new" BY <2>1
    <2>3. job.todo \notin Clearing BY <1>3, <2>1, <2>2, TodoFacts
    <2>. QED BY <1>3, <2>2, <2>3, TodoFacts
  <1>. QED BY <1>3, <1>4, <1>5, <1>6, <1>7

\* An entry less: nothing of the workspace's, but the target that was proved.
Lessened(s, t) ==
    /\ t.dir = s.dir /\ t.applied = s.applied /\ t.aside = s.aside /\ t.content = s.content
    /\ t.at["leaf"] = s.at["leaf"] /\ t.at["dest"] = s.at["dest"] /\ t.at["held"] = s.at["held"]
    /\ t.at["new"] \in {s.at["new"], "none"}

LEMMA LessenedSeen ==
  ASSUME NEW s, NEW t, Lessened(s, t)
  PROVE  /\ \A o : Seen(t, o) <=> Seen(s, o)
         /\ Somewhere(t, "N") => Somewhere(s, "N")
         /\ \A inv : Truth(inv, s) => Truth(inv, t)
  <1>1. \A o : Seen(t, o) <=> Seen(s, o) BY DEF Lessened, Seen
  <1>2. Somewhere(t, "N") => Somewhere(s, "N") BY <1>1 DEF Lessened, Somewhere
  <1>3. \A op : (Refusable(op, s) => Refusable(op, t)) /\ (Effected(op, s) => Effected(op, t))
    BY <1>2 DEF Lessened, Refusable, Effected
  <1>. QED BY <1>1, <1>2, <1>3 DEF Truth

LEMMA WithoutLessens ==
  ASSUME ns \in Namespace, NEW entry \in {"record", "new", "taken"}
  PROVE  /\ Lessened(ns, Without(entry))
         /\ entry = "new" => Without(entry) = [ns EXCEPT !.at = [@ EXCEPT !["new"] = "none"]]
                             /\ Without(entry).at["new"] = "none"
         /\ entry = "record" => Without(entry) = [ns EXCEPT !.record = "NONE"]
         /\ entry = "taken" => Without(entry) = [ns EXCEPT !.taken = "NONE"]
         /\ entry # "new" => Without(entry).at["new"] = ns.at["new"]
  <1>1. CASE entry = "new" BY <1>1 DEF Without, Bound, Lessened, Namespace, Names
  <1>2. CASE entry = "record"
    <2>1. Without(entry) = [ns EXCEPT !.record = "NONE"] BY <1>2 DEF Without
    <2>. QED BY <1>2, <2>1 DEF Lessened, Namespace
  <1>3. CASE entry = "taken"
    <2>1. Without(entry) = [ns EXCEPT !.taken = "NONE"] BY <1>3 DEF Without
    <2>. QED BY <1>3, <2>1 DEF Lessened, Namespace
  <1>. QED BY <1>1, <1>2, <1>3

LEMMA RemovingTraced ==
  ASSUME NEW j, NEW k, NEW s, NEW t, Traced(j, s), j.at \in Removing \cup Ending,
         k.at \in Removing \cup Ending, k.task = j.task, k.ans = j.ans, t.applied = s.applied
  PROVE  Traced(k, t)
  BY DEF Traced, Preparing, Recorded, Proving, Taking, Untaking, Removing, Ending

\* The next entry.
LEMMA NextEntry ==
  ASSUME IInv, Still, AuthorityUnmoved, job.at \in Removing, job.todo # <<>>,
         job.at = "CLEANED" \/ ~Holds(Head(job.todo)),
         ns' = ns, ns \in onDisk', onDisk' \subseteq onDisk,
         job' = [job EXCEPT !.at = "CLEAN", !.todo = Tail(@)]
  PROVE  IInv'
  <1>0. /\ job \in Job /\ Placed(job) /\ job.op = invocation.op /\ job.at # "NONE"
        /\ job.task # "NONE" /\ ns \in onDisk /\ Doing(job, ns) /\ ns \in Namespace
        /\ \A s \in onDisk : Sound(job.op, s) /\ Truth(invocation, s) /\ Traced(job, s)
    BY Standing DEF Removing
  <1>1. /\ Tail(job.todo) \in Todos /\ Tail(job.todo) # <<"new", "record">>
        /\ job.todo \in Clearing => Tail(job.todo) \in Clearing
        /\ job.todo \in Finishing(job.op) => Tail(job.todo) \in Finishing(job.op)
        /\ Displacing(job) => Head(job.todo) = "new"
    BY RemovingFacts, TodoFacts DEF Displacing
  <1>2. ns.at["new"] \in {"N", "none"}
    BY <1>1, RemovingFacts DEF Displacing, Holds, Vacant
  <1>3. /\ job' \in Job /\ job'.at = "CLEAN" /\ job'.todo = Tail(job.todo) /\ job'.ans = job.ans
        /\ job'.left = job.left
        /\ job'.task = job.task /\ job'.op = job.op /\ job'.by = job.by
    BY <1>0, <1>1 DEF Job, Places, Removing
  <1>4. Placed(job') BY <1>0, <1>1, <1>3 DEF Placed, Preparing, Recorded, Proving, Taking, Untaking, Removing, Ending
  <1>5. ASSUME NEW s \in onDisk' PROVE Traced(job', s)
    <2>1. job'.at \in Removing BY <1>3 DEF Removing
    <2>2. Traced(job, s) BY <1>0, <1>5
    <2>. QED BY <1>3, <2>1, <2>2, RemovingTraced
  <1>6. ~Displacing(job') BY <1>1, <1>3 DEF Displacing
  <1>7. Doing(job', ns')
    <2>1. Effects(job', ns') BY <1>3 DEF Effects, Preparing, Recorded, Proving, Taking, Untaking, Removing, Ending
    <2>2. Proved(job', ns') BY <1>2, <1>3, <1>6, RemovingFacts DEF Proved, Taking, Removing
    <2>3. Prepared(job', ns') BY <1>3, RemovingFacts DEF Prepared, Preparing, Recorded, Proving, Taking, Untaking, Removing, Ending
    <2>. QED BY <2>1, <2>2, <2>3 DEF Doing
  <1>. QED BY <1>0, <1>3, <1>4, <1>5, <1>7, BrokerMoves

\* An entry, or its removal, that fails.
LEMMA LeavesKeeps ==
  ASSUME IInv, Still, AuthorityUnmoved, job.at \in Removing, Untouched, Leaves
  PROVE  IInv'
  <1>0. /\ job \in Job /\ Placed(job) /\ job.op = invocation.op /\ job.at # "NONE"
        /\ job.task # "NONE" /\ ns \in onDisk /\ Doing(job, ns) /\ ns \in Namespace
        /\ \A s \in onDisk : Sound(job.op, s) /\ Truth(invocation, s) /\ Traced(job, s)
    BY Standing DEF Removing
  <1>1. CASE job.task = "RECLAIM"
    <2>1. /\ job' \in Job /\ job'.at = "ANSWER" /\ job'.ans = "UNSURE"
          /\ job'.task = job.task /\ job'.op = job.op /\ job'.by = job.by
      BY <1>0, <1>1 DEF Leaves, Answers, Job, Places
    <2>. QED BY <1>0, <1>1, <2>1, EndsUnsure
  <1>2. CASE job.task # "RECLAIM"
    <2>0. <<>> \in Todos BY DEF Todos
    <2>1. /\ job' \in Job /\ job'.at = "RMDIR" /\ job'.ans = job.ans
          /\ job'.task = job.task /\ job'.op = job.op /\ job'.by = job.by
      BY <1>0, <1>2, <2>0 DEF Leaves, Job, Places, Ending
    <2>2. ns' = ns /\ onDisk' = onDisk BY DEF Untouched, fsVars
    <2>3. job.task = "PERFORM" BY <1>0, <1>2 DEF Job
    <2>4. Placed(job') BY <1>0, <2>1, <2>3 DEF Placed, Preparing, Recorded, Proving, Taking, Untaking, Removing, Ending
    <2>5. \A s \in onDisk' : Traced(job', s)
      BY <1>0, <2>1, <2>2, RemovingTraced DEF Removing, Ending
    <2>6. Doing(job', ns') BY <2>1 DEF Doing, Effects, Proved, Prepared, Preparing, Recorded, Proving, Taking, Untaking, Removing, Ending
    <2>. QED BY <1>0, <2>1, <2>2, <2>4, <2>5, <2>6, BrokerMoves
  <1>. QED BY <1>1, <1>2

LEMMA CleanKeeps ==
  ASSUME IInv, Clean, AuthorityUnmoved
  PROVE  IInv'
  <1>. USE DEF At
  <1>0. /\ job \in Job /\ Placed(job) /\ job.op = invocation.op /\ job.at # "NONE"
        /\ job.task # "NONE" /\ ns \in onDisk /\ Doing(job, ns) /\ ns \in Namespace
        /\ \A s \in onDisk : Sound(job.op, s) /\ Truth(invocation, s) /\ Traced(job, s)
    BY Standing DEF Clean, At, Placed, NoJob
  <1>s. Still BY DEF Clean
  <1>1. job.at \in Removing BY DEF Clean, Removing
  <1>2. CASE At("CLEAN") /\ Untouched /\ Goes("RMDIR")
    <2>1. /\ job' \in Job /\ job'.at = "RMDIR"
        /\ job'.task = job.task /\ job'.op = job.op /\ job'.by = job.by /\ job'.took = job.took
        /\ job'.seen = job.seen /\ job'.todo = job.todo /\ job'.left = job.left
        /\ job'.ans = job.ans
      BY <1>0, <1>2 DEF Goes, Job, Places, Preparing, Recorded, Proving, Taking, Untaking, Removing, Ending
    <2>2. ns' = ns /\ onDisk' = onDisk BY <1>2 DEF Untouched, fsVars
    <2>3. Placed(job') BY <1>0, <1>2, <2>1 DEF Placed, Preparing, Recorded, Proving, Taking, Untaking, Removing, Ending
    <2>4. \A s \in onDisk' : Traced(job', s)
      BY <1>0, <1>1, <2>1, <2>2, RemovingTraced DEF Ending
    <2>5. Doing(job', ns') BY <2>1 DEF Doing, Effects, Proved, Prepared, Preparing, Recorded, Proving, Taking, Untaking, Removing, Ending
    <2>. QED BY <1>0, <1>s, <2>1, <2>2, <2>3, <2>4, <2>5, BrokerMoves
  <1>3. CASE /\ At("CLEAN") /\ job.todo # <<>>
             /\ Changes(Without(Head(job.todo))) /\ Goes("CLEANED")
    <2>. DEFINE entry == Head(job.todo)
    <2>1. /\ job' \in Job /\ job'.at = "CLEANED"
        /\ job'.task = job.task /\ job'.op = job.op /\ job'.by = job.by /\ job'.took = job.took
        /\ job'.seen = job.seen /\ job'.todo = job.todo /\ job'.left = job.left
        /\ job'.ans = job.ans
      BY <1>0, <1>3 DEF Goes, Job, Places, Preparing, Recorded, Proving, Taking, Untaking, Removing, Ending
    <2>2. entry \in {"record", "new", "taken"} /\ (entry # "new" => ~Displacing(job))
      BY <1>1, <1>3, RemovingFacts, TodoFacts DEF Displacing
    <2>3. /\ ns' = Without(entry) /\ ns' \in onDisk' /\ onDisk' \subseteq onDisk \cup {ns'}
      BY <1>3 DEF Changes
    <2>. HIDE DEF entry
    <2>4. Lessened(ns, ns') BY <1>0, <2>2, <2>3, WithoutLessens
    <2>5. Sound(job.op, ns')
      <3>1. Sound(job.op, ns) BY <1>0
      <3>2. CASE entry = "new"
        <4>1. ns' = [ns EXCEPT !.at = [@ EXCEPT !["new"] = "none"]]
          BY <1>0, <2>2, <2>3, <3>2, WithoutLessens
        <4>2. /\ ns.at["new"] # "S"
              /\ ns.at["new"] = "T" => /\ ns.applied = "YES" /\ Seen(ns, "N")
                                       /\ job.op = "PATCH" => ns.content["T"] = "BASE"
          BY <1>1, RemovingFacts
        <4>. QED BY <3>1, <4>1, <4>2, SoundDropNew
      <3>3. CASE entry = "record"
        <4>1. ns' = [ns EXCEPT !.record = "NONE"] BY <1>0, <2>2, <2>3, <3>3, WithoutLessens
        <4>2. ns.at["new"] \in {"N", "none"} BY <1>1, <2>2, <3>3, RemovingFacts
        <4>. QED BY <3>1, <4>1, <4>2, SoundRecord
      <3>4. CASE entry = "taken"
        <4>1. ns' = [ns EXCEPT !.taken = "NONE"] BY <1>0, <2>2, <2>3, <3>4, WithoutLessens
        <4>. QED BY <3>1, <4>1, SoundTaken
      <3>. QED BY <2>2, <3>2, <3>3, <3>4
    <2>6. Truth(invocation, ns') BY <1>0, <2>4, LessenedSeen
    <2>7. ns'.at["new"] \in {"N", "none"} /\ (ns.at["new"] = "none" => ns'.at["new"] = "none")
      <3>1. CASE entry = "new" BY <1>0, <2>2, <2>3, <3>1, WithoutLessens
      <3>2. CASE entry # "new"
        BY <1>0, <1>1, <2>2, <2>3, <3>2, WithoutLessens, RemovingFacts
      <3>. QED BY <3>1, <3>2
    <2>8. Placed(job') BY <1>0, <1>3, <2>1 DEF Placed, Preparing, Recorded, Proving, Taking, Untaking, Removing, Ending
    <2>9. \A s \in onDisk' : Traced(job', s)
      BY <1>0, <1>1, <2>1, <2>3, <2>4, RemovingTraced DEF Lessened, Removing
    <2>10. Effects(job', ns') BY <2>1 DEF Effects, Preparing, Recorded, Proving, Taking, Untaking, Removing, Ending
    <2>11. Proved(job', ns')
      <3>1. \A o : Seen(ns', o) <=> Seen(ns, o) BY <2>4, LessenedSeen
      <3>2. ns'.content = ns.content BY <2>4 DEF Lessened
      <3>3. ~Displacing(job') BY <2>1 DEF Displacing
      <3>. QED BY <1>1, <2>1, <2>7, <3>1, <3>2, <3>3, RemovingFacts DEF Proved, Taking, Removing
    <2>12. Prepared(job', ns') BY <1>1, <2>1, <2>7, RemovingFacts DEF Prepared, Preparing, Recorded, Proving, Taking, Untaking, Removing, Ending
    <2>. QED
      BY <1>0, <1>s, <2>1, <2>3, <2>5, <2>6, <2>8, <2>9, <2>10, <2>11, <2>12, BrokerMoves
      DEF Doing
  <1>4. CASE /\ At("CLEAN") /\ job.todo # <<>> /\ ~Holds(Head(job.todo)) /\ Untouched
             /\ job' = [job EXCEPT !.todo = Tail(@)]
    <2>1. ns' = ns /\ onDisk' = onDisk BY <1>4 DEF Untouched, fsVars
    <2>2. job' = [job EXCEPT !.at = "CLEAN", !.todo = Tail(@)] BY <1>0, <1>4 DEF Job
    <2>. QED BY <1>0, <1>s, <1>1, <1>4, <2>1, <2>2, NextEntry
  <1>5. CASE At("CLEANED") /\ Synced /\ job' = [job EXCEPT !.at = "CLEAN", !.todo = Tail(@)]
    <2>1. ns' = ns /\ onDisk' = {ns} BY <1>5 DEF Synced, Commits
    <2>2. job.todo # <<>> BY <1>0, <1>5 DEF Placed
    <2>. QED BY <1>0, <1>s, <1>1, <1>5, <2>1, <2>2, NextEntry
  <1>6. CASE Untouched /\ Leaves
    BY <1>s, <1>1, <1>6, LeavesKeeps
  <1>. QED BY <1>2, <1>3, <1>4, <1>5, <1>6 DEF Clean

\* An answer of a job that removed, or tried to.
LEMMA RemovedAnswers ==
  ASSUME IInv, Still, AuthorityUnmoved, job.at \in Ending,
         ns' = ns, ns \in onDisk', onDisk' \subseteq onDisk,
         NEW ans, Ends(ans),
         \/ job.task = "RECLAIM" /\ ans = "UNSURE"
         \/ ans = (IF job.ans = "DONE" THEN "DEBRIS" ELSE job.ans) /\ job.task = "PERFORM"
         \/ ans = job.ans /\ ns.dir = "NONE"
  PROVE  IInv'
  <1>0. /\ job \in Job /\ Placed(job) /\ job.op = invocation.op /\ job.at # "NONE"
        /\ job.task # "NONE" /\ ns \in onDisk /\ Doing(job, ns) /\ ns \in Namespace
        /\ \A s \in onDisk : Sound(job.op, s) /\ Truth(invocation, s) /\ Traced(job, s)
    BY Standing DEF Ending
  <1>1. /\ job.task = "PERFORM" => job.ans \in {"REFUSED", "DONE"}
        /\ job.task = "RECLAIM" => job.ans = "REMOVED"
        /\ job.task \in {"PERFORM", "RECLAIM"}
    BY <1>0 DEF Placed, Job
  <1>2. ans \in {"UNSURE", "DEBRIS", "REFUSED", "DONE", "REMOVED"} BY <1>1
  <1>3. /\ job' \in Job /\ job'.at = "ANSWER" /\ job'.ans = ans
        /\ job'.task = job.task /\ job'.op = job.op /\ job'.by = job.by
    BY <1>0, <1>2 DEF Ends, Answers, Job, Places
  <1>4. Placed(job') BY <1>0, <1>2, <1>3 DEF Placed, Preparing, Recorded, Proving, Taking, Untaking, Removing, Ending
  <1>5. \A s \in onDisk' : Traced(job', s)
    BY <1>0, <1>1, <1>3 DEF Traced, Answered, Refusable, Effected, Preparing, Recorded, Proving, Taking, Untaking, Removing, Ending
  <1>6. Doing(job', ns')
    BY <1>1, <1>3 DEF Doing, Effects, Proved, Prepared, Reported, Preparing, Recorded, Proving, Taking, Untaking, Removing, Ending
  <1>. QED BY <1>0, <1>3, <1>4, <1>5, <1>6, BrokerMoves

LEMMA RemoveDirectoryKeeps ==
  ASSUME IInv, RemoveDirectory, AuthorityUnmoved
  PROVE  IInv'
  <1>. USE DEF At
  <1>0. /\ job \in Job /\ Placed(job) /\ job.op = invocation.op /\ job.at # "NONE"
        /\ job.task # "NONE" /\ ns \in onDisk /\ Doing(job, ns) /\ ns \in Namespace
        /\ \A s \in onDisk : Sound(job.op, s) /\ Truth(invocation, s) /\ Traced(job, s)
    BY Standing DEF RemoveDirectory, At, Placed, NoJob
  <1>s. Still BY DEF RemoveDirectory
  <1>1. job.at \in Ending BY DEF RemoveDirectory, Ending
  <1>2. CASE At("RMDIR") /\ Empty(ns) /\ Changes([ns EXCEPT !.dir = "NONE"]) /\ Goes("GONE")
    <2>1. /\ job' \in Job /\ job'.at = "GONE"
        /\ job'.task = job.task /\ job'.op = job.op /\ job'.by = job.by /\ job'.took = job.took
        /\ job'.seen = job.seen /\ job'.todo = job.todo /\ job'.left = job.left
        /\ job'.ans = job.ans
      BY <1>0, <1>2 DEF Goes, Job, Places, Preparing, Recorded, Proving, Taking, Untaking, Removing, Ending
    <2>2. /\ ns' = [ns EXCEPT !.dir = "NONE"] /\ ns' \in onDisk' /\ onDisk' \subseteq onDisk \cup {ns'}
      BY <1>2 DEF Changes
    <2>3. /\ ns'.applied = ns.applied /\ ns'.dir = "NONE" /\ ns'.at = ns.at /\ ns'.aside = ns.aside
      BY <1>0, <2>2 DEF Namespace
    <2>4. Sound(job.op, ns')
      <3>1. CASE job.op # "MOVE" BY <1>0, <1>2, <2>2, <3>1, SoundDir
      <3>2. CASE job.op = "MOVE"
        <4>1. ns.dir = "NONE" BY <1>0, <3>2 DEF Sound, Judged
        <4>2. ns' = ns BY <1>0, <2>2, <4>1 DEF Namespace
        <4>. QED BY <1>0, <4>2
      <3>. QED BY <3>1, <3>2
    <2>5. Truth(invocation, ns')
      BY <1>0, <2>3 DEF Truth, Refusable, Effected, Somewhere, Seen
    <2>6. Placed(job') BY <1>0, <1>2, <2>1 DEF Placed, Preparing, Recorded, Proving, Taking, Untaking, Removing, Ending
    <2>7. \A s \in onDisk' : Traced(job', s)
      BY <1>0, <1>1, <2>1, <2>2, <2>3, RemovingTraced DEF Ending
    <2>8. Doing(job', ns') BY <2>1, <2>3 DEF Doing, Effects, Proved, Prepared, Preparing, Recorded, Proving, Taking, Untaking, Removing, Ending
    <2>. QED BY <1>0, <1>s, <2>1, <2>2, <2>4, <2>5, <2>6, <2>7, <2>8, BrokerMoves
  <1>3. CASE Untouched /\ AnswersLeft
    <2>1. ns' = ns /\ onDisk' = onDisk BY <1>3 DEF Untouched, fsVars
    <2>2. CASE job.task = "RECLAIM"
      BY <1>0, <1>s, <1>1, <1>3, <2>1, <2>2, RemovedAnswers DEF AnswersLeft
    <2>3. CASE job.task = "PERFORM"
      BY <1>0, <1>s, <1>1, <1>3, <2>1, <2>3, RemovedAnswers DEF AnswersLeft, WithDebris
    <2>. QED BY <1>0, <2>2, <2>3 DEF Job
  <1>4. CASE At("GONE") /\ Synced /\ Ends(IF job.left = "YES" THEN WithDebris ELSE job.ans)
    <2>1. ns' = ns /\ onDisk' = {ns} BY <1>4 DEF Synced, Commits
    <2>2. ns.dir = "NONE" BY <1>0, <1>4 DEF Doing, Prepared
    <2>3. CASE job.left = "YES"
      <3>1. job.task = "PERFORM" BY <1>0, <1>1, <2>3 DEF Placed, Job, Ending
      <3>. QED BY <1>0, <1>s, <1>1, <1>4, <2>1, <2>3, <3>1, RemovedAnswers DEF WithDebris
    <2>4. CASE job.left # "YES"
      BY <1>0, <1>s, <1>1, <1>4, <2>1, <2>2, <2>4, RemovedAnswers
    <2>. QED BY <2>3, <2>4
  <1>. QED BY <1>2, <1>3, <1>4 DEF RemoveDirectory

LEMMA ReclaimKeeps ==
  ASSUME IInv, Reclaim, AuthorityUnmoved
  PROVE  IInv'
  <1>. USE DEF At
  <1>0. /\ job \in Job /\ Placed(job) /\ job.op = invocation.op /\ job.at # "NONE"
        /\ job.task # "NONE" /\ ns \in onDisk /\ Doing(job, ns) /\ ns \in Namespace
        /\ \A s \in onDisk : Sound(job.op, s) /\ Truth(invocation, s) /\ Traced(job, s)
    BY Standing DEF Reclaim, At, Placed, NoJob
  <1>s. Still BY DEF Reclaim
  <1>1. job.at = "JUDGE" /\ job.task = "RECLAIM" BY <1>0 DEF Reclaim, Placed, Job
  <1>2. Untouched /\ ns' = ns /\ onDisk' = onDisk BY DEF Reclaim, Untouched, fsVars
  <1>3. ASSUME NEW ans \in {"ABSENT", "FOREIGN", "REFUSED", "DISPLACED", "EVIDENCE", "TAKEN"}, Ends(ans),
               ans = "ABSENT" => ns.dir = "NONE", ans = "FOREIGN" => ns.dir = "FRESH"
        PROVE  IInv'
    <2>1. /\ job' \in Job /\ job'.at = "ANSWER" /\ job'.ans = ans
          /\ job'.task = job.task /\ job'.op = job.op /\ job'.by = job.by
      BY <1>0, <1>3 DEF Ends, Answers, Job, Places
    <2>2. Placed(job') BY <1>0, <1>1, <1>3, <2>1 DEF Placed, Preparing, Recorded, Proving, Taking, Untaking, Removing, Ending
    <2>3. \A s \in onDisk' : Traced(job', s) BY <1>1, <2>1 DEF Traced, Answered
    <2>4. Doing(job', ns')
      BY <1>1, <1>2, <1>3, <2>1 DEF Doing, Effects, Proved, Prepared, Reported, Preparing, Recorded, Proving, Taking, Untaking, Removing, Ending
    <2>. QED BY <1>0, <1>s, <1>2, <2>1, <2>2, <2>3, <2>4, BrokerMoves
  <1>4. CASE ns.dir # "NONE" /\ Judge(job.op) = "DISPOSABLE" /\ Removes(<<"record", "new">>, "REMOVED")
    <2>. DEFINE todo == <<"record", "new">>
    <2>0. todo \in Todos /\ todo \in Clearing /\ todo # <<"new", "record">> BY DEF Todos, Clearing
    <2>1. /\ job' \in Job /\ job'.at = "CLEAN" /\ job'.ans = "REMOVED" /\ job'.todo = todo
          /\ job'.left = job.left
          /\ job'.task = job.task /\ job'.op = job.op /\ job'.by = job.by
      <3>1. job' = [job EXCEPT !.at = "CLEAN", !.todo = todo, !.ans = "REMOVED"] BY <1>4 DEF Removes
      <3>. HIDE DEF todo
      <3>. QED BY <1>0, <2>0, <3>1 DEF Answers, Job, Places, Removing
    <2>. HIDE DEF todo
    <2>2. ns.at["new"] \in {"N", "none"}
      <3>1. ns.at["new"] \in {"T", "N", "S", "none"} BY <1>0 DEF Namespace, Names, Objects
      <3>2. CASE job.op = "DELETE" BY <1>0, <3>1, <3>2 DEF Sound, Judged, Exchanging
      <3>3. CASE job.op # "DELETE"
        <4>1. ns.record # "COMPLETE" \/ ns.at["new"] = "N"
          BY <1>4, <3>3 DEF Judge, Binds
        <4>. QED BY <1>0, <3>1, <4>1 DEF Sound, Judged
      <3>. QED BY <3>2, <3>3
    <2>3. job.left = "NO" BY <1>0, <1>1 DEF Placed
    <2>4. Placed(job') BY <1>0, <1>1, <2>0, <2>1, <2>3 DEF Placed, Preparing, Recorded, Proving, Taking, Untaking, Removing, Ending
    <2>5. \A s \in onDisk' : Traced(job', s) BY <1>1, <2>1 DEF Traced
    <2>6. ~Displacing(job') BY <2>0, <2>1 DEF Displacing
    <2>7. Doing(job', ns')
      BY <1>2, <2>1, <2>2, <2>6 DEF Doing, Effects, Proved, Prepared, Preparing, Recorded, Proving, Taking, Untaking, Removing, Ending
    <2>. QED BY <1>0, <1>s, <1>2, <2>1, <2>4, <2>5, <2>7, BrokerMoves
  <1>5. CASE ns.dir # "NONE" /\ Judge(job.op) # "DISPOSABLE" /\ Ends(Judge(job.op))
    <2>1. Judge(job.op) \in {"DISPLACED", "EVIDENCE", "TAKEN"} BY <1>5 DEF Judge
    <2>. QED BY <1>3, <1>5, <2>1
  <1>. QED BY <1>3, <1>4, <1>5 DEF Reclaim

-----------------------------------------------------------------------------
(* The exchange *)

\* Nothing is asked of a broker that does nothing.
LEMMA NothingDone ==
  ASSUME NEW s
  PROVE  Traced(NoJob, s) /\ Doing(NoJob, s) /\ Placed(NoJob) /\ NoJob \in Job
  <1>1. <<>> \in Todos BY DEF Todos
  <1>. QED
    BY <1>1 DEF NoJob, Traced, Doing, Effects, Proved, Prepared, Placed, Job, Places, Objects, Answers,
           Displacing, Preparing, Recorded, Proving, Taking, Untaking, Removing, Ending

LEMMA TakesKeeps ==
  ASSUME IInv, Takes, AuthorityUnmoved
  PROVE  IInv'
  <1>1. /\ call.st = "WAIT" /\ job = NoJob /\ ns' = ns /\ onDisk' = onDisk /\ writes' = writes
        /\ work' = work /\ invocation' = invocation /\ proc' = proc /\ staging' = staging
    BY DEF Takes, Serves, AuthorityUnmoved, fsVars
  <1>2. call \in Call /\ call # NoCall /\ call.ans = "NONE" BY <1>1 DEF IInv, Typed, Control, NoCall
  <1>3. /\ work \in {"PERFORM", "RECLAIM"} /\ call.task = work /\ call.op = invocation.op
        /\ invocation.state # "NONE" /\ invocation.op \in Operations
    BY <1>2 DEF IInv, Typed, Control
  <1>4. /\ call' \in Call /\ call'.st = "SENT" /\ call'.task = call.task /\ call'.op = call.op
        /\ call'.ans = "NONE"
    BY <1>2 DEF Takes, Call
  <1>. DEFINE where == IF call.task = "RECLAIM" THEN "JUDGE" ELSE "BEGIN"
  <1>5. /\ job' \in Job /\ job'.task = call.task /\ job'.op = call.op /\ job'.by = "AUTHORITY"
        /\ job'.at = where /\ job'.ans = "NONE" /\ job'.left = "NO"
    <2>1. job' = [NoJob EXCEPT !.task = call.task, !.op = call.op, !.by = "AUTHORITY", !.at = where]
      BY DEF Takes
    <2>2. where \in Places BY DEF Places
    <2>. HIDE DEF where
    <2>3. NoJob \in Job /\ NoJob.ans = "NONE" /\ NoJob.left = "NO" BY NothingDone DEF NoJob
    <2>. QED BY <1>3, <2>1, <2>2, <2>3 DEF Job
  <1>6. Typed' BY <1>1, <1>4, <1>5 DEF IInv, Typed
  <1>7. job'.task = "PERFORM" => Unsent
    BY <1>1, <1>3, <1>5 DEF Unsent
  <1>8. ~Unsent' BY <1>1, <1>3, <1>4 DEF Unsent
  <1>9. Control'
    <2>1. job'.task = "PERFORM" => invocation.state = "INTENT" BY <1>3, <1>5 DEF IInv, Control
    <2>2. call' # NoCall /\ job'.task # "NONE" BY <1>3, <1>4, <1>5 DEF NoCall
    <2>. QED BY <1>1, <1>3, <1>4, <1>5, <1>8, <2>1, <2>2 DEF IInv, Control
  <1>10. Placed(job') BY <1>3, <1>5 DEF Placed, Operations, Preparing, Recorded, Proving, Taking, Untaking, Removing, Ending
  <1>11. ASSUME NEW s \in onDisk' PROVE Disk(s)'
    <2>1. Sound(invocation.op, s) /\ Truth(invocation, s) /\ (Unsent => Pristine(s))
      BY <1>1, <1>11 DEF IInv, Disk
    <2>2. Traced(job', s) BY <1>5, <1>7, <2>1 DEF Traced, Preparing, Recorded, Proving, Taking, Untaking, Removing, Ending
    <2>. QED BY <1>1, <1>4, <1>8, <2>1, <2>2 DEF Disk
  <1>12. Doing(job', ns') BY <1>5 DEF Doing, Effects, Proved, Prepared, Preparing, Recorded, Proving, Taking, Untaking, Removing, Ending
  <1>. QED BY <1>1, <1>4, <1>6, <1>9, <1>10, <1>11, <1>12 DEF IInv

\* The broker is done with its job, or is no more: what the authority is told, if it waits.
LEMMA JobOver ==
  ASSUME IInv, AuthorityUnmoved, UNCHANGED <<fsVars, writes>>, job # NoJob, job' = NoJob,
         \/ call' = call /\ call.st # "SENT"
         \/ /\ call.st = "SENT"
            /\ \E ans \in Answers :
                  /\ call' = [call EXCEPT !.st = "DONE", !.ans = ans]
                  /\ ans # "NOT_SENT"
                  /\ Reported(job.task, ans, ns)
                  /\ \A s \in onDisk : Answered(job.op, job.task, ans, s)
  PROVE  IInv'
  <1>1. /\ ns' = ns /\ onDisk' = onDisk /\ writes' = writes
        /\ work' = work /\ invocation' = invocation /\ proc' = proc /\ staging' = staging
    BY DEF AuthorityUnmoved, fsVars
  <1>2. ~Unsent /\ job.task # "NONE" /\ job.op = invocation.op /\ call \in Call
    BY DEF IInv, Typed, Control, Placed
  <1>3. NoJob \in Job /\ Placed(NoJob) /\ NoJob.task = "NONE" /\ NoJob.by = "NOBODY"
    BY NothingDone DEF NoJob
  <1>4. CASE call' = call /\ call.st # "SENT"
    <2>1. Typed' BY <1>1, <1>3, <1>4 DEF IInv, Typed
    <2>2. Unsent' <=> Unsent BY <1>1, <1>4 DEF Unsent
    <2>3. Control' BY <1>1, <1>2, <1>3, <1>4, <2>2 DEF IInv, Control
    <2>4. \A s \in onDisk' : Disk(s)' BY <1>1, <1>4, <2>2, NothingDone DEF IInv, Disk
    <2>. QED BY <1>1, <1>3, <1>4, <2>1, <2>3, <2>4, NothingDone DEF IInv
  <1>5. ASSUME call.st = "SENT", NEW ans \in Answers, call' = [call EXCEPT !.st = "DONE", !.ans = ans],
               ans # "NOT_SENT", Reported(job.task, ans, ns),
               \A s \in onDisk : Answered(job.op, job.task, ans, s)
        PROVE  IInv'
    <2>1. /\ call' \in Call /\ call'.st = "DONE" /\ call'.ans = ans /\ call'.task = call.task
          /\ call'.op = call.op
      BY <1>2, <1>5 DEF Call
    <2>2. job.task = call.task BY <1>5 DEF IInv, Control
    <2>3. Typed' BY <1>1, <1>3, <2>1 DEF IInv, Typed
    <2>4. ~Unsent' BY <1>1, <1>2, <1>5, <2>1 DEF Unsent
    <2>5. call # NoCall /\ call' # NoCall
      <3>1. NoCall.st = "NONE" BY DEF NoCall
      <3>2. call.st # "NONE" /\ call'.st # "NONE" BY <1>5, <2>1
      <3>. QED BY <3>1, <3>2
    <2>6. Control' BY <1>1, <1>3, <2>1, <2>4, <2>5 DEF IInv, Control
    <2>7. ASSUME NEW s \in onDisk' PROVE Disk(s)'
      <3>1. Sound(invocation.op, s) /\ Truth(invocation, s) BY <1>1, <2>7 DEF IInv, Disk
      <3>2. Answered(invocation.op, call'.task, call'.ans, s) BY <1>1, <1>2, <1>5, <2>1, <2>2, <2>7
      <3>3. Traced(job', s) BY NothingDone
      <3>. QED BY <1>1, <2>4, <3>1, <3>2, <3>3 DEF Disk
    <2>. QED BY <1>1, <1>3, <1>5, <2>1, <2>2, <2>3, <2>6, <2>7, NothingDone DEF IInv
  <1>. QED BY <1>4, <1>5

LEMMA AnswerKeeps ==
  ASSUME IInv, Answer, AuthorityUnmoved
  PROVE  IInv'
  <1>1. job.at = "ANSWER" /\ job # NoJob BY DEF Answer, At, NoJob
  <1>2. /\ job \in Job /\ Placed(job) /\ Doing(job, ns) /\ \A s \in onDisk : Traced(job, s)
    BY <1>1, Standing
  <1>3. /\ job.ans \in Answers /\ job.ans # "NOT_SENT" /\ Reported(job.task, job.ans, ns)
        /\ \A s \in onDisk : Answered(job.op, job.task, job.ans, s)
    BY <1>1, <1>2 DEF Job, Placed, Doing, Prepared, Traced
  <1>4. job.by = "AUTHORITY" <=> call.st = "SENT" BY DEF IInv, Control
  <1>5. CASE job.by = "AUTHORITY" BY <1>1, <1>3, <1>4, <1>5, JobOver DEF Answer
  <1>6. CASE job.by # "AUTHORITY" BY <1>1, <1>4, <1>6, JobOver DEF Answer
  <1>. QED BY <1>5, <1>6

LEMMA BrokerDiesKeeps ==
  ASSUME IInv, BrokerDies, AuthorityUnmoved
  PROVE  IInv'
  <1>1. /\ "LOST" \in Answers /\ Reported(job.task, "LOST", ns)
        /\ \A s \in onDisk : Answered(job.op, job.task, "LOST", s)
    BY DEF Answers, Reported, Answered
  <1>2. CASE call.st = "SENT" BY <1>1, <1>2, JobOver DEF BrokerDies, Killed
  <1>3. CASE call.st # "SENT" BY <1>3, JobOver DEF BrokerDies, Killed
  <1>. QED BY <1>2, <1>3

LEMMA GivesUpKeeps ==
  ASSUME IInv, GivesUp, AuthorityUnmoved
  PROVE  IInv'
  <1>1. /\ ns' = ns /\ onDisk' = onDisk /\ writes' = writes
        /\ work' = work /\ invocation' = invocation /\ proc' = proc /\ staging' = staging
    BY DEF GivesUp, AuthorityUnmoved, fsVars
  <1>2. call \in Call /\ job \in Job BY DEF IInv, Typed
  <1>3. CASE call.st = "WAIT" /\ call' = [call EXCEPT !.st = "DONE", !.ans = "NOT_SENT"] /\ job' = job
    <2>1. /\ call' \in Call /\ call'.st = "DONE" /\ call'.ans = "NOT_SENT" /\ call'.task = call.task
          /\ call'.op = call.op
      BY <1>2, <1>3 DEF Call, Answers
    <2>2. Typed' BY <1>1, <1>3, <2>1 DEF IInv, Typed
    <2>3. Unsent' <=> Unsent BY <1>1, <1>3, <2>1 DEF Unsent
    <2>4. call # NoCall /\ call' # NoCall
      <3>1. NoCall.st = "NONE" BY DEF NoCall
      <3>2. call.st # "NONE" /\ call'.st # "NONE" BY <1>3, <2>1
      <3>. QED BY <3>1, <3>2
    <2>5. Control' BY <1>1, <1>3, <2>1, <2>3, <2>4 DEF IInv, Control
    <2>6. call.task = "PERFORM" => Unsent BY <1>3 DEF Unsent
    <2>7. \A s : Pristine(s) => Refusable(invocation.op, s) /\ s.dir = "NONE" BY DEF Pristine, Refusable
    <2>8. \A s \in onDisk' : Disk(s)'
      BY <1>1, <1>3, <2>1, <2>3, <2>6, <2>7 DEF IInv, Disk, Answered
    <2>9. Reported(call'.task, call'.ans, ns')
      BY <1>1, <2>1, <2>6, <2>7 DEF IInv, Disk, Reported
    <2>. QED BY <1>1, <1>3, <2>2, <2>5, <2>8, <2>9 DEF IInv
  <1>4. CASE /\ call.st = "SENT" /\ call' = [call EXCEPT !.st = "DONE", !.ans = "LOST"]
             /\ job' = [job EXCEPT !.by = "NOBODY"]
    <2>1. /\ call' \in Call /\ call'.st = "DONE" /\ call'.ans = "LOST" /\ call'.task = call.task
          /\ call'.op = call.op
      BY <1>2, <1>4 DEF Call, Answers
    <2>2. job' \in Job /\ job'.by = "NOBODY" BY <1>2, <1>4 DEF Job
    <2>3. /\ job'.task = job.task /\ job'.op = job.op /\ job'.at = job.at /\ job'.took = job.took
          /\ job'.seen = job.seen /\ job'.todo = job.todo /\ job'.left = job.left /\ job'.ans = job.ans
      BY <1>2, <1>4 DEF Job
    <2>4. Typed' BY <1>1, <2>1, <2>2 DEF IInv, Typed
    <2>5. job.task = call.task /\ call.task # "NONE" BY <1>4 DEF IInv, Control, NoCall
    <2>6. ~Unsent BY <2>5 DEF IInv, Control, NoJob
    <2>7. ~Unsent' BY <1>1, <2>1, <2>6 DEF Unsent
    <2>8. call # NoCall /\ call' # NoCall
      <3>1. NoCall.st = "NONE" BY DEF NoCall
      <3>2. call.st # "NONE" /\ call'.st # "NONE" BY <1>4, <2>1
      <3>. QED BY <3>1, <3>2
    <2>9. Control' BY <1>1, <1>4, <2>1, <2>2, <2>3, <2>7, <2>8 DEF IInv, Control
    <2>10. Placed(job') BY <2>3, <2>5 DEF IInv, Placed
    <2>11. Displacing(job') <=> Displacing(job) BY <2>3 DEF Displacing
    <2>12. Doing(job', ns') BY <1>1, <2>3, <2>11 DEF IInv, Doing, Effects, Proved, Prepared
    <2>13. \A s : Traced(job, s) => Traced(job', s) BY <2>3 DEF Traced
    <2>14. \A s \in onDisk' : Disk(s)' BY <1>1, <2>1, <2>7, <2>13 DEF IInv, Disk, Answered
    <2>15. Reported(call'.task, call'.ans, ns') BY <2>1 DEF Reported
    <2>. QED BY <1>1, <2>4, <2>9, <2>10, <2>12, <2>14, <2>15 DEF IInv
  <1>. QED BY <1>3, <1>4 DEF GivesUp

LEMMA WriterKeeps ==
  ASSUME IInv, WriterStep, AuthorityUnmoved
  PROVE  IInv'
  <1>1. ns \in Namespace BY DEF IInv, Disk, Sound
  <1>2. PICK t : Rewritten(ns, t) /\ Writes(t) BY <1>1, WriterRewrites
  <1>3. /\ ns' = t /\ ns' \in onDisk' /\ onDisk' \subseteq onDisk \cup {ns'}
        /\ job' = job /\ call' = call
        /\ work' = work /\ invocation' = invocation /\ proc' = proc /\ staging' = staging
    BY <1>2 DEF Writes, Changes, AuthorityUnmoved
  <1>4. Typed' BY <1>2, <1>3, MutationConstants DEF IInv, Typed, Writes
  <1>5. Unsent' <=> Unsent BY <1>3 DEF Unsent
  <1>6. Control' BY <1>3, <1>5 DEF IInv, Control
  <1>7. Rewritten(ns, ns') BY <1>2, <1>3
  <1>8. Sound(invocation.op, ns') BY <1>7, RewrittenIsSound DEF IInv, Disk
  <1>9. /\ Truth(invocation, ns') /\ (Unsent => Pristine(ns')) /\ Traced(job, ns')
        /\ call.st = "DONE" => Answered(invocation.op, call.task, call.ans, ns')
        /\ call.st = "DONE" => Reported(call.task, call.ans, ns')
    BY <1>7, RewrittenIsTraced DEF IInv, Disk
  <1>10. Doing(job, ns') BY <1>7, RewrittenIsDone DEF IInv
  <1>11. \A s \in onDisk' : Disk(s)' BY <1>3, <1>5, <1>8, <1>9 DEF IInv, Disk
  <1>. QED BY <1>3, <1>4, <1>6, <1>9, <1>10, <1>11 DEF IInv

-----------------------------------------------------------------------------
(* Steps of the authority *)

LEMMA AuthorityMoves ==
  ASSUME IInv, BrokerUnmoved, Typed', Control', invocation'.op = invocation.op,
         \A s \in onDisk : Truth(invocation', s), Unsent' => Unsent, call'.st # "DONE"
  PROVE  IInv'
  <1>1. ns' = ns /\ onDisk' = onDisk /\ writes' = writes /\ job' = job
    BY DEF BrokerUnmoved, fsVars
  <1>2. \A s \in onDisk' : Disk(s)' BY <1>1 DEF IInv, Disk
  <1>. QED BY <1>1, <1>2 DEF IInv

\* Before anything was sent, a namespace is sound for whatever is decided.
LEMMA PristineIsSound ==
  ASSUME NEW op, NEW s, Sound("NONE", s), Pristine(s)
  PROVE  Sound(op, s)
  BY DEF Sound, Kept, Judged, Pristine, Empty

LEMMA DecideKeeps ==
  ASSUME IInv, NEW op \in Operations, Decide(op)
  PROVE  IInv'
  <1>1. /\ ns' = ns /\ onDisk' = onDisk /\ writes' = writes /\ job' = job /\ call' = call
        /\ proc' = proc
    BY DEF Decide, BrokerUnmoved, fsVars
  <1>2. /\ proc = "UP" /\ work = "IDLE" /\ invocation = NoInvocation /\ work' = "HANDOFF"
        /\ staging' = IntentStaging(op)
    BY DEF Decide, Locate, KeyBound
  <1>3. /\ invocation.state = "NONE" /\ invocation.op = "NONE"
        /\ invocation'.state = "INTENT" /\ invocation'.op = op
        /\ invocation' \in [state : {"NONE", "INTENT", "COMPLETED", "FAILED", "UNKNOWN"},
                            op : Operations \cup {"NONE"}]
    BY <1>2 DEF NoInvocation, Decide, Intent
  <1>4. Unsent /\ Unsent' BY <1>2, <1>3 DEF Unsent
  <1>5. job = NoJob /\ call = NoCall BY <1>2, <1>4 DEF IInv, Control
  <1>6. NoJob.task = "NONE" /\ NoJob.by = "NOBODY" /\ NoCall.st = "NONE" /\ NoCall.task = "NONE"
    BY DEF NoJob, NoCall
  <1>7. staging' \in {"NONE", "EXPECTED"} BY <1>2 DEF IntentStaging
  <1>8. Typed' BY <1>1, <1>2, <1>3, <1>7 DEF IInv, Typed
  <1>9. op # "NONE" BY DEF Operations
  <1>10. Control' BY <1>1, <1>2, <1>3, <1>5, <1>6, <1>9 DEF Control
  <1>11. ASSUME NEW s \in onDisk' PROVE Disk(s)'
    <2>1. Sound("NONE", s) /\ Pristine(s) /\ Traced(job, s)
      BY <1>1, <1>3, <1>4, <1>11 DEF IInv, Disk
    <2>2. Sound(op, s) BY <2>1, PristineIsSound
    <2>3. Truth(invocation', s) BY <1>3 DEF Truth
    <2>. QED BY <1>1, <1>3, <1>5, <1>6, <2>1, <2>2, <2>3 DEF Disk
  <1>. QED BY <1>1, <1>5, <1>6, <1>8, <1>10, <1>11 DEF IInv

LEMMA HandoffFailsKeeps ==
  ASSUME IInv, HandoffFails
  PROVE  IInv'
  <1>1. /\ proc = "UP" /\ work = "HANDOFF" /\ work' = "IDLE" /\ proc' = proc /\ call' = call
        /\ job' = job /\ writes' = writes /\ staging' = Cleared
    BY DEF HandoffFails, BrokerUnmoved
  <1>2. /\ invocation.state = "INTENT" /\ call = NoCall /\ Unsent BY <1>1 DEF IInv, Control, Unsent
  <1>3. /\ invocation'.state = "FAILED" /\ invocation'.op = invocation.op
        /\ invocation' \in [state : {"NONE", "INTENT", "COMPLETED", "FAILED", "UNKNOWN"},
                            op : Operations \cup {"NONE"}]
    BY DEF HandoffFails, IInv, Typed
  <1>4. job = NoJob /\ NoJob.task = "NONE" /\ NoCall.st = "NONE" /\ NoCall.task = "NONE"
    BY <1>2 DEF IInv, Control, NoJob, NoCall
  <1>5. Typed' BY <1>1, <1>3 DEF IInv, Typed, Cleared
  <1>6. ~Unsent' BY <1>1, <1>2, <1>3, <1>4 DEF Unsent
  <1>7. Control' BY <1>1, <1>2, <1>3, <1>4, <1>6 DEF IInv, Control
  <1>8. \A s \in onDisk : Truth(invocation', s)
    BY <1>2, <1>3 DEF IInv, Disk, Truth, Pristine, Refusable
  <1>. QED BY <1>1, <1>2, <1>3, <1>4, <1>5, <1>6, <1>7, <1>8, AuthorityMoves DEF HandoffFails

LEMMA HandoffKeeps ==
  ASSUME IInv, Handoff
  PROVE  IInv'
  <1>1. /\ proc = "UP" /\ work = "HANDOFF" /\ work' = "PERFORM" /\ proc' = proc
        /\ job' = job /\ writes' = writes /\ staging' = staging /\ invocation' = invocation
    BY DEF Handoff, BrokerUnmoved
  <1>2. /\ invocation.state = "INTENT" /\ call = NoCall /\ Unsent BY <1>1 DEF IInv, Control, Unsent
  <1>3. /\ call' \in Call /\ call'.st = "WAIT" /\ call'.task = "PERFORM" /\ call'.op = invocation.op
        /\ call'.ans = "NONE"
    BY DEF Handoff, Asks, Order, Call, IInv, Typed
  <1>4. job = NoJob /\ NoJob.task = "NONE" /\ NoJob.by = "NOBODY" BY <1>2 DEF IInv, Control, NoJob
  <1>5. Typed' BY <1>1, <1>3 DEF IInv, Typed
  <1>6. Control' BY <1>1, <1>2, <1>3, <1>4 DEF IInv, Control
  <1>7. \A s \in onDisk : Truth(invocation', s) BY <1>1 DEF IInv, Disk
  <1>. QED BY <1>1, <1>2, <1>3, <1>5, <1>6, <1>7, AuthorityMoves DEF Handoff

LEMMA RecordOutcomeKeeps ==
  ASSUME IInv, RecordOutcome
  PROVE  IInv'
  <1>1. /\ proc = "UP" /\ work = "PERFORM" /\ call.st = "DONE" /\ work' = "SWEEP" /\ proc' = proc
        /\ job' = job /\ writes' = writes /\ call' = NoCall
        /\ staging' \in {staging, Cleared}
    BY DEF RecordOutcome, BrokerUnmoved, Over
  <1>2. invocation.state = "INTENT" /\ call.task = "PERFORM" /\ call.op = invocation.op
    BY <1>1 DEF IInv, Control
  <1>3. /\ invocation'.state = Classify(call.ans) /\ invocation'.op = invocation.op
        /\ invocation' \in [state : {"NONE", "INTENT", "COMPLETED", "FAILED", "UNKNOWN"},
                            op : Operations \cup {"NONE"}]
    BY DEF RecordOutcome, IInv, Typed, Classify
  <1>4. /\ Classify(call.ans) \in {"COMPLETED", "FAILED", "UNKNOWN"}
        /\ Classify(call.ans) = "COMPLETED" => call.ans \in {"DONE", "DEBRIS"}
        /\ Classify(call.ans) = "FAILED" => call.ans \in {"NOT_SENT", "REFUSED"}
    BY DEF Classify, Delivered
  <1>5. NoCall.st = "NONE" /\ NoCall.task = "NONE" /\ NoCall \in Call
    BY DEF NoCall, Call, Answers
  <1>6. Typed' BY <1>1, <1>3, <1>5 DEF IInv, Typed, Cleared
  <1>7. ~Unsent' BY <1>1, <1>3, <1>4, <1>5 DEF Unsent
  <1>8. job.task = "PERFORM" => Classify(call.ans) = "UNKNOWN"
    <2>1. SUFFICES ASSUME job.task = "PERFORM" PROVE Classify(call.ans) = "UNKNOWN" OBVIOUS
    <2>2. job # NoJob BY <2>1 DEF NoJob
    <2>3. call.ans = "LOST" BY <1>1, <1>2, <2>2 DEF IInv, Control, Unsent
    <2>. QED BY <2>3, <1>4
  <1>9. job.by # "AUTHORITY" BY <1>1 DEF IInv, Control
  <1>10. Control' BY <1>1, <1>2, <1>3, <1>4, <1>5, <1>7, <1>8, <1>9 DEF IInv, Control
  <1>11. \A s \in onDisk : Truth(invocation', s)
    BY <1>1, <1>2, <1>3, <1>4 DEF IInv, Disk, Truth, Answered
  <1>. QED BY <1>1, <1>3, <1>5, <1>6, <1>7, <1>10, <1>11, AuthorityMoves DEF RecordOutcome

LEMMA SweepKeeps ==
  ASSUME IInv, Sweep
  PROVE  IInv'
  <1>1. /\ proc = "UP" /\ work = "SWEEP" /\ proc' = proc /\ job' = job /\ writes' = writes
        /\ staging' = staging /\ invocation' = invocation
    BY DEF Sweep, BrokerUnmoved
  <1>2. call = NoCall /\ NoCall.st = "NONE" /\ NoCall.task = "NONE" BY <1>1 DEF IInv, Control, NoCall
  <1>3. \A s \in onDisk : Truth(invocation', s) BY <1>1 DEF IInv, Disk
  <1>4. CASE staging = "EXPECTED" /\ invocation.state # "INTENT" /\ work' = "RECLAIM" /\ Asks("RECLAIM")
    <2>1. /\ call' \in Call /\ call'.st = "WAIT" /\ call'.task = "RECLAIM" /\ call'.op = invocation.op
          /\ call'.ans = "NONE"
      BY <1>4 DEF Asks, Order, Call, IInv, Typed
    <2>2. Typed' BY <1>1, <1>4, <2>1 DEF IInv, Typed
    <2>3. invocation.state # "NONE" BY <1>4 DEF IInv, Control
    <2>4. ~Unsent' BY <1>1, <1>4, <2>1, <2>3 DEF Unsent
    <2>5. Control' BY <1>1, <1>2, <1>4, <2>1, <2>3, <2>4 DEF IInv, Control
    <2>. QED BY <1>1, <1>3, <2>1, <2>2, <2>4, <2>5, AuthorityMoves DEF Sweep
  <1>5. CASE work' = "IDLE" /\ UNCHANGED call
    <2>1. Typed' BY <1>1, <1>5 DEF IInv, Typed
    <2>2. Unsent' => Unsent BY <1>1, <1>5 DEF Unsent
    <2>3. Control' BY <1>1, <1>2, <1>5, <2>2 DEF IInv, Control
    <2>. QED BY <1>1, <1>2, <1>3, <1>5, <2>1, <2>2, <2>3, AuthorityMoves DEF Sweep
  <1>. QED BY <1>4, <1>5 DEF Sweep

LEMMA SweepsLaterKeeps ==
  ASSUME IInv, SweepsLater
  PROVE  IInv'
  <1>1. /\ proc = "UP" /\ work = "IDLE" /\ work' = "SWEEP" /\ proc' = proc /\ job' = job
        /\ writes' = writes /\ staging' = staging /\ invocation' = invocation /\ call' = call
    BY DEF SweepsLater, BrokerUnmoved
  <1>2. call = NoCall /\ NoCall.st = "NONE" /\ NoCall.task = "NONE" BY <1>1 DEF IInv, Control, NoCall
  <1>3. Typed' BY <1>1 DEF IInv, Typed
  <1>4. Unsent' => Unsent BY <1>1 DEF Unsent
  <1>5. Control' BY <1>1, <1>2, <1>4 DEF IInv, Control
  <1>6. \A s \in onDisk : Truth(invocation', s) BY <1>1 DEF IInv, Disk
  <1>. QED BY <1>1, <1>2, <1>3, <1>4, <1>5, <1>6, AuthorityMoves DEF SweepsLater

LEMMA SettleKeeps ==
  ASSUME IInv, Settle
  PROVE  IInv'
  <1>1. /\ proc = "UP" /\ work = "RECLAIM" /\ call.st = "DONE" /\ work' = "IDLE" /\ proc' = proc
        /\ job' = job /\ writes' = writes /\ invocation' = invocation /\ call' = NoCall
        /\ staging' = Settled(call.ans)
    BY DEF Settle, BrokerUnmoved, Over
  <1>2. NoCall.st = "NONE" /\ NoCall.task = "NONE" /\ NoCall \in Call BY DEF NoCall, Call, Answers
  <1>3. Settled(call.ans) \in {"CLEARED", "REMOVED", "FOREIGN", staging} \cup Retained
    BY DEF Settled, Retained
  <1>4. Typed' BY <1>1, <1>2, <1>3 DEF IInv, Typed
  <1>5. invocation.state # "NONE" BY <1>1 DEF IInv, Control
  <1>6. ~Unsent' BY <1>1, <1>2, <1>5 DEF Unsent
  <1>7. job.by # "AUTHORITY" BY <1>1 DEF IInv, Control
  <1>8. Control' BY <1>1, <1>2, <1>5, <1>6, <1>7 DEF IInv, Control
  <1>9. \A s \in onDisk : Truth(invocation', s) BY <1>1 DEF IInv, Disk
  <1>. QED BY <1>1, <1>2, <1>4, <1>6, <1>8, <1>9, AuthorityMoves DEF Settle

LEMMA StartKeeps ==
  ASSUME IInv, Start
  PROVE  IInv'
  <1>1. /\ proc = "DOWN" /\ work' = "SWEEP" /\ proc' = "UP" /\ job' = job
        /\ writes' = writes /\ staging' = staging /\ call' = call
    BY DEF Start, BrokerUnmoved
  <1>2. call = NoCall /\ NoCall.st = "NONE" /\ NoCall.task = "NONE" /\ work = "IDLE"
    BY <1>1 DEF IInv, Control, NoCall
  <1>3. /\ invocation'.op = invocation.op
        /\ invocation'.state = IF invocation.state = "INTENT" THEN "UNKNOWN" ELSE invocation.state
        /\ invocation' \in [state : {"NONE", "INTENT", "COMPLETED", "FAILED", "UNKNOWN"},
                            op : Operations \cup {"NONE"}]
    BY DEF Start, IInv, Typed
  <1>4. Typed' BY <1>1, <1>3 DEF IInv, Typed
  <1>5. Unsent' => Unsent BY <1>1, <1>2, <1>3 DEF Unsent
  <1>6. Control' BY <1>1, <1>2, <1>3, <1>5 DEF IInv, Control
  <1>7. \A s \in onDisk : Truth(invocation', s) BY <1>3 DEF IInv, Disk, Truth
  <1>. QED BY <1>1, <1>2, <1>3, <1>4, <1>5, <1>6, <1>7, AuthorityMoves DEF Start

LEMMA CrashKeeps ==
  ASSUME IInv, Crash
  PROVE  IInv'
  <1>1. /\ proc' = "DOWN" /\ work' = "IDLE" /\ call' = NoCall /\ invocation' = invocation
        /\ staging' = staging /\ writes' = writes /\ ns' = ns /\ onDisk' = onDisk
    BY DEF Crash, Down, fsVars
  <1>2. NoCall.st = "NONE" /\ NoCall.task = "NONE" /\ NoCall \in Call BY DEF NoCall, Call, Answers
  <1>3. /\ job' \in Job /\ job'.by = "NOBODY"
        /\ job'.task = job.task /\ job'.op = job.op /\ job'.at = job.at /\ job'.took = job.took
        /\ job'.seen = job.seen /\ job'.todo = job.todo /\ job'.left = job.left /\ job'.ans = job.ans
    BY DEF Crash, IInv, Typed, Job
  <1>4. job = NoJob => job' = NoJob BY DEF Crash, NoJob
  <1>5. Typed' BY <1>1, <1>2, <1>3 DEF IInv, Typed
  <1>6. Unsent' => Unsent BY <1>1, <1>2 DEF Unsent
  <1>7. Control' BY <1>1, <1>2, <1>3, <1>4, <1>6 DEF IInv, Control
  <1>8. Placed(job') BY <1>3, <1>4 DEF IInv, Placed
  <1>9. Displacing(job') <=> Displacing(job) BY <1>3 DEF Displacing
  <1>10. Doing(job', ns') BY <1>1, <1>3, <1>9 DEF IInv, Doing, Effects, Proved, Prepared
  <1>11. \A s : Traced(job, s) => Traced(job', s) BY <1>3 DEF Traced
  <1>12. \A s \in onDisk' : Disk(s)' BY <1>1, <1>2, <1>6, <1>11 DEF IInv, Disk
  <1>. QED BY <1>1, <1>2, <1>5, <1>7, <1>8, <1>10, <1>12 DEF IInv

\* A power cut leaves a namespace that was sound, with a part of a content that was not on
\* disk: of a file the workspace does not have.
LEMMA PowerCutKeeps ==
  ASSUME IInv, PowerCut
  PROVE  IInv'
  <1>1. /\ proc' = "DOWN" /\ work' = "IDLE" /\ call' = NoCall /\ invocation' = invocation
        /\ staging' = staging /\ writes' = writes /\ job' = NoJob
    BY DEF PowerCut, Down
  <1>0. PICK space \in onDisk : \E text \in Survives(space.content["N"]) :
            Commits([space EXCEPT !.content = [@ EXCEPT !["N"] = text]])
    BY DEF PowerCut
  <1>2. PICK text \in Survives(space.content["N"]) :
            Commits([space EXCEPT !.content = [@ EXCEPT !["N"] = text]])
    BY <1>0
  <1>3. ns' = [space EXCEPT !.content = [@ EXCEPT !["N"] = text]] /\ onDisk' = {ns'}
    BY <1>2 DEF Commits
  <1>4. /\ Sound(invocation.op, space) /\ Truth(invocation, space)
        /\ Unsent => Pristine(space)
    BY DEF IInv, Disk
  <1>5. space \in Namespace /\ (Seen(space, "N") => space.content["N"] = "POST") BY <1>4 DEF Sound
  <1>6. /\ text \in {"BASE", "OTHER", "PART", "CACHED", "POST"}
        /\ Seen(space, "N") => text = "POST"
    BY <1>5 DEF Survives, Namespace
  <1>7. Sound(invocation.op, ns') BY <1>3, <1>4, <1>6, SoundContent
  <1>8. /\ ns'.at = space.at /\ ns'.aside = space.aside /\ ns'.applied = space.applied
        /\ ns'.dir = space.dir
    BY <1>3, <1>5 DEF Namespace
  <1>9. Somewhere(ns', "N") <=> Somewhere(space, "N") BY <1>8 DEF Somewhere, Seen
  <1>10. Truth(invocation, ns') /\ (Unsent => Pristine(ns'))
    BY <1>4, <1>8, <1>9 DEF Truth, Refusable, Effected, Pristine
  <1>11. NoCall.st = "NONE" /\ NoCall.task = "NONE" /\ NoCall \in Call BY DEF NoCall, Call, Answers
  <1>12. NoJob.task = "NONE" /\ NoJob.by = "NOBODY" BY DEF NoJob
  <1>13. Unsent' => Unsent BY <1>1, <1>11 DEF Unsent
  <1>14. Typed' BY <1>1, <1>11, NothingDone DEF IInv, Typed
  <1>15. Control' BY <1>1, <1>11, <1>12, <1>13 DEF IInv, Control
  <1>17. \A s \in onDisk' : Disk(s)'
    <2>1. ASSUME NEW s \in onDisk' PROVE Disk(s)'
      <3>1. s = ns' BY <1>3
      <3>. QED BY <1>1, <1>7, <1>10, <1>11, <1>13, <3>1, NothingDone DEF Disk
    <2>. QED BY <2>1
  <1>. QED BY <1>1, <1>3, <1>11, <1>14, <1>15, <1>17, NothingDone DEF IInv

-----------------------------------------------------------------------------
(* The invariant *)

LEMMA InitInv == Init => IInv
  <1>. SUFFICES ASSUME Init PROVE IInv OBVIOUS
  <1>1. PICK o \in {"T", "none"} :
          ns = [at |-> [n \in Names |-> IF n = "leaf" THEN o ELSE "none"],
                aside |-> {"S", "T"} \ {o},
                content |-> [o2 \in {"T", "N"} |-> IF o2 = "T" THEN "BASE" ELSE "PART"],
                dir |-> "NONE", record |-> "NONE", taken |-> "NONE", applied |-> "NO"]
    BY DEF Init, MutationInit
  <1>2. /\ onDisk = {ns} /\ writes = 0 /\ job = NoJob /\ call = NoCall
        /\ proc = "UP" /\ work = "IDLE" /\ invocation = NoInvocation /\ staging = "NONE"
    BY DEF Init, MutationInit
  <1>3. ns \in Namespace BY <1>1 DEF Namespace, Names, Objects
  <1>4. /\ ns.at["leaf"] = o /\ ns.at["dest"] = "none" /\ ns.at["new"] = "none" /\ ns.at["held"] = "none"
        /\ ns.aside = {"S", "T"} \ {o} /\ ns.dir = "NONE" /\ ns.record = "NONE" /\ ns.taken = "NONE"
        /\ ns.applied = "NO"
    BY <1>1 DEF Names
  <1>5. Pristine(ns) /\ Empty(ns) /\ Somewhere(ns, "S") /\ Somewhere(ns, "T") /\ ~Seen(ns, "N")
    BY <1>4 DEF Pristine, Empty, Somewhere, Seen
  <1>6. Sound("NONE", ns) BY <1>3, <1>4, <1>5 DEF Sound, Kept, Judged
  <1>7. /\ invocation.state = "NONE" /\ invocation.op = "NONE"
        /\ invocation \in [state : {"NONE", "INTENT", "COMPLETED", "FAILED", "UNKNOWN"},
                           op : Operations \cup {"NONE"}]
    BY <1>2 DEF NoInvocation
  <1>8. NoCall.st = "NONE" /\ NoCall.task = "NONE" /\ NoCall \in Call BY DEF NoCall, Call, Answers
  <1>9. NoJob.task = "NONE" /\ NoJob.by = "NOBODY" BY DEF NoJob
  <1>10. Typed BY <1>2, <1>7, <1>8, NothingDone, MutationConstants DEF Typed
  <1>11. Control BY <1>2, <1>7, <1>8, <1>9 DEF Control
  <1>12. Truth(invocation, ns) BY <1>7 DEF Truth
  <1>13. \A s \in onDisk : Disk(s) BY <1>2, <1>5, <1>6, <1>7, <1>8, <1>12, NothingDone DEF Disk
  <1>. QED BY <1>2, <1>8, <1>10, <1>11, <1>13, NothingDone DEF IInv

\* Only an invocation's own operation is at the places of it.
LEMMA Performing ==
  ASSUME IInv, job.at \notin {"NONE", "JUDGE", "ANSWER"} \cup Removing \cup Ending
  PROVE  job.task = "PERFORM"
  BY Standing DEF Placed, Job

LEMMA BrokerStepKeeps ==
  ASSUME IInv, BrokerStep, AuthorityUnmoved
  PROVE  IInv'
  <1>. USE DEF At
  <1>1. CASE Takes BY <1>1, TakesKeeps
  <1>2. CASE Answer BY <1>2, AnswerKeeps
  <1>3. CASE Begin
    <2>1. job.task = "PERFORM" BY <1>3, Performing DEF Begin, Removing, Ending
    <2>. QED BY <1>3, <2>1, BeginKeeps
  <1>4. CASE AlreadyApplied
    <2>1. job.task = "PERFORM" BY <1>4, Performing DEF AlreadyApplied, Removing, Ending
    <2>. QED BY <1>4, <2>1, AlreadyAppliedKeeps
  <1>5. CASE Make
    <2>1. job.task = "PERFORM" BY <1>5, Performing DEF Make, Removing, Ending
    <2>. QED BY <1>5, <2>1, MakeKeeps
  <1>6. CASE WriteNew
    <2>1. job.task = "PERFORM" BY <1>6, Performing DEF WriteNew, Removing, Ending
    <2>. QED BY <1>6, <2>1, WriteNewKeeps
  <1>7. CASE Record
    <2>1. job.task = "PERFORM" BY <1>7, Performing DEF Record, Removing, Ending
    <2>. QED BY <1>7, <2>1, RecordKeeps
  <1>8. CASE Check
    <2>1. job.task = "PERFORM" BY <1>8, Performing DEF Check, Removing, Ending
    <2>. QED BY <1>8, <2>1, CheckKeeps
  <1>9. CASE Effect
    <2>1. job.task = "PERFORM" BY <1>9, Performing DEF Effect, Removing, Ending
    <2>. QED BY <1>9, <2>1, EffectKeeps
  <1>10. CASE Prove
    <2>1. job.task = "PERFORM" BY <1>10, Performing DEF Prove, Removing, Ending
    <2>. QED BY <1>10, <2>1, ProveKeeps
  <1>11. CASE Restore
    <2>1. job.task = "PERFORM" BY <1>11, Performing DEF Restore, Removing, Ending
    <2>. QED BY <1>11, <2>1, RestoreKeeps
  <1>12. CASE Sync
    <2>1. job.task = "PERFORM" BY <1>12, Performing DEF Sync, Removing, Ending
    <2>. QED BY <1>12, <2>1, SyncKeeps
  <1>13. CASE RemoveTaken
    <2>1. job.task = "PERFORM" BY <1>13, Performing DEF RemoveTaken, Removing, Ending
    <2>. QED BY <1>13, <2>1, RemoveTakenKeeps
  <1>14. CASE Clean BY <1>14, CleanKeeps
  <1>15. CASE RemoveDirectory BY <1>15, RemoveDirectoryKeeps
  <1>16. CASE Reclaim BY <1>16, ReclaimKeeps
  <1>. QED
    BY <1>1, <1>2, <1>3, <1>4, <1>5, <1>6, <1>7, <1>8, <1>9, <1>10, <1>11, <1>12, <1>13, <1>14, <1>15,
       <1>16
    DEF BrokerStep

LEMMA NextInv == IInv /\ [Next]_vars => IInv'
  <1>. SUFFICES ASSUME IInv, [Next]_vars PROVE IInv' OBVIOUS
  <1>1. ASSUME NEW op \in Operations, Decide(op) PROVE IInv' BY <1>1, DecideKeeps
  <1>2. CASE HandoffFails BY <1>2, HandoffFailsKeeps
  <1>3. CASE Handoff BY <1>3, HandoffKeeps
  <1>4. CASE RecordOutcome BY <1>4, RecordOutcomeKeeps
  <1>5. CASE Sweep BY <1>5, SweepKeeps
  <1>6. CASE SweepsLater BY <1>6, SweepsLaterKeeps
  <1>7. CASE Settle BY <1>7, SettleKeeps
  <1>8. CASE Crash BY <1>8, CrashKeeps
  <1>9. CASE PowerCut BY <1>9, PowerCutKeeps
  <1>10. CASE Start BY <1>10, StartKeeps
  <1>11. CASE BrokerStep /\ AuthorityUnmoved BY <1>11, BrokerStepKeeps
  <1>12. CASE WriterStep /\ AuthorityUnmoved BY <1>12, WriterKeeps
  <1>13. CASE GivesUp /\ AuthorityUnmoved BY <1>13, GivesUpKeeps
  <1>14. CASE BrokerDies /\ AuthorityUnmoved BY <1>14, BrokerDiesKeeps
  <1>15. CASE UNCHANGED vars
    <2>1. /\ ns' = ns /\ onDisk' = onDisk /\ writes' = writes /\ job' = job /\ call' = call
          /\ proc' = proc /\ work' = work /\ invocation' = invocation /\ staging' = staging
      BY <1>15 DEF vars, mutationVars
    <2>2. Typed' /\ Control' /\ Placed(job)' /\ Doing(job, ns)'
      BY <2>1 DEF IInv, Typed, Control, Unsent
    <2>3. \A s \in onDisk' : Disk(s)' BY <2>1 DEF IInv, Disk, Unsent
    <2>. QED BY <2>1, <2>2, <2>3 DEF IInv
  <1>. QED
    BY <1>1, <1>2, <1>3, <1>4, <1>5, <1>6, <1>7, <1>8, <1>9, <1>10, <1>11, <1>12, <1>13, <1>14, <1>15
    DEF Next, Invoke

\* Every reachable state of an invocation, crashes and power cuts included, satisfies the
\* inductive invariant: the broker's job is in step with the authority's ledger and with every
\* namespace that the disk may come back with (tool.rs, staging.rs, mutate.rs).
THEOREM InvocationInvariant == Spec => []IInv
  BY InitInv, NextInv, PTL DEF Spec

-----------------------------------------------------------------------------
(* The properties *)

LEMMA IInvTypeOK == IInv => TypeOK
  <1>. SUFFICES ASSUME IInv PROVE TypeOK OBVIOUS
  <1>1. \A s \in onDisk : s \in Namespace /\ (s.dir = "NONE" => Empty(s))
    BY DEF IInv, Disk, Sound, Judged
  <1>2. job \in Job /\ call \in Call BY DEF IInv, Typed
  <1>3. {job.took, job.seen} \subseteq Objects \cup {"none"} /\ job.ans \in Answers \cup {"NONE"}
    BY <1>2 DEF Job
  <1>4. MutationTypeOK BY <1>1, <1>3 DEF IInv, Typed, Control, MutationTypeOK, Empty
  <1>5. work \in {"PERFORM", "RECLAIM"} <=> call # NoCall
    <2>1. NoCall.st = "NONE" BY DEF NoCall
    <2>. QED BY <2>1 DEF IInv, Control
  <1>. QED BY <1>4, <1>5 DEF IInv, Typed, TypeOK

LEMMA IInvWhole == IInv => WorkspaceIsWhole
  <1>. SUFFICES ASSUME IInv PROVE WorkspaceIsWhole OBVIOUS
  <1>1. Sound(invocation.op, ns) BY DEF IInv, Disk
  <1>2. (Exists(ns, "S") <=> Somewhere(ns, "S")) /\ (Exists(ns, "T") <=> Somewhere(ns, "T"))
    BY ExistsSomewhere
  <1>3. InWorkspace("N") <=> Seen(ns, "N") BY DEF InWorkspace, Binds, Seen
  <1>4. NothingLost BY <1>1, <1>2, <1>3 DEF NothingLost, Sound, Kept
  <1>5. NeverHalfWritten BY <1>1, <1>3 DEF NeverHalfWritten, Sound
  <1>. QED BY <1>4, <1>5, IInvTypeOK DEF WorkspaceIsWhole

\* No object of the workspace is lost and none is ever half-written (mutate.rs, staging.rs):
\* for any number of changes of the concurrent writer, and whichever faults there are.
THEOREM WorkspaceKept == Spec => []WorkspaceIsWhole
  BY InvocationInvariant, IInvWhole, PTL

LEMMA IInvOutcome == IInv => OutcomeTellsTheTruth
  <1>. SUFFICES ASSUME IInv PROVE OutcomeTellsTheTruth OBVIOUS
  <1>1. Truth(invocation, ns) BY DEF IInv, Disk
  <1>2. Exists(ns, "N") <=> Somewhere(ns, "N") BY ExistsSomewhere
  <1>. QED BY <1>1, <1>2 DEF OutcomeTellsTheTruth, Truth, Refusable, Effected

\* What the ledger says of an effect is true of the workspace, and of every namespace a power
\* cut may leave in its place (mutate.rs; tool.rs, classify).
THEOREM OutcomeTrue == Spec => []OutcomeTellsTheTruth
  BY InvocationInvariant, IInvOutcome, PTL

LEMMA GivenUpStep ==
  ASSUME IInv, [Next]_vars, staging' # staging, staging' \in {"CLEARED", "REMOVED", "FOREIGN"}
  PROVE  ns.dir # "OURS"
  <1>1. CASE HandoffFails
    <2>1. Unsent BY <1>1 DEF HandoffFails, Unsent
    <2>. QED BY <2>1 DEF IInv, Disk, Pristine
  <1>2. CASE RecordOutcome
    <2>1. work = "PERFORM" /\ call.st = "DONE" /\ call.ans \in {"NOT_SENT", "DONE"}
      BY <1>2 DEF RecordOutcome, StagingClear
    <2>2. call.task = "PERFORM" BY <2>1 DEF IInv, Control
    <2>. QED BY <2>1, <2>2 DEF IInv, Reported
  <1>3. CASE Settle
    <2>1. work = "RECLAIM" /\ call.st = "DONE" /\ call.ans \in {"ABSENT", "REMOVED", "FOREIGN"}
      BY <1>3 DEF Settle, Settled, Retained
    <2>2. call.task = "RECLAIM" BY <2>1 DEF IInv, Control
    <2>. QED BY <2>1, <2>2 DEF IInv, Reported
  <1>4. ASSUME NEW op \in Operations, Decide(op) PROVE FALSE
    BY <1>4 DEF Decide, IntentStaging
  <1>. QED
    BY <1>1, <1>2, <1>3, <1>4
    DEF Next, Invoke, Handoff, Sweep, SweepsLater, Crash, PowerCut, Start, Down, AuthorityUnmoved, vars

\* The authority gives a staging row up only when the directory is gone or is not the broker's
\* (staging.rs, clear and settle).
THEOREM GivenUpGone == Spec => GivenUpMeansGone
  <1>1. IInv /\ [Next]_vars =>
          [staging' # staging /\ staging' \in {"CLEARED", "REMOVED", "FOREIGN"} => ns.dir # "OURS"]_vars
    BY GivenUpStep
  <1>. QED BY <1>1, InvocationInvariant, PTL DEF Spec, GivenUpMeansGone

-----------------------------------------------------------------------------
(* PathWalk: the resolution of a workspace path *)

Spelled == DOMAIN NFC \cup Malformed \cup {"", ".", ".."}
\* Where the whole chain has been opened and verified.
Verified == {"WALKED", "PROBE", "ABSENT", "GUARD", "VACANT", "UNFILLED", "HELD", "REOPEN", "GIVEN"}
Chain(j) ==
    /\ j = [at |-> j.at, call |-> j.call, path |-> j.path, names |-> j.names, opened |-> j.opened,
            probing |-> j.probing, check |-> j.check, aliased |-> j.aliased]
    /\ j.path \in Seq(Spelled) /\ j.names \in Seq(Spelled) /\ j.opened \in Seq(Nodes)
    /\ j.at \in {"IDLE", "OPEN", "ENTRY", "CHAIN"} \cup Verified
    /\ j.at = "IDLE" => j.opened = <<>>
    /\ j.at = "OPEN" => Len(j.opened) < Len(j.names)
    /\ j.at = "ENTRY" => Len(j.opened) \in 1 .. Len(j.names)
    /\ j.at \in {"CHAIN"} \cup Verified => Len(j.opened) = Len(j.names)
    /\ j.at = "CHAIN" => j.check \in 1 .. Len(j.names)
PathTypeOK == tree \in [Slots -> Nodes \cup {NONE}] /\ Chain(walk)

Broken(t, j) == {i \in 1 .. Len(j.opened) : ~LinkHolds(t, j, i)}
\* Until a link is made again, the links found broken are the ones that are.
GoneIsBroken == ~returned => gone = Broken(tree, walk)

\* The links of an opened chain that verify_chain has still to look at.
Unchecked(j) ==
    IF j.at = "ENTRY" THEN Len(j.names) ELSE IF j.at = "CHAIN" THEN j.check ELSE 0
\* A chain never seen whole has a broken link among them.
BreakIsAhead ==
    walk.at \notin {"IDLE", "OPEN"} /\ Len(walk.opened) = Len(walk.names) /\ ~seen /\ ~returned =>
        \E i \in gone : i \in 1 .. Unchecked(walk)
PathInv == PathTypeOK /\ GoneIsBroken /\ BreakIsAhead

LEMMA ObservedBroken == ASSUME PathTypeOK', Observed PROVE GoneIsBroken'
  <1>0. /\ walk'.opened \in Seq(Nodes)
        /\ walk'.at = "IDLE" => walk'.opened = <<>>
    BY DEF PathTypeOK, Chain
  <1>1. CASE walk'.at = "IDLE" \/ (walk'.at = "OPEN" /\ walk'.opened = <<>>)
    <2>1. gone' = {} /\ Len(walk'.opened) = 0
      BY <1>0, <1>1 DEF Observed
    <2>. QED BY <2>1 DEF GoneIsBroken, Broken
  <1>2. CASE ~(walk'.at = "IDLE" \/ (walk'.at = "OPEN" /\ walk'.opened = <<>>))
    <2>1. PICK broken : broken = Broken(tree', walk')
      OBVIOUS
    <2>2. /\ gone' = gone \cup broken
          /\ returned' = (returned \/ \E i \in gone : i \notin broken)
      BY <1>2, <2>1 DEF Observed, Broken
    <2>3. ~returned' => gone' = broken
      BY <2>2
    <2>. QED BY <2>1, <2>3 DEF GoneIsBroken
  <1>. QED BY <1>1, <1>2

LEMMA ObservedKeeps ==
  ASSUME Observed, walk'.at \notin {"IDLE", "OPEN"}
  PROVE  /\ (seen => seen') /\ (returned => returned') /\ gone \subseteq gone'
         /\ Whole(tree', walk') => seen'
         /\ Broken(tree', walk') \subseteq gone'
  BY DEF Observed, Broken

\* The last component opened: the chain is whole at this instant, or a link of it is broken.
LEMMA BreakBegins ==
  ASSUME PathTypeOK', Observed, walk'.at \notin {"IDLE", "OPEN"},
         Unchecked(walk') = Len(walk'.names)
  PROVE  BreakIsAhead'
  <1>. SUFFICES ASSUME Len(walk'.opened) = Len(walk'.names), ~seen'
                PROVE  \E i \in gone' : i \in 1 .. Unchecked(walk')
    BY DEF BreakIsAhead
  <1>1. PICK i \in 1 .. Len(walk'.names) : ~LinkHolds(tree', walk', i)
    BY ObservedKeeps DEF Whole
  <1>2. i \in Broken(tree', walk')
    BY <1>1 DEF Broken
  <1>. QED BY <1>1, <1>2, ObservedKeeps

\* A step that verifies nothing.
LEMMA BreakStays ==
  ASSUME PathInv, PathTypeOK', Observed, walk'.at \notin {"IDLE", "OPEN"}, walk.at \notin {"IDLE", "OPEN"},
         Len(walk.opened) = Len(walk.names), 1 .. Unchecked(walk) \subseteq 1 .. Unchecked(walk')
  PROVE  BreakIsAhead'
  <1>. SUFFICES ASSUME ~seen', ~returned' PROVE \E i \in gone' : i \in 1 .. Unchecked(walk')
    BY DEF BreakIsAhead
  <1>1. ~seen /\ ~returned /\ gone \subseteq gone'
    BY ObservedKeeps
  <1>2. PICK i \in gone : i \in 1 .. Unchecked(walk)
    BY <1>1 DEF PathInv, BreakIsAhead
  <1>. QED BY <1>1, <1>2

\* The resolver's step to j.
LEMMA PathStep ==
  ASSUME PathInv, NEW j, Step(j), Chain(j)
  PROVE  PathTypeOK' /\ GoneIsBroken' /\ Observed /\ walk' = j
  <1>1. walk' = j /\ tree' = tree /\ Observed
    BY DEF Step
  <1>2. PathTypeOK'
    BY <1>1 DEF PathInv, PathTypeOK
  <1>. QED BY <1>1, <1>2, ObservedBroken

LEMMA PathRefuseInv == ASSUME PathInv, Step(Idle) PROVE PathInv'
  <1>1. Idle.at = "IDLE" /\ Idle.opened = <<>>
    BY DEF Idle
  <1>2. Idle.opened \in Seq(Nodes) /\ Idle.path \in Seq(Spelled) /\ Idle.names \in Seq(Spelled)
    BY DEF Idle
  <1>3. Chain(Idle)
    BY <1>1, <1>2 DEF Chain, Idle, Verified
  <1>4. PathTypeOK' /\ GoneIsBroken' /\ walk' = Idle
    BY <1>3, PathStep
  <1>. QED BY <1>1, <1>4 DEF PathInv, BreakIsAhead

LEMMA PathWalkInv ==
  ASSUME PathInv, NEW asked, NEW path \in Seq(Spelled), NEW names \in Seq(Spelled), NEW probing,
         Step(Walk(asked, path, names, probing))
  PROVE  PathInv'
  <1>1. PICK j : j = Walk(asked, path, names, probing)
    OBVIOUS
  <1>2. j = [at |-> IF names = <<>> THEN "WALKED" ELSE "OPEN", call |-> asked, path |-> path,
             names |-> names, opened |-> <<>>, probing |-> probing, check |-> 0, aliased |-> FALSE]
    BY <1>1 DEF Walk, Idle
  <1>3. <<>> \in Seq(Nodes) /\ Len(<<>>) = 0 /\ (names # <<>> => Len(names) > 0)
    OBVIOUS
  <1>4. CASE names = <<>>
    <2>1. j.at = "WALKED" /\ j.names = <<>> /\ j.opened = <<>> /\ Len(j.names) = 0
      BY <1>2, <1>4
    <2>2. Chain(j)
      BY <1>2, <1>3, <2>1 DEF Chain, Verified
    <2>3. PathTypeOK' /\ GoneIsBroken' /\ Observed /\ walk' = j
      BY <1>1, <2>2, PathStep
    <2>4. Unchecked(walk') = Len(walk'.names)
      BY <2>1, <2>3 DEF Unchecked
    <2>5. BreakIsAhead'
      BY <2>1, <2>3, <2>4, BreakBegins
    <2>. QED BY <2>3, <2>5 DEF PathInv
  <1>5. CASE names # <<>>
    <2>1. j.at = "OPEN" /\ j.names = names /\ j.opened = <<>>
      BY <1>2, <1>5
    <2>2. Chain(j)
      BY <1>2, <1>3, <1>5, <2>1 DEF Chain, Verified
    <2>3. PathTypeOK' /\ GoneIsBroken' /\ walk' = j
      BY <1>1, <2>2, PathStep
    <2>. QED BY <2>1, <2>3 DEF PathInv, BreakIsAhead
  <1>. QED BY <1>4, <1>5

LEMMA PathResolveInv ==
  ASSUME PathConstants, PathInv, NEW asked, NEW d \in DeclaredPaths, NEW found, ResolvePath(asked, d, found)
  PROVE  PathInv'
  <1>1. d.parts \in Seq(Spelled)
    BY DEF PathConstants, Spelled
  <1>2. d.parts # <<>> => Front(d.parts) \in Seq(Spelled)
    BY <1>1 DEF Front
  <1>3. \/ Step(Idle) \/ Step(Walk(asked, d.parts, d.parts, FALSE))
        \/ d.parts # <<>> /\ Step(Walk(asked, d.parts, Front(d.parts), TRUE))
    BY DEF ResolvePath, Refuse
  <1>. QED BY <1>1, <1>2, <1>3, PathRefuseInv, PathWalkInv

LEMMA OpenChildInv == ASSUME PathInv, OpenChild PROVE PathInv'
  <1>0. Chain(walk) /\ tree \in [Slots -> Nodes \cup {NONE}]
    BY DEF PathInv, PathTypeOK
  <1>1. PICK i, child, aliased :
          /\ i = Len(walk.opened) + 1 /\ child = BoundIn(tree, Parent(walk, i), walk.names[i])
          /\ aliased = (LinksTo(tree, child) # {<<Parent(walk, i), walk.names[i]>>})
    OBVIOUS
  <1>2. CASE Step(Idle)
    BY <1>2, PathRefuseInv
  <1>3. CASE ~Step(Idle)
    <2>1. PICK j : j = [walk EXCEPT !.at = "ENTRY", !.opened = Append(walk.opened, child),
                                    !.aliased = aliased]
      OBVIOUS
    <2>2. walk.at = "OPEN" /\ OpenError(child) = NONE /\ Step(j)
      BY <1>1, <1>3, <2>1 DEF OpenChild, Refuse
    <2>3. child # NONE
      BY <2>2 DEF OpenError, NONE
    <2>4. child \in Nodes
      BY <1>0, <1>1, <2>3 DEF BoundIn
    <2>5. /\ j.at = "ENTRY" /\ j.names = walk.names /\ j.opened = Append(walk.opened, child)
          /\ j.path = walk.path /\ j.check = walk.check
      BY <1>0, <2>1 DEF Chain
    <2>6. /\ walk.opened \in Seq(Nodes) /\ walk.names \in Seq(Spelled)
          /\ Len(walk.opened) < Len(walk.names)
      BY <1>0, <2>2 DEF Chain
    <2>7. j.opened \in Seq(Nodes) /\ Len(j.opened) \in 1 .. Len(j.names)
      BY <2>4, <2>5, <2>6
    <2>8. Chain(j)
      BY <1>0, <2>1, <2>5, <2>7 DEF Chain, Verified
    <2>9. PathTypeOK' /\ GoneIsBroken' /\ Observed /\ walk' = j
      BY <2>2, <2>8, PathStep
    <2>10. Unchecked(walk') = Len(walk'.names)
      BY <2>5, <2>9 DEF Unchecked
    <2>11. BreakIsAhead'
      BY <2>5, <2>9, <2>10, BreakBegins
    <2>. QED BY <2>9, <2>11 DEF PathInv
  <1>. QED BY <1>2, <1>3

LEMMA VerifyEntryInv == ASSUME PathInv, VerifyEntry PROVE PathInv'
  <1>0. Chain(walk)
    BY DEF PathInv, PathTypeOK
  <1>1. CASE Step(Idle)
    BY <1>1, PathRefuseInv
  <1>2. CASE ~Step(Idle)
    <2>1. PICK i : i = Len(walk.opened)
      OBVIOUS
    <2>2. PICK j : j = [walk EXCEPT !.at = IF i < Len(walk.names) THEN "OPEN" ELSE "CHAIN", !.check = i]
      OBVIOUS
    <2>3. walk.at = "ENTRY" /\ Step(j)
      BY <1>2, <2>1, <2>2 DEF VerifyEntry, Refuse
    <2>4. /\ j.at = (IF i < Len(walk.names) THEN "OPEN" ELSE "CHAIN") /\ j.names = walk.names
          /\ j.opened = walk.opened /\ j.path = walk.path /\ j.check = i
      BY <1>0, <2>2 DEF Chain
    <2>5. i \in 1 .. Len(walk.names) /\ Len(walk.names) \in Nat
      BY <1>0, <2>1, <2>3 DEF Chain
    <2>6. Chain(j)
      <3>1. CASE i < Len(walk.names)
        <4>1. j.at = "OPEN"
          BY <2>4, <3>1
        <4>. QED BY <1>0, <2>1, <2>2, <2>4, <3>1, <4>1 DEF Chain, Verified
      <3>2. CASE ~(i < Len(walk.names))
        <4>1. j.at = "CHAIN" /\ i = Len(walk.names)
          BY <2>4, <2>5, <3>2
        <4>. QED BY <1>0, <2>1, <2>2, <2>4, <2>5, <4>1 DEF Chain, Verified
      <3>. QED BY <3>1, <3>2
    <2>7. PathTypeOK' /\ GoneIsBroken' /\ Observed /\ walk' = j
      BY <2>3, <2>6, PathStep
    <2>8. CASE j.at = "OPEN"
      BY <2>7, <2>8 DEF PathInv, BreakIsAhead
    <2>9. CASE j.at = "CHAIN"
      <3>1. i = Len(walk.names)
        BY <2>4, <2>5, <2>9
      <3>2. Unchecked(walk) = Len(walk.names) /\ Unchecked(walk') = Len(walk.names)
        BY <2>3, <2>4, <2>7, <2>9, <3>1 DEF Unchecked
      <3>3. BreakIsAhead'
        BY <2>1, <2>3, <2>7, <2>9, <3>1, <3>2, BreakStays
      <3>. QED BY <2>7, <3>3 DEF PathInv
    <2>. QED BY <2>4, <2>8, <2>9
  <1>. QED BY <1>1, <1>2

\* verify_chain: the link looked at holds, so the broken one is further up.
LEMMA VerifyChainInv == ASSUME PathInv, VerifyChain PROVE PathInv'
  <1>0. Chain(walk)
    BY DEF PathInv, PathTypeOK
  <1>1. CASE Step(Idle)
    BY <1>1, PathRefuseInv
  <1>2. CASE ~Step(Idle)
    <2>1. PICK k : k = walk.check
      OBVIOUS
    <2>2. PICK j : j = [walk EXCEPT !.at = IF k = 1 THEN "WALKED" ELSE "CHAIN", !.check = k - 1]
      OBVIOUS
    <2>3. walk.at = "CHAIN" /\ LinkHolds(tree, walk, k) /\ Step(j)
      BY <1>0, <1>2, <2>1, <2>2 DEF VerifyChain, ChainHolds, Refuse, Chain
    <2>4. k \in 1 .. Len(walk.names) /\ Len(walk.opened) = Len(walk.names) /\ Len(walk.names) \in Nat
      BY <1>0, <2>1, <2>3 DEF Chain
    <2>5. /\ j.at = (IF k = 1 THEN "WALKED" ELSE "CHAIN") /\ j.names = walk.names
          /\ j.opened = walk.opened /\ j.path = walk.path /\ j.check = k - 1
      BY <1>0, <2>2 DEF Chain
    <2>6. Chain(j)
      <3>1. CASE k = 1
        <4>1. j.at = "WALKED"
          BY <2>5, <3>1
        <4>. QED BY <1>0, <2>2, <2>4, <2>5, <4>1 DEF Chain, Verified
      <3>2. CASE k # 1
        <4>1. j.at = "CHAIN" /\ k - 1 \in 1 .. Len(walk.names)
          BY <2>4, <2>5, <3>2
        <4>. QED BY <1>0, <2>2, <2>4, <2>5, <4>1 DEF Chain, Verified
      <3>. QED BY <3>1, <3>2
    <2>7. PathTypeOK' /\ GoneIsBroken' /\ Observed /\ walk' = j
      BY <2>3, <2>6, PathStep
    <2>8. BreakIsAhead'
      <3>. SUFFICES ASSUME ~seen', ~returned' PROVE \E i \in gone' : i \in 1 .. Unchecked(walk')
        BY DEF BreakIsAhead
      <3>1. ~seen /\ ~returned /\ gone \subseteq gone'
        <4>1. walk'.at \notin {"IDLE", "OPEN"}
          BY <2>5, <2>7
        <4>. QED BY <2>7, <4>1, ObservedKeeps
      <3>2. PICK i \in gone : i \in 1 .. k
        BY <2>1, <2>3, <2>4, <3>1 DEF PathInv, BreakIsAhead, Unchecked
      <3>3. ~LinkHolds(tree, walk, i)
        BY <3>1, <3>2 DEF PathInv, GoneIsBroken, Broken
      <3>4. i # k
        BY <2>3, <3>3
      <3>5. k # 1 /\ i \in 1 .. (k - 1)
        BY <2>4, <3>2, <3>4
      <3>6. Unchecked(walk') = k - 1
        BY <2>5, <2>7, <3>5 DEF Unchecked
      <3>. QED BY <3>1, <3>2, <3>5, <3>6
    <2>. QED BY <2>7, <2>8 DEF PathInv
  <1>. QED BY <1>1, <1>2

\* Past the verification, only the place changes.
LEMMA VerifiedInv ==
  ASSUME PathInv, walk.at \in Verified, NEW at \in Verified, Step([walk EXCEPT !.at = at])
  PROVE  PathInv'
  <1>0. Chain(walk)
    BY DEF PathInv, PathTypeOK
  <1>1. PICK j : j = [walk EXCEPT !.at = at]
    OBVIOUS
  <1>2. j.at = at /\ j.names = walk.names /\ j.opened = walk.opened /\ j.path = walk.path
    BY <1>0, <1>1 DEF Chain
  <1>3. Chain(j)
    BY <1>0, <1>1, <1>2 DEF Chain, Verified
  <1>4. PathTypeOK' /\ GoneIsBroken' /\ Observed /\ walk' = j
    BY <1>1, <1>3, PathStep
  <1>5. /\ walk.at \notin {"IDLE", "OPEN"} /\ walk'.at \notin {"IDLE", "OPEN"}
        /\ Unchecked(walk) = 0 /\ Unchecked(walk') = 0
    BY <1>2, <1>4 DEF Unchecked, Verified
  <1>6. Len(walk.opened) = Len(walk.names)
    BY <1>0 DEF Chain
  <1>7. BreakIsAhead'
    BY <1>4, <1>5, <1>6, BreakStays
  <1>. QED BY <1>4, <1>7 DEF PathInv

LEMMA LaterInv ==
  ASSUME PathInv, \/ Walked \/ ProbeVacant \/ VerifyAbsent \/ GuardVacant \/ VacantHandoff
                  \/ StillVacant \/ HandOff \/ OpenForRead \/ Finish
  PROVE  PathInv'
  <1>1. CASE Step(Idle)
    BY <1>1, PathRefuseInv
  <1>2. CASE ~Step(Idle)
    <2>0. walk.path \in Seq(Spelled)
      BY DEF PathInv, PathTypeOK, Chain
    <2>1. CASE ProbeVacant
      <3>1. \/ Step([walk EXCEPT !.at = "ABSENT"]) /\ walk.at = "PROBE"
            \/ Step(Walk(walk.call, walk.path, walk.path, FALSE))
        BY <1>2, <2>1 DEF ProbeVacant, Refuse
      <3>. QED BY <2>0, <3>1, VerifiedInv, PathWalkInv DEF Verified
    <2>2. CASE Walked
      <3>1. walk.at = "WALKED" /\ \E at \in {"PROBE", "HELD"} : Step([walk EXCEPT !.at = at])
        BY <1>2, <2>2 DEF Walked, Refuse
      <3>. QED BY <3>1, VerifiedInv DEF Verified
    <2>3. CASE VerifyAbsent
      <3>1. walk.at = "ABSENT" /\ Step([walk EXCEPT !.at = "GUARD"])
        BY <1>2, <2>3 DEF VerifyAbsent, Refuse
      <3>. QED BY <3>1, VerifiedInv DEF Verified
    <2>4. CASE GuardVacant
      <3>1. walk.at = "GUARD" /\ Step([walk EXCEPT !.at = "VACANT"])
        BY <1>2, <2>4 DEF GuardVacant, Refuse
      <3>. QED BY <3>1, VerifiedInv DEF Verified
    <2>5. CASE VacantHandoff
      <3>1. walk.at = "VACANT" /\ Step([walk EXCEPT !.at = "UNFILLED"])
        BY <1>2, <2>5 DEF VacantHandoff, Refuse
      <3>. QED BY <3>1, VerifiedInv DEF Verified
    <2>6. CASE StillVacant
      <3>1. walk.at = "UNFILLED" /\ Step([walk EXCEPT !.at = "GIVEN"])
        BY <1>2, <2>6 DEF StillVacant, Refuse
      <3>. QED BY <3>1, VerifiedInv DEF Verified
    <2>7. CASE HandOff
      <3>1. walk.at = "HELD" /\ \E at \in {"REOPEN", "GIVEN"} : Step([walk EXCEPT !.at = at])
        BY <1>2, <2>7 DEF HandOff, Refuse
      <3>. QED BY <3>1, VerifiedInv DEF Verified
    <2>8. CASE OpenForRead
      <3>1. walk.at = "REOPEN" /\ Step([walk EXCEPT !.at = "GIVEN"])
        BY <1>2, <2>8 DEF OpenForRead, Refuse
      <3>. QED BY <3>1, VerifiedInv DEF Verified
    <2>9. ~Finish
      BY <1>2 DEF Finish
    <2>. QED BY <2>1, <2>2, <2>3, <2>4, <2>5, <2>6, <2>7, <2>8, <2>9
  <1>. QED BY <1>1, <1>2

\* Anyone's rename, link or unlink, at any moment.
LEMMA PathOthersInv == ASSUME PathInv, Others PROVE PathInv'
  <1>0. Chain(walk) /\ tree \in [Slots -> Nodes \cup {NONE}]
    BY DEF PathInv, PathTypeOK
  <1>1. walk' = walk /\ Observed
    BY DEF Others
  <1>2. tree' \in [Slots -> Nodes \cup {NONE}]
    BY <1>0 DEF Others, Rename, Unlink
  <1>3. PathTypeOK'
    BY <1>0, <1>1, <1>2 DEF PathTypeOK
  <1>4. GoneIsBroken'
    BY <1>1, <1>3, ObservedBroken
  <1>5. BreakIsAhead'
    <2>1. CASE walk.at \notin {"IDLE", "OPEN"} /\ Len(walk.opened) = Len(walk.names)
      BY <1>1, <1>3, <2>1, BreakStays
    <2>2. CASE ~(walk.at \notin {"IDLE", "OPEN"} /\ Len(walk.opened) = Len(walk.names))
      BY <1>1, <2>2 DEF BreakIsAhead
    <2>. QED BY <2>1, <2>2
  <1>. QED BY <1>3, <1>4, <1>5 DEF PathInv

LEMMA PathNextInv == ASSUME PathConstants, PathInv, [PathNext]_pathVars PROVE PathInv'
  <1>1. CASE PathNext
    BY <1>1, PathResolveInv, OpenChildInv, VerifyEntryInv, VerifyChainInv, LaterInv, PathOthersInv
      DEF PathNext, Resolver
  <1>2. CASE UNCHANGED pathVars
    BY <1>2 DEF pathVars, PathInv, PathTypeOK, Chain, GoneIsBroken, Broken, BreakIsAhead, Unchecked, LinkHolds, Parent, BoundIn
  <1>. QED BY <1>1, <1>2

LEMMA PathInvariant == ASSUME PathConstants PROVE PathSpec => []PathInv
  <1>1. PathInit => PathInv
    <2>. SUFFICES ASSUME PathInit PROVE PathInv
      OBVIOUS
    <2>1. /\ tree \in [Slots -> Nodes \cup {NONE}] /\ walk = Idle /\ gone = {} /\ Idle.at = "IDLE"
          /\ Idle.opened = <<>> /\ Len(Idle.opened) = 0
      BY DEF PathInit, PathConstants, Idle
    <2>2. Idle.opened \in Seq(Nodes) /\ Idle.path \in Seq(Spelled) /\ Idle.names \in Seq(Spelled)
      BY DEF Idle
    <2>3. Chain(Idle)
      BY <2>1, <2>2 DEF Chain, Idle, Verified
    <2>4. Broken(tree, walk) = {}
      BY <2>1 DEF Broken
    <2>. QED BY <2>1, <2>3, <2>4 DEF PathInv, PathTypeOK, GoneIsBroken, BreakIsAhead
  <1>2. PathInv /\ [PathNext]_pathVars => PathInv'
    BY PathNextInv
  <1>. QED BY <1>1, <1>2, PTL DEF PathSpec

\* What a resolution hands to the broker was at its canonical path at one instant (resource/fs:
\* walk, verify_chain, still_bound), for every depth, every workspace and any number of renames,
\* links and unlinks between its system calls, unless a name was taken away and given back.
THEOREM HandedOffWasThere == ASSUME PathConstants PROVE PathSpec => []HandedOffWasAtItsPath
  <1>1. PathInv => HandedOffWasAtItsPath
    <2>. SUFFICES ASSUME PathInv, walk.at = "GIVEN", ~seen, ~returned PROVE FALSE
      BY DEF HandedOffWasAtItsPath
    <2>1. Len(walk.opened) = Len(walk.names)
      BY DEF PathInv, PathTypeOK, Chain, Verified
    <2>2. PICK i \in gone : i \in 1 .. Unchecked(walk)
      BY <2>1 DEF PathInv, BreakIsAhead
    <2>3. Unchecked(walk) = 0
      BY DEF Unchecked
    <2>. QED BY <2>2, <2>3
  <1>. QED BY <1>1, PathInvariant, PTL

=============================================================================
