---------------------------- MODULE StagedMutation ----------------------------
(****************************************************************************************)
(* The broker's filesystem mutations (crates/dwkd-broker/src/exchange:                  *)
(* mutate.rs, staging.rs): fs.write as a replacement or a creation, fs.patch,           *)
(* fs.move and fs.delete of one name, each in steps that a process death or a           *)
(* power cut may separate, and the judgement of the staging directory one               *)
(* leaves behind.                                                                       *)
(*                                                                                      *)
(* A workspace name is "leaf" (and a move's "dest"); "new" and "held" are names         *)
(* in the invocation's staging directory.  T is the object the authority checked,       *)
(* N the file the broker writes, S another object.  A trusted writer may take what      *)
(* a workspace name binds aside, bind a name that is vacant, link, and edit, between    *)
(* any two system calls of the broker.                                                  *)
(*                                                                                      *)
(* A directory's fsync commits every earlier change of names, as a journal does:        *)
(* onDisk holds the namespaces a power cut may leave, which are those since the last    *)
(* fsync.  A rename is one change.  A content is CACHED until the file's own fsync, and *)
(* a power cut may leave a part of it.                                                  *)
(****************************************************************************************)
EXTENDS Integers, FiniteSets, Sequences

CONSTANTS
    MaxWrites,    \* bound: changes the concurrent writer makes
    Faults        \* what may go wrong, from AllFaults

\* System calls fail; the broker is killed; power is cut; the authority stops
\* waiting; the authority is killed.
AllFaults == {"IO", "DEATH", "POWER", "LOSE", "CRASH"}

ASSUME MutationConstants ==
    /\ MaxWrites \in Nat
    /\ Faults \subseteq AllFaults

VARIABLES
    ns,           \* the namespace
    onDisk,       \* the namespaces a power cut may leave
    writes,       \* changes the concurrent writer has made
    job,          \* the exchange the broker is serving
    call          \* the authority's exchange

fsVars == <<ns, onDisk>>
mutationVars == <<ns, onDisk, writes, job, call>>

-----------------------------------------------------------------------------
(* The namespace *)

Objects == {"T", "N", "S"}
Names == {"leaf", "dest", "new", "held"}
Operations == {"REPLACE", "PATCH", "CREATE", "DELETE", "MOVE"}

\* applied: whether the operation's effect is in this namespace; MIXED if it was
\* undone with another object than the one it took.
Namespace ==
    [at : [Names -> Objects \cup {"none"}],
     aside : SUBSET Objects,                        \* what the writer has elsewhere
     content : [{"T", "N"} -> {"BASE", "OTHER", "PART", "CACHED", "POST"}],
     dir : {"NONE", "FRESH", "OURS"},               \* FRESH: its mode is not set yet
     record : {"NONE", "PARTIAL", "COMPLETE"},
     taken : {"NONE", "MARK"},
     applied : {"NO", "YES", "MIXED"}]

NoJob == [task |-> "NONE", op |-> "NONE", at |-> "NONE", took |-> "none", seen |-> "none",
          todo |-> <<>>, left |-> "NO", ans |-> "NONE", by |-> "NOBODY"]

Answers == {"NOT_SENT", "LOST", "DONE", "DEBRIS", "REFUSED", "UNSURE",
            "ABSENT", "FOREIGN", "REMOVED", "DISPLACED", "EVIDENCE", "TAKEN"}
NoCall == [st |-> "NONE", task |-> "NONE", op |-> "NONE", ans |-> "NONE"]
Call == [st : {"NONE", "WAIT", "SENT", "DONE"}, task : {"NONE", "PERFORM", "RECLAIM"},
         op : Operations \cup {"NONE"}, ans : Answers \cup {"NONE"}]

MutationTypeOK ==
    /\ ns \in Namespace
    /\ ns \in onDisk /\ onDisk \subseteq Namespace
    /\ writes \in 0..MaxWrites
    /\ {job.took, job.seen} \subseteq Objects \cup {"none"} /\ job.ans \in Answers \cup {"NONE"}
    /\ call \in Call
    /\ job.by = "AUTHORITY" <=> call.st = "SENT"
    \* No two entries of a staging directory without one: what is in it is gone
    \* before it is.
    /\ ns.dir = "NONE" => ns.at["new"] = "none" /\ ns.at["held"] = "none"
                          /\ ns.record = "NONE" /\ ns.taken = "NONE"

MutationInit ==
    /\ \E o \in {"T", "none"} :
          ns = [at |-> [n \in Names |-> IF n = "leaf" THEN o ELSE "none"],
                aside |-> {"S", "T"} \ {o},
                content |-> [o2 \in {"T", "N"} |-> IF o2 = "T" THEN "BASE" ELSE "PART"],
                dir |-> "NONE", record |-> "NONE", taken |-> "NONE", applied |-> "NO"]
    /\ onDisk = {ns}
    /\ writes = 0
    /\ job = NoJob
    /\ call = NoCall

Links(space, o) == Cardinality({n \in Names : space.at[n] = o})
                   + (IF o \in space.aside THEN 1 ELSE 0)
Exists(space, o) == Links(space, o) > 0
Binds(n, o) == ns.at[n] = o
Vacant(n) == ns.at[n] = "none"

\* A system call changes the namespace; an fsync commits it.
Changes(space) ==
    /\ ns' = space
    /\ onDisk' = IF "POWER" \in Faults THEN onDisk \cup {space} ELSE {space}
Commits(space) == ns' = space /\ onDisk' = {space}
Synced == Commits(ns)
Untouched == UNCHANGED fsVars

Bound(n, o) == [ns EXCEPT !.at = [@ EXCEPT ![n] = o]]

\* renameat2: an exchange of two names, or a rename to a vacant one.
Swapped(a, b) == [ns.at EXCEPT ![a] = ns.at[b], ![b] = ns.at[a]]

-----------------------------------------------------------------------------
(* The concurrent writer *)

\* It writes while an exchange is on (at any other time nothing looks, and what it
\* does then it may as well do when the next one starts), and what the operation
\* would notice: only a move has a destination, only a patch reads a content.
Underway == IF job # NoJob THEN job.op ELSE call.op
Writes(space) ==
    /\ writes < MaxWrites
    /\ Underway # "NONE"
    /\ writes' = writes + 1
    /\ Changes(space)
    /\ UNCHANGED <<job, call>>

TakesAway(n) ==
    /\ ~Vacant(n)
    /\ Writes([Bound(n, "none") EXCEPT !.aside = @ \cup {ns.at[n]}])

Occupies(n, o) ==
    /\ Vacant(n) /\ o \in ns.aside
    /\ Writes([Bound(n, o) EXCEPT !.aside = @ \ {o}])

Hardlinks ==
    /\ ~Vacant("leaf")
    /\ Writes([ns EXCEPT !.aside = @ \cup {ns.at["leaf"]}])

Edits(text) ==
    /\ Underway = "PATCH"
    /\ Binds("leaf", "T") /\ ns.content["T"] # text
    /\ Writes([ns EXCEPT !.content = [@ EXCEPT !["T"] = text]])

WriterStep ==
    \/ \E n \in {"leaf"} \cup (IF Underway = "MOVE" THEN {"dest"} ELSE {}) :
          TakesAway(n) \/ \E o \in {"T", "S"} : Occupies(n, o)
    \/ Hardlinks
    \/ \E text \in {"OTHER", "POST"} : Edits(text)

-----------------------------------------------------------------------------
(* Steps of the broker *)

At(where) == job.at = where
Goes(where) == job' = [job EXCEPT !.at = where]
Ends(ans) == job' = [job EXCEPT !.at = "ANSWER", !.ans = ans]
Still == UNCHANGED <<writes, call>>
MayFail == "IO" \in Faults

\* Entries are removed in order, then the directory, and the answer given.
Removes(todo, ans) == job' = [job EXCEPT !.at = "CLEAN", !.todo = todo, !.ans = ans]

\* Staging::discard: nothing of the workspace's was changed, or it was restored.
Discards == Removes(<<"record", "new">>, "REFUSED")
\* A move has no staging directory.
Refuses == IF job.op = "MOVE" THEN Ends("REFUSED") ELSE Discards

\* replaceable and still_replaceable, deletable, vacant, and a move's two: the
\* name binds what was authorised.
Ready(op) ==
    CASE op \in {"REPLACE", "PATCH"} -> Binds("leaf", "T") /\ Links(ns, "T") = 1
      [] op = "CREATE"               -> Vacant("leaf")
      [] op = "DELETE"               -> Binds("leaf", "T")
      [] OTHER                       -> Binds("leaf", "T") /\ Vacant("dest")
Unchanged(op) == op = "PATCH" => ns.content["T"] = "BASE"
HoldsResult(op) == op = "PATCH" /\ ns.content["T"] = "POST"

\* The checks before anything is made.
Begin ==
    /\ At("BEGIN")
    /\ \/ MayFail /\ Ends("REFUSED")
       \/ ~(Ready(job.op) /\ Unchanged(job.op)) /\ ~HoldsResult(job.op) /\ Ends("REFUSED")
       \/ Ready(job.op) /\ Unchanged(job.op)
          /\ Goes(IF job.op = "MOVE" THEN "EFFECT" ELSE "MAKE")
    /\ Untouched /\ Still

\* A patch whose result the file already holds changes nothing.
AlreadyApplied ==
    /\ At("BEGIN") /\ HoldsResult(job.op)
    /\ Ends("DONE")
    /\ Untouched /\ Still

\* Staging::make: the directory, its mode, and both durable.
Make ==
    /\ \/ At("MAKE") /\ Changes([ns EXCEPT !.dir = "FRESH"]) /\ Goes("MODE")
       \/ At("MAKE") /\ MayFail /\ Untouched /\ Ends("REFUSED")
       \/ At("MODE") /\ Changes([ns EXCEPT !.dir = "OURS"]) /\ Goes("MADE")
       \/ At("MODE") /\ MayFail /\ Untouched /\ Ends("REFUSED")
       \/ At("MADE") /\ Synced /\ Goes(IF job.op = "DELETE" THEN "RECORD" ELSE "NEW")
       \/ At("MADE") /\ MayFail /\ Untouched /\ Removes(<<>>, "REFUSED")
    /\ Still

\* write_new: the new file, its content, and both durable.
Content(text) == [ns EXCEPT !.content = [@ EXCEPT !["N"] = text]]
Written == Commits(Content("POST"))
WriteNew ==
    /\ \/ At("NEW") /\ Changes(Bound("new", "N")) /\ Goes("WRITE")
       \/ At("WRITE") /\ Changes(Content("CACHED")) /\ Goes("FSYNC")
       \/ At("FSYNC") /\ Written /\ Goes("RECORD")
       \/ (At("NEW") \/ At("WRITE") \/ At("FSYNC")) /\ MayFail /\ Untouched /\ Discards
    /\ Still

\* Staging::record: the record's entry, its content, and both durable.  After a
\* failure it is unlinked, whether or not that succeeds, before the rest.
Record ==
    /\ \/ At("RECORD") /\ Changes([ns EXCEPT !.record = "PARTIAL"]) /\ Goes("FILL")
       \/ At("RECORD") /\ MayFail /\ Untouched /\ Discards
       \/ At("FILL") /\ Commits([ns EXCEPT !.record = "COMPLETE"]) /\ Goes("CHECK")
       \/ At("FILL") /\ MayFail /\ Goes("UNRECORD")
          /\ \E r \in {"PARTIAL", "COMPLETE"} : Changes([ns EXCEPT !.record = r])
       \/ At("UNRECORD") /\ Discards
          /\ LET gone == [ns EXCEPT !.record = "NONE"]
             IN Commits(gone) \/ Changes(gone) \/ Untouched
    /\ Still

\* The check immediately before the effect.
Check ==
    /\ At("CHECK")
    /\ \/ Ready(job.op) /\ Unchanged(job.op) /\ Goes("EFFECT")
       \/ ~(Ready(job.op) /\ Unchanged(job.op)) /\ Discards
       \/ MayFail /\ Discards
    /\ Untouched /\ Still

\* The two names an operation renames or exchanges.
Source(op) == IF op \in {"DELETE", "MOVE"} THEN "leaf" ELSE "new"
Target(op) == CASE op = "DELETE" -> "held" [] op = "MOVE" -> "dest" [] OTHER -> "leaf"
Exchanges(op) == op \in {"REPLACE", "PATCH"}
Renames(from, to, op) == ~Vacant(from) /\ (Exchanges(op) <=> ~Vacant(to))

\* The effect.  One that fails changed nothing, which is proved, or is not; for a
\* move, by the source not being at the destination.
Effect ==
    /\ At("EFFECT")
    /\ LET from == Source(job.op)
           to == Target(job.op)
       IN \/ Renames(from, to, job.op)
             /\ Changes([ns EXCEPT !.at = Swapped(from, to), !.applied = "YES"])
             /\ job' = [job EXCEPT !.at = IF job.op = "CREATE" THEN "SYNC" ELSE "PROVE",
                                   !.took = ns.at["leaf"]]
          \/ (MayFail \/ ~Renames(from, to, job.op))
             /\ Untouched
             /\ IF job.op = "MOVE" /\ Binds("dest", "T") THEN Ends("UNSURE") ELSE Refuses
          \/ MayFail /\ job.op # "MOVE" /\ Untouched /\ Ends("UNSURE")
    /\ Still

\* Where what an effect took is, and whether it is what was authorised.
Displaced(op) == CASE op = "DELETE" -> "held" [] op = "MOVE" -> "dest" [] OTHER -> "new"
\* Fault: whatever was taken goes.
IntactUnproved(op) == ~Vacant(Displaced(op))
Intact(op) ==
    /\ Binds(Displaced(op), "T")
    /\ Exchanges(op) => Links(ns, "T") = 1
    /\ Unchanged(op)

\* The check after the effect: it goes on, is undone, or cannot be judged.  A
\* content that cannot be read again is not the patch's base.
Prove ==
    /\ At("PROVE")
    /\ \/ Intact(job.op) /\ Goes("SYNC")
       \/ /\ ~Intact(job.op) \/ (MayFail /\ job.op = "PATCH")
          /\ ~Vacant(Displaced(job.op))
          /\ job' = [job EXCEPT !.at = IF job.op = "DELETE" THEN "UNMARK" ELSE "RESTORE",
                                !.seen = ns.at[Displaced(job.op)]]
       \/ (MayFail \/ Vacant(Displaced(job.op))) /\ Ends("UNSURE")
    /\ Untouched /\ Still

\* The undo, its proof, and both directories durable.
Restore ==
    /\ LET from == Displaced(job.op)
           other == IF Exchanges(job.op) THEN "N" ELSE "none"
       IN \/ /\ At("RESTORE")
             /\ \/ Renames(from, "leaf", job.op) /\ Goes("RESTORED")
                   /\ Changes([ns EXCEPT !.at = Swapped(from, "leaf"),
                                        !.applied = IF Binds(from, job.took) THEN "NO" ELSE "MIXED"])
                \/ ~Renames(from, "leaf", job.op) /\ Untouched /\ Ends("UNSURE")
                \/ MayFail /\ Untouched /\ Ends("UNSURE")
          \/ /\ At("RESTORED")
             /\ Untouched
             /\ \/ Binds("leaf", job.seen) /\ Binds(from, other) /\ Goes("SYNC_BACK")
                \/ ~(Binds("leaf", job.seen) /\ Binds(from, other)) /\ Ends("UNSURE")
                \/ MayFail /\ Ends("UNSURE")
          \/ /\ At("SYNC_BACK")
             /\ \/ Synced /\ Refuses
                \/ MayFail /\ Untouched /\ Ends("UNSURE")
    /\ Still

\* The effect durable; what follows it.  The object an exchange displaced is
\* removed, then the record.
After(op) == IF op = "CREATE" THEN <<"record">> ELSE <<"new", "record">>
Sync ==
    /\ At("SYNC")
    /\ \/ /\ Synced
          /\ CASE job.op = "DELETE" -> Goes("MARK")
               [] job.op = "MOVE"   -> Ends("DONE")
               [] OTHER             -> Removes(After(job.op), "DONE")
       \/ MayFail /\ Untouched /\ Ends("UNSURE")
    /\ Still

\* remove_taken: the mark, the object, then the evidence; and put_back, where
\* the mark goes first.
PutsBack == job' = [job EXCEPT !.at = "UNMARK", !.seen = ns.at["held"]]
RemoveTaken ==
    /\ \/ At("MARK") /\ Changes([ns EXCEPT !.taken = "MARK"]) /\ Goes("MARKED")
       \/ At("MARKED") /\ Synced /\ Goes("UNLINK")
       \/ At("UNLINK") /\ Changes(Bound("held", "none")) /\ Goes("UNLINKED")
       \/ MayFail /\ (At("MARK") \/ At("MARKED") \/ At("UNLINK")) /\ Untouched /\ PutsBack
       \/ At("UNLINKED") /\ Synced /\ Removes(<<"record", "taken">>, "DONE")
       \/ At("UNMARK") /\ ns.taken = "NONE" /\ Untouched /\ Goes("RESTORE")
       \/ At("UNMARK") /\ ns.taken = "MARK" /\ Changes([ns EXCEPT !.taken = "NONE"])
          /\ Goes("UNMARKED")
       \/ At("UNMARKED") /\ Synced /\ Goes("RESTORE")
       \/ MayFail /\ (At("UNLINKED") \/ At("UNMARK") \/ At("UNMARKED")) /\ Untouched
          /\ Ends("UNSURE")
    /\ Still

-----------------------------------------------------------------------------
(* Removing the broker's own *)

Without(entry) == IF entry = "new" THEN Bound("new", "none") ELSE [ns EXCEPT ![entry] = "NONE"]
Holds(entry) == IF entry = "new" THEN ~Vacant("new") ELSE ns[entry] # "NONE"
Empty(space) == /\ space.at["new"] = "none" /\ space.at["held"] = "none"
                /\ space.record = "NONE" /\ space.taken = "NONE"

\* An entry or the directory may be left; a reclamation stops there.
Leaves == job' = IF job.task = "RECLAIM" THEN [job EXCEPT !.at = "ANSWER", !.ans = "UNSURE"]
                 ELSE [job EXCEPT !.at = "RMDIR", !.todo = <<>>, !.left = "YES"]
WithDebris == IF job.ans = "DONE" THEN "DEBRIS" ELSE job.ans
AnswersLeft == Ends(IF job.task = "RECLAIM" THEN "UNSURE" ELSE WithDebris)

\* Staging::unlink, each removal durable before the next.
Clean ==
    /\ \/ At("CLEAN") /\ job.todo = <<>> /\ Untouched /\ Goes("RMDIR")
       \/ /\ At("CLEAN") /\ job.todo # <<>>
          /\ \/ Holds(Head(job.todo)) /\ Changes(Without(Head(job.todo))) /\ Goes("CLEANED")
             \/ ~Holds(Head(job.todo)) /\ Untouched
                /\ job' = [job EXCEPT !.todo = Tail(@)]
             \/ MayFail /\ Untouched /\ Leaves
       \/ At("CLEANED") /\ Synced /\ job' = [job EXCEPT !.at = "CLEAN", !.todo = Tail(@)]
       \/ At("CLEANED") /\ MayFail /\ Untouched /\ Leaves
    /\ Still

\* Staging::remove.
RemoveDirectory ==
    /\ \/ At("RMDIR") /\ Empty(ns) /\ Changes([ns EXCEPT !.dir = "NONE"]) /\ Goes("GONE")
       \/ At("RMDIR") /\ (MayFail \/ ~Empty(ns)) /\ Untouched /\ AnswersLeft
       \/ At("GONE") /\ Synced
          /\ Ends(IF job.left = "YES" THEN WithDebris ELSE job.ans)
       \/ At("GONE") /\ MayFail /\ Untouched /\ AnswersLeft
    /\ Still

\* judge: what a staging directory is, by what it holds.
Judge(op) ==
    CASE op = "DELETE" -> IF ~Vacant("held") THEN "TAKEN"
                          ELSE IF ns.taken = "MARK" THEN "EVIDENCE" ELSE "DISPOSABLE"
      [] ns.record # "COMPLETE" \/ Binds("new", "N") -> "DISPOSABLE"
      [] Vacant("new")                               -> "EVIDENCE"
      [] OTHER                                       -> "DISPLACED"

\* reclaim.  A directory whose mode was never set may be taken for a foreign one.
Reclaim ==
    /\ At("JUDGE")
    /\ \/ ns.dir = "NONE" /\ Ends("ABSENT")
       \/ ns.dir = "FRESH" /\ Ends("FOREIGN")
       \/ ns.dir # "NONE" /\ Judge(job.op) = "DISPOSABLE" /\ Removes(<<"record", "new">>, "REMOVED")
       \/ ns.dir # "NONE" /\ Judge(job.op) # "DISPOSABLE" /\ Ends(Judge(job.op))
       \/ MayFail /\ Ends("REFUSED")
    /\ Untouched /\ Still

-----------------------------------------------------------------------------
(* The exchange *)

\* The broker takes a connection only when it has finished the one before.
Serves == call.st = "WAIT" /\ job = NoJob
Takes ==
    /\ Serves
    /\ job' = [NoJob EXCEPT !.task = call.task, !.op = call.op, !.by = "AUTHORITY",
                            !.at = IF call.task = "RECLAIM" THEN "JUDGE" ELSE "BEGIN"]
    /\ call' = [call EXCEPT !.st = "SENT"]
    /\ UNCHANGED <<fsVars, writes>>

Answer ==
    /\ At("ANSWER")
    /\ call' = IF job.by = "AUTHORITY" THEN [call EXCEPT !.st = "DONE", !.ans = job.ans] ELSE call
    /\ job' = NoJob
    /\ UNCHANGED <<fsVars, writes>>

\* The authority stops waiting: nothing was sent, or nobody knows.
GivesUp ==
    /\ "LOSE" \in Faults
    /\ \/ call.st = "WAIT" /\ call' = [call EXCEPT !.st = "DONE", !.ans = "NOT_SENT"] /\ job' = job
       \/ call.st = "SENT" /\ call' = [call EXCEPT !.st = "DONE", !.ans = "LOST"]
          /\ job' = [job EXCEPT !.by = "NOBODY"]
    /\ UNCHANGED <<fsVars, writes>>

\* The broker is killed, and replaced; its exchange is lost with it.
Killed == IF call.st = "SENT" THEN [call EXCEPT !.st = "DONE", !.ans = "LOST"] ELSE call
BrokerDies ==
    /\ "DEATH" \in Faults
    /\ job # NoJob
    /\ job' = NoJob
    /\ call' = Killed
    /\ UNCHANGED <<fsVars, writes>>

BrokerStep ==
    \/ Takes \/ Answer
    \/ Begin \/ AlreadyApplied \/ Make \/ WriteNew \/ Record \/ Check \/ Effect \/ Prove
    \/ Restore \/ Sync \/ RemoveTaken \/ Clean \/ RemoveDirectory \/ Reclaim
=============================================================================
