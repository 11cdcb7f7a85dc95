------------------------------ MODULE PathWalk ------------------------------
(************************************************************************************)
(* The canonical filesystem resolver (dwkd-authority/src/resource/fs): from a       *)
(* pinned root it opens one component at a time, verifies each name against its     *)
(* directory's listing, re-verifies the chain from the leaf up, and hands a checked *)
(* descriptor to the broker.  Anyone who can write the workspace may rename, link   *)
(* and unlink between any two of its system calls.                                  *)
(************************************************************************************)
EXTENDS Naturals, FiniteSets, Sequences, SequencesExt

CONSTANTS
    ROOT,        \* the directory the operator installed as the root
    Kind,        \* Kind[o]: what the object o is
    Mounted,     \* the objects that are mount points
    Slots,       \* the places a name may be: <<directory, name>>
    NFC,         \* NFC[n]: what the name n normalises to
    Malformed,   \* the names too long or with a character no name may have
    DeclaredPaths, \* the paths asked for: [anchored, parts]
    MaxPathDepth,  \* MAX_DEPTH
    MaxListing,  \* MAX_LISTING_ENTRIES
    Lookups,     \* what the state layer asks: [target, access, expect, hand]
    Trees,       \* the workspaces it starts from: slot -> object
    HostRoots,   \* what the operator's path may hold when the root is reopened
    MaxTreeChanges \* bound: changes others make

VARIABLES
    tree,        \* slot -> the object it names, or NONE
    walk,        \* the resolution
    seen,        \* history: the whole chain was bound at one instant
    gone,        \* history: the links of the chain found broken since they were opened
    returned,    \* history: a broken link was made again
    treeChanges  \* changes made so far

pathVars == <<tree, walk, seen, gone, returned, treeChanges>>

NONE == "NONE"
\* RootFingerprint of the installed root, with a birth time where the filesystem has one.
Fingerprint == [inode |-> ROOT, birth |-> 1]
\* DIR, FILE, LINK (a symbolic or magic link) or SPECIAL.
Nodes == DOMAIN Kind
NoRequest == [target |-> FALSE, access |-> "OBSERVE", expect |-> "ANY", hand |-> NONE]
Idle == [at |-> "IDLE", call |-> NoRequest, path |-> <<>>, names |-> <<>>, opened |-> <<>>,
         probing |-> FALSE, check |-> 0, aliased |-> FALSE]

\* What the constants are: a path is a sequence of names, and a workspace binds names to nodes.
PathConstants ==
    /\ \A d \in DeclaredPaths : d.parts \in Seq(DOMAIN NFC \cup Malformed \cup {"", ".", ".."})
    /\ Trees \subseteq [Slots -> Nodes \cup {NONE}]

PathInit ==
    /\ tree \in Trees
    /\ walk = Idle /\ seen = FALSE /\ gone = {} /\ returned = FALSE /\ treeChanges = 0

-----------------------------------------------------------------------------
(* What the kernel answers about the tree *)

BoundIn(t, dir, name) == IF <<dir, name>> \in DOMAIN t THEN t[<<dir, name>>] ELSE NONE
Entries(t, dir) == {n \in DOMAIN NFC : BoundIn(t, dir, n) # NONE}
LinksTo(t, o) == {s \in DOMAIN t : t[s] = o}
\* The directory a component is looked up in: the root, or the one opened before it.
Parent(j, i) == IF i = 1 THEN ROOT ELSE j.opened[i - 1]
LinkHolds(t, j, i) == BoundIn(t, Parent(j, i), j.names[i]) = j.opened[i]
\* A chain whose every component was opened, bound from the root to its leaf.
Whole(t, j) ==
    /\ Len(j.opened) = Len(j.names)
    /\ \A i \in 1 .. Len(j.names) : LinkHolds(t, j, i)

\* What a step does to the histories.
Observed ==
    IF walk'.at = "IDLE" \/ (walk'.at = "OPEN" /\ walk'.opened = <<>>)
    THEN /\ seen' = Whole(tree', walk') /\ gone' = {} /\ returned' = FALSE
    ELSE LET broken == {i \in 1 .. Len(walk'.opened) : ~LinkHolds(tree', walk', i)}
         IN  /\ seen' = (seen \/ Whole(tree', walk'))
             /\ gone' = gone \cup broken
             /\ returned' = (returned \/ \E i \in gone : i \notin broken)

Step(j) == walk' = j /\ UNCHANGED <<tree, treeChanges>> /\ Observed
\* Refused: every descriptor is closed; the caller is told the reason and keeps nothing.
Refuse(reason) == reason # NONE /\ Step(Idle)

-----------------------------------------------------------------------------
(* The path and the root *)

\* names::check: what a name may be made of; it is refused, never rewritten.
CheckName(n) == n \notin Malformed /\ NFC[n] = n
\* component.
Component(n) == n \notin {"", ".", ".."} /\ CheckName(n)
\* parse: why a spelling is not a canonical workspace path.
Parse(d) ==
    IF ~d.anchored THEN "OUTSIDE_WORKSPACE"
    ELSE IF Len(d.parts) > MaxPathDepth THEN "TOO_DEEP"
    ELSE IF \E i \in DOMAIN d.parts : ~Component(d.parts[i]) THEN "COMPONENT"
    ELSE NONE

\* RootFingerprint::matches, with or without a birth time recorded.
MatchesRoot(fp, found) == found.inode = fp.inode /\ (fp.birth = 0 \/ found.birth = fp.birth)
\* RootError: why the operator's path is no root.
RootError(found) ==
    CASE ~found.absolute -> "NOT_ABSOLUTE" [] found.kind = NONE -> "MISSING"
      [] found.kind = "LINK" -> "SYMLINK" [] found.kind \in {"FILE", "SPECIAL"} -> "NOT_A_DIRECTORY"
      [] found.pseudo -> "UNSUPPORTED_FILESYSTEM" [] OTHER -> NONE
\* open_root through reopen: a root, and the one installed.
Reopen(fp, found) ==
    IF RootError(found) # NONE THEN RootError(found)
    ELSE IF ~MatchesRoot(fp, found) THEN "REPLACED" ELSE NONE

\* walk begins; with no names it is the pinned root itself, through `here`.
Walk(call, path, names, probing) ==
    [Idle EXCEPT !.at = IF names = <<>> THEN "WALKED" ELSE "OPEN", !.call = call, !.path = path,
                 !.names = names, !.probing = probing]

\* resolve, or resolve_target, which probes the leaf's parents first.
ResolvePath(call, d, found) ==
    /\ walk.at = "IDLE"
    /\ IF Reopen(Fingerprint, found) # NONE THEN Refuse(Reopen(Fingerprint, found))
       ELSE IF Parse(d) # NONE THEN Refuse(Parse(d))
       ELSE IF call.target /\ d.parts # <<>> THEN Step(Walk(call, d.parts, Front(d.parts), TRUE))
       ELSE Step(Walk(call, d.parts, d.parts, FALSE))

-----------------------------------------------------------------------------
(* The walk *)

\* openat2 with RESOLVE: why a component cannot be opened.
OpenError(child) ==
    IF child = NONE THEN "NOT_FOUND"
    ELSE IF Kind[child] = "LINK" THEN "SYMLINK"
    ELSE IF child \in Mounted THEN "MOUNT_CROSSING"
    ELSE NONE
\* classify: a directory, or at the leaf a regular file.
ClassifyChild(child, leaf) ==
    IF Kind[child] = "DIR" \/ (leaf /\ Kind[child] = "FILE") THEN NONE
    ELSE IF leaf THEN "SPECIAL_FILE" ELSE "NOT_A_DIRECTORY"

\* open_child, fstat and classify of the next component.
OpenChild ==
    /\ walk.at = "OPEN"
    /\ LET i == Len(walk.opened) + 1
           child == BoundIn(tree, Parent(walk, i), walk.names[i])
           leaf == i = Len(walk.names)
       IN  IF OpenError(child) # NONE THEN Refuse(OpenError(child))
           ELSE IF ClassifyChild(child, leaf) # NONE THEN Refuse(ClassifyChild(child, leaf))
           ELSE Step([walk EXCEPT !.at = "ENTRY", !.opened = Append(walk.opened, child),
                                 !.aliased = LinksTo(tree, child) # {<<Parent(walk, i), walk.names[i]>>}])

Equivalent(sibling, name) == sibling # name /\ NFC[sibling] = name
\* The listing of a directory holds no other name that normalises to this one.
Unambiguous(dir, name) == \A n \in Entries(tree, dir) : ~Equivalent(n, name)
\* verify_entry: listed as spelled, alone, in a directory of a bounded size.
VerifyEntry ==
    /\ walk.at = "ENTRY"
    /\ LET i == Len(walk.opened)
           dir == Parent(walk, i)
       IN  IF \/ Cardinality(Entries(tree, dir)) > MaxListing
              \/ walk.names[i] \notin Entries(tree, dir)
              \/ ~Unambiguous(dir, walk.names[i])
           THEN Refuse("NAME_MISMATCH")
           ELSE Step([walk EXCEPT !.at = IF i < Len(walk.names) THEN "OPEN" ELSE "CHAIN", !.check = i])

\* verify_chain: from the leaf up, each name still binds what was opened for it.
ChainHoldsUnasked(i) == TRUE   \* fault: what the walk opened is believed to be there still
ChainHolds(i) == LinkHolds(tree, walk, i)
VerifyChain ==
    /\ walk.at = "CHAIN"
    /\ IF ~ChainHolds(walk.check) THEN Refuse("RACE")
       ELSE Step([walk EXCEPT !.at = IF walk.check = 1 THEN "WALKED" ELSE "CHAIN", !.check = @ - 1])

\* What was walked to: its leaf, or the root.
Leaf(j) == IF j.opened = <<>> THEN ROOT ELSE Last(j.opened)

\* judge: the kind expected, and no second name of a file to be modified.
JudgeLeaf(j) ==
    /\ j.call.expect = "DIR" => Kind[Leaf(j)] = "DIR"
    /\ j.call.expect = "FILE" => Kind[Leaf(j)] = "FILE"
    /\ ~(j.call.access = "MODIFY" /\ Kind[Leaf(j)] = "FILE" /\ j.aliased)

\* The walk's end: a resolved resource, or the parents probe_vacant asked for.
Walked ==
    /\ walk.at = "WALKED"
    /\ IF walk.probing
       THEN IF Kind[Leaf(walk)] = "DIR" THEN Step([walk EXCEPT !.at = "PROBE"])
            ELSE Refuse("NOT_A_DIRECTORY")
       ELSE IF JudgeLeaf(walk) THEN Step([walk EXCEPT !.at = "HELD"]) ELSE Refuse("JUDGED")

-----------------------------------------------------------------------------
(* A vacant name *)

\* probe_vacant's open of the leaf: a name that exists is resolved the ordinary way.
ProbeVacant ==
    /\ walk.at = "PROBE"
    /\ LET child == BoundIn(tree, Leaf(walk), Last(walk.path))
       IN  IF child = NONE THEN Step([walk EXCEPT !.at = "ABSENT"])
           ELSE IF OpenError(child) # NONE THEN Refuse(OpenError(child))
           ELSE Step(Walk(walk.call, walk.path, walk.path, FALSE))

\* verify_absent_within: neither the name nor one that normalises to it is listed.
VerifyAbsent ==
    /\ walk.at = "ABSENT"
    /\ LET dir == Leaf(walk)
       IN  IF \/ Cardinality(Entries(tree, dir)) > MaxListing
              \/ Last(walk.path) \in Entries(tree, dir)
              \/ ~Unambiguous(dir, Last(walk.path))
           THEN Refuse("NOT_VACANT")
           ELSE Step([walk EXCEPT !.at = "GUARD"])

\* The retained parent's name still binds what was checked (the root has no name).
StillBound(j) == j.opened = <<>> \/ LinkHolds(tree, j, Len(j.opened))

\* The last check of probe_vacant: the parent is still where it was found.
GuardVacant ==
    /\ walk.at = "GUARD"
    /\ IF StillBound(walk) THEN Step([walk EXCEPT !.at = "VACANT"]) ELSE Refuse("RACE")

\* still_vacant, first half; then the name itself, and the parent's descriptor is opened.
VacantHandoff ==
    /\ walk.at = "VACANT"
    /\ IF StillBound(walk) THEN Step([walk EXCEPT !.at = "UNFILLED"]) ELSE Refuse("RACE")
StillVacant ==
    /\ walk.at = "UNFILLED"
    /\ IF BoundIn(tree, Leaf(walk), Last(walk.path)) = NONE THEN Step([walk EXCEPT !.at = "GIVEN"])
       ELSE Refuse("RACE")

-----------------------------------------------------------------------------
(* Handing the checked object on *)

\* The kinds each handoff takes; the root has no parent to hand.
HandoffFits(j) ==
    /\ j.call.hand = "LIST" => Kind[Leaf(j)] = "DIR"
    /\ j.call.hand \in {"READ", "PATCH"} => Kind[Leaf(j)] = "FILE"
    /\ j.call.hand = "PARENT" => j.opened # <<>>

\* into_stat_handoff, into_list_handoff, into_parent_handoff, and the first check of the
\* two that read: the name still binds the object.
HandOff ==
    /\ walk.at = "HELD"
    /\ IF ~HandoffFits(walk) THEN Refuse("WRONG_KIND")
       ELSE IF ~StillBound(walk) THEN Refuse("RACE")
       ELSE Step([walk EXCEPT !.at = IF walk.call.hand \in {"READ", "PATCH"} THEN "REOPEN" ELSE "GIVEN"])

\* open_for_read: opened again by its one name, it must be the object that was checked.
OpenForRead ==
    /\ walk.at = "REOPEN"
    /\ IF LinkHolds(tree, walk, Len(walk.opened)) THEN Step([walk EXCEPT !.at = "GIVEN"])
       ELSE Refuse("RACE")

\* The broker has its descriptor; the resource is consumed.
Finish ==
    /\ walk.at = "GIVEN"
    /\ Step(Idle)

-----------------------------------------------------------------------------
(* Everyone else *)

\* external: rename(2), which replaces what was there; link(2) leaves the old name.
Rename(from, to, keep) ==
    /\ tree[from] # NONE /\ from # to /\ to[1] # tree[from]
    /\ keep => Kind[tree[from]] # "DIR"
    /\ tree' = [tree EXCEPT ![to] = tree[from], ![from] = IF keep THEN @ ELSE NONE]
\* external: unlink(2).
Unlink(slot) == tree[slot] # NONE /\ tree' = [tree EXCEPT ![slot] = NONE]

Others ==
    /\ treeChanges < MaxTreeChanges /\ walk.at # "IDLE"
    /\ \/ \E from, to \in Slots, keep \in BOOLEAN : Rename(from, to, keep)
       \/ \E slot \in Slots : Unlink(slot)
    /\ treeChanges' = treeChanges + 1 /\ walk' = walk /\ Observed

Resolver ==
    \/ \E call \in Lookups, d \in DeclaredPaths, found \in HostRoots : ResolvePath(call, d, found)
    \/ OpenChild \/ VerifyEntry \/ VerifyChain \/ Walked
    \/ ProbeVacant \/ VerifyAbsent \/ GuardVacant \/ VacantHandoff \/ StillVacant
    \/ HandOff \/ OpenForRead \/ Finish
PathNext == Resolver \/ Others
PathSpec == PathInit /\ [][PathNext]_pathVars

-----------------------------------------------------------------------------

\* What is handed to the broker was at its canonical path: at one instant of the resolution
\* every component bound the object opened for it, from the pinned root to the object (or,
\* for a vacant name, to its parent), unless someone took one of those names away and gave it
\* back while the resolution ran (walk, verify_chain, still_bound).
HandedOffWasAtItsPath ==
    walk.at = "GIVEN" => (seen \/ returned)
=============================================================================
