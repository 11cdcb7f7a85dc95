------------------------------ MODULE ExecWalk ------------------------------
(******************************************************************************************)
(* The executable resolver (dwkd-authority/src/resource/exec): from "/" it follows        *)
(* names and symbolic links over directories no other uid can re-point, hashes the        *)
(* native file it ends at, walks the canonical path again without following anything,     *)
(* and later hands the broker a descriptor of that object.  Another uid changes what its  *)
(* ownership and the modes let it, between any two system calls; so may root and the      *)
(* authority's own uid, whom the resolver trusts.                                         *)
(*                                                                                        *)
(* Assumed: no other uid still holds a descriptor open for writing on a file it could not *)
(* open for writing now.                                                                  *)
(******************************************************************************************)
EXTENDS Naturals, Sequences, SequencesExt

CONSTANTS
    SLASH,        \* the root directory
    Kind,         \* Kind[o]: DIR, FILE, LINK or SPECIAL
    Owner,        \* Owner[o]: "TRUSTED" (root or the authority's uid) or "OTHER"
    Sticky,       \* the directories with the sticky bit
    Format,       \* Format[f]: ELF, SCRIPT or OTHER
    Filesystem,   \* Filesystem[o]: the kind of filesystem o is on
    Privileged,   \* set-id files and files with capabilities
    NotRunnable,  \* files with no execute bit, or too large
    Target,       \* Target[l]: [absolute, parts] of a link
    Malformed,    \* the names the grammar refuses
    Slots,        \* the places a name may be: <<directory, name>>
    Trees,        \* slot -> object, at first
    Modes,        \* object -> whether group or others may write it, at first
    Requests,     \* the spellings asked for: [absolute, parts]
    MaxSymlinks,  \* MAX_SYMLINKS
    MaxComponents,
    MaxChanges    \* bound: changes made by others

VARIABLES
    tree, writable, content,   \* the filesystem
    walk,                       \* the resolution
    touched,                   \* history: a trusted uid changed something since it began
    changes

execVars == <<tree, writable, content, walk, touched, changes>>

NONE == "NONE"
Objects == DOMAIN Kind
Files == {o \in Objects : Kind[o] = "FILE"}
NoWalk == [at |-> "IDLE", pending |-> <<>>, stack |-> <<>>, symlinks |-> 0, leaf |-> NONE,
         name |-> NONE, before |-> 0, digest |-> [first |-> 0, last |-> 0], checked |-> 0]

\* What the constants are: a tree binds names to objects, "NONE" is no object, and the root
\* is one.
WalkConstants ==
    /\ SLASH \in Objects /\ NONE \notin Objects
    /\ Trees \subseteq [Slots -> Objects \cup {NONE}]
    /\ Modes \subseteq [Objects -> BOOLEAN]

ExecInit ==
    /\ tree \in Trees /\ writable \in Modes
    /\ content = [f \in Files |-> 1]
    /\ walk = NoWalk /\ touched = FALSE /\ changes = 0

Bound(dir, name) == IF <<dir, name>> \in Slots THEN tree[<<dir, name>>] ELSE NONE
Top(stack) == IF stack = <<>> THEN SLASH ELSE Last(stack).object
Step(j) == walk' = j /\ UNCHANGED <<tree, writable, content, touched, changes>>
\* Refused, with an ExecError: every descriptor is closed.
Refuse(reason) == reason # NONE /\ Step(NoWalk)

-----------------------------------------------------------------------------
(* What is trusted *)

\* Filesystems whose bytes another party serves, and the kernel's own views.
UntrustedFilesystems ==
    {"PROC", "SYSFS", "NFS", "SMB", "SMB2", "CIFS", "V9FS", "FUSE", "AFS", "AFS_FS", "CEPH", "CODA"}
TrustedFilesystem(o) == Filesystem[o] \notin UntrustedFilesystems
\* fault: a directory of a trusted owner is trusted whoever may write it.
TrustedDirectoryAnyMode(d) == TrustedFilesystem(d) /\ Owner[d] = "TRUSTED"
\* trusted_directory.
TrustedDirectory(d) ==
    /\ TrustedFilesystem(d)
    /\ Owner[d] = "TRUSTED"
    /\ writable[d] => d \in Sticky
\* trusted_file and, on the opened file, no_file_capabilities.
TrustedFile(f) ==
    /\ f \notin NotRunnable /\ f \notin Privileged /\ Owner[f] = "TRUSTED" /\ ~writable[f]
    /\ TrustedFilesystem(f)

-----------------------------------------------------------------------------
(* resolve *)

\* parse: one canonical absolute spelling, every part a name the workspace's grammar accepts.
Parse(request) ==
    /\ request.absolute /\ Len(request.parts) \in 1 .. MaxComponents
    /\ ToSet(request.parts) \cap ({"", ".", ".."} \cup Malformed) = {}
\* Then "/" itself must be trusted.
WalkResolve(request) ==
    /\ walk.at = "IDLE"
    /\ IF ~Parse(request) THEN Refuse("PATH_INVALID")
       ELSE IF ~TrustedDirectory(SLASH) THEN Refuse("UNTRUSTED")
       ELSE /\ walk' = [NoWalk EXCEPT !.at = "WALK", !.pending = request.parts]
            /\ touched' = FALSE
            /\ UNCHANGED <<tree, writable, content, changes>>

\* "..": back to the directory this one was entered from; "/" is its own parent.
PopParent ==
    /\ walk.at = "WALK" /\ walk.pending # <<>> /\ Head(walk.pending) = ".."
    /\ Step([walk EXCEPT !.pending = Tail(@), !.stack = IF @ = <<>> THEN @ ELSE Front(@)])

\* link_segments: the target is data of the filesystem, read as the kernel reads it.
LinkSegments(link) == SelectSeq(Target[link].parts, LAMBDA part : part \notin {"", "."})
\* A link is read through its own descriptor and its segments come first; an absolute
\* one begins again at "/".
Follow(link, rest) ==
    IF walk.symlinks + 1 > MaxSymlinks THEN Refuse("SYMLINK_LIMIT")
    ELSE IF Target[link].parts = <<>> \/ ToSet(LinkSegments(link)) \cap Malformed # {}
    THEN Refuse("PATH_INVALID")
    ELSE Step([walk EXCEPT !.symlinks = @ + 1, !.pending = LinkSegments(link) \o rest,
                          !.stack = IF Target[link].absolute THEN <<>> ELSE @])

\* The file the walk ends at: trusted by the fstat of its O_PATH descriptor.
Arrive(f, name) ==
    IF ~TrustedFile(f) THEN Refuse("UNTRUSTED")
    ELSE Step([walk EXCEPT !.at = "OPEN", !.pending = <<>>, !.leaf = f, !.name = name,
                          !.before = content[f]])

WalkName ==
    /\ walk.at = "WALK" /\ walk.pending # <<>> /\ Head(walk.pending) # ".."
    /\ LET name == Head(walk.pending)
           rest == Tail(walk.pending)
           child == Bound(Top(walk.stack), name)
       IN  IF child = NONE THEN Refuse("NOT_FOUND")
           ELSE IF Kind[child] = "LINK" THEN Follow(child, rest)
           ELSE IF Kind[child] = "DIR"
           THEN IF ~TrustedDirectory(child) THEN Refuse("UNTRUSTED")
                ELSE Step([walk EXCEPT !.pending = rest,
                                      !.stack = Append(@, [name |-> name, object |-> child])])
           ELSE IF Kind[child] = "FILE" /\ rest = <<>> THEN Arrive(child, name)
           ELSE Refuse("NOT_A_DIRECTORY")

\* The path ended at a directory.
NothingLeft ==
    /\ walk.at = "WALK" /\ walk.pending = <<>>
    /\ Refuse("NOT_REGULAR")

\* open_regular: the name, opened for reading, is still the object.
StillNamed(j) == Bound(Top(j.stack), j.name) = j.leaf
OpenRegular ==
    /\ walk.at = "OPEN"
    /\ IF StillNamed(walk) /\ Format[walk.leaf] = "ELF" THEN Step([walk EXCEPT !.at = "HASH"])
       ELSE Refuse("RACE")

\* hash: the first bytes and the last are read at different moments ...
HashFirst ==
    /\ walk.at = "HASH"
    /\ Step([walk EXCEPT !.at = "HASHING", !.digest.first = content[walk.leaf]])
\* ... and a file whose size or times changed meanwhile is refused; a change within one tick
\* of the filesystem's clock does not show.
HashLast(shows) ==
    /\ walk.at = "HASHING"
    /\ IF shows /\ content[walk.leaf] # walk.before THEN Refuse("RACE")
       ELSE Step([walk EXCEPT !.at = "REVERIFY", !.digest.last = content[walk.leaf]])

\* reverify: from "/" again, following nothing, each directory is the one on the stack ...
ReverifyDirectory ==
    /\ walk.at = "REVERIFY" /\ walk.checked < Len(walk.stack)
    /\ LET i == walk.checked + 1
           dir == Top(SubSeq(walk.stack, 1, walk.checked))
       IN  IF Bound(dir, walk.stack[i].name) = walk.stack[i].object
           THEN Step([walk EXCEPT !.checked = i])
           ELSE Refuse("RACE")
\* canonical_path: where the links led may be deeper than any canonical path.
CanonicalFits(j) == Len(j.stack) + 1 <= MaxComponents
\* ... and the leaf's name binds the object that was hashed.
ReverifyLeaf ==
    /\ walk.at = "REVERIFY" /\ walk.checked = Len(walk.stack)
    /\ IF ~StillNamed(walk) THEN Refuse("RACE")
       ELSE IF ~CanonicalFits(walk) THEN Refuse("PATH_INVALID")
       ELSE Step([walk EXCEPT !.at = "RESOLVED"])

\* open_for_exec: named as before and, opened, the same object and still trusted.
ExecHandoff ==
    /\ walk.at = "RESOLVED"
    /\ IF StillNamed(walk) THEN Step([walk EXCEPT !.at = "BOUND"]) ELSE Refuse("RACE")
OpenForExec ==
    /\ walk.at = "BOUND"
    /\ IF StillNamed(walk) /\ TrustedFile(walk.leaf) THEN Step([walk EXCEPT !.at = "GIVEN"])
       ELSE Refuse("RACE")
WalkFinish ==
    /\ walk.at \in {"RESOLVED", "GIVEN"}
    /\ Step(NoWalk)

-----------------------------------------------------------------------------
(* Everyone else (external) *)

\* A change, by another uid or by a trusted one.
Changed(trusted) ==
    /\ changes < MaxChanges /\ walk.at # "IDLE"
    /\ changes' = changes + 1
    /\ touched' = (touched \/ trusted)
    /\ UNCHANGED walk
MayWriteFile(o, trusted) == trusted \/ Owner[o] = "OTHER" \/ writable[o]
Theirs == {o \in Objects : Owner[o] = "OTHER"} \cup {NONE}
\* In a sticky directory only the owner of a file, or of the directory, may move it.
MayMove(dir, o, trusted) ==
    /\ MayWriteFile(dir, trusted)
    /\ trusted \/ Owner[dir] = "OTHER" \/ dir \notin Sticky \/ o \in Theirs

WriteFile(f, trusted) ==
    /\ Changed(trusted) /\ MayWriteFile(f, trusted)
    /\ content' = [content EXCEPT ![f] = 3 - @]
    /\ UNCHANGED <<tree, writable>>
Chmod(o, trusted) ==
    /\ Changed(trusted) /\ (trusted \/ Owner[o] = "OTHER")
    /\ writable' = [writable EXCEPT ![o] = ~@]
    /\ UNCHANGED <<tree, content>>
Rename(from, to, trusted) ==
    /\ Changed(trusted)
    /\ from # to /\ tree[from] # NONE /\ to[1] # tree[from]
    /\ MayMove(from[1], tree[from], trusted) /\ MayMove(to[1], tree[to], trusted)
    /\ tree' = [tree EXCEPT ![to] = tree[from], ![from] = NONE]
    /\ UNCHANGED <<writable, content>>

Others ==
    \E trusted \in BOOLEAN :
        \/ \E f \in Files : WriteFile(f, trusted)
        \/ \E o \in Objects : Chmod(o, trusted)
        \/ \E from, to \in Slots : Rename(from, to, trusted)

Resolver ==
    \/ \E request \in Requests : WalkResolve(request)
    \/ PopParent \/ WalkName \/ NothingLeft \/ OpenRegular \/ HashFirst
    \/ \E shows \in BOOLEAN : HashLast(shows)
    \/ ReverifyDirectory \/ ReverifyLeaf \/ ExecHandoff \/ OpenForExec \/ WalkFinish
ExecNext == Resolver \/ Others
ExecSpec == ExecInit /\ [][ExecNext]_execVars

-----------------------------------------------------------------------------

\* The canonical path binds the object, component by component from "/".
PathBinds(j) ==
    /\ \A i \in 1 .. Len(j.stack) :
          Bound(Top(SubSeq(j.stack, 1, i - 1)), j.stack[i].name) = j.stack[i].object
    /\ StillNamed(j)

\* What a resolved executable's identity says stays so for as long as it is held: the path
\* binds that object and the object's bytes are the ones hashed, whatever any other uid does,
\* unless root or the authority's own uid changed something since the resolution began
\* (trusted_directory, trusted_file, reverify).
IdentityIsStable ==
    walk.at \in {"RESOLVED", "BOUND", "GIVEN"} /\ ~touched =>
        PathBinds(walk) /\ walk.digest = [first |-> content[walk.leaf], last |-> content[walk.leaf]]
=============================================================================
