----------------------------- MODULE SocketClaim -----------------------------
(*****************************************************************************************)
(* Claiming a socket's name (dwkd-authority/src/server/socket.rs and                     *)
(* dwkd-broker/src/listener.rs, the same protocol in both): the directory is created     *)
(* or checked, a lock beside the socket is taken, a dead socket of the daemon's own      *)
(* is cleared, and the socket is bound.  Several daemons start at the same name, and any *)
(* may be killed, which frees its lock and leaves its socket behind, dead.               *)
(*****************************************************************************************)
EXTENDS Naturals, FiniteSets

CONSTANTS
    Daemons,      \* the processes started for one name
    MaxSockets    \* bound: sockets bound in all

VARIABLES
    directory,    \* the directory the name is in
    name,         \* what the name holds
    lockHolder,   \* who holds the lock file's lock
    pc,           \* per daemon, how far it is
    identity,     \* per daemon, the inode it inspected or bound
    sockets       \* inodes given out so far

claimVars == <<directory, name, lockHolder, pc, identity, sockets>>

NOBODY == "NOBODY"
Free == [kind |-> "ABSENT", owner |-> "SELF", inode |-> 0, live |-> FALSE]
Occupants ==
    {Free} \cup [kind : {"FILE", "SYMLINK"}, owner : {"SELF"}, inode : {0}, live : {FALSE}]
      \cup [kind : {"SOCKET"}, owner : {"SELF", "OTHER"}, inode : {0}, live : {FALSE}]
Directories ==
    [kind : {"ABSENT", "DIRECTORY", "SYMLINK"}, owner : {"SELF", "OTHER"}, writable : BOOLEAN,
     above : {"ROOT", "STICKY", "OPEN", "OTHER"}]

ClaimInit ==
    /\ directory \in Directories /\ name \in Occupants
    /\ directory.kind # "DIRECTORY" => name = Free
    /\ lockHolder = NOBODY
    /\ pc = [d \in Daemons |-> "OFF"] /\ identity = [d \in Daemons |-> 0]
    /\ sockets = 0

Goto(d, at) == pc' = [pc EXCEPT ![d] = at]

\* check_directory: a real directory, the daemon's own, that no one else can write.
DirectoryFits(at) == at.kind = "DIRECTORY" /\ at.owner = "SELF" /\ ~at.writable
\* check_ancestors: root's or the daemon's, and sticky where others can write.
AncestorsFit(at) == at.above \in {"ROOT", "STICKY"}
\* resolve: the canonical path is the directory that was checked.
Resolves(at) == at.kind = "DIRECTORY"

\* split, prepare_directory, effective_uid and the checks; a directory it creates is its own.
Created(at) ==
    IF at.kind # "ABSENT" THEN at
    ELSE [at EXCEPT !.kind = "DIRECTORY", !.owner = "SELF", !.writable = FALSE]
CheckPlace(d) ==
    /\ pc[d] = "OFF"
    /\ directory' = Created(directory)
    /\ Goto(d, IF Resolves(directory') /\ DirectoryFits(directory') /\ AncestorsFit(directory')
               THEN "CHECKED" ELSE "REFUSED")
    /\ UNCHANGED <<name, lockHolder, identity, sockets>>

\* lock.  Fault: a lock someone else holds is passed over.
LockUntried(d) ==
    /\ pc[d] = "CHECKED"
    /\ lockHolder' = IF lockHolder = NOBODY THEN d ELSE lockHolder
    /\ Goto(d, "LOCKED")
    /\ UNCHANGED <<directory, name, identity, sockets>>
Lock(d) ==
    /\ pc[d] = "CHECKED"
    /\ IF lockHolder = NOBODY
       THEN lockHolder' = d /\ Goto(d, "LOCKED")
       ELSE UNCHANGED lockHolder /\ Goto(d, "REFUSED")
    /\ UNCHANGED <<directory, name, identity, sockets>>

Release(d) == lockHolder' = IF lockHolder = d THEN NOBODY ELSE lockHolder

\* clear_stale: what the name holds is inspected, and probed if it is the daemon's own socket.
Existing(d) ==
    /\ pc[d] = "LOCKED"
    /\ IF name.kind = "ABSENT" THEN Goto(d, "CLEAR") /\ UNCHANGED <<identity, lockHolder>>
       ELSE IF name.kind = "SOCKET" /\ name.owner = "SELF" /\ ~name.live
       THEN Goto(d, "DEAD") /\ identity' = [identity EXCEPT ![d] = name.inode] /\ UNCHANGED lockHolder
       ELSE Goto(d, "REFUSED") /\ Release(d) /\ UNCHANGED identity
    /\ UNCHANGED <<directory, name, sockets>>

\* The connect was refused; removed if the name still holds that object.
RemoveStale(d) ==
    /\ pc[d] = "DEAD"
    /\ IF name.kind = "SOCKET" /\ name.inode = identity[d]
       THEN name' = Free /\ Goto(d, "CLEAR") /\ UNCHANGED lockHolder
       ELSE Goto(d, "REFUSED") /\ Release(d) /\ UNCHANGED name
    /\ UNCHANGED <<directory, identity, sockets>>

\* bind: the directory once more, then the name, if nothing holds it.  It refuses connections
\* until it listens.
Bind(d) ==
    /\ pc[d] = "CLEAR" /\ sockets < MaxSockets
    /\ IF DirectoryFits(directory) /\ name.kind = "ABSENT"
       THEN /\ sockets' = sockets + 1
            /\ name' = [kind |-> "SOCKET", owner |-> "SELF", inode |-> sockets + 1, live |-> FALSE]
            /\ identity' = [identity EXCEPT ![d] = sockets + 1]
            /\ Goto(d, "BOUND") /\ UNCHANGED lockHolder
       ELSE Goto(d, "REFUSED") /\ Release(d) /\ UNCHANGED <<name, identity, sockets>>
    /\ UNCHANGED directory
Listen(d) ==
    /\ pc[d] = "BOUND"
    /\ name' = IF name.inode = identity[d] THEN [name EXCEPT !.live = TRUE] ELSE name
    /\ Goto(d, "SERVING")
    /\ UNCHANGED <<directory, lockHolder, identity, sockets>>

\* Drop for Bound, then the lock: its own socket and no other.
Drop(d) ==
    /\ pc[d] \in {"BOUND", "SERVING"}
    /\ name' = IF name.kind = "SOCKET" /\ name.inode = identity[d] THEN Free ELSE name
    /\ Release(d) /\ Goto(d, "OFF")
    /\ UNCHANGED <<directory, identity, sockets>>

\* Killed anywhere: the kernel closes the socket and the lock, and no file is removed.
Killed(d) ==
    /\ pc[d] \notin {"OFF", "REFUSED"}
    /\ name' = IF name.inode = identity[d] /\ pc[d] \in {"BOUND", "SERVING"}
               THEN [name EXCEPT !.live = FALSE] ELSE name
    /\ Release(d) /\ Goto(d, "OFF")
    /\ UNCHANGED <<directory, identity, sockets>>

ClaimNext ==
    \E d \in Daemons :
        \/ CheckPlace(d) \/ Lock(d) \/ Existing(d) \/ RemoveStale(d) \/ Bind(d) \/ Listen(d)
        \/ Drop(d) \/ Killed(d)

ClaimSpec == ClaimInit /\ [][ClaimNext]_claimVars

-----------------------------------------------------------------------------
\* The name of a serving daemon is its own and stays so until it ends: of daemons started at
\* once, one between another's inspection and its bind, or killed at any point, none removes or
\* replaces a socket that is in use, and at most one serves (lock, clear_stale and bind in
\* server/socket.rs and listener.rs).
ServingIsReachable ==
    \A d \in Daemons : pc[d] = "SERVING" =>
        /\ name.kind = "SOCKET" /\ name.inode = identity[d] /\ name.live
        /\ \A e \in Daemons \ {d} : pc[e] # "SERVING"
=============================================================================
