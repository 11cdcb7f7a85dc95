---------------------------- MODULE MCToolInvoke ----------------------------
(* A tool's filesystem operation for TLC: the policy it is decided by, the grants that must   *)
(* permit it, the resolution of the path it is for, and its staging and effect.  They share   *)
(* no state, so a behaviour is of one of them, the focus, and the others rest at a state they *)
(* start in.  PathWalk's workspace has two directories, a name with an equivalent spelling, a *)
(* file, a link, a mount point and a special file.                                            *)
EXTENDS ToolInvoke, PathWalk, Policy, Grants

VARIABLE focus

MCKind == [r |-> "DIR", d |-> "DIR", e |-> "DIR", m |-> "DIR", f |-> "FILE", g |-> "FILE",
           l |-> "LINK", s |-> "SPECIAL"]
MCSlots == {<<"r", "a">>, <<"r", "c">>, <<"d", "b">>, <<"d", "b~">>, <<"e", "b">>}
Tree(a, c, b, like, other) ==
    [s \in MCSlots |-> CASE s = <<"r", "a">> -> a
                         [] s = <<"r", "c">> -> c
                         [] s = <<"d", "b">> -> b
                         [] s = <<"d", "b~">> -> like
                         [] OTHER -> other]
MCTrees ==
    {Tree("d", "e", "f", "NONE", "g"), Tree("d", "e", "NONE", "l", "s"),
     Tree("d", "m", "l", "NONE", "NONE")}
MCDeclaredPaths ==
    {[anchored |-> TRUE, parts |-> p] :
        p \in {<<"a", "b">>, <<>>, <<"c">>, <<"a", "..">>, <<"a", "b~">>, <<"z">>, <<"a", "b", "c">>}}
    \cup {[anchored |-> FALSE, parts |-> <<>>]}
Asking(target, access, expect, hand) ==
    [target |-> target, access |-> access, expect |-> expect, hand |-> hand]
MCLookups ==
    {Asking(FALSE, "OBSERVE", "ANY", "STAT"), Asking(FALSE, "OBSERVE", "DIR", "LIST"),
     Asking(FALSE, "OBSERVE", "FILE", "READ"), Asking(TRUE, "MODIFY", "FILE", "PARENT"),
     Asking(FALSE, "MODIFY", "FILE", "PATCH"), Asking(FALSE, "MODIFY", "ANY", "PARENT")}
Installed == [absolute |-> TRUE, kind |-> "DIR", pseudo |-> FALSE, inode |-> "r", birth |-> 1]
MCHostRoots ==
    { Installed, [Installed EXCEPT !.birth = 2], [Installed EXCEPT !.inode = "d"],
      [Installed EXCEPT !.absolute = FALSE], [Installed EXCEPT !.pseudo = TRUE] }
    \cup {[Installed EXCEPT !.kind = k] : k \in {"NONE", "LINK", "FILE"}}
MCNFC == [n \in {"a", "b", "b~", "c", "z"} |-> IF n = "b~" THEN "b" ELSE n]

PO == INSTANCE MCPolicy
MCSets == PO!MCSets
MCActions == PO!MCActions
MCContexts == PO!MCContexts

GR == INSTANCE MCGrants
MCProfiles == GR!MCProfiles
MCSkillSpecs == GR!MCSkillSpecs
MCCeiling == GR!MCCeiling
MCAsked == GR!MCAsked
MCWorlds == GR!MCWorlds
MCNarrowings == GR!MCNarrowings
MCRequests == GR!MCRequests
MCCalls == GR!MCCalls

ASSUME PathsConstants == PathConstants
ASSUME PoliciesConstants == PolicyConstants
ASSUME DeclarationsConstants == GrantsConstants

\* Where a part that is not the focus rests, of the states it may start in.
AnyOf(S) == CHOOSE x \in S : TRUE
Rests(part, resting) == focus = part \/ resting
MCInit ==
    /\ focus \in {"invocation", "path", "policy", "grants"}
    /\ Init /\ Rests("invocation", Vacant("leaf"))
    /\ PathInit /\ Rests("path", tree = AnyOf(Trees))
    /\ PolicyInit
    /\ GrantsInit
    /\ Rests("grants", profile = AnyOf(Profiles) /\ workspace /\ world = AnyOf(Worlds))
MCNext ==
    \/ focus = "invocation" /\ Next /\ UNCHANGED <<focus, pathVars, policyVars, grantsVars>>
    \/ focus = "path" /\ PathNext /\ UNCHANGED <<focus, vars, policyVars, grantsVars>>
    \/ focus = "policy" /\ PolicyNext /\ UNCHANGED <<focus, vars, pathVars, grantsVars>>
    \/ focus = "grants" /\ GrantsNext /\ UNCHANGED <<focus, vars, pathVars, policyVars>>
MCSpec == MCInit /\ [][MCNext]_<<focus, vars, pathVars, policyVars, grantsVars>>
=============================================================================
