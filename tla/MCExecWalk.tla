----------------------------- MODULE MCExecWalk -----------------------------
(* What an instance of ExecWalk is made of, for TLC: a trusted directory, a sticky one *)
(* that anyone writes, one of another uid's, two programs and two links.               *)
EXTENDS Naturals, Sequences

MCKind == [root |-> "DIR", bin |-> "DIR", tmp |-> "DIR", own |-> "DIR",
           x |-> "FILE", y |-> "FILE", l |-> "LINK", k |-> "LINK"]
Nodes == DOMAIN MCKind
MCOwner == [o \in Nodes |-> IF o \in {"own", "y", "k"} THEN "OTHER" ELSE "TRUSTED"]
Planted ==
    [root |-> [bin |-> "bin", tmp |-> "tmp", l |-> "l"], bin |-> [x |-> "x"],
     tmp |-> [k |-> "k", x |-> "NONE"], own |-> [y |-> "y"]]
MCSlots == UNION {{<<d, n>> : n \in DOMAIN Planted[d]} : d \in DOMAIN Planted}
First == [s \in MCSlots |-> Planted[s[1]][s[2]]]
MCTrees == {First, [First EXCEPT ![<<"tmp", "x">>] = "x", ![<<"bin", "x">>] = "y"]}
MCModes == {[o \in Nodes |-> o \in W] : W \in {{"tmp"}, {"tmp", "bin"}}}
MCTarget ==
    [l |-> [absolute |-> TRUE, parts |-> <<"tmp", ".", "k">>],
     k |-> [absolute |-> FALSE, parts |-> <<"..", "", "bin", "x">>]]
MCRequests ==
    {[absolute |-> TRUE, parts |-> s] :
        s \in {<<"l">>, <<"bin", "x">>, <<"bin">>, <<"tmp", "x">>, <<"tmp", "k">>, <<"..">>, <<"z">>}}
    \cup {[absolute |-> FALSE, parts |-> <<"bin", "x">>]}
MCFormat == [f \in {"x", "y"} |-> "ELF"]
MCFilesystem == [o \in Nodes |-> IF o = "own" THEN "FUSE" ELSE "EXT4"]
=============================================================================
