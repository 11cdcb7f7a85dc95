---------------------------- MODULE MCEnvironment ----------------------------
(* Three instances of Environment for TLC, of which a behaviour is of one: two runs that *)
(* compete for the bound across a restart, two handles at work on one run, and a runtime *)
(* that completes creations late.                                                        *)
EXTENDS Environment, TLC

CONSTANTS TwoHandles, OneRun
VARIABLE instance

Two == INSTANCE Environment WITH
    Handles <- TwoHandles, Runs <- OneRun, Faults <- {}, MaxIncarnation <- 1
Late == INSTANCE Environment WITH
    Handles <- {"h"}, Runs <- {"r"}, Faults <- {"LATE", "DEATH"}

MCInit ==
    \/ instance = "runs" /\ Init
    \/ instance = "handles" /\ Two!Init
    \/ instance = "late" /\ Late!Init
MCNext ==
    \/ instance = "runs" /\ Next /\ UNCHANGED instance
    \/ instance = "handles" /\ Two!Next /\ UNCHANGED instance
    \/ instance = "late" /\ Late!Next /\ UNCHANGED instance
MCSpec == MCInit /\ [][MCNext]_<<vars, instance>>

Symmetry == Permutations(Runs) \cup Permutations(TwoHandles)
==============================================================================
