--------------------------- MODULE MCSessionLease ---------------------------
(* Two instances of SessionLease for TLC, of which a behaviour is of one: two subjects who    *)
(* admit under one key through two handles at once, and one subject with two keys across a    *)
(* restart, whose configuration changes between two passes of an admission.  The module's own *)
(* constants are the union of the two.                                                        *)
EXTENDS SessionLease, TLC

CONSTANTS u1, u2, u3, k1, k2, k3, d1, d2, d3, h1, h2, h3
VARIABLE instance

Concurrent == INSTANCE SessionLease WITH
    Subjects <- {u1, u2}, Keys <- {k1}, Digests <- {d1, d2}, Handles <- {h1, h2},
    MaxIncarnation <- 1, MaxRevision <- 1
Restarted == INSTANCE SessionLease WITH
    Subjects <- {u3}, Keys <- {k2, k3}, Digests <- {d3}, Handles <- {h3}

MCInit ==
    \/ instance = "concurrent" /\ Concurrent!Init
    \/ instance = "restarted" /\ Restarted!Init
MCNext ==
    \/ instance = "concurrent" /\ Concurrent!Next /\ UNCHANGED instance
    \/ instance = "restarted" /\ Restarted!Next /\ UNCHANGED instance
MCSpec == MCInit /\ [][MCNext]_<<vars, instance>>

Symmetry ==
    Permutations({u1, u2}) \cup Permutations({d1, d2}) \cup Permutations({h1, h2})
      \cup Permutations({k2, k3})
=============================================================================
