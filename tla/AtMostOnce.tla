------------------------------ MODULE AtMostOnce ------------------------------
(******************************************************************************)
(* What a ledger of invocations promises of each key: the effect it names     *)
(* happens at most once, only after its intent is recorded, and the outcome   *)
(* recorded tells the truth.  COMPLETED says the effect happened, FAILED that *)
(* it did not and never will; UNKNOWN says neither, and the effect may still  *)
(* happen after it.                                                           *)
(******************************************************************************)
CONSTANT Keys

VARIABLES
    state,       \* per key, what its record says
    effect       \* the keys whose effect has happened

oVars == <<state, effect>>

OInit ==
    /\ state = [k \in Keys |-> "NONE"]
    /\ effect = {}

Intend(k) ==
    /\ state[k] = "NONE"
    /\ state' = [state EXCEPT ![k] = "OPEN"]
    /\ UNCHANGED effect

Happen(k) ==
    /\ state[k] \in {"OPEN", "UNKNOWN"} /\ k \notin effect
    /\ effect' = effect \cup {k}
    /\ UNCHANGED state

Truthful(k, s) ==
    \/ s = "COMPLETED" /\ k \in effect
    \/ s = "FAILED" /\ k \notin effect
    \/ s = "UNKNOWN"

\* Several may be recorded at once: a restart ends everything left open.
Record(K) ==
    /\ \A k \in K : state[k] = "OPEN"
    /\ \E new \in [K -> {"COMPLETED", "FAILED", "UNKNOWN"}] :
         /\ \A k \in K : Truthful(k, new[k])
         /\ state' = [k \in Keys |-> IF k \in K THEN new[k] ELSE state[k]]
    /\ UNCHANGED effect

ONext ==
    \/ \E K \in SUBSET {k \in Keys : state[k] = "OPEN"} : Record(K)
    \/ \E k \in Keys : Intend(k) \/ Happen(k)

OSpec == OInit /\ [][ONext]_oVars
=============================================================================
