----------------------------- MODULE AuditTrail -----------------------------
(***************************************************************************)
(* What the audit log promises: records are committed one after the other, *)
(* become durable in that order and are never lost, and a caller is        *)
(* answered only for what is durable.  No crash, no file, no outbox.       *)
(***************************************************************************)
EXTENDS Naturals

CONSTANT MaxRecords

VARIABLES committed, durable, answered

tvars == <<committed, durable, answered>>

TInit == committed = 0 /\ durable = 0 /\ answered = 0

\* A transaction commits its records.
Commit ==
    /\ committed' > committed
    /\ committed' <= MaxRecords
    /\ UNCHANGED <<durable, answered>>

\* The next committed records become durable.
Persist ==
    /\ durable' > durable
    /\ durable' <= committed
    /\ UNCHANGED <<committed, answered>>

\* A caller is answered for durable records.
Reply ==
    /\ answered' > answered
    /\ answered' <= durable
    /\ UNCHANGED <<committed, durable>>

TNext == Commit \/ Persist \/ Reply

TSpec == TInit /\ [][TNext]_tvars
=============================================================================
