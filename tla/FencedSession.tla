---------------------------- MODULE FencedSession ----------------------------
(***************************************************************************)
(* What a session lease promises, without clocks, connections, keys or     *)
(* retries: each session has a fencing token that only grows and at most   *)
(* one writer; a writer's work is opened under the token it was granted,   *)
(* and whatever ends the writer's tenure closes, in the same step, all the *)
(* work that was opened under it.                                          *)
(***************************************************************************)
EXTENDS Naturals

CONSTANTS Sessions, Works, Writers, NoWriter, MaxToken

VARIABLES token, writer, work

fvars == <<token, writer, work>>

Unopened == [state |-> "NONE", session |-> "none", token |-> 0, writer |-> NoWriter]

IsOpen(w, s) == work[w].state = "OPEN" /\ work[w].session = s

Closed(x) == [state |-> "CLOSED", session |-> x.session, token |-> x.token, writer |-> x.writer]

\* The work of session s is closed; nothing reopens it.
CloseAll(s) == [w \in Works |-> IF IsOpen(w, s)
                                THEN Closed(work[w])
                                ELSE work[w]]

FInit ==
    /\ token = [s \in Sessions |-> 0]
    /\ writer = [s \in Sessions |-> NoWriter]
    /\ work = [w \in Works |-> Unopened]

\* A tenure begins: the next token, its writer, and no work of the last one.
Grant(s) ==
    /\ token[s] < MaxToken
    /\ token' = [token EXCEPT ![s] = token[s] + 1]
    /\ writer'[s] \in Writers
    /\ writer' = [writer EXCEPT ![s] = writer'[s]]
    /\ work' = CloseAll(s)

\* A tenure ends, and its work with it.
Revoke(s) ==
    /\ writer[s] # NoWriter
    /\ writer' = [writer EXCEPT ![s] = NoWriter]
    /\ work' = CloseAll(s)
    /\ token' = token

\* Every tenure ends.
RevokeAll ==
    /\ writer' = [s \in Sessions |-> NoWriter]
    /\ work' = [w \in Works |-> IF work[w].state = "OPEN"
                                THEN Closed(work[w])
                                ELSE work[w]]
    /\ token' = token

\* The writer opens a piece of work under its token.
Open(w, s) ==
    /\ work[w].state = "NONE"
    /\ writer[s] # NoWriter
    /\ work' = [work EXCEPT ![w] = [state |-> "OPEN", session |-> s,
                                    token |-> token[s], writer |-> writer[s]]]
    /\ UNCHANGED <<token, writer>>

\* A piece of work is closed by itself.
Close(w) ==
    /\ work[w].state = "OPEN"
    /\ work' = [work EXCEPT ![w] = Closed(work[w])]
    /\ UNCHANGED <<token, writer>>

FNext ==
    \/ \E s \in Sessions : Revoke(s) \/ Grant(s) \/ (\E w \in Works : Open(w, s))
    \/ RevokeAll
    \/ \E w \in Works : Close(w)

FSpec == FInit /\ [][FNext]_fvars
=============================================================================
