----------------------------- MODULE MCSecrets -----------------------------
(* What an instance of Secrets is made of, for TLC: documents that configure, change, revoke *)
(* and remove two handles or are refused, and values that overlap, are too short or not      *)
(* carried.                                                                                  *)
EXTENDS Naturals, Sequences

Absent == "NONE"
Table(storage, entry, modes) ==
    [unknown |-> FALSE, storage |-> storage, keychain |-> IF storage = "keychain" THEN entry ELSE Absent,
     path |-> IF storage = "keychain" THEN Absent ELSE entry,
     origins |-> IF "egress" \in modes THEN <<"any.x">> ELSE <<>>,
     header |-> IF "egress" \in modes THEN "h" ELSE Absent, prefix |-> Absent, injection |-> modes,
     consumers |-> IF modes = {"egress"} THEN <<>> ELSE <<"git", "sh">>,
     env |-> IF "env_at_spawn" \in modes THEN "TOKEN" ELSE Absent, rest |-> "d", revoked |-> FALSE]
Document(age, secrets) == [sound |-> TRUE, age |-> age, secrets |-> secrets]
One == Table("keychain", "e", {"egress", "fd_at_spawn", "env_at_spawn"})
Two == Table("age", "f", {"env_at_spawn"})
Both == Document("i", <<One, Two>>)

MCDocuments ==
    {Both,
     Document("i", <<[One EXCEPT !.revoked = TRUE], [Two EXCEPT !.env = "PROXY"]>>),
     Document("i", <<[One EXCEPT !.origins = <<"a.x", "any.x">>]>>),
     Document("i", <<One, [Two EXCEPT !.env = Absent]>>),
     Document(Absent, <<One, Two>>)}
Holding(v, w) == [e \in {"i", "e", "f"} |-> CASE e = "i" -> <<"k">> [] e = "e" -> v [] OTHER -> w]
On(digest) == [p \in {"git", "sh"} |-> IF p = "git" THEN <<"git", digest>> ELSE <<>>]
MCBeginnings ==
    {[document |-> Both, backend |-> [Holding(<<"a", "b">>, <<"b", "b">>) EXCEPT !["i"] = i],
      programs |-> On("d1")] : i \in {<<>>, <<"k">>}}
MCRotations ==
    {[entry |-> "e", value |-> <<"b", "b">>], [entry |-> "e", value |-> <<"b", "LF">>],
     [entry |-> "f", value |-> <<"a">>], [entry |-> "f", value |-> <<>>],
     [entry |-> "i", value |-> <<"k">>]}
MCManifest == On("d3")
MCPrograms == {On("d1"), On("d2")}
MCMatches == [o \in {"a.x", "any.x"} |-> IF o = "a.x" THEN {"a.x"} ELSE {"a.x", "b.x"}]
MCAsked == {[handles |-> {1}, wildcard |-> w] : w \in BOOLEAN}
MCOutputs == {<<"a", "b", "b">>, <<"k", "k", "b", "b", "a">>}
MCShapes == {<<"k", "k">>}
=============================================================================
