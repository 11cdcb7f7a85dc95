------------------------------ MODULE MCGrants ------------------------------
(* What an instance of Grants is made of, for TLC: two profiles, a skill that is *)
(* trusted or quarantined, and calls at, under and over every bound they set.    *)
EXTENDS Naturals, Sequences

Free == [n \in {} |-> 0]
Bytes(n) == [k \in {"max_bytes"} |-> n]
Methods(m) == [k \in {"methods"} |-> m]
Argv(a) == [k \in {"argv_allowlist"} |-> a]
Spec(v, scope, c) == [verb |-> v, scope |-> scope, constraints |-> c]
OnPath(v, path, c) == Spec(v, [kind |-> "DECLARED_PATH", path |-> path], c)
OnProgram(pin, c) ==
    Spec("process.exec", [kind |-> "DECLARED_EXECUTABLE", path |-> "g", pin |-> pin], c)
Endpoint(wild, labels, port) ==
    [kind |-> "ENDPOINT", host |-> [wild |-> wild, labels |-> labels], port |-> port]
OnHost(wild, labels, port, c) == Spec("network.https", Endpoint(wild, labels, port), c)
OnAll(v) == Spec(v, [kind |-> "UNIVERSAL"], Free)
OnSecret == Spec("secret.use", [kind |-> "HANDLE", label |-> "h"], Free)

Unreadable == OnHost(TRUE, <<"x", "y">>, "443", Bytes(1))

MCProfiles ==
    {[declared |-> {OnPath("fs.write", <<"w">>, Bytes(2)), OnPath("fs.write", <<"w", "a">>, Free),
                    OnPath("fs.read", <<"w">>, Bytes(2)), OnAll("fs.create"), OnSecret},
      baseline |-> {}],
     [declared |-> {OnHost(TRUE, <<"x", "y">>, "ANY", Free),
                    OnHost(FALSE, <<"b", "x", "y">>, "443", Methods({"GET"})),
                    OnProgram("NONE", Argv({"s", "t"})), OnPath("fs.delete", <<"w", "a">>, Free)},
      baseline |-> {"k"}]}
MCSkillSpecs ==
    {[trust |-> "TRUSTED",
      declared |-> {OnHost(TRUE, <<"x", "y">>, "443", Methods({"GET", "PUT"})),
                    OnProgram("d1", Free), OnPath("fs.write", <<"w">>, Free), OnAll("fs.read")}],
     [trust |-> "QUARANTINED", declared |-> {OnAll("network.https")}],
     [trust |-> "TRUSTED", declared |-> {Unreadable}]}
MCCeiling ==
    {OnAll(v) : v \in {"network.https", "fs.write", "fs.read", "fs.create", "fs.delete",
                       "process.exec", "secret.use"}}
    \cup {OnPath("fs.write", <<"w", "a">>, Bytes(1)), OnHost(TRUE, <<"y", "z">>, "ANY", Free)}
MCAsked ==
    {[specs |-> {OnPath("fs.write", <<"w", "a">>, Bytes(2)), OnPath("fs.read", <<"w", "a">>, Bytes(2)),
                 OnPath("fs.create", <<"w", "b">>, Bytes(1)), OnSecret},
      skills |-> {}],
     [specs |-> {OnHost(FALSE, <<"x", "y">>, "443", Methods({"GET"})),
                 OnHost(TRUE, <<"x", "y">>, "443", Methods({"GET"})),
                 OnHost(FALSE, <<"b", "x", "y">>, "443", Methods({"GET", "PUT"})),
                 OnProgram("NONE", Argv({"s"})), OnPath("fs.delete", <<"w", "a">>, Free), Unreadable},
      skills |-> {"k"}]}
MCWorlds ==
    {[files |-> {<<"w", "a">>, <<"w">>}, digests |-> [p \in {"g"} |-> "d1"], secrets |-> {"h"}],
     [files |-> {<<"w">>}, digests |-> [p \in {"g"} |-> "d2"], secrets |-> {}]}
MCNarrowings ==
    {[scope |-> <<>>, constraints |-> Bytes(1)],
     [scope |-> <<Endpoint(FALSE, <<"c", "x", "y">>, "443")>>, constraints |-> Free],
     [scope |-> <<>>, constraints |-> Methods({"PUT"})]}
MCRequests ==
    {Spec("network.https", Endpoint(FALSE, l, p),
          [k \in {"methods", "max_requests"} |-> IF k = "methods" THEN {m} ELSE 1]) :
        l \in {<<"x", "y">>, <<"b", "x", "y">>, <<"c", "x", "y">>}, p \in {"443", "80"},
        m \in {"GET", "PUT"}}
    \cup {Spec("process.exec", [kind |-> "EXECUTABLE", path |-> "g", digest |-> d], Argv({a})) :
            d \in {"d1", "d2"}, a \in {"s", "t"}}
    \cup {OnSecret}

Edit(offset, delete, insert) == [offset |-> offset, delete |-> delete, insert |-> insert]
Call(tool, bytes, vacant) ==
    [tool |-> tool, path |-> <<"w", "a">>, to |-> <<>>, bytes |-> bytes, vacant |-> vacant,
     base |-> 0, post |-> 0, edits |-> <<>>, same |-> FALSE]
EditLists ==
    {<<Edit(0, 1, 0), Edit(1, 0, 1)>>, <<Edit(0, 1, 0), Edit(0, 1, 0)>>,
     <<Edit(0, 2, 1), Edit(1, 1, 1)>>, <<Edit(1, 1, 0)>>}
MCCalls ==
    {Call("fs.write", n, v) : n \in 1..3, v \in BOOLEAN}
    \cup {[Call("fs.patch", 0, FALSE) EXCEPT !.base = 2, !.post = post, !.edits = es] :
            post \in 1..3, es \in EditLists}
    \cup {[Call("fs.move", 0, FALSE) EXCEPT !.to = <<"w", "b">>],
          Call("fs.read", 1, FALSE), Call("fs.delete", 0, FALSE)}
=============================================================================
