------------------------------ MODULE MCPolicy ------------------------------
(* What an instance of Policy is made of, for TLC: a root profile, every child of *)
(* one rule or one post-rule over a family of conditions, children the composer   *)
(* refuses, and a grandchild.                                                     *)
EXTENDS Naturals, Sequences, TLC

Nothing == [x \in {} |-> x]
PathRef(anchor, segs) == [anchor |-> anchor, segments |-> segs]
V4(bits) == [family |-> 4, bits |-> bits]
Verb(v) == "verb" :> v

Act(verb, path) ==
    [verb |-> verb, environment |-> "sandbox", host |-> "h", path |-> path, digest |-> "d"]
MCActions ==
    {Act("fs.read", p) @@ [bytes |-> <<b>>] : p \in {<<"w">>, <<"w", "s">>, <<"h">>}, b \in 1..2}
    \cup {Act("fs.write", <<"w", "s">>), Act("network.https", <<>>)}
    \cup {Act("network.https", <<>>) @@ [ip |-> <<V4(<<b, 0>>)>>] : b \in 0..1}
    \cup {Act("process.exec", <<"b", x>>) @@ [argv |-> "SAFE"] : x \in {"git", "sh"}}
MCContexts ==
    {[origin |-> o, taint |-> t] @@ an :
        o \in {"interactive", "api"}, t \in {"NONE", "EXTERNAL"},
        an \in {[anchors |-> "W" :> <<"w">>], Nothing}}

Rule(id, effect, when, unless) ==
    [id |-> id, effect |-> effect, when |-> when, unless |-> unless,
     obligations |-> IF effect = "ALLOW" THEN {[name |-> "max_output_bytes", value |-> 1]} ELSE {},
     approval |-> IF effect = "REQUIRE_APPROVAL" THEN "EXACT" ELSE "NONE"]
Unattended == ("provisional_effect" :> {"REQUIRE_APPROVAL"}) @@ ("origin" :> {"api"})
Root ==
    [name |-> "root", extends |-> "NONE", file |-> "TEXT",
     rules |->
        <<Rule("allow-read", "ALLOW",
               Verb({"fs.read"}) @@ ("path_under" :> <<PathRef("W", <<>>)>>) @@ ("max_bytes" :> 1), Nothing),
          Rule("approve-net", "REQUIRE_APPROVAL",
               Verb({"network.https"}) @@ ("taint_level" :> {"EXTERNAL"}), Nothing),
          Rule("deny-internal", "DENY", Verb({"network.https"}) @@ ("ip_in" :> <<V4(<<1>>)>>), Nothing),
          Rule("allow-net", "ALLOW", Verb({"network.https"}), Nothing),
          Rule("allow-git", "ALLOW",
               Verb({"process.exec"}) @@ ("executable_in" :> <<[kind |-> "NAME", name |-> "git"]>>), Nothing),
          Rule("default", "DENY", Nothing, Nothing)>>,
     posts |-> <<[id |-> "unattended", effect |-> "DENY", when |-> Unattended,
                  unless |-> "standing_grant" :> TRUE]>>]

Whens ==
    {Nothing, Verb({"fs.read", "fs.write"}), "taint_level" :> {"EXTERNAL"}, "ip_in" :> <<V4(<<0>>)>>,
     Verb({"fs.read"}) @@ ("path_under" :> <<PathRef("W", <<"s">>), PathRef("ABSOLUTE", <<"h">>)>>),
     Verb({"fs.read"}) @@ ("path_under" :> <<PathRef("ABSOLUTE", <<"h">>), PathRef("HOME", <<>>)>>),
     Verb({"network.https"}) @@ ("ip_in" :> <<V4(<<0>>)>>),
     Verb({"process.exec"})
       @@ ("executable_in" :> <<[kind |-> "PATH", path |-> PathRef("HOME", <<"sh">>)],
                                [kind |-> "NAME", name |-> "git"]>>)}
Unlesses == {Nothing, "standing_grant" :> FALSE, "config" :> "HOST"}
MCEffects == {"ALLOW", "REQUIRE_APPROVAL", "DENY"}
Child(extends, rules, posts) ==
    [name |-> "child", extends |-> extends, file |-> "TEXT", rules |-> rules, posts |-> posts]
RuleChildren ==
    {Child("root", <<Rule("r", e, w, u)>>, <<>>) : e \in MCEffects, w \in Whens, u \in Unlesses}
PostChildren ==
    {Child("root", <<>>, <<[id |-> "p", effect |-> e, when |-> w @@ ("provisional_effect" :> s),
                            unless |-> u]>>) :
        e \in MCEffects, w \in Whens, u \in Unlesses,
        s \in {{"ALLOW"}, {"REQUIRE_APPROVAL", "ALLOW"}}}
Refusable ==
    {Child("root", <<Rule(id, "DENY", Nothing, Nothing)>>, <<>>) : id \in {"default", "allow-net"}}
    \cup {Child("child", <<>>, <<>>)}
Grandchild ==
    [name |-> "grand", extends |-> "child", file |-> "TEXT", posts |-> <<>>,
     rules |-> <<Rule("g", "DENY", Verb({"network.https"}), Nothing)>>]
Unusable ==
    { <<>>, <<[Root EXCEPT !.file = "NOT_REGULAR"]>>, <<Child("root", <<>>, <<>>), Root, Root, Root>> }
MCSets ==
    {[profile |-> "root", sources |-> s] : s \in {<<Root>>} \cup Unusable}
    \cup {[profile |-> "child", sources |-> <<c, Root>>] :
            c \in RuleChildren \cup PostChildren \cup Refusable}
    \cup {[profile |-> "grand", sources |-> <<c, Root, Grandchild>>] : c \in PostChildren}
=============================================================================
