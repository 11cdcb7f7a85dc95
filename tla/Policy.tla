------------------------------- MODULE Policy -------------------------------
(****************************************************************************************)
(* The policy engine (dwkd-authority/src/policy) and the policy that is in force        *)
(* (state/policy_state.rs): sources are loaded into profiles, a profile is composed     *)
(* with what it extends, the composition is installed and activated at start, and every *)
(* action is evaluated against it.  A predicate's text is parsed data here; what each   *)
(* predicate answers, and when it cannot answer, is kept.                               *)
(****************************************************************************************)
EXTENDS Naturals, Sequences, SequencesExt, FiniteSets

CONSTANTS
    Sets,          \* what an operator may start with: [profile, sources], sources a sequence
    Actions,       \* what is known of an action when it is decided
    Contexts,      \* what is known of a run when it is decided
    MaxSources,    \* MAX_POLICY_SOURCES
    MaxDepth,      \* limits::MAX_EXTENDS_DEPTH
    MaxStarts      \* bound: starts

VARIABLES
    revisions,     \* the chains installed
    activations,   \* the activations, oldest first
    active         \* the composed policy of this incarnation, or NONE

policyVars == <<revisions, activations, active>>

Effects == {"DENY", "REQUIRE_APPROVAL", "ALLOW"}
Authority(effect) == CASE effect = "DENY" -> 0 [] effect = "REQUIRE_APPROVAL" -> 1 [] OTHER -> 2
NarrowerOrEqual(a, b) == Authority(a) <= Authority(b)
Meet(a, b) == IF NarrowerOrEqual(a, b) THEN a ELSE b

\* CanonicalAction: a capability's verb and scope and an environment; what nobody supplied is absent.
CanonicalAction(known) == known @@ [argv |-> "ABSENT", bytes |-> <<>>, ip |-> <<>>, novelty |-> "ABSENT"]
\* PolicyContext: an origin and a taint; what nobody supplied is the strictest there is.
PolicyContext(known) == known @@ [privacy |-> "LOCAL_ONLY", config |-> {}, anchors |-> <<>>]

-----------------------------------------------------------------------------
(* Predicates: YES, NO, or UNEVALUABLE.                                    *)

\* try_any: the first answer that is not a plain NO decides, in the order the rule names its values.
TryAny(answers) ==
    LET decided == {i \in DOMAIN answers : answers[i] # "NO"}
    IN IF decided = {} THEN "NO" ELSE answers[CHOOSE i \in decided : \A j \in decided : i <= j]
YesNo(b) == IF b THEN "YES" ELSE "NO"

\* RulePath: an anchor the context must have resolved, and segments below it.
Rooted(path, c) == IF path.anchor = "ABSOLUTE" THEN path.segments ELSE c.anchors[path.anchor] \o path.segments
Resolved(path, c) == path.anchor = "ABSOLUTE" \/ path.anchor \in DOMAIN c.anchors
PathContains(path, c, candidate) ==
    IF Resolved(path, c) THEN YesNo(IsPrefix(Rooted(path, c), candidate)) ELSE "UNEVALUABLE"
IsExactly(path, c, candidate) ==
    IF Resolved(path, c) THEN YesNo(Rooted(path, c) = candidate) ELSE "UNEVALUABLE"
\* ExecutableSpec: a bare name, a path, or a path with its digest.
ExecutableMatches(spec, c, a) ==
    CASE spec.kind = "NAME" -> YesNo(a.path # <<>> /\ Last(a.path) = spec.name)
      [] spec.kind = "PATH" -> IsExactly(spec.path, c, a.path)
      [] OTHER -> IF IsExactly(spec.path, c, a.path) = "YES" THEN YesNo(a.digest = spec.digest)
                  ELSE IsExactly(spec.path, c, a.path)
\* Cidr: an address of the same family whose leading bits are the network's.
InRange(range, ip) == range.family = ip.family /\ IsPrefix(range.bits, ip.bits)

\* The predicates that always have an answer, each given what it tests.
Plain == {"verb", "environment", "origin", "taint_level", "privacy_class", "argv_safe",
          "destination_novel", "host_matches"}
Fact(name, a, c) ==
    CASE name = "verb" -> a.verb [] name = "environment" -> a.environment
      [] name = "origin" -> c.origin [] name = "taint_level" -> c.taint
      [] name = "privacy_class" -> c.privacy [] name = "argv_safe" -> a.argv
      [] name = "destination_novel" -> a.novelty [] OTHER -> a.host
Family(verb) ==
    CASE verb \in {"fs.read", "fs.write", "fs.delete"} -> "PATH"
      [] verb = "process.exec" -> "EXECUTABLE" [] verb = "network.https" -> "ENDPOINT"
      [] verb = "browser.use" -> "DOMAIN" [] verb = "channel.send" -> "CHANNEL" [] OTHER -> "OTHER"
WithinBytes(when, a) == "max_bytes" \in DOMAIN when => a.bytes # <<>> /\ a.bytes[1] <= when["max_bytes"]

AddressIn(when, a) ==
    IF "ip_in" \notin DOMAIN when THEN "YES"
    ELSE IF a.ip = <<>> THEN "UNEVALUABLE"
    ELSE YesNo(\E i \in DOMAIN when["ip_in"] : InRange(when["ip_in"][i], a.ip[1]))
PathUnder(when, a, c) ==
    IF "path_under" \notin DOMAIN when THEN "YES"
    ELSE IF Family(a.verb) # "PATH" THEN "NO"
    ELSE LET under == when["path_under"]
         IN TryAny([i \in DOMAIN under |-> PathContains(under[i], c, a.path)])
ExecutableIn(when, a, c) ==
    IF "executable_in" \notin DOMAIN when THEN "YES"
    ELSE IF Family(a.verb) # "EXECUTABLE" THEN "NO"
    ELSE LET specs == when["executable_in"]
         IN TryAny([i \in DOMAIN specs |-> ExecutableMatches(specs[i], c, a)])

\* When::matches: a predicate that says no ends it before one that could not be evaluated is
\* asked; past that, all three are asked, and one that cannot answer outweighs one that says no.
Matches(when, a, c) ==
    IF \/ \E n \in Plain \cap DOMAIN when : Fact(n, a, c) \notin when[n]
       \/ ~WithinBytes(when, a)
    THEN "NO"
    ELSE LET late == {AddressIn(when, a), PathUnder(when, a, c), ExecutableIn(when, a, c)}
         IN IF "UNEVALUABLE" \in late THEN "UNEVALUABLE" ELSE IF "NO" \in late THEN "NO" ELSE "YES"
\* Unless::suppresses; no standing grant is ever held.
GrantHeld == FALSE
Suppresses(unless, c) ==
    \/ "config" \in DOMAIN unless /\ unless["config"] \in c.config
    \/ "standing_grant" \in DOMAIN unless /\ unless["standing_grant"] = GrantHeld

-----------------------------------------------------------------------------
(* load: what a source must be to become a profile.                        *)

\* PredicateName::applies_to; the others apply to every verb.
AppliesTo(name, verb) ==
    CASE name \in {"path_under", "max_bytes"} -> Family(verb) = "PATH"
      [] name \in {"executable_in", "argv_safe"} -> Family(verb) = "EXECUTABLE"
      [] name = "ip_in" -> Family(verb) = "ENDPOINT"
      [] name = "host_matches" -> Family(verb) \in {"ENDPOINT", "DOMAIN"}
      [] name = "destination_novel" -> Family(verb) \in {"ENDPOINT", "DOMAIN", "CHANNEL"}
      [] OTHER -> TRUE
Particular == {"path_under", "max_bytes", "executable_in", "argv_safe", "host_matches", "ip_in", "destination_novel"}
CheckApplicability(when) ==
    \A n \in DOMAIN when \cap Particular :
        "verb" \in DOMAIN when /\ \E v \in when["verb"] : AppliesTo(n, v)

DefaultId == "default"
ApprovalFits(rule) == (rule.effect = "REQUIRE_APPROVAL") <=> (rule.approval # "NONE")
\* Obligations::new: at most one of each name.
ObligationsFit(rule) == \A x, y \in rule.obligations : x.name = y.name => x = y
RuleFits(rule) ==
    /\ CheckApplicability(rule.when) /\ ApprovalFits(rule) /\ ObligationsFit(rule)
    /\ "provisional_effect" \notin DOMAIN rule.when
CheckDefault(rules, extending) ==
    LET defaults == {i \in DOMAIN rules : rules[i].id = DefaultId}
    IN IF extending THEN defaults = {}
       ELSE /\ defaults = {Len(rules)} /\ rules # <<>>
            /\ Last(rules).effect = "DENY" /\ DOMAIN Last(rules).when = {} /\ DOMAIN Last(rules).unless = {}
\* Postcondition::selects and narrows: it may only lower what it selects.
SelectedEffects(post) ==
    IF "provisional_effect" \in DOMAIN post.when THEN post.when["provisional_effect"] ELSE Effects
Narrows(post) == \A e \in SelectedEffects(post) : NarrowerOrEqual(post.effect, e)
PostconditionFits(post) == CheckApplicability(post.when) /\ post.id # DefaultId /\ Narrows(post)

Ids(profile) ==
    [i \in DOMAIN profile.rules |-> profile.rules[i].id] \o [i \in DOMAIN profile.posts |-> profile.posts[i].id]
Loads(profile) ==
    /\ \A i \in DOMAIN profile.rules : RuleFits(profile.rules[i])
    /\ \A i \in DOMAIN profile.posts : PostconditionFits(profile.posts[i])
    /\ IsInjective(Ids(profile))
    /\ CheckDefault(profile.rules, profile.extends # "NONE")

-----------------------------------------------------------------------------
(* compose.                                                                *)

Find(name, sources) == {i \in DOMAIN sources : sources[i].name = name}
Earliest(indices) == CHOOSE i \in indices : \A j \in indices : i <= j
\* resolve_chain: the profile, then what it extends, each named once and within the depth.
ResolveChain(name, sources) ==
    LET Parents[i \in 0..Cardinality(DOMAIN sources)] ==
            IF i = 0 THEN IF Find(name, sources) = {} THEN <<>> ELSE <<Earliest(Find(name, sources))>>
            ELSE LET chain == Parents[i - 1]
                 IN IF chain = <<>> THEN <<>>
                    ELSE LET parent == sources[Last(chain)].extends
                         IN IF parent = "NONE" THEN chain
                            ELSE IF \/ \E k \in DOMAIN chain : sources[chain[k]].name = parent
                                    \/ Find(parent, sources) = {} \/ Len(chain) >= MaxDepth THEN <<>>
                            ELSE Append(chain, Earliest(Find(parent, sources)))
    IN LET indices == Parents[Cardinality(DOMAIN sources)]
       IN [i \in DOMAIN indices |-> sources[indices[i]]]
\* check_extender and check_id_is_fresh.
\* Fault: a rule of another effect is taken.
CheckExtenderTrusting(profile, others) ==
    /\ \A i \in DOMAIN profile.rules : profile.rules[i].id # DefaultId
    /\ \A i \in DOMAIN profile.posts : profile.posts[i].effect = "DENY"
    /\ \A other \in others : ToSet(Ids(profile)) \cap ToSet(Ids(other)) = {}
CheckExtender(profile, others) ==
    /\ \A i \in DOMAIN profile.rules : profile.rules[i].id # DefaultId /\ profile.rules[i].effect = "DENY"
    /\ \A i \in DOMAIN profile.posts : profile.posts[i].effect = "DENY"
    /\ \A other \in others : ToSet(Ids(profile)) \cap ToSet(Ids(other)) = {}
Concatenated(chain) ==
    [rules |-> FlattenSeq([i \in DOMAIN chain |-> chain[i].rules]),
     posts |-> FlattenSeq([i \in DOMAIN chain |-> chain[i].posts])]
Refused == [rules |-> <<>>, posts |-> <<>>]
Compose(chain) ==
    LET all == Concatenated(chain)
    IN IF /\ chain # <<>>
          /\ \A i \in 1..(Len(chain) - 1) : CheckExtender(chain[i], {p \in ToSet(chain) : p.name # chain[i].name})
          /\ all.rules # <<>> /\ Last(all.rules).id = DefaultId
       THEN all ELSE Refused

-----------------------------------------------------------------------------
(* evaluate.                                                               *)

\* first_match: the first rule that matches and is not suppressed, or the first that cannot be
\* evaluated.
Applies(rule, a, c) ==
    LET m == Matches(rule.when, a, c)
    IN IF m = "YES" /\ Suppresses(rule.unless, c) THEN "NO" ELSE m
FirstMatch(policy, a, c) == {i \in DOMAIN policy.rules : Applies(policy.rules[i], a, c) # "NO"}

NotEvaluated == [effect |-> "DENY", approval |-> "NONE", obligations |-> {}, evaluated |-> FALSE]
Unmatched == [effect |-> "DENY", approval |-> "NONE", obligations |-> {}, evaluated |-> TRUE]
Selects(post, effect) == effect \in SelectedEffects(post)
\* One postcondition, on the effect so far; one that cannot be evaluated ends the evaluation.
Postconditioned(post, effect, a, c) ==
    IF effect = "UNEVALUABLE" \/ ~Selects(post, effect) THEN effect
    ELSE LET m == Applies([when |-> [n \in DOMAIN post.when \ {"provisional_effect"} |-> post.when[n]],
                           unless |-> post.unless], a, c)
         IN CASE m = "UNEVALUABLE" -> m [] m = "NO" -> effect [] OTHER -> Meet(effect, post.effect)
\* The postconditions, in order, each on what the ones before it left.
EffectAfter(posts, effect, a, c) ==
    LET after[i \in 0..Len(posts)] ==
            IF i = 0 THEN effect ELSE Postconditioned(posts[i], after[i - 1], a, c)
    IN after[Len(posts)]
Evaluate(policy, a, c) ==
    LET found == FirstMatch(policy, a, c)
    IN IF found = {} THEN Unmatched
       ELSE LET rule == policy.rules[Earliest(found)]
                effect == EffectAfter(policy.posts, rule.effect, a, c)
            IN IF Applies(rule, a, c) = "UNEVALUABLE" \/ effect = "UNEVALUABLE" THEN NotEvaluated
               ELSE [effect |-> effect, evaluated |-> TRUE,
                     approval |-> IF effect = "REQUIRE_APPROVAL" THEN rule.approval ELSE "NONE",
                     obligations |-> IF effect = "DENY" THEN {} ELSE rule.obligations]

-----------------------------------------------------------------------------
(* policy_state: prepare, install and activate, in the start's transaction. *)

\* PolicySet::from_files: some files and not too many, each of them a text that can be read whole.
FromFiles(set) ==
    /\ Len(set.sources) \in 1..MaxSources
    /\ \A i \in DOMAIN set.sources : set.sources[i].file = "TEXT"

\* prepare: every source loads, and every one is part of the composition, under one name each.
Prepared(set) ==
    LET chain == ResolveChain(set.profile, set.sources)
    IN IF /\ \A i \in DOMAIN set.sources : Loads(set.sources[i])
          /\ \A i \in DOMAIN chain : Cardinality(Find(chain[i].name, set.sources)) = 1
          /\ Len(chain) = Len(set.sources)
       THEN chain ELSE <<>>

PolicyInit == revisions = {} /\ activations = <<>> /\ active = Refused

\* activate: the latest activation again, if nothing changed.
Activated(entry) ==
    IF activations # <<>> /\ Last(activations) = entry THEN activations ELSE Append(activations, entry)
StartWith(set, host) ==
    LET chain == Prepared(set)
        policy == Compose(chain)
    IN /\ Len(activations) < MaxStarts /\ FromFiles(set) /\ chain # <<>> /\ policy # Refused
       /\ revisions' = revisions \cup {chain}
       /\ activations' = Activated([revision |-> chain, host |-> host])
       /\ active' = policy

PolicyNext == \E set \in Sets, host \in BOOLEAN : StartWith(set, host)
PolicySpec == PolicyInit /\ [][PolicyNext]_policyVars

\* A source is a text of rules and postconditions in the order they are written, each with an
\* effect.
IsProfile(profile) ==
    /\ profile.rules \in Seq(ToSet(profile.rules)) /\ profile.posts \in Seq(ToSet(profile.posts))
    /\ \A i \in DOMAIN profile.rules : profile.rules[i].effect \in Effects
    /\ \A i \in DOMAIN profile.posts : profile.posts[i].effect \in Effects
PolicyConstants ==
    \A set \in Sets :
        /\ set.sources \in Seq(ToSet(set.sources))
        /\ \A i \in DOMAIN set.sources : IsProfile(set.sources[i])

-----------------------------------------------------------------------------
\* An extension only narrows: whatever the action and its context, the composed policy denies, or
\* decides exactly as the profile it extends would on its own, obligations and approval included,
\* whichever rules, postconditions and predicates that cannot be evaluated the extension adds
\* (compose in policy/compose.rs).
ExtensionNarrows ==
    activations # <<>> =>
        LET root == Last(Last(activations).revision)
            alone == [rules |-> root.rules, posts |-> root.posts]
        IN \A known \in Actions, run \in Contexts :
               LET a == CanonicalAction(known)
                   c == PolicyContext(run)
                   d == Evaluate(active, a, c)
               IN d.effect = "DENY" \/ d = Evaluate(alone, a, c)
=============================================================================
