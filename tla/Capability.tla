----------------------------- MODULE Capability -----------------------------
(*****************************************************************************************)
(* The capability lattice (dwkd-authority/src/capability): a verb, a scope of the        *)
(* verb's family and constraints; containment, attenuation, delegation and minimised     *)
(* sets.  The text of a capability is parsed data here: paths and hosts are sequences of *)
(* components, a scope is a record tagged with its kind, constraints are a function on   *)
(* the names that are present.                                                           *)
(*****************************************************************************************)
EXTENDS Naturals, Sequences, SequencesExt, FiniteSets

-----------------------------------------------------------------------------
(* Scopes.                                                                 *)

\* Namespace::scope_family, for the verbs the authority builds capabilities of.
ScopeFamily(verb) ==
    CASE verb \in {"fs.read", "fs.list", "fs.stat", "fs.write", "fs.create", "fs.delete"} -> "PATH"
      [] verb \in {"process.exec", "process.inspect", "process.signal"} -> "EXECUTABLE"
      [] verb = "network.https" -> "ENDPOINT" [] verb = "secret.use" -> "HANDLE"
      [] verb = "model.call" -> "MODEL" [] verb = "agent.spawn" -> "PATTERN" [] OTHER -> "TARGET"
Fits(scope, family) == scope.kind \in {"UNIVERSAL", family}

\* HostPattern::contains: `*.suffix` covers what is strictly below the suffix, and a wildcard at or
\* below it.
HostContains(a, b) ==
    IF a.wild
    THEN IsSuffix(a.labels, b.labels) /\ (b.wild \/ Len(b.labels) > Len(a.labels))
    ELSE ~b.wild /\ a.labels = b.labels
PortContains(a, b) == a = "ANY" \/ a = b
EndpointContains(a, b) == HostContains(a.host, b.host) /\ PortContains(a.port, b.port)
\* Pattern::contains: a literal covers itself; a prefix, every literal and prefix that starts with it.
PatternContains(a, b) == IF a.prefix THEN IsPrefix(a.text, b.text) ELSE ~b.prefix /\ a.text = b.text
ModelContains(a, b) == a.provider = b.provider /\ PatternContains(a.model, b.model)

\* SyntacticScope::contains; the label families compare by equality.
SyntacticContains(a, b) ==
    CASE a.kind = "ENDPOINT" -> EndpointContains(a, b)
      [] a.kind = "MODEL" -> ModelContains(a, b)
      [] a.kind = "PATTERN" -> PatternContains(a.pattern, b.pattern)
      [] OTHER -> a.label = b.label
ScopeContains(a, b) ==
    \/ a.kind = "UNIVERSAL"
    \/ /\ a.kind = b.kind
       /\ CASE a.kind = "PATH" -> IsPrefix(a.path, b.path)
            [] a.kind = "EXECUTABLE" -> a.path = b.path /\ a.digest = b.digest
            [] OTHER -> SyntacticContains(a, b)

-----------------------------------------------------------------------------
(* Constraints.                                                            *)

PrivacyRank(class) == CASE class = "LOCAL_ONLY" -> 0 [] class = "VENDOR_OK" -> 1 [] OTHER -> 2
MethodsNarrower(c, p) == c \subseteq p
ArgvNarrower(c, p) == c \subseteq p
\* ConstraintName::applies_to.
ConstraintApplies(name, verb) ==
    CASE name \in {"max_bytes", "no_symlink_targets"} -> ScopeFamily(verb) = "PATH"
      [] name \in {"methods", "max_requests"} -> ScopeFamily(verb) = "ENDPOINT"
      [] name = "argv_allowlist" -> verb = "process.exec"
      [] name = "privacy_class" -> verb = "model.call"
      [] OTHER -> verb = "agent.spawn"
ValueNarrower(name, c, p) ==
    CASE name \in {"max_bytes", "max_requests", "depth", "fanout"} -> c <= p
      [] name = "methods" -> MethodsNarrower(c, p)
      [] name = "argv_allowlist" -> ArgvNarrower(c, p)
      [] name = "privacy_class" -> PrivacyRank(c) <= PrivacyRank(p)
      [] OTHER -> c = p
\* ConstraintSet::narrower_or_equal: what the parent constrains the child constrains as much.
ConstraintsNarrower(c, p) ==
    \A name \in DOMAIN p : name \in DOMAIN c /\ ValueNarrower(name, c[name], p[name])
\* ConstraintSet::overlay.
Overlay(parent, child) ==
    [name \in DOMAIN parent \cup DOMAIN child |-> IF name \in DOMAIN child THEN child[name] ELSE parent[name]]

-----------------------------------------------------------------------------
(* Capabilities and sets.                                                  *)

\* Capability::new
WellFormed(cap) ==
    /\ Fits(cap.scope, ScopeFamily(cap.verb))
    /\ \A name \in DOMAIN cap.constraints : ConstraintApplies(name, cap.verb)
CapContains(a, b) ==
    /\ a.verb = b.verb /\ ScopeContains(a.scope, b.scope)
    /\ ConstraintsNarrower(b.constraints, a.constraints)

\* A narrowing names a scope or none, and constraints; the result is {} when refused.
Attenuate(parent, narrowing) ==
    LET cap == [verb |-> parent.verb,
                scope |-> IF narrowing.scope = <<>> THEN parent.scope ELSE narrowing.scope[1],
                constraints |-> Overlay(parent.constraints, narrowing.constraints)]
    IN IF WellFormed(cap) /\ CapContains(parent, cap) THEN {cap} ELSE {}
Delegate(parent, child) == IF CapContains(parent, child) THEN {child} ELSE {}

Covers(set, cap) == \E held \in set : CapContains(held, cap)
\* CapabilitySet::insert: nothing when covered; otherwise it displaces what it covers.
Insert(set, cap) ==
    IF Covers(set, cap) THEN set ELSE {held \in set : ~CapContains(cap, held)} \cup {cap}
\* from_capabilities: one after the other.
Minimised(caps) ==
    LET after[i \in 0..Cardinality(caps)] ==
            IF i = 0 THEN [left |-> caps, kept |-> {}]
            ELSE LET cap == CHOOSE c \in after[i - 1].left : TRUE
                 IN [left |-> after[i - 1].left \ {cap}, kept |-> Insert(after[i - 1].kept, cap)]
    IN after[Cardinality(caps)].kept

-----------------------------------------------------------------------------
(* The reference meaning: what one concrete request a capability permits.  A request *)
(* names one object and, for each constraint that could bound it, what it would do.  *)

InHost(host, labels) ==
    IF host.wild THEN Len(labels) > Len(host.labels) /\ IsSuffix(host.labels, labels) ELSE labels = host.labels
InPattern(pattern, text) == IF pattern.prefix THEN IsPrefix(pattern.text, text) ELSE text = pattern.text
InScope(scope, target) ==
    CASE scope.kind = "UNIVERSAL" -> TRUE
      [] scope.kind = "PATH" -> IsPrefix(scope.path, target.path)
      [] scope.kind = "EXECUTABLE" -> scope.path = target.path /\ scope.digest = target.digest
      [] scope.kind = "ENDPOINT" -> InHost(scope.host, target.host.labels) /\ scope.port \in {"ANY", target.port}
      [] scope.kind = "MODEL" -> scope.provider = target.provider /\ InPattern(scope.model, target.model.text)
      [] scope.kind = "PATTERN" -> InPattern(scope.pattern, target.pattern.text)
      [] OTHER -> scope.label = target.label
Within(name, fact, bound) ==
    CASE name \in {"max_bytes", "max_requests", "depth", "fanout"} -> fact <= bound
      [] name \in {"methods", "argv_allowlist"} -> fact \subseteq bound
      [] name = "privacy_class" -> PrivacyRank(fact) <= PrivacyRank(bound)
      [] OTHER -> TRUE
Permits(cap, request) ==
    /\ cap.verb = request.verb /\ InScope(cap.scope, request.scope)
    /\ \A name \in DOMAIN cap.constraints :
           name \in DOMAIN request.constraints /\ Within(name, request.constraints[name], cap.constraints[name])

-----------------------------------------------------------------------------
(* What a scope, a constraint and a request are made of.                   *)

IsText(s) == s \in Seq(ToSet(s))
IsScope(scope) ==
    CASE scope.kind = "PATH" -> IsText(scope.path)
      [] scope.kind = "ENDPOINT" -> IsText(scope.host.labels) /\ scope.host.wild \in BOOLEAN
      [] scope.kind = "MODEL" -> IsText(scope.model.text) /\ scope.model.prefix \in BOOLEAN
      [] scope.kind = "PATTERN" -> IsText(scope.pattern.text) /\ scope.pattern.prefix \in BOOLEAN
      [] OTHER -> TRUE
IsBounds(constraints) ==
    \A name \in DOMAIN constraints \cap {"max_bytes", "max_requests", "depth", "fanout"} :
        constraints[name] \in Nat
IsConcrete(request) ==
    /\ IsScope(request.scope) /\ IsBounds(request.constraints)
    /\ request.scope.kind = "ENDPOINT" => ~request.scope.host.wild
=============================================================================
