------------------------------- MODULE Grants -------------------------------
(*************************************************************************************************)
(* From declarations to decisions (state/{config, scopes, admission, query, plan}.rs):           *)
(* an operator installs agent profiles, skills and workspaces; an admission reads what is        *)
(* current, resolves what it names outside any transaction, in up to three passes, and mints     *)
(* the requested capabilities every term covers; a grant is stored as text and rehydrated; and   *)
(* every action of a run is decided against what it was granted.  The world outside (files that  *)
(* come and go, executables that are replaced, secrets that are configured) changes at any step. *)
(* The policy's half of a decision is Policy's.                                                  *)
(*************************************************************************************************)
EXTENDS Capability

CONSTANTS
    Runs,          \* admissions
    Profiles,      \* what may be installed as the agent profile: [declared, baseline]
    Skills,        \* skill names
    SkillSpecs,    \* what may be installed under one: [trust, declared]
    Ceiling,       \* the specs of the active profile's ceiling
    Asked,         \* what a request may ask for: a set of specs and of skills
    Worlds,        \* states of the world: [files, digests, secrets]
    Narrowings,    \* narrowings a holder may apply
    Requests,      \* concrete requests, as the capability each tool requires
    Calls,         \* filesystem calls
    MaxInstalls,   \* bound: installations
    MaxChanges,    \* bound: changes of the world
    MaxPasses      \* admission::PASSES

VARIABLES
    profile,       \* the latest revision of the agent profile
    skills,        \* the latest revision of each skill, trust ABSENT before the first
    workspace,     \* the session's workspace has a root
    world,         \* the world now
    runs,          \* run -> [state, pass, ask, known, answers, granted, terms, derived]
    installs, changes

grantsVars == <<profile, skills, workspace, world, runs, installs, changes>>

Unresolved == "UNRESOLVED"

-----------------------------------------------------------------------------
(* parse: which declarations mean something.                               *)

\* parse_scope: `*`, or a scope of the verb's own family, a path or a program only declared.
DeclaredFamily(kind) ==
    CASE kind = "DECLARED_PATH" -> "PATH" [] kind = "DECLARED_EXECUTABLE" -> "EXECUTABLE" [] OTHER -> kind
\* parse and parse_constraints: every constraint applies to the verb.
Parses(spec) ==
    /\ DeclaredFamily(spec.scope.kind) \in {"UNIVERSAL", ScopeFamily(spec.verb)}
    /\ \A n \in DOMAIN spec.constraints : ConstraintApplies(n, spec.verb)
Parsed(specs) == {s \in specs : Parses(s)}

-----------------------------------------------------------------------------
(* config: each installation is a new revision, and the latest is current. *)

SetRun(r, value) == runs' = [runs EXCEPT ![r] = value]
\* canonical_declared: every entry must parse.
InstallAgentProfile(spec) ==
    /\ installs < MaxInstalls /\ spec # profile /\ Parsed(spec.declared) = spec.declared
    /\ profile' = spec /\ installs' = installs + 1
    /\ UNCHANGED <<skills, workspace, world, runs, changes>>
InstallSkill(name, spec) ==
    /\ installs < MaxInstalls /\ spec # skills[name] /\ Parsed(spec.declared) = spec.declared
    /\ skills' = [skills EXCEPT ![name] = spec] /\ installs' = installs + 1
    /\ UNCHANGED <<profile, workspace, world, runs, changes>>
\* install_workspace_root: bound once, to the root it was given.
InstallWorkspaceRoot ==
    /\ ~workspace /\ workspace' = TRUE
    /\ UNCHANGED <<profile, skills, world, runs, installs, changes>>
\* External: the filesystem, the programs and the configured secrets.
Change(w) ==
    /\ changes < MaxChanges /\ w # world
    /\ world' = w /\ changes' = changes + 1
    /\ UNCHANGED <<profile, skills, workspace, runs, installs>>

-----------------------------------------------------------------------------
(* scopes: what a declaration names, and what it resolves to.              *)

\* scope_rule: a path that names nothing is a scope for writing and creating only.
AcceptsVacant(verb) == verb \in {"fs.write", "fs.create"}
ConcretePaths(specs) == {s.scope.path : s \in {s \in specs : s.scope.kind = "DECLARED_PATH"}}
ConcreteExecutables(specs) ==
    {<<s.scope.path, s.scope.pin>> : s \in {s \in specs : s.scope.kind = "DECLARED_EXECUTABLE"}}
\* resolve_one: the program's digest, which a pin must be.
ResolveOne(exe) ==
    IF exe[1] \notin DOMAIN world.digests \/ exe[2] \notin {"NONE", world.digests[exe[1]]}
    THEN Unresolved ELSE world.digests[exe[1]]
\* resolve_paths: whether each names something; nothing there is an answer only when a declaration
\* of the path accepts it.
ResolvePaths(specs) ==
    [p \in ConcretePaths(specs) |->
        IF p \in world.files THEN "EXISTING"
        ELSE IF p \in ConcretePaths({s \in specs : AcceptsVacant(s.verb)}) THEN "VACANT" ELSE Unresolved]
ResolveExecutables(exes) == [e \in exes |-> ResolveOne(e)]

\* CapabilitySpec::resolve, resolve_path and resolve_executable.
Made(spec, scope) == {[verb |-> spec.verb, scope |-> scope, constraints |-> spec.constraints]}
\* declared: the capability a new declaration means under the answers, or {}.
Declared(spec, answers) ==
    LET scope == spec.scope
    IN CASE scope.kind = "DECLARED_EXECUTABLE" ->
                LET e == <<scope.path, scope.pin>>
                IN IF e \in DOMAIN answers.executables /\ answers.executables[e] # Unresolved
                   THEN Made(spec, [kind |-> "EXECUTABLE", path |-> scope.path, digest |-> answers.executables[e]])
                   ELSE {}
         [] scope.kind = "DECLARED_PATH" ->
                IF \/ scope.path \notin DOMAIN answers.paths \/ answers.paths[scope.path] = Unresolved
                   \/ answers.paths[scope.path] = "VACANT" /\ ~AcceptsVacant(spec.verb)
                THEN {} ELSE Made(spec, [kind |-> "PATH", path |-> scope.path])
         [] scope.kind = "HANDLE" -> IF scope.label \in answers.secrets THEN Made(spec, scope) ELSE {}
         [] OTHER -> Made(spec, scope)
\* The text a grant is stored as, and what admission::load makes of it: an executable needs its
\* digest, a path is not looked for again.
CanonicalText(cap) ==
    [cap EXCEPT !.scope =
        CASE cap.scope.kind = "PATH" -> [kind |-> "DECLARED_PATH", path |-> cap.scope.path]
          [] cap.scope.kind = "EXECUTABLE" ->
                 [kind |-> "DECLARED_EXECUTABLE", path |-> cap.scope.path, pin |-> cap.scope.digest]
          [] OTHER -> cap.scope]
Rehydrate(text) ==
    [text EXCEPT !.scope =
        CASE text.scope.kind = "DECLARED_PATH" -> [kind |-> "PATH", path |-> text.scope.path]
          [] text.scope.kind = "DECLARED_EXECUTABLE" ->
                 [kind |-> "EXECUTABLE", path |-> text.scope.path, digest |-> text.scope.pin]
          [] OTHER -> text.scope]

-----------------------------------------------------------------------------
(* admission.                                                              *)

\* active_skills: the baseline and the requested ones; a quarantined one, or one that is not
\* installed, declares nothing.
ActiveSkills(ask) == profile.baseline \cup ask.skills
ContributesDeclaration(trust) == trust # "QUARANTINED"
Declaration(name) ==
    IF skills[name].trust # "ABSENT" /\ ContributesDeclaration(skills[name].trust) THEN skills[name].declared ELSE {}
AllSpecs(ask) ==
    Parsed(ask.specs) \cup profile.declared \cup Ceiling \cup UNION {Declaration(name) : name \in ActiveSkills(ask)}

Nothing == [paths |-> [p \in {} |-> "VACANT"], executables |-> [e \in {} |-> Unresolved]]
\* fs_resolutions and exec_resolutions: answers to use, or a pass that asks for them.
PathsAnswered(ask, run) ==
    \/ ConcretePaths(AllSpecs(ask)) = {} \/ ~workspace
    \/ run.known.root /\ ConcretePaths(AllSpecs(ask)) \subseteq DOMAIN run.known.paths
ExecutablesAnswered(ask, run) == ConcreteExecutables(AllSpecs(ask)) \subseteq DOMAIN run.known.executables
AllAnswered(run) == PathsAnswered(run.ask, run) /\ ExecutablesAnswered(run.ask, run)
LastPass(run) == run.pass = MaxPasses

Resolvable(specs, answers) == UNION {Declared(s, answers) : s \in specs}
SkillTerms(ask, answers) == {Resolvable(Declaration(name), answers) : name \in ActiveSkills(ask)}
\* mint_one: every term covers what is wanted, in the one meaning all of them were resolved in.
\* Fault: only the skills that declare something are asked.
MintOneSilentSkills(spec, ask, answers) ==
    {cap \in Declared(spec, answers) :
        /\ Covers(Minimised(Resolvable(profile.declared, answers)), cap)
        /\ \A term \in SkillTerms(ask, answers) \ {{}} : Covers(Minimised(term), cap)
        /\ Covers(Minimised(Resolvable(Ceiling, answers)), cap)}
MintOne(spec, ask, answers) ==
    {cap \in Declared(spec, answers) :
        /\ Covers(Minimised(Resolvable(profile.declared, answers)), cap)
        /\ \A term \in SkillTerms(ask, answers) : Covers(Minimised(term), cap)
        /\ Covers(Minimised(Resolvable(Ceiling, answers)), cap)}
MintAll(ask, answers) == UNION {MintOne(s, ask, answers) : s \in Parsed(ask.specs)}

Unasked == [state |-> "NONE", pass |-> 0, ask |-> [specs |-> {}, skills |-> {}],
            known |-> [root |-> FALSE, paths |-> Nothing.paths, executables |-> Nothing.executables],
            granted |-> {}, terms |-> {}, derived |-> {}]
Ask(r, ask) ==
    /\ runs[r].state = "NONE"
    /\ SetRun(r, [Unasked EXCEPT !.state = "PASS", !.pass = 1, !.ask = ask])
    /\ UNCHANGED <<profile, skills, workspace, world, installs, changes>>
\* A pass that wants answers is resolved with no transaction open, and the next pass reads again.
Resolve(r) ==
    LET run == runs[r]
        known == run.known
    IN /\ run.state = "PASS" /\ ~LastPass(run) /\ ~AllAnswered(run)
       /\ SetRun(r, [run EXCEPT !.pass = @ + 1, !.known =
              [root |-> known.root \/ ~PathsAnswered(run.ask, run),
               paths |-> IF PathsAnswered(run.ask, run) THEN known.paths
                         ELSE ResolvePaths(AllSpecs(run.ask)),
               executables |-> IF ExecutablesAnswered(run.ask, run) THEN known.executables
                               ELSE ResolveExecutables(ConcreteExecutables(AllSpecs(run.ask)))]])
       /\ UNCHANGED <<profile, skills, workspace, world, installs, changes>>
\* The pass that answers: what it has no answer to, on the last one, means nothing.
Admit(r) ==
    LET run == runs[r]
        answers == [paths |-> IF workspace THEN run.known.paths ELSE Nothing.paths,
                    executables |-> run.known.executables, secrets |-> world.secrets]
    IN /\ run.state = "PASS"
       /\ LastPass(run) \/ AllAnswered(run)
       /\ SetRun(r, [Unasked EXCEPT !.state = "ACTIVE",
              !.granted = {CanonicalText(cap) : cap \in MintAll(run.ask, answers)},
              !.terms = SkillTerms(run.ask, answers)
                            \cup {Resolvable(profile.declared, answers), Resolvable(Ceiling, answers)}])
       /\ UNCHANGED <<profile, skills, workspace, world, installs, changes>>
\* attenuate and delegate, as the capability library offers them to a holder.
Derive(r) ==
    /\ runs[r].state = "ACTIVE" /\ Cardinality(runs[r].derived) < 1
    /\ \E text \in runs[r].granted, n \in Narrowings :
           \E child \in Attenuate(Rehydrate(text), n) :
               \E kept \in Delegate(Rehydrate(text), child) : SetRun(r, [runs[r] EXCEPT !.derived = {kept}])
    /\ UNCHANGED <<profile, skills, workspace, world, installs, changes>>

-----------------------------------------------------------------------------
(* query and plan: a decision is covered by one grant; a call, action by action. *)

HeldBy(r) == {Rehydrate(text) : text \in runs[r].granted} \cup runs[r].derived
CapabilitySatisfied(r, required) == \E grant \in HeldBy(r) : CapContains(grant, required)

Inserted(edits) ==
    LET total[i \in 0..Len(edits)] == IF i = 0 THEN 0 ELSE total[i - 1] + edits[i].insert
    IN total[Len(edits)]
Deleted(edits) ==
    LET total[i \in 0..Len(edits)] == IF i = 0 THEN 0 ELSE total[i - 1] + edits[i].delete
    IN total[Len(edits)]
\* patch_consistent: each edit changes something, they are in order and do not overlap, they lie
\* within the base, and they turn its length into the result's.
PatchConsistent(call) ==
    /\ call.edits # <<>> /\ ~call.same
    /\ \A i \in DOMAIN call.edits :
           LET e == call.edits[i]
           IN /\ e.delete + e.insert > 0 /\ e.offset + e.delete <= call.base
              /\ i > 1 => LET before == call.edits[i - 1]
                          IN e.offset > before.offset /\ e.offset >= before.offset + before.delete
    /\ call.base >= Deleted(call.edits) /\ (call.base - Deleted(call.edits)) + Inserted(call.edits) = call.post
FromWire(call) == call.tool = "fs.patch" => PatchConsistent(call)
\* target_verbs and actions
Act(verb, path, bytes) == [verb |-> verb, path |-> path, bytes |-> bytes]
TargetVerbs(call) ==
    CASE call.tool \in {"fs.read", "fs.search"} -> {Act("fs.read", call.path, call.bytes)}
      [] call.tool \in {"fs.stat", "fs.list", "fs.delete"} -> {Act(call.tool, call.path, 0)}
      [] call.tool = "fs.write" ->
             {Act("fs.write", call.path, call.bytes)}
             \cup (IF call.vacant THEN {Act("fs.create", call.path, call.bytes)} ELSE {})
      [] call.tool = "fs.patch" -> {Act("fs.read", call.path, call.base), Act("fs.write", call.path, call.post)}
      [] OTHER -> {Act("fs.delete", call.path, 0), Act("fs.create", call.to, 0)}
\* required_capability
MovesContent(verb) == verb \in {"fs.read", "fs.write", "fs.create"}
RequiredCapability(act) ==
    [verb |-> act.verb, scope |-> [kind |-> "PATH", path |-> act.path],
     constraints |-> [n \in {"no_symlink_targets"} \cup (IF MovesContent(act.verb) THEN {"max_bytes"} ELSE {}) |->
                         IF n = "max_bytes" THEN act.bytes ELSE "true"]]
PlanPermits(r, call) ==
    FromWire(call) /\ \A act \in TargetVerbs(call) : CapabilitySatisfied(r, RequiredCapability(act))

-----------------------------------------------------------------------------

GrantsInit ==
    /\ profile \in Profiles /\ workspace \in BOOLEAN /\ world \in Worlds
    /\ skills = [name \in Skills |-> [trust |-> "ABSENT", declared |-> {}]]
    /\ runs = [r \in Runs |-> Unasked] /\ installs = 0 /\ changes = 0
GrantsNext ==
    \/ \E spec \in Profiles : InstallAgentProfile(spec)
    \/ \E name \in Skills, spec \in SkillSpecs : InstallSkill(name, spec)
    \/ InstallWorkspaceRoot
    \/ \E w \in Worlds : Change(w)
    \/ \E r \in Runs : Resolve(r) \/ Admit(r) \/ Derive(r) \/ (\E ask \in Asked : Ask(r, ask))
GrantsSpec == GrantsInit /\ [][GrantsNext]_grantsVars

\* A declaration is a spec read from a text, so a path or a program is only declared; a request
\* names one object; a number of bytes is one.
IsSpec(spec) ==
    /\ spec = [verb |-> spec.verb, scope |-> spec.scope, constraints |-> spec.constraints]
    /\ spec.scope.kind \notin {"PATH", "EXECUTABLE"}
    /\ spec.scope.kind = "DECLARED_PATH" => IsText(spec.scope.path)
    /\ IsScope(spec.scope) /\ IsBounds(spec.constraints)
IsCall(call) ==
    /\ IsText(call.path) /\ IsText(call.to) /\ {call.bytes, call.base, call.post} \subseteq Nat
    /\ IsText(call.edits)
    /\ \A e \in ToSet(call.edits) : {e.offset, e.delete, e.insert} \subseteq Nat
GrantsConstants ==
    /\ \A specs \in {p.declared : p \in Profiles} \cup {s.declared : s \in SkillSpecs}
                     \cup {a.specs : a \in Asked} \cup {Ceiling} :
           IsFiniteSet(specs) /\ \A spec \in specs : IsSpec(spec)
    /\ \A p \in Profiles, a \in Asked : p.baseline \cup a.skills \subseteq Skills
    /\ \A n \in Narrowings : IsBounds(n.constraints) /\ (n.scope # <<>> => IsScope(n.scope[1]))
    /\ \A q \in Requests : IsConcrete(q)
    /\ \A call \in Calls : IsCall(call)

-----------------------------------------------------------------------------
\* The bytes a patch really leaves, edit by edit on the base: the broker's splice.
Spliced(call) ==
    LET edits == call.edits
        out[i \in 0..Len(edits)] ==
            IF i = 0 THEN [kept |-> 0, at |-> 0]
            ELSE [kept |-> out[i - 1].kept + (edits[i].offset - out[i - 1].at) + edits[i].insert,
                  at |-> edits[i].offset + edits[i].delete]
    IN out[Len(edits)].kept + (call.base - out[Len(edits)].at)
\* What a call does to the filesystem, said without the plan.
EffectsOf(call) ==
    CASE call.tool = "fs.patch" -> {Act("fs.read", call.path, call.base), Act("fs.write", call.path, Spliced(call))}
      [] call.tool = "fs.move" -> {Act("fs.delete", call.path, 0), Act("fs.create", call.to, 0)}
      [] OTHER -> TargetVerbs(call)
WithinTerms(r, request) == \A term \in runs[r].terms : \E cap \in term : Permits(cap, request)

\* What a run may do never exceeds what every term of its admission permits, the agent profile,
\* each active skill (one that is quarantined or not installed permits nothing) and the ceiling,
\* in the meaning their declarations had when they were resolved: whatever is installed, replaced
\* or created between the passes and afterwards, however terms are minimised, grants stored and
\* read back, narrowed and delegated, and down to the bytes a patch leaves (mint_one and mint_all
\* in state/admission.rs, decide in state/query.rs and state/plan.rs).
AuthorityStaysWithinTerms ==
    \A r \in Runs : runs[r].state = "ACTIVE" =>
        /\ \A q \in Requests : CapabilitySatisfied(r, q) => WithinTerms(r, q)
        /\ \A call \in Calls : PlanPermits(r, call) =>
               \A act \in EffectsOf(call) : WithinTerms(r, RequiredCapability(act))
=============================================================================
