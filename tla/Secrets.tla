------------------------------ MODULE Secrets ------------------------------
(* Secrets as their operator configures them (secret/metadata.rs), as each start records  *)
(* them (state/secrets.rs), and as a run uses them (state/secret_use.rs, spawn.rs,        *)
(* secret/select.rs, handoff.rs), up to the output that comes back, from which the values *)
(* the authority knows are removed (secret/redact).  The document is read at a start      *)
(* only; the value of a secret is its backend's, and changes whenever the operator likes. *)
EXTENDS Naturals, FiniteSets, Sequences, SequencesExt

CONSTANTS
    SecretHandles, Runs,
    Documents,      \* the operator's metadata documents
    AgeEntry,       \* the entry that holds the identity for age files
    Rotations,      \* what an operator makes an entry hold: a word, or Missing
    Programs,       \* for each path of the host, the executable it names, or <<>>
    Beginnings,     \* the [document, backend, programs] an operator may begin with
    Manifest,       \* for each path in the image of the environments, the same
    Matches,        \* the origins each pattern of an origin matches
    Reserved,       \* variables an environment sets itself
    Asked,          \* the handles a run asks for, and whether for every handle
    Origins, Paths, \* where a request goes, and what a launch executes
    Outputs,        \* what a consumer may answer
    Shapes,         \* words that look like credentials
    MinExact,       \* the shortest value that is matched exactly
    Limit,          \* the bound of an output
    MaxSecrets, MaxStarts, MaxUses, MaxChanges

VARIABLES
    document, backend, programs,   \* the operator's
    authority, memory,             \* how far the authority is, and its SecretsState
    revisions, binding,            \* secret_revision and secret_run_binding
    runs, uses,                    \* the runs and secret_injection
    serving,                       \* the use the worker is busy with, or 0
    returned,                      \* the output just returned
    starts, changes
secretsVars == <<document, backend, programs, authority, memory, revisions, binding, runs, uses,
          serving, returned, starts, changes>>

Nil == "NONE"
Bad == "BAD"           \* a text outside its grammar
Missing == <<>>        \* a backend without the item, or one that denies it
Empty == [h \in {} |-> <<>>]

-----------------------------------------------------------------------------
(* The document (metadata.rs).  A member of a secret's table is a word of its grammar,   *)
(* Bad, or Nil where it is absent; `rest` stands for the members that only describe it. *)

Once(s) == FoldLeft(LAMBDA acc, x : IF Contains(acc, x) THEN acc ELSE Append(acc, x), <<>>, s)

\* reject_unknown.
KnownMembers(t) == ~t.unknown
\* KeychainEntry::new, AgeFile::new.
EntryAccepted(text) == text \notin {Nil, Bad}

\* Walker::storage: each storage with its own member only; env and exec are deferred.
StorageAccepted(t) ==
    \/ t.storage = "keychain" /\ t.path = Nil /\ EntryAccepted(t.keychain)
    \/ t.storage = "age" /\ t.keychain = Nil /\ EntryAccepted(t.path)

\* Walker::injection: at least one mode, and never plaintext_to_model.
InjectionAccepted(t) ==
    t.injection # {} /\ t.injection \subseteq {"egress", "fd_at_spawn", "env_at_spawn"}

\* HeaderName::new, HeaderPrefix::new; EnvName::new, with the variables that control a process.
HeaderAccepted(t) == Bad \notin {t.header, t.prefix}
EnvAccepted(t) == t.env # Bad
\* Walker::consumers: absolute, normal paths.
ConsumersAccepted(t) == Bad \notin ToSet(t.consumers)
\* The type, the description, rotate_after and the sensitivity.
DescriptionAccepted(t) == t.rest \notin {Nil, Bad}

\* A mode is allowed only with what it needs, and what it needs only with it.
ModesHaveTheirMembers(t) ==
    /\ "egress" \in t.injection => t.origins # <<>> /\ t.header # Nil
    /\ t.injection \cap {"fd_at_spawn", "env_at_spawn"} # {} => t.consumers # <<>>
    /\ ("env_at_spawn" \in t.injection) = (t.env # Nil)
    /\ "egress" \notin t.injection => t.header = Nil /\ t.prefix = Nil /\ t.origins = <<>>

\* Walker::secret.
SecretAccepted(t) ==
    /\ KnownMembers(t) /\ DescriptionAccepted(t) /\ StorageAccepted(t)
    /\ Bad \notin ToSet(t.origins)
    /\ HeaderAccepted(t) /\ InjectionAccepted(t) /\ ConsumersAccepted(t) /\ EnvAccepted(t)
    /\ ModesHaveTheirMembers(t)

Metadata(t) ==
    [backend |-> t.storage, reference |-> IF t.storage = "age" THEN t.path ELSE t.keychain,
     origins |-> Once(t.origins), header |-> t.header, prefix |-> t.prefix,
     injection |-> t.injection, consumers |-> Once(t.consumers), env |-> t.env,
     rest |-> t.rest, revoked |-> t.revoked]

\* parse: a document is accepted whole or not at all.
Parses(d) ==
    /\ d.sound
    /\ d.age # Bad
    /\ Cardinality(DOMAIN d.secrets) <= MaxSecrets
    /\ DOMAIN d.secrets \subseteq SecretHandles
    /\ \A h \in DOMAIN d.secrets :
         SecretAccepted(d.secrets[h]) /\ (d.secrets[h].storage = "age" => d.age # Nil)

Config(d) == [h \in DOMAIN d.secrets |-> Metadata(d.secrets[h])]

-----------------------------------------------------------------------------
(* The index of values (redact/exact.rs) and the redaction (redact/mod.rs). *)

\* backend::read: an age file is decrypted with the identity from the keychain.
Read(meta) ==
    IF meta.backend = "age" /\ backend[AgeEntry] = Missing THEN Missing ELSE backend[meta.reference]

\* ExactIndex::insert: the handle's entry is forgotten, and written anew unless too short.
\* As many handles are configured as there is room for.
InsertedFirst(index, h, value) ==
    [g \in DOMAIN index \cup {h} |-> IF g \in DOMAIN index THEN index[g] ELSE value]
Inserted(index, h, value) ==
    [g \in (DOMAIN index \ {h}) \cup (IF Len(value) >= MinExact THEN {h} ELSE {}) |->
        IF g = h THEN value ELSE index[g]]

Spans(word, input) ==
    {s \in [from : 1..Len(input), to : 1..Len(input)] : SubSeq(input, s.from, s.to) = word}

\* ExactIndex::find, by every value of the index, and pattern::scan.
Find(index, input) == UNION {Spans(index[h], input) : h \in DOMAIN index}
Scan(input) == UNION {Spans(w, input) : w \in Shapes}

\* redact: the spans in order, those that overlap merged, each replaced by a placeholder.
Before(s, t) == s.from < t.from \/ (s.from = t.from /\ s.to > t.to)
Merge(merged, s) ==
    IF merged # <<>> /\ s.from <= Last(merged).to
    THEN [merged EXCEPT ![Len(merged)].to = IF s.to > @ THEN s.to ELSE @]
    ELSE Append(merged, s)
Merged(spans) ==
    LET after[i \in 0..Cardinality(spans)] ==
            IF i = 0 THEN [left |-> spans, merged |-> <<>>]
            ELSE LET left == after[i - 1].left
                     s == CHOOSE s \in left : \A t \in left \ {s} : Before(s, t)
                 IN [left |-> left \ {s}, merged |-> Merge(after[i - 1].merged, s)]
    IN after[Cardinality(spans)].merged
Placeholder == <<"[", "redacted", "]">>
Written(input, merged) ==
    LET out[i \in 0..Len(merged)] ==
            IF i = 0 THEN [bytes |-> <<>>, at |-> 1]
            ELSE [bytes |-> out[i - 1].bytes \o SubSeq(input, out[i - 1].at, merged[i].from - 1) \o Placeholder,
                  at |-> merged[i].to + 1]
    IN out[Len(merged)].bytes \o SubSeq(input, out[Len(merged)].at, Len(input))
Redact(input, index) == Written(input, Merged(Find(index, input) \cup Scan(input)))

\* redact_bounded: cut when the placeholders made it longer than its bound.
RedactBounded(input, index) ==
    LET bytes == Redact(input, index)
    IN IF Len(bytes) > Limit THEN SubSeq(bytes, 1, Limit) ELSE bytes

-----------------------------------------------------------------------------
(* A start: SecretsState::prepare, the new incarnation, and reconcile. *)

\* exec::resolve of each consumer's path; those that do not resolve are left out.
Resolved(paths, named) ==
    Once(SelectSeq([i \in DOMAIN paths |-> named[paths[i]]], LAMBDA x : x # <<>>))

SecretsInit ==
    /\ \E b \in Beginnings :
         document = b.document /\ backend = b.backend /\ programs = b.programs
    /\ authority = "DOWN"
    /\ memory = [config |-> Empty, consumers |-> Empty, index |-> Empty]
    /\ revisions = [h \in SecretHandles |-> <<>>]
    /\ binding = [r \in Runs |-> [h \in SecretHandles |-> 0]]
    /\ runs = [r \in Runs |-> [state |-> Nil, handles |-> {}, wildcard |-> FALSE]]
    /\ uses = <<>>
    /\ serving = 0
    /\ returned = <<>>
    /\ starts = 0
    /\ changes = 0

Prepare ==
    /\ authority = "DOWN"
    /\ starts < MaxStarts
    /\ Parses(document)
    /\ LET config == Config(document)
           readable == {h \in DOMAIN config : Len(Read(config[h])) >= MinExact}
       IN memory' = [config |-> config,
                     consumers |-> [h \in DOMAIN config |-> Resolved(config[h].consumers, programs)],
                     index |-> [h \in readable |-> Read(config[h])]]
    /\ authority' = "PREPARED"
    /\ starts' = starts + 1
    /\ returned' = <<>>
    /\ UNCHANGED <<document, backend, programs, revisions, binding, runs, uses, serving, changes>>

\* begin_incarnation: every run is reaped, and reconcile_open ends every open use.
BeginIncarnation ==
    /\ authority = "PREPARED"
    /\ authority' = "BEGUN"
    /\ runs' = [r \in Runs |->
                  IF runs[r].state = "ACTIVE" THEN [runs[r] EXCEPT !.state = "ENDED"] ELSE runs[r]]
    /\ uses' = [u \in DOMAIN uses |->
                  IF uses[u].state = "INTENT" THEN [uses[u] EXCEPT !.state = "UNKNOWN"] ELSE uses[u]]
    /\ returned' = <<>>
    /\ UNCHANGED <<document, backend, programs, memory, revisions, binding, serving, starts, changes>>

\* canonical: everything but whether it is revoked, with the consumers as they resolved.
Canonical(meta, identities) ==
    [k \in DOMAIN meta \ {"revoked"} |-> IF k = "consumers" THEN identities ELSE meta[k]]
RowState(meta) == IF meta.revoked THEN "REVOKED" ELSE "CONFIGURED"
Row(h) ==
    IF h \in DOMAIN memory.config
    THEN [state |-> RowState(memory.config[h]),
          meta |-> <<Canonical(memory.config[h], memory.consumers[h])>>]
    ELSE [state |-> "REMOVED", meta |-> <<>>]

\* latest and current.
Current(h) == IF revisions[h] = <<>> THEN [state |-> "REMOVED", meta |-> <<>>] ELSE Last(revisions[h])

\* reconcile: a row for what is new, changed, revoked or removed; none for a handle that is
\* as its last row says, or that never was and is not configured.
Reconcile ==
    /\ authority = "BEGUN"
    /\ revisions' = [h \in SecretHandles |->
                       IF Row(h) = Current(h) THEN revisions[h] ELSE Append(revisions[h], Row(h))]
    /\ authority' = "UP"
    /\ returned' = <<>>
    /\ UNCHANGED <<document, backend, programs, memory, binding, runs, uses, serving, starts, changes>>

\* The process ends: what it held is gone, a consumer's answer with it.
AuthorityDies ==
    /\ authority # "DOWN"
    /\ authority' = "DOWN"
    /\ memory' = [config |-> Empty, consumers |-> Empty, index |-> Empty]
    /\ uses' = [u \in DOMAIN uses |-> [uses[u] EXCEPT !.at = "ENDED"]]
    /\ serving' = 0
    /\ returned' = <<>>
    /\ UNCHANGED <<document, backend, programs, revisions, binding, runs, starts, changes>>

-----------------------------------------------------------------------------
(* Admission's part (answers, bind), and a use up to its intent. *)

\* bind: INSERT OR IGNORE of a run's handles at their current revisions.
Bind(r, granted) ==
    binding' = [binding EXCEPT ![r] =
                  [h \in SecretHandles |-> IF h \in granted /\ @[h] = 0 THEN Len(revisions[h]) ELSE @[h]]]

\* answers: the handles an admission is granted of those it asks for, and is bound to.
Answered(asked) == {h \in asked.handles : Current(h).state = "CONFIGURED"}
Admit(r, asked) ==
    /\ authority = "UP" /\ serving = 0
    /\ runs[r].state = Nil
    /\ runs' = [runs EXCEPT ![r] = [state |-> "ACTIVE", handles |-> Answered(asked),
                                    wildcard |-> asked.wildcard]]
    /\ Bind(r, Answered(asked))
    /\ returned' = <<>>
    /\ UNCHANGED <<document, backend, programs, authority, memory, revisions, uses, serving,
                   starts, changes>>

\* check_use: configured, unrevoked, and the revision the run is bound to if it is to one.
CheckUse(r, h) ==
    /\ Current(h).state = "CONFIGURED"
    /\ binding[r][h] \in {0, Len(revisions[h])}

\* select: the strictest mode the metadata allows for what consumes it, or none.
Select(meta, consumers, target) ==
    CASE meta.revoked -> Nil
      [] ~meta.revoked /\ target.kind = "EGRESS" ->
           IF "egress" \in meta.injection
                /\ \E i \in DOMAIN meta.origins : target.origin \in Matches[meta.origins[i]]
           THEN "egress" ELSE Nil
      [] OTHER ->
           IF ~Contains(consumers, target.consumer) THEN Nil
           ELSE IF "fd_at_spawn" \in meta.injection THEN "fd_at_spawn"
           ELSE IF "env_at_spawn" \in meta.injection THEN "env_at_spawn" ELSE Nil

\* spawn::prepare: in an environment a consumer's path is what the image pins there, and a
\* variable is none that the environment sets.
PreparedSpawn(meta, target) ==
    LET mode == Select(meta, Resolved(meta.consumers, Manifest), target)
    IN IF mode = "env_at_spawn" /\ meta.env \in Reserved THEN Nil ELSE mode

\* prepare, of a hop or of a spawn.
PreparedMode(h, target) ==
    IF target.kind = "EGRESS" THEN Select(memory.config[h], memory.consumers[h], target)
    ELSE PreparedSpawn(memory.config[h], target)

\* obligations_enforced: audit_level only.
ObligationsEnforced(verdict) == verdict # "OBLIGED"
\* refused_by_gates: the capability, the policy, and its obligations.
GatesAllow(r, h, verdict) ==
    (h \in runs[r].handles \/ runs[r].wildcard) /\ verdict # "DENY" /\ ObligationsEnforced(verdict)

Targets ==
    [kind : {"EGRESS"}, origin : Origins]
      \cup {[kind |-> "SPAWN", consumer |-> Manifest[p]] : p \in Paths}

\* record_intent, of a hop or of a spawn.
Intent(r, h, mode) ==
    [run |-> r, handle |-> h, revision |-> Len(revisions[h]), mode |-> mode,
     meta |-> Canonical(memory.config[h], memory.consumers[h]),
     state |-> "INTENT", at |-> "ORDERED", value |-> <<>>]

\* One transaction: a wildcard's run is bound at its first use, whatever the gates say then.
Use(r, h, target, verdict) ==
    /\ authority = "UP" /\ serving = 0
    /\ Len(uses) < MaxUses
    /\ runs[r].state = "ACTIVE"
    /\ h \in DOMAIN memory.config
    /\ CheckUse(r, h)
    /\ Bind(r, {h})
    /\ IF PreparedMode(h, target) # Nil /\ GatesAllow(r, h, verdict)
       THEN /\ uses' = Append(uses, Intent(r, h, PreparedMode(h, target)))
            /\ serving' = Len(uses) + 1
       ELSE UNCHANGED <<uses, serving>>
    /\ returned' = <<>>
    /\ UNCHANGED <<document, backend, programs, authority, memory, revisions, runs, starts, changes>>

-----------------------------------------------------------------------------
(* The value, its consumer, and what comes back. *)

\* header_safe and variable_safe.
Carried(mode, value) ==
    /\ mode = "egress" => {"LF", "NUL"} \cap ToSet(value) = {}
    /\ mode = "env_at_spawn" => ~Contains(value, "NUL")

Ended(u, state, value) ==
    uses' = [uses EXCEPT ![u].state = state, ![u].at = "ENDED", ![u].value = value]

\* hand_over, and the same steps of exchange: the value is read, indexed, and put in a pipe
\* if it can be carried and the system has one.
HandOver(piped) ==
    LET u == serving
        value == Read(uses[u].meta)
    IN /\ u # 0 /\ uses[u].at = "ORDERED"
       /\ IF value = Missing
          THEN /\ Ended(u, "FAILED", <<>>)
               /\ serving' = 0
               /\ UNCHANGED memory
          ELSE /\ memory' = [memory EXCEPT !.index = Inserted(@, uses[u].handle, value)]
               /\ IF piped /\ Carried(uses[u].mode, value)
                  THEN /\ uses' = [uses EXCEPT ![u].at = "CONSUMER", ![u].value = value]
                       /\ UNCHANGED serving
                  ELSE Ended(u, "FAILED", value) /\ serving' = 0
       /\ returned' = <<>>
       /\ UNCHANGED <<document, backend, programs, authority, revisions, binding, runs, starts, changes>>

\* The worker serves others while a launch runs; a request's hop it waits for.
Park ==
    /\ serving # 0 /\ uses[serving].at = "CONSUMER" /\ uses[serving].mode # "egress"
    /\ serving' = 0
    /\ returned' = <<>>
    /\ UNCHANGED <<document, backend, programs, authority, memory, revisions, binding, runs, uses,
                   starts, changes>>

\* record_outcome, with the output redacted by what the index holds now.
Return(u, output) ==
    /\ serving \in {0, u}
    /\ uses[u].at = "CONSUMER"
    /\ Ended(u, "INJECTED", uses[u].value)
    /\ returned' = <<[use |-> u, raw |-> output, bytes |-> RedactBounded(output, memory.index)]>>
    /\ serving' = 0
    /\ UNCHANGED <<document, backend, programs, authority, memory, revisions, binding, runs,
                   starts, changes>>

\* The broker refused it, or nothing proves whether it was delivered.
NothingReturned(u, state) ==
    /\ serving \in {0, u}
    /\ uses[u].at = "CONSUMER"
    /\ Ended(u, state, uses[u].value)
    /\ serving' = 0
    /\ returned' = <<>>
    /\ UNCHANGED <<document, backend, programs, authority, memory, revisions, binding, runs,
                   starts, changes>>

\* External: the operator edits the document, replaces an executable, or rotates a value.
\* Each is changed where it can next be read.
OperatorActs ==
    /\ changes < MaxChanges
    /\ changes' = changes + 1
    /\ \/ /\ authority = "DOWN"
          /\ document' \in Documents \ {document} /\ UNCHANGED <<backend, programs>>
       \/ /\ authority = "DOWN"
          /\ programs' \in Programs \ {programs} /\ UNCHANGED <<document, backend>>
       \/ /\ authority \in {"DOWN", "UP"}
          /\ \E c \in Rotations : backend' = [backend EXCEPT ![c.entry] = c.value]
          /\ UNCHANGED <<document, programs>>
    /\ returned' = <<>>
    /\ UNCHANGED <<authority, memory, revisions, binding, runs, uses, serving, starts>>

SecretsNext ==
    \/ Prepare \/ BeginIncarnation \/ Reconcile \/ AuthorityDies
    \/ \E r \in Runs, asked \in Asked : Admit(r, asked)
    \/ \E r \in Runs, h \in SecretHandles, t \in Targets, v \in {"ALLOW", "DENY", "OBLIGED"} : Use(r, h, t, v)
    \/ \E piped \in BOOLEAN : HandOver(piped)
    \/ Park
    \/ \E u \in DOMAIN uses, output \in Outputs : Return(u, output)
    \/ \E u \in DOMAIN uses, state \in {"FAILED", "UNKNOWN"} : NothingReturned(u, state)
    \/ OperatorActs
SecretsSpec == SecretsInit /\ [][SecretsNext]_secretsVars

-----------------------------------------------------------------------------
(* The constants: a placeholder's words are told apart from those of values and outputs, *)
(* and an accepted document names entries of the operator's backends.                    *)

IsPlain(s) == s \in Seq(ToSet(s)) /\ ToSet(s) \cap ToSet(Placeholder) = {}
AllDocuments == Documents \cup {b.document : b \in Beginnings}
Entries(meta) == {AgeEntry, meta.reference}
SecretsConstants ==
    /\ MinExact \in Nat \ {0} /\ Limit \in Nat
    /\ Missing \notin Shapes
    /\ \A o \in Outputs : IsPlain(o)
    /\ \A c \in Rotations : IsPlain(c.value)
    /\ \A b \in Beginnings :
         /\ \A e \in DOMAIN b.backend : IsPlain(b.backend[e])
         /\ \A d \in AllDocuments : Parses(d) =>
              \A h \in DOMAIN d.secrets : Entries(Metadata(d.secrets[h])) \subseteq DOMAIN b.backend

-----------------------------------------------------------------------------
(* Properties *)

\* While it serves, the last row of every handle is what the authority holds of it: a
\* revocation, a removal and a replaced consumer are all on the record (reconcile).
IndexIsTheConfiguration == authority = "UP" => \A h \in SecretHandles : Current(h) = Row(h)

\* A use is of the revision its run is bound to, which was never revoked or removed and says
\* of the secret what the use was prepared by (check_use, bind).
UseIsOfItsSecret ==
    \A u \in DOMAIN uses :
        LET row == revisions[uses[u].handle][uses[u].revision]
        IN /\ row = [state |-> "CONFIGURED", meta |-> <<uses[u].meta>>]
           /\ binding[uses[u].run][uses[u].handle] = uses[u].revision

\* What is left of an output: every byte that no known value and no shape holds, in order.
Filtered(s, keep) ==
    LET upTo[i \in 0..Len(s)] ==
            IF i = 0 THEN <<>> ELSE IF i \in keep THEN Append(upTo[i - 1], s[i]) ELSE upTo[i - 1]
    IN upTo[Len(s)]
Matched(input, index) == UNION {s.from .. s.to : s \in Find(index, input) \cup Scan(input)}
Kept(input, index) == Filtered(input, DOMAIN input \ Matched(input, index))
Text(bytes) == Filtered(bytes, {i \in DOMAIN bytes : bytes[i] \notin ToSet(Placeholder)})

\* An output that comes back to a run no longer holds the value its use was given, unless that
\* is too short to be matched, or a later use of the handle read another, which takes its place
\* in the index; and it loses nothing else but what its bound cuts off (register, redact).
Replaced(u) ==
    \E w \in DOMAIN uses :
        w > u /\ uses[w].handle = uses[u].handle /\ uses[w].value \notin {<<>>, uses[u].value}
ReturnIsRedacted ==
    \A i \in DOMAIN returned :
        LET u == returned[i].use
            bytes == returned[i].bytes
            text == Text(bytes)
            kept == Kept(returned[i].raw, memory.index)
        IN /\ Len(uses[u].value) < MinExact \/ Replaced(u) \/ Spans(uses[u].value, bytes) = {}
           /\ IsPrefix(text, kept)
           /\ Len(bytes) < Limit => text = kept

\* The three together: what is recorded of a secret, what is used of it and what comes back.
SecretsAreKept == IndexIsTheConfiguration /\ UseIsOfItsSecret /\ ReturnIsRedacted
=============================================================================
