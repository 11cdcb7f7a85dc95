--------------------------- MODULE BrokerMessages ---------------------------
(*************************************************************************************)
(* The private protocol between the daemons (crates/dwk-proto/src/brokerp.rs         *)
(* and brokerp/), as the two of them use it: the orders the authority can make       *)
(* and the authorisation each becomes (dwkd-authority/src/broker/link.rs), what      *)
(* the broker checks of one before it acts, the results an operation can answer      *)
(* with, and what the authority checks of a result.                                  *)
(*                                                                                   *)
(* Identities, names and paths are members of small sets, byte counts small numbers. *)
(* Every message is one frame of canonical JSON that survives its own round trip.    *)
(*************************************************************************************)
EXTENDS Naturals, Sequences, FiniteSets, FiniteSetsExt

CONSTANTS
    Inodes,      \* (device, inode) pairs
    Leaves,      \* single name components
    MaxBytes     \* the largest count of bytes, entries or matches

Nil == "NONE"
Limits == 1..MaxBytes
Counts == 0..(MaxBytes + 1)
MaybeObject == Inodes \cup {Nil}

-----------------------------------------------------------------------------
(* One order per operation: the object it must be, its bounds, nothing to decide on.  *)

Reads == [op : {"fs_read"}, object : Inodes, max : Limits]
Stats == [op : {"fs_stat"}, object : Inodes]
Lists == [op : {"fs_list"}, object : Inodes, max : Limits]
Searches == [op : {"fs_search"}, object : Inodes, needle : Limits, scan : Limits, max : Limits]
Writes == [op : {"fs_write"}, parent : Inodes, leaf : Leaves, target : MaybeObject, size : Counts]
Patches == [op : {"fs_patch"}, parent : Inodes, leaf : Leaves, target : Inodes, inserts : Counts]
Moves == [op : {"fs_move"}, parent : Inodes, leaf : Leaves, source : Inodes, into : Inodes]
Deletes == [op : {"fs_delete"}, parent : Inodes, leaf : Leaves, target : Inodes,
            kind : {"FILE", "DIRECTORY"}]
Reclaims == {o \in [op : {"fs_reclaim"}, parent : Inodes, leaf : Leaves,
                    operation : {"REPLACE", "CREATE", "DELETE"}, target : MaybeObject] :
               (o.operation = "CREATE") = (o.target = Nil)}
ProcessStarts == [op : {"process_start"}, executable : Inodes, cwd : Inodes, argv : Counts,
                  max : Limits]
ProcessQueries == [op : {"process_status"}, max : Limits] \cup [op : {"process_kill"}]

\* The runtime client's two descriptors go with every environment operation.
Runtimes == [executable : Inodes, cwd : Inodes]
Prepares == [op : {"environment_prepare"}, runtime : Runtimes, network : {"NONE", "PROXY_ONLY"}]
Measures == [op : {"environment_measure"}, runtime : Runtimes, container : Inodes]
Destroys == [op : {"environment_destroy"}, runtime : Runtimes, container : MaybeObject]
Listings == [op : {"environment_list"}, runtime : Runtimes]

WorkloadStarts == [op : {"workload_start"}, runtime : Runtimes, argv : Counts,
                   network : {"NONE", "PROXY_ONLY"}]
Deliveries == {d \in [mode : {"ENV_AT_SPAWN", "FD_AT_SPAWN"}, variable : {Nil, "TOKEN", "NO_PROXY"}] :
                 (d.mode = "ENV_AT_SPAWN") = (d.variable # Nil)}
WorkloadSecretStarts == [op : {"workload_secret_start"}, runtime : Runtimes, argv : Counts,
                         network : {"NONE", "PROXY_ONLY"}, delivery : Deliveries]
WorkloadCollects == [op : {"workload_collect"}, max : Limits]
ResolutionOrders == [op : {"http_resolve"}]
HttpExchanges == [op : {"http_exchange"}, credential : BOOLEAN, body : BOOLEAN,
                  method : {"GET", "POST"}, addresses : SUBSET Inodes, max : Limits]

Orders ==
    UNION {Reads, Stats, Lists, Searches, Writes, Patches, Moves, Deletes, Reclaims, ProcessStarts,
           ProcessQueries, Prepares, Measures, Destroys, Listings, WorkloadStarts,
           WorkloadSecretStarts, WorkloadCollects, ResolutionOrders, HttpExchanges}

-----------------------------------------------------------------------------
(* The authorisation an order becomes.                                     *)

MessageKind(o) ==
    IF o.op = "http_exchange" /\ o.credential THEN "http_credential_exchange" ELSE o.op

\* PrivateKind::descriptors, per kind.
KindDescriptors(kind) ==
    CASE kind \in {"process_status", "process_kill", "http_resolve", "http_exchange",
                   "workload_collect"} -> 0
      [] kind \in {"fs_read", "fs_stat", "fs_list", "fs_search", "fs_write", "fs_delete",
                   "fs_reclaim", "http_credential_exchange"} -> 1
      [] kind = "workload_secret_start" -> 3
      [] OTHER -> 2

\* observation: the object itself.
ObservationDescriptors(o) == <<o.object>>
\* change: the directory, and the second object of a patch or a move.
ChangeDescriptors(o) ==
    CASE o.op = "fs_patch" -> <<o.parent, o.target>>
      [] o.op = "fs_move" -> <<o.parent, o.into>>
      [] OTHER -> <<o.parent>>
\* process.
ProcessDescriptors(o) == IF o.op = "process_start" THEN <<o.executable, o.cwd>> ELSE <<>>
\* runtime_of and environment: the secret's pipe is last.
RuntimeDescriptors(o) ==
    <<o.runtime.executable, o.runtime.cwd>>
      \o (IF o.op = "workload_secret_start" THEN <<"PIPE">> ELSE <<>>)
\* A credential and its pipe travel together.
HttpDescriptors(o) == IF o.op = "http_exchange" /\ o.credential THEN <<"PIPE">> ELSE <<>>

Descriptors(o) ==
    CASE o.op \in {"fs_read", "fs_stat", "fs_list", "fs_search"} -> ObservationDescriptors(o)
      [] o.op \in {"fs_write", "fs_patch", "fs_move", "fs_delete", "fs_reclaim"} ->
           ChangeDescriptors(o)
      [] o.op \in {"process_start", "process_status", "process_kill"} -> ProcessDescriptors(o)
      [] o.op \in {"http_resolve", "http_exchange", "workload_collect"} -> HttpDescriptors(o)
      [] OTHER -> RuntimeDescriptors(o)

\* FsWriteAuthorisation::new spells out whether the name is to be vacant.
WriteObject(o) ==
    IF o.op # "fs_write" THEN Nil ELSE IF o.target = Nil THEN "VACANT" ELSE "EXISTING"
\* A workload with a network names the relay by its digest.
WorkloadRelay(o) ==
    o.op \in {"workload_start", "workload_secret_start"} /\ o.network = "PROXY_ONLY"

\* authorisation_head: the kind, and the descriptors the kind has.
AuthorisationHead(o) == [kind |-> MessageKind(o), descriptors |-> KindDescriptors(MessageKind(o))]
\* The message: only what the broker must enforce.
Authorise(o) ==
    [kind |-> AuthorisationHead(o).kind, descriptors |-> AuthorisationHead(o).descriptors, order |-> o,
     object |-> WriteObject(o), relay |-> WorkloadRelay(o)]

-----------------------------------------------------------------------------
(* Authorisation::check: what both daemons hold an authorisation to.                 *)

CheckWrite(a) == (a.object = "EXISTING") = (a.order.target # Nil) /\ a.order.size <= MaxBytes
CheckPatch(a) == a.order.inserts <= MaxBytes
CheckReclaim(a) == (a.order.operation = "CREATE") = (a.order.target = Nil)
CheckArguments(a) == a.order.argv <= MaxBytes
CheckStart(a) == CheckArguments(a) /\ a.relay = (a.order.network = "PROXY_ONLY")
\* A secret's variable is never one the environment itself sets.
ReservedVariables == {"NO_PROXY"}
CheckSecretStart(a) ==
    /\ CheckStart(a)
    /\ (a.order.delivery.mode = "ENV_AT_SPAWN") = (a.order.delivery.variable # Nil)
    /\ a.order.delivery.variable \notin ReservedVariables
CheckExchange(a) ==
    /\ (a.kind = "http_credential_exchange") = a.order.credential
    /\ a.order.body => a.order.method = "POST"
    /\ a.order.addresses # {}

\* kind and declared_descriptors: what an authorisation of any type says of itself.
Declared(a) == [kind |-> a.kind, descriptors |-> a.descriptors]

Check(a) ==
    /\ Declared(a).descriptors = KindDescriptors(Declared(a).kind)
    /\ CASE a.order.op = "fs_write" -> CheckWrite(a)
         [] a.order.op = "fs_patch" -> CheckPatch(a)
         [] a.order.op = "fs_reclaim" -> CheckReclaim(a)
         [] a.order.op = "process_start" -> CheckArguments(a)
         [] a.order.op = "workload_start" -> CheckStart(a)
         [] a.order.op = "workload_secret_start" -> CheckSecretStart(a)
         [] a.order.op = "http_exchange" -> CheckExchange(a)
         [] OTHER -> TRUE

\* decode_frame_body: a hello or an outcome is no authorisation, and what decodes is checked.
DecodesMessage(a) == Declared(a).kind \notin {"hello", "outcome"} /\ Check(a)

-----------------------------------------------------------------------------
(* What an operation that completed answers with (exchange/observe.rs, search.rs, *)
(* mutate.rs, staging.rs; process, sandbox and http have modules of their own).   *)

\* read_within: to the bound or to the end of the file, whichever comes first.
ReadDone(o) == {[op |-> "fs_read", size |-> n, eof |-> n < o.max] : n \in 0..o.max}
StatDone(o) == [op : {"fs_stat"}, kind : {"FILE", "DIRECTORY"}]
\* list: sorted, then cut; complete exactly when nothing was cut.
ListDone(o) ==
    {[op |-> "fs_list", size |-> Min({n, o.max}), complete |-> n <= o.max] : n \in Counts}

\* scan: every match ends within what was scanned; the match past the last kept stops it
\* where that match ends.
Matches(n, needle) == SUBSET {at \in 0..n : at + needle <= n}
Furthest(found) == {at \in found : \A other \in found : other <= at}
SearchedAll(o) ==
    UNION {{[op |-> "fs_search", offsets |-> found, scanned |-> n, truncated |-> FALSE] :
              found \in {f \in Matches(n, o.needle) : Cardinality(f) <= o.max}} : n \in 0..o.scan}
SearchedEnough(o) ==
    UNION {{[op |-> "fs_search", offsets |-> found \ {last}, scanned |-> last + o.needle,
             truncated |-> TRUE] : last \in Furthest(found)} :
              found \in {f \in Matches(o.scan, o.needle) : Cardinality(f) = o.max + 1}}
SearchDone(o) == SearchedAll(o) \cup SearchedEnough(o)

\* write: created exactly when the name was to be vacant.
WriteDone(o) == [op : {"fs_write"}, created : {o.target = Nil}, debris : BOOLEAN]
PatchDone(o) == [op : {"fs_patch"}, outcome : {"APPLIED", "ALREADY_APPLIED"}, debris : BOOLEAN]
MoveDone(o) == [op : {"fs_move"}]
DeleteDone(o) == [op : {"fs_delete"}, debris : BOOLEAN]
\* reclaim: what is held names its object, except an empty evidence.
ReclaimDone(o) ==
    [op : {"fs_reclaim"}, state : {"ABSENT", "REMOVED", "FOREIGN"}, holds : {Nil}, held : {Nil}]
    \cup [op : {"fs_reclaim"}, state : {"RETAINED"}, holds : {"DISPLACED", "TAKEN"}, held : Inodes]
    \cup [op : {"fs_reclaim"}, state : {"RETAINED"}, holds : {"EVIDENCE"}, held : {Nil}]
    \cup [op : {"fs_reclaim"}, state : {"RETAINED"}, holds : {"UNEXPECTED"}, held : MaybeObject]

\* A captured stream: the first bytes to its bound, and how many there were.
Captured(max) ==
    {[kept |-> Min({n, max}), observed |-> n, truncated |-> n > max] : n \in Counts}

ProcessDone(o) ==
    CASE o.op = "process_start" -> [op : {"process_start"}, state : {"RUNNING", "EXITED", "SIGNALED"}]
      [] o.op = "process_status" ->
           [op : {"process_status"}, state : {"RUNNING", "EXITED", "SIGNALED"}, out : Captured(o.max)]
      [] o.op = "process_kill" -> [op : {"process_kill"}, outcome : {"SIGNALED", "ALREADY_ENDED"}]

\* prepare keeps a container only measured; destroy names what it removed.
EnvironmentDone(o) ==
    CASE o.op = "environment_prepare" ->
           [op : {"environment_prepare"}, retained : {TRUE}, container : Inodes, measured : {TRUE}]
           \cup [op : {"environment_prepare"}, retained : {FALSE}, container : {Nil},
                 measured : BOOLEAN]
      [] o.op = "environment_measure" -> [op : {"environment_measure"}, state : {"RUNNING", "ABSENT"}]
      [] o.op = "environment_destroy" ->
           [op : {"environment_destroy"}, state : {"ALREADY_GONE"}, container : {Nil}]
           \cup [op : {"environment_destroy"}, state : {"REMOVED"},
                 container : IF o.container = Nil THEN Inodes ELSE {o.container}]
      [] o.op = "environment_list" -> [op : {"environment_list"}, complete : BOOLEAN]

Endings ==
    {e \in [ending : {"EXITED", "KILLED", "TIMED_OUT"}, code : BOOLEAN, signal : BOOLEAN,
            clean : BOOLEAN, left : 0..1] :
       /\ e.code = (e.ending = "EXITED") /\ e.signal = (e.ending = "KILLED")
       /\ e.clean => e.left = 0}
NoEnding == [ending |-> Nil, code |-> FALSE, signal |-> FALSE, clean |-> FALSE, left |-> 0]
CollectDone(o) ==
    {[op |-> "workload_collect", progress |-> "RUNNING", result |-> NoEnding, out |-> s, never |-> FALSE] :
        s \in {[kept |-> 0, observed |-> 0, truncated |-> FALSE]}}
    \cup {[op |-> "workload_collect", progress |-> "ENDED", result |-> NoEnding, out |-> s,
           never |-> TRUE] : s \in {[kept |-> 0, observed |-> 0, truncated |-> FALSE]}}
    \cup [op : {"workload_collect"}, progress : {"ENDED"}, result : Endings, out : Captured(o.max),
          never : {FALSE}]
WorkloadDone(o) ==
    IF o.op = "workload_collect" THEN CollectDone(o) ELSE [op : {o.op}]

HttpDone(o) ==
    IF o.op = "http_resolve"
    THEN {[op |-> "http_resolve", resolved |-> n # {}, addresses |-> n] : n \in SUBSET Inodes}
    ELSE [op : {"http_exchange"}, completed : {TRUE}, status : {TRUE}, headers : BOOLEAN,
          echoes : IF o.credential THEN BOOLEAN ELSE {FALSE}, size : 0..o.max]
         \cup [op : {"http_exchange"}, completed : {FALSE}, status : BOOLEAN, headers : {FALSE},
               echoes : IF o.credential THEN BOOLEAN ELSE {FALSE}, size : 0..o.max]

Done(o) ==
    CASE o.op = "fs_read" -> ReadDone(o)
      [] o.op = "fs_stat" -> StatDone(o)
      [] o.op = "fs_list" -> ListDone(o)
      [] o.op = "fs_search" -> SearchDone(o)
      [] o.op = "fs_write" -> WriteDone(o)
      [] o.op = "fs_patch" -> PatchDone(o)
      [] o.op = "fs_move" -> MoveDone(o)
      [] o.op = "fs_delete" -> DeleteDone(o)
      [] o.op = "fs_reclaim" -> ReclaimDone(o)
      [] o.op \in {"process_start", "process_status", "process_kill"} -> ProcessDone(o)
      [] o.op \in {"workload_start", "workload_secret_start", "workload_collect"} -> WorkloadDone(o)
      [] o.op \in {"http_resolve", "http_exchange"} -> HttpDone(o)
      [] OTHER -> EnvironmentDone(o)

-----------------------------------------------------------------------------
(* deliver: what the authority holds a result to.                                    *)

StreamAccepted(s, max) ==
    s.kept <= max /\ s.observed >= s.kept /\ s.truncated = (s.observed > s.kept)
\* Offsets are a list; as a set of distinct ones they are ordered.
SearchAccepted(o, d) ==
    /\ d.scanned <= o.scan /\ Cardinality(d.offsets) <= o.max
    /\ \A at \in d.offsets : at + o.needle <= d.scanned
ReclaimAccepted(o, d) ==
    CASE d.state = "RETAINED" -> /\ d.holds # Nil
                                 /\ d.holds \in {"DISPLACED", "TAKEN"} => d.held # Nil
                                 /\ d.holds = "EVIDENCE" => d.held = Nil
      [] OTHER -> d.holds = Nil /\ d.held = Nil
DestroyAccepted(o, d) ==
    IF d.state = "REMOVED" THEN d.container # Nil /\ o.container \in {Nil, d.container}
    ELSE d.container = Nil
EnvironmentAccepted(o, d) ==
    CASE d.op = "environment_prepare" -> d.retained => d.container # Nil /\ d.measured
      [] d.op = "environment_destroy" -> DestroyAccepted(o, d)
      [] OTHER -> TRUE
\* check_done and check_collect.
CollectAccepted(o, d) ==
    LET e == d.result
    IN /\ (d.progress = "RUNNING") => e = NoEnding /\ ~d.never
       /\ (d.progress = "ENDED") => (e = NoEnding) = d.never
       /\ e # NoEnding => /\ (e.ending = "EXITED") = e.code /\ (e.ending = "KILLED") = e.signal
                          /\ e.clean => e.left = 0
                          /\ StreamAccepted(d.out, o.max)
ResolutionAccepted(o, d) == d.resolved = (d.addresses # {})
ExchangeAccepted(o, d) ==
    /\ d.echoes => o.credential
    /\ d.size <= o.max
    /\ d.completed => d.status
    /\ ~d.completed => ~d.headers

\* BrokerDone::kind: the one operation a result is for.
DoneKind(d) == d.op

Accepted(o, d) ==
    /\ DoneKind(d) = o.op
    /\ CASE o.op \in {"fs_read", "fs_list"} -> d.size <= o.max
         [] o.op = "fs_search" -> SearchAccepted(o, d)
         [] o.op = "fs_write" -> d.created = (o.target = Nil)
         [] o.op = "fs_reclaim" -> ReclaimAccepted(o, d)
         [] o.op = "process_status" -> StreamAccepted(d.out, o.max)
         [] o.op = "workload_collect" -> CollectAccepted(o, d)
         [] o.op = "http_resolve" -> ResolutionAccepted(o, d)
         [] o.op = "http_exchange" -> ExchangeAccepted(o, d)
         [] o.op \in {"environment_prepare", "environment_destroy"} -> EnvironmentAccepted(o, d)
         [] OTHER -> TRUE
=============================================================================
