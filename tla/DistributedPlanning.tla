------------------------ MODULE DistributedPlanning ------------------------
(***************************************************************************)
(* Planning the read of a Distributed table with                           *)
(* convert_distributed_to_local: _ensure_planning_snapshot (datasource.py) *)
(* asks resolve_distributed (_distributed.py) for one replica per shard,   *)
(* prepares a local source for each, and publishes the plan; when a node   *)
(* lacks a capability the whole table is read through the Distributed      *)
(* engine instead.                                                         *)
(*                                                                         *)
(* A question is one method of MetadataReader that resolve_distributed     *)
(* calls, with the comparisons made of its answer.  Answers are not        *)
(* modelled, only whether they let planning go on.  Nodes may answer       *)
(* differently each time, and any request may fail or be interrupted.      *)
(*                                                                         *)
(* Planning of a table that is not Distributed is in module SplitRead.     *)
(***************************************************************************)
EXTENDS Integers, Sequences

CONSTANTS
    Topologies,  \* what system.clusters may say: sets of [shard, replica, host]
    Configs,     \* [filtered, ordered, eligible, split, policy]
    Unplanned,   \* no planning snapshot
    Logical,     \* _logical_fallback
    Calls        \* a bound: calls that need the plan

Replicas == [shard : Nat, replica : Nat, host : STRING]

ASSUME PlanningAssumption ==
    /\ \A top \in Topologies : top \subseteq Replicas
    /\ Configs \subseteq [filtered : BOOLEAN, ordered : BOOLEAN, eligible : BOOLEAN,
                          split : {"single", "partition", "range", "auto"},
                          policy : {"single", "error"}]
    /\ \A c \in Configs : c.ordered => c.split = "single"
    /\ Unplanned # Logical /\ Unplanned \notin Seq(Replicas)
    /\ Calls \in Nat

VARIABLES
    config,
    calls,
    plan,      \* _planning_snapshot, _logical_fallback and _local_sources
    result,    \* of the latest call: "none" | "planned" | "error"
    raised,    \* history: the errors of the latest call, [at, error]
    pc,
    clients,   \* the open metadata readers: "source", "target"
    asked,     \* questions the current node has answered
    topology,  \* the rows of the cluster
    node,      \* the replica whose questions are asked
    targets,   \* the replicas resolved: [row, known]
    known,     \* whether the current target has what the split needs
    exc,       \* the exception in flight, or "none"
    prepared   \* local sources prepared

resolution == <<asked, topology, node, targets, known, exc, prepared>>
vars == <<config, calls, plan, result, raised, pc, clients, resolution>>

NoNode == [shard |-> 0, replica |-> 0, host |-> ""]

Init ==
    /\ config \in Configs
    /\ calls = 0 /\ plan = Unplanned /\ result = "none" /\ raised = {}
    /\ pc = "idle" /\ clients = {}
    /\ asked = 0 /\ topology = {} /\ node = NoNode /\ targets = << >> /\ known = TRUE
    /\ exc = "none" /\ prepared = 0
-----------------------------------------------------------------------------
(* What a question may lead to, besides an answer and an error *)

\* Translated errors other than DiscoveryError are alike here.
Errors == {"DiscoveryError", "OtherError", "Interrupt"}

\* capability and require_fields: a system table or field is confirmed absent.
Gap == {"NotApplicable"}

EngineExits == Gap
ContextExits == Gap
TopologyExits == Gap

\* What columns needs was looked up for the questions before it.
ColumnsExits == {}
SchemaExits == {}
DescribeExits == {}

\* No partition_id, or no sorting_key: the target is used without.
PartsExits == {"missing"}
SortingKeyExits == {"missing"}

Exits ==
    [engine |-> EngineExits, context |-> ContextExits, columns |-> ColumnsExits,
     topology |-> TopologyExits, describe |-> DescribeExits, schema |-> SchemaExits,
     parts |-> PartsExits, sorting_key |-> SortingKeyExits]

SourceQuestions == <<"engine", "context", "columns", "topology">>

TargetQuestions ==
    <<"context", "describe", "engine", "columns", "schema">>
        \o (CASE config.split = "partition" -> <<"parts">>
              [] config.split = "auto" -> <<"sorting_key">>
              [] OTHER -> << >>)

Questions == IF pc = "source" THEN SourceQuestions ELSE TargetQuestions
Asking == pc \in {"source", "target"} /\ asked < Len(Questions)
Question == Questions[asked + 1]
-----------------------------------------------------------------------------
(* Leaving *)

Record(error) == raised' = raised \cup {[at |-> pc, error |-> error]}

\* The call ends with the plan p; what was resolved is dropped.
Return(p, r) ==
    /\ pc' = "idle" /\ plan' = p /\ result' = r
    /\ asked' = 0 /\ topology' = {} /\ node' = NoNode /\ targets' = << >> /\ known' = TRUE
    /\ exc' = "none" /\ prepared' = 0

\* Mutant of Unwind: the reader of the target is left open.
UnwindToSource == "closeSource"

\* The metadata_reader whose with block an exception leaves first.
Unwind == IF "target" \in clients THEN "closeTarget" ELSE "closeSource"

Raise(error) == exc' = error /\ pc' = Unwind /\ Record(error)
-----------------------------------------------------------------------------
(* Before resolution *)

\* get_read_tasks, the schema and apply_projection all need the snapshot.
Call ==
    /\ pc = "idle" /\ calls < Calls
    /\ calls' = calls + 1
    /\ raised' = {}
    /\ IF plan = Unplanned
       THEN pc' = "discover" /\ result' = "none"
       ELSE result' = "planned" /\ UNCHANGED pc
    /\ UNCHANGED <<config, plan, clients, resolution>>

\* The conditions under which resolve_distributed is called at all.
Convertible(engine) == engine = "Distributed" /\ config.filtered /\ ~config.ordered

\* Schema and engine are known; resolve_distributed first looks at the
\* filter, the source's columns and the connection.
DiscoverSource(engine) ==
    /\ pc = "discover"
    /\ IF Convertible(engine) /\ config.eligible
       THEN pc' = "connect" /\ UNCHANGED <<plan, result, raised, resolution>>
       ELSE /\ Return(Logical, "planned")
            /\ IF Convertible(engine) THEN Record("NotApplicable") ELSE UNCHANGED raised
    /\ UNCHANGED <<config, calls, clients>>

DiscoverSourceFails(error) ==
    /\ pc = "discover"
    /\ Record(error)
    /\ Return(Unplanned, "error")
    /\ UNCHANGED <<config, calls, clients>>
-----------------------------------------------------------------------------
(* resolve_distributed *)

OpenSource ==
    /\ pc = "connect"
    /\ clients' = {"source"} /\ pc' = "source"
    /\ UNCHANGED <<config, calls, plan, result, raised, resolution>>

OpenSourceFails(error) ==
    /\ pc = "connect"
    /\ Record(error)
    /\ Return(Unplanned, "error")
    /\ UNCHANGED <<config, calls, clients>>

Answered ==
    /\ Asking /\ Question # "topology"
    /\ asked' = asked + 1
    /\ UNCHANGED <<config, calls, plan, result, raised, pc, clients,
                   topology, node, targets, known, exc, prepared>>

Malformed(rows) ==
    \/ rows = {}
    \/ \E r, s \in rows : r # s /\ r.shard = s.shard /\ r.replica = s.replica

TopologyRead(rows) ==
    /\ pc = "source" /\ Asking /\ Question = "topology"
    /\ IF Malformed(rows)
       THEN Raise("DiscoveryError") /\ UNCHANGED topology
       ELSE topology' = rows /\ pc' = "shard" /\ UNCHANGED <<exc, raised>>
    /\ UNCHANGED <<config, calls, plan, result, clients, asked, node, targets, known, prepared>>

Missing ==
    /\ Asking /\ "missing" \in Exits[Question]
    /\ known' = FALSE
    /\ asked' = asked + 1
    /\ UNCHANGED <<config, calls, plan, result, raised, pc, clients,
                   topology, node, targets, exc, prepared>>

Unanswered(error) ==
    /\ Asking
    /\ error \in Errors \cup Exits[Question]
    /\ Raise(error)
    /\ UNCHANGED <<config, calls, plan, result, clients,
                   asked, topology, node, targets, known, prepared>>

Resolved(field) == {targets[i].row[field] : i \in DOMAIN targets}
Remaining == {r \in topology : r.shard \notin Resolved("shard")}

\* The lowest replica of the lowest shard that has none yet.
Lowest(r) ==
    \A s \in Remaining : r.shard < s.shard \/ (r.shard = s.shard /\ r.replica <= s.replica)

\* Mutant of SelectReplica: two shards may be found on one server.
SelectReplicaAnywhere(r) ==
    /\ pc = "shard" /\ r \in Remaining /\ Lowest(r)
    /\ node' = r
    /\ pc' = "open"
    /\ UNCHANGED <<config, calls, plan, result, raised, clients,
                   asked, topology, targets, known, exc, prepared>>

SelectReplica(r) ==
    /\ pc = "shard" /\ r \in Remaining /\ Lowest(r)
    /\ node' = r
    /\ IF r.host \in Resolved("host")
       THEN Raise("DiscoveryError")
       ELSE pc' = "open" /\ UNCHANGED <<exc, raised>>
    /\ UNCHANGED <<config, calls, plan, result, clients,
                   asked, topology, targets, known, prepared>>

OpenTarget ==
    /\ pc = "open"
    /\ clients' = clients \cup {"target"}
    /\ pc' = "target" /\ asked' = 0 /\ known' = TRUE
    /\ UNCHANGED <<config, calls, plan, result, raised, topology, node, targets, exc, prepared>>

OpenTargetFails(error) ==
    /\ pc = "open"
    /\ Raise(error)
    /\ UNCHANGED <<config, calls, plan, result, clients,
                   asked, topology, node, targets, known, prepared>>

TargetResolved ==
    /\ pc = "target" /\ asked = Len(Questions)
    /\ targets' = Append(targets, [row |-> node, known |-> known])
    /\ pc' = "closeTarget"
    /\ UNCHANGED <<config, calls, plan, result, raised, clients,
                   asked, topology, node, known, exc, prepared>>

AllShards ==
    /\ pc = "shard" /\ Remaining = {}
    /\ pc' = "closeSource"
    /\ UNCHANGED <<config, calls, plan, result, raised, clients, resolution>>

\* finally: client.close().  An exception in flight hides that of close.
AfterClose(closes) == IF exc = "none" /\ ~closes THEN "OtherError" ELSE exc

RecordClose(closes) ==
    IF AfterClose(closes) = exc THEN UNCHANGED raised ELSE Record("OtherError")

CloseTarget(closes) ==
    /\ pc = "closeTarget"
    /\ clients' = clients \ {"target"}
    /\ exc' = AfterClose(closes)
    /\ RecordClose(closes)
    /\ pc' = IF exc' = "none" THEN "shard" ELSE "closeSource"
    /\ UNCHANGED <<config, calls, plan, result, asked, topology, node, targets, known, prepared>>

\* Mutant of CloseSource: every DiscoveryError leads to the logical plan.
CloseSourceLenient(closes) ==
    /\ pc = "closeSource"
    /\ clients' = clients \ {"source"}
    /\ RecordClose(closes)
    /\ CASE AfterClose(closes) = "none" ->
              pc' = "prepare" /\ UNCHANGED <<plan, result, resolution>>
         [] AfterClose(closes) \in {"NotApplicable", "DiscoveryError"} ->
              Return(Logical, "planned")
         [] OTHER -> Return(Unplanned, "error")
    /\ UNCHANGED <<config, calls>>

\* resolve_distributed is left; only NotApplicable is caught.
CloseSource(closes) ==
    /\ pc = "closeSource"
    /\ clients' = clients \ {"source"}
    /\ RecordClose(closes)
    /\ CASE AfterClose(closes) = "none" ->
              pc' = "prepare" /\ UNCHANGED <<plan, result, resolution>>
         [] AfterClose(closes) = "NotApplicable" -> Return(Logical, "planned")
         [] OTHER -> Return(Unplanned, "error")
    /\ UNCHANGED <<config, calls>>
-----------------------------------------------------------------------------
(* _prepare_local_sources, and the assignments that publish the plan *)

Preparing == pc = "prepare" /\ prepared < Len(targets)
Target == targets[prepared + 1]
Ranges == config.split \in {"range", "auto"}

Prepared ==
    /\ prepared' = prepared + 1
    /\ UNCHANGED <<plan, result, pc, asked, topology, node, targets, known, exc>>

\* A source with what the split needs, or that is read by one query.
PrepareSource ==
    /\ Preparing
    /\ config.split = "auto" => Target.known
    /\ config.split = "partition" => Target.known \/ config.policy = "single"
    /\ Prepared
    /\ UNCHANGED <<config, calls, raised, clients>>

\* A DiscoveryError: no sorting key, no suitable column, no range facts, or
\* no partitions where the policy insists on them.
SplitUnavailable ==
    /\ Preparing
    /\ Ranges \/ (config.split = "partition" /\ ~Target.known /\ config.policy = "error")
    /\ Record("DiscoveryError")
    /\ IF config.policy = "error" THEN Return(Unplanned, "error") ELSE Prepared
    /\ UNCHANGED <<config, calls, clients>>

\* Any other error of discover_range_facts.
PrepareFails(error) ==
    /\ Preparing
    /\ config.split = "range" \/ (config.split = "auto" /\ Target.known)
    /\ error \in Errors \ {"DiscoveryError"}
    /\ Record(error)
    /\ Return(Unplanned, "error")
    /\ UNCHANGED <<config, calls, clients>>

Publish ==
    /\ pc = "prepare" /\ prepared = Len(targets)
    /\ Return([i \in DOMAIN targets |-> targets[i].row], "planned")
    /\ UNCHANGED <<config, calls, raised, clients>>
-----------------------------------------------------------------------------
Step ==
    \/ \E engine \in {"View", "Distributed"} : DiscoverSource(engine)
    \/ OpenSource \/ Answered \/ Missing
    \/ \E rows \in Topologies : TopologyRead(rows)
    \/ \E r \in topology : SelectReplica(r)
    \/ OpenTarget \/ TargetResolved \/ AllShards
    \/ \E closes \in BOOLEAN : CloseTarget(closes) \/ CloseSource(closes)
    \/ PrepareSource \/ SplitUnavailable \/ Publish

Fault ==
    \E error \in Errors \cup {"NotApplicable"} :
        \/ Unanswered(error)
        \/ PrepareFails(error)
        \/ /\ error \in Errors
           /\ \/ DiscoverSourceFails(error) \/ OpenSourceFails(error)
              \/ OpenTargetFails(error)

Ended == pc = "idle" /\ calls = Calls /\ UNCHANGED vars

Next == Call \/ Step \/ Fault \/ Ended

Spec == Init /\ [][Next]_vars
-----------------------------------------------------------------------------
Places == {"idle", "discover", "connect", "source", "shard", "open", "target",
           "closeTarget", "closeSource", "prepare"}

TypeOK ==
    /\ config \in Configs /\ calls \in 0..Calls
    /\ result \in {"none", "planned", "error"}
    /\ plan \in {Unplanned, Logical} \cup Seq(Replicas)
    /\ raised \subseteq [at : Places, error : Errors \cup Gap]
    /\ pc \in Places /\ clients \subseteq {"source", "target"}
    /\ topology \in Topologies \cup {{}} /\ node \in Replicas \cup {NoNode}
    /\ targets \in Seq([row : topology, known : BOOLEAN])
    /\ asked \in Nat /\ prepared \in 0..Len(targets)
    /\ known \in BOOLEAN /\ exc \in {"none"} \cup Errors \cup Gap

\* metadata_reader closes what it opened: whichever question fails, and
\* whether closing fails or not, no client is open when resolution is over,
\* and never one for a target without one for the source.
ClientsClosed ==
    /\ pc \in {"idle", "discover", "connect", "prepare"} => clients = {}
    /\ "target" \in clients => "source" \in clients
    /\ pc \in {"shard", "open", "closeSource"} => clients = {"source"}

\* The errors that may be part of a call that succeeds: a confirmed gap, and
\* a split that one of the shards cannot have if discovery_policy allows it.
Absorbed(r) ==
    \/ r.error = "NotApplicable"
    \/ r.error = "DiscoveryError" /\ r.at = "prepare" /\ config.policy = "single"

\* Real errors are raised and gaps are not: a call succeeds if and only if
\* nothing worse than Absorbed happened, and a gap of any node makes the whole
\* table be read logically ("errors remain errors", architecture.md).
ErrorsRemainErrors ==
    pc = "idle" /\ raised # {} =>
        /\ result = "planned" <=> \A r \in raised : Absorbed(r)
        /\ result = "planned" /\ (\E r \in raised : r.error = "NotApplicable") =>
               plan = Logical

Promise == INSTANCE LocalReadPlan

\* Resolution, preparation and publication together keep what LocalReadPlan
\* promises: a whole plan or none, which later calls reuse.
ImplementsPlan == Promise!Spec
=============================================================================
