---------------------------- MODULE DatasourcePlan ----------------------------
(***************************************************************************)
(* The datasource objects that Ray's optimizer makes of one read           *)
(* (datasource.py).  apply_projection and apply_predicate answer with a    *)
(* clone, or with the object itself when the pushdown is refused; Dataset  *)
(* branches share objects, objects share what they have planned, and the   *)
(* table may be altered at any time.                                       *)
(*                                                                         *)
(* Every object keeps what it has planned: the schema, the facts that      *)
(* range bounds come from, the sources of the shards.  The hazards are a   *)
(* clone that uses what was planned for another predicate, a predicate or  *)
(* a projection that fits the schema of one moment and meets that of       *)
(* another, and a branch that feels what was asked of its sibling.         *)
(***************************************************************************)
EXTENDS Integers

CONSTANTS
    None,          \* Python's None
    Columns,       \* column names
    Predicates,    \* the conditions Ray may push, each on one column
    ColumnOf,      \* that column
    Schemas,       \* the definitions the table may have
    Names,         \* of each, its columns
    Filterable,    \* of each, the columns compile_predicate accepts
    Configs,       \* the ClickHouseReadConfigs
    Sources,       \* identities of datasource objects
    Root,          \* the one read_clickhouse makes
    MaxAlters      \* bound on ALTER TABLE

Projections == {None} \cup SUBSET Columns
Conditions == {None} \cup SUBSET Predicates
Snapshot == [schema: Schemas, facts: Conditions]
Local == [pushed: SUBSET Predicates, columns: Projections, facts: Conditions]

Source ==
    [columns: Projections, node: SUBSET Predicates, pushed: SUBSET Predicates,
     expr: SUBSET Predicates, predSchema: Schemas \cup {None},
     snapshot: {None} \cup Snapshot,
     local: {None} \cup Local,
     fallback: BOOLEAN]

Config == [columns: Projections, filtered: BOOLEAN, bindable: BOOLEAN,
           engine: {"MergeTree", "Distributed", "View"}, convert: BOOLEAN,
           ordered: BOOLEAN, split: {"single", "range", "auto"}]

ASSUME PlanAssumption ==
    /\ \A S \in SUBSET Columns \cup SUBSET Predicates : S # None
    /\ None \notin Schemas \cup Snapshot \cup Source
    /\ ColumnOf \in [Predicates -> Columns]
    /\ Names \in [Schemas -> SUBSET Columns]
    /\ Filterable \in [Schemas -> SUBSET Columns]
    /\ \A v \in Schemas : Filterable[v] \subseteq Names[v] /\ Names[v] # {}
    /\ Configs \subseteq Config
    /\ \A c \in Configs : c.columns # {} /\ (c.ordered => c.split = "single")
    /\ Root \in Sources
    /\ MaxAlters \in Nat

VARIABLES
    config,
    table, alters,  \* the table's definition on the server
    ds,             \* the datasource objects, None where there is none yet
    plans,          \* Ray's branches: a source, what was asked of the branch,
                    \* and the conditions Ray evaluates itself
    tasks           \* what the latest get_read_tasks has returned

vars == <<config, table, alters, ds, plans, tasks>>

\* A new ClickHouseDatasource.
Fresh(columns) ==
    [columns |-> columns, node |-> {}, pushed |-> {}, expr |-> {}, predSchema |-> None,
     snapshot |-> None, local |-> None, fallback |-> FALSE]

Init ==
    /\ config \in Configs /\ table \in Schemas /\ alters = 0
    /\ ds = [s \in Sources |-> IF s = Root THEN Fresh(config.columns) ELSE None]
    /\ plans = {[source |-> Root, asked |-> {}, kept |-> {}, columns |-> config.columns]}
    /\ tasks = {}

\* The columns of a projection, None for all that are configured.
Selected(columns, v) ==
    IF columns # None THEN columns
    ELSE IF config.columns # None THEN config.columns ELSE Names[v]
-----------------------------------------------------------------------------
(* _ensure_planning_snapshot *)

\* discover_schema: the table as it is, if it has the configured columns.
DiscoverSchema == {v \in {table} : config.columns = None \/ config.columns \subseteq Names[v]}

PlanSchemas(d) == IF d.predSchema # None THEN {d.predSchema} ELSE DiscoverSchema

\* discover_range_facts, which the predicate restricts, or the single query
\* when they cannot be had.
Facts(d, rangeable) == IF rangeable THEN {None, d.pushed} ELSE {None}

Converts == config.convert /\ config.engine \in {"Distributed", "View"}

\* _prepare_local_sources; the sources of the shards are alike, and one
\* stands for all.
LocalPlans(d, v) ==
    IF Converts /\ config.engine = "Distributed" /\ ~config.ordered
                /\ (config.filtered \/ d.pushed # {})
    THEN {[d EXCEPT !.snapshot = [schema |-> v, facts |-> None],
                    !.local = [pushed |-> d.pushed, columns |-> d.columns, facts |-> f]]
            : f \in Facts(d, config.split # "single")}
    ELSE {}

LogicalPlans(d, v) ==
    IF Converts
    THEN {[d EXCEPT !.snapshot = [schema |-> v, facts |-> None], !.fallback = TRUE]}
    ELSE {}

DirectPlans(d, v) ==
    IF ~Converts /\ (config.engine = "MergeTree" \/ config.split \in {"single", "auto"})
    THEN {[d EXCEPT !.snapshot = [schema |-> v, facts |-> f]]
            : f \in Facts(d, config.split # "single" /\ config.engine = "MergeTree")}
    ELSE {}

\* What d may be when planning has succeeded; a failure leaves d as it was.
Planned(d) ==
    IF d.snapshot # None THEN {d}
    ELSE UNION {LocalPlans(d, v) \cup LogicalPlans(d, v) \cup DirectPlans(d, v)
                  : v \in PlanSchemas(d)}

\* arrow_schema, and any call that fails after it has planned.
ArrowSchema ==
    /\ \E p \in plans : \E d \in Planned(ds[p.source]) : ds' = [ds EXCEPT ![p.source] = d]
    /\ UNCHANGED <<config, table, alters, plans, tasks>>
-----------------------------------------------------------------------------
(* apply_projection *)

\* source.apply_projection(projection_map) on each source of a shard.
ProjectLocal(local, columns) ==
    IF local = None THEN None ELSE [local EXCEPT !.columns = columns]

\* Mutant of ProjectedClone: the sources of the shards are shared as they are.
ProjectedCloneOnly(d, columns) == [d EXCEPT !.columns = columns]

\* copy(self), with a projection of its own.
ProjectedClone(d, columns) ==
    [d EXCEPT !.columns = columns, !.local = ProjectLocal(d.local, columns)]

\* projection_map = None keeps the projection.
Projection(d, wanted) == IF wanted = None THEN d.columns ELSE wanted

\* Mutant of ApplyProjection: the object itself is projected as well.
ApplyProjectionInPlace(p, n, wanted) ==
    /\ ds[n] = None
    /\ \E d \in Planned(ds[p.source]) :
         LET columns == Projection(d, wanted)
             clone == ProjectedClone(d, columns)
         IN /\ wanted # None => wanted \subseteq Selected(d.columns, d.snapshot.schema)
            /\ {ColumnOf[q] : q \in p.kept} \subseteq Selected(columns, d.snapshot.schema)
            /\ ds' = [ds EXCEPT ![p.source] = clone, ![n] = clone]
            /\ plans' = plans \cup {[p EXCEPT !.source = n, !.columns = columns]}
    /\ UNCHANGED <<config, table, alters, tasks>>

\* The projection must be known, and Ray projects only what the conditions it
\* evaluates itself do not need.
ApplyProjection(p, n, wanted) ==
    /\ ds[n] = None
    /\ \E d \in Planned(ds[p.source]) :
         LET columns == Projection(d, wanted)
         IN /\ wanted # None => wanted \subseteq Selected(d.columns, d.snapshot.schema)
            /\ {ColumnOf[q] : q \in p.kept} \subseteq Selected(columns, d.snapshot.schema)
            /\ ds' = [ds EXCEPT ![p.source] = d, ![n] = ProjectedClone(d, columns)]
            /\ plans' = plans \cup {[p EXCEPT !.source = n, !.columns = columns]}
    /\ UNCHANGED <<config, table, alters, tasks>>
-----------------------------------------------------------------------------
(* apply_predicate *)

\* The schema a predicate is compiled against.
PredicateSchemas(d) ==
    IF d.snapshot # None THEN {d.snapshot.schema} ELSE PlanSchemas(d)

\* compile_predicate on the selected part of the schema.
Compiles(node, selected, v) ==
    \A q \in node : ColumnOf[q] \in selected \cap Filterable[v]

\* Mutant of FilteredClone: a copy of the object, with what it has planned.
FilteredCopy(d, node, v) ==
    [d EXCEPT !.node = node, !.pushed = node, !.expr = node, !.predSchema = v]

\* Mutant of FilteredClone: the schema is left to be discovered again.
FilteredCloneSchemaless(d, node, v) ==
    [Fresh(d.columns) EXCEPT !.node = node, !.pushed = node, !.expr = node]

\* A new object: no part of the parent's plan but its schema.
FilteredClone(d, node, v) ==
    [Fresh(d.columns) EXCEPT !.node = node, !.pushed = node, !.expr = node,
                             !.predSchema = v]

\* Ray pushes a condition on a column the branch delivers.
Pushable(p, q) == p.columns # None => ColumnOf[q] \in p.columns

ApplyPredicate(p, n, q) ==
    /\ Pushable(p, q) /\ config.bindable /\ ds[n] = None
    /\ LET d == ds[p.source]
           combined == d.node \cup {q}
       IN \E v \in PredicateSchemas(d) :
            /\ Compiles(combined, Selected(d.columns, v), v)
            /\ ds' = [ds EXCEPT ![n] = FilteredClone(d, combined, v)]
    /\ plans' = plans \cup {[p EXCEPT !.source = n, !.asked = @ \cup {q}]}
    /\ UNCHANGED <<config, table, alters, tasks>>

\* The same object is the answer: the expression is not of the profile, the
\* filter cannot be combined, or the server's settings are not neutral.  The
\* branch goes on with the condition above its source.
RefusePredicate(p, q) ==
    /\ Pushable(p, q)
    /\ plans' = (plans \ {p}) \cup {[p EXCEPT !.asked = @ \cup {q}, !.kept = @ \cup {q}]}
    /\ UNCHANGED <<config, table, alters, ds, tasks>>
-----------------------------------------------------------------------------
(* get_read_tasks *)

\* An empty projection still has to read a column that carries the rows.
ScanColumns(columns, all) == IF columns = {} THEN {CHOOSE c \in all : TRUE} ELSE columns

\* _make_task on an object with these columns and this predicate.
MakeTask(source, d, pushed, columns, bounds) ==
    LET v == d.snapshot.schema IN
    [source |-> source, schema |-> v, filter |-> pushed, bounds |-> bounds,
     scan |-> ScanColumns(Selected(columns, v), Selected(None, v)),
     columns |-> Selected(columns, v), declared |-> Selected(d.columns, v)]

ReadTasks(source, d) ==
    IF d.local # None
    THEN {MakeTask(source, d, d.local.pushed, d.local.columns, d.local.facts)}
    ELSE {MakeTask(source, d, d.pushed, d.columns,
                   IF d.fallback THEN None ELSE d.snapshot.facts)}

GetReadTasks ==
    /\ \E p \in plans : \E d \in Planned(ds[p.source]) :
         /\ ds' = [ds EXCEPT ![p.source] = d]
         /\ tasks' = ReadTasks(p.source, d)
    /\ UNCHANGED <<config, table, alters, plans>>
-----------------------------------------------------------------------------
Alter ==
    /\ alters < MaxAlters
    /\ table' \in Schemas \ {table} /\ alters' = alters + 1
    /\ UNCHANGED <<config, ds, plans, tasks>>

Next ==
    \/ ArrowSchema \/ GetReadTasks \/ Alter
    \/ \E p \in plans, n \in Sources :
         \/ \E wanted \in Projections : ApplyProjection(p, n, wanted)
         \/ \E q \in Predicates : ApplyPredicate(p, n, q)
    \/ \E p \in plans, q \in Predicates : RefusePredicate(p, q)

Spec == Init /\ [][Next]_vars
-----------------------------------------------------------------------------
(* Types and properties *)

Plan == [source: Sources, asked: SUBSET Predicates, kept: SUBSET Predicates,
         columns: Projections]

Task == [source: Sources, schema: Schemas, filter: SUBSET Predicates, bounds: Conditions,
         scan: SUBSET Columns, columns: SUBSET Columns, declared: SUBSET Columns]

\* Types, and every branch has an object.
TypeOK ==
    /\ config \in Configs /\ table \in Schemas /\ alters \in Nat
    /\ ds \in [Sources -> {None} \cup Source]
    /\ plans \subseteq Plan /\ \A p \in plans : ds[p.source] # None
    /\ tasks \subseteq Task

\* Pushdown and Ray between them apply exactly the conditions asked of a
\* branch and deliver exactly its columns, in every task of the object it
\* uses, whether it reads the table, a range of it or a shard
\* (ClickHouseDatasource.apply_predicate, apply_projection, _make_task).
AnswersAsAsked ==
    \A p \in plans :
      /\ ds[p.source].expr \cup p.kept = p.asked
      /\ \A t \in tasks : t.source = p.source =>
           /\ t.filter \cup p.kept = p.asked
           /\ t.declared = Selected(p.columns, t.schema)
           /\ t.columns = t.declared

\* Range bounds come from facts about exactly the rows the task selects: a
\* clone with a predicate of its own does not use the facts of its parent
\* (_ensure_planning_snapshot, _prepare_local_sources).
BoundsOfOwnRows == \A t \in tasks : t.bounds \in {None, t.filter}

\* The schema an object plans with.
Known(d) == IF d.snapshot # None THEN d.snapshot.schema ELSE d.predSchema

\* Whatever happens to the table between two requests, the projection and the
\* predicate of an object fit the schema it declares: the predicate was
\* compiled for these columns and these types (apply_predicate,
\* _predicate_schema).
FitsDeclaredSchema ==
    \A s \in Sources : ds[s] # None =>
      /\ ds[s].pushed # {} => Known(ds[s]) # None
      /\ Known(ds[s]) # None =>
           /\ Selected(ds[s].columns, Known(ds[s])) \subseteq Names[Known(ds[s])]
           /\ \A q \in ds[s].pushed : ColumnOf[q] \in Filterable[Known(ds[s])]

\* What is asked of one branch never changes the object of another: all that
\* ever happens to an object is that it plans, once, with the schema it knows
\* (apply_projection: "Clone the scan without changing another Dataset branch
\* or its metadata").
BranchesIndependent ==
    [][\A s \in Sources : ds[s] # None =>
         \/ ds'[s] = ds[s]
         \/ /\ ds[s].snapshot = None
            /\ ds[s].predSchema \in {None, Known(ds'[s])}
            /\ [ds'[s] EXCEPT !.snapshot = None, !.local = None, !.fallback = FALSE] = ds[s]
      ]_vars
=============================================================================
