# TLA+ verification of ray-clickhouse

`ray_clickhouse` reads ClickHouse tables and queries into Ray Datasets and writes
Datasets into ClickHouse tables.  Nearly all of its difficulty is in what happens
between processes: a driver that plans from metadata it has read earlier, workers that
Ray starts, kills and may repeat, a server that may carry out a request after its sender
has given up, and rows that must come through all of that exactly once.  This directory
models that behaviour in TLA+, checks it with TLC on small instances and proves the most
important results with TLAPS for every value of the constants.

All source paths below are relative to `src/src/ray_clickhouse/`, those that begin with
`tools/`, `.github/` or a capital letter to `src/`.  `PROJECT.json` maps every definition
to the lines it models.

## 1. The system

| Component | Source | State | Operations | Talks to |
|---|---|---|---|---|
| Public API | `_api.py` | none | `read_clickhouse`, `read_clickhouse_query`, `write_clickhouse` | Ray, everything below |
| Write path | `datasink.py`, `_transport.py` (`ClickHouseInsertSession`), `_compat.py` (`prepare_write_remote_args`) | target and source schema of the sink (copied into every task), the receipt, the session's client, per-task totals | `on_write_start`, `write`, `on_write_complete`, `on_write_failed`; session `start`, `insert`, `close` | Ray's scheduler (callbacks), the server (INSERT) |
| Table management | `_ddl.py`, `_discovery.py` (`discover_target`) | `drop_started` of one call; the server's catalog | `create_or_replace_table`, `discover_target`, `validate_source_schema` | the server (SELECT, DROP, CREATE) |
| Batch slicing | `_transport.py` (`iter_batch_slices`) | offset, binary search | one generator | used by reads and writes |
| Read tasks and streams | `_transport.py` (`stream_query`, `_lookup_query_diagnostic`), `datasource.py` (`_make_task`, `_group_read_tasks`) | the open clients, the failure seen so far, the rows left of a limit | open, fetch, slice, yield, close; the query-log lookup after a failure | Ray as the consumer of a generator, the server |
| Read planning | `datasource.py` (`_ensure_planning_snapshot`, `_prepare_local_sources`, `get_read_tasks`), `_discovery.py` (`discover_partitions`, `discover_range_facts`) | the planning snapshot, the local sources | discover what to split by, fall back, make tasks | `_planning.py`, the server |
| Range planning, partition grouping | `_planning.py` | loop variables | `plan_integer_ranges`, `group_partitions` | read planning |
| Pushdown on clones | `datasource.py` | predicate, projection, snapshot and local sources of each datasource object | `apply_projection`, `apply_predicate`, `arrow_schema`, `get_read_tasks` | Ray's optimizer, whose branches share objects |
| Distributed resolution | `_distributed.py` | metadata clients, resolved targets, what each node has answered | `resolve_distributed`, `MetadataReader`, `metadata_reader` | one replica of each shard, read planning |
| Query reads | `_query.py`, `_discovery.py` (`discover_query_schema`) | the schema plan, kept | `arrow_schema`, `get_read_tasks`; one task | the server |
| Predicates | `_predicates.py`, `_compat.py` (`decode_predicate`) | none | compile an expression to SQL or refuse it | pushdown on clones |
| Filters and parameters | `_sql.py`, `_models.py`, `_query.py` | none | validate, choose a binding protocol, build a query | planning, tasks, clickhouse-connect |
| Types and schemas | `_schema.py` | none | parse, compare, validate | planning, tasks, writes |
| Errors | `_errors.py`, both `_translate` | none | exception to error class | everything |
| Release promotion | `tools/check_release.py`, `.github/workflows/release.yml` | TestPyPI, PyPI, the release tag, the GitHub Release, receipts | dry run, TestPyPI, tag, PyPI, GitHub Release, each a workflow run | package indexes, GitHub |
| Models, configuration, Ray compatibility, other tooling | `_models.py`, `_compat.py`, `tools/`, `scripts/` | none | value checks, version shims | everything |

### What is hard, and what must hold

* **Writes.**  An INSERT whose answer is lost may be applied now, later or never.  Ray
  repeats crashed tasks by default.  Tasks fail while their siblings go on.  It must hold
  that no batch is written twice, that a receipt means that everything is in the table,
  that an error which does not admit an unknown outcome is right about what was written,
  and that the call ends.
* **Table management.**  Existence check, DROP, CREATE and discovery are separate
  requests, other writers run in between, and a DROP or CREATE may be carried out after
  its sender gave up.  It must hold that a call that may have destroyed a table says so,
  that only the call that created a table goes on as its creator, and that a late DROP
  does not hit the call's own table.
* **Read planning.**  The split is computed from metadata of one moment, the tasks run
  their queries at others, without a shared snapshot.  Rows that stay put must be read
  exactly once, and no row twice, whatever discovery fails and wherever the budget of
  tasks sends the scans of several shards.
* **Arithmetic at joints.**  Intervals, slices and groups must cover exactly: a rest, a
  last upper bound, a NULL, a tie or a row larger than the byte limit is where a row gets
  lost or read twice.
* **Read tasks.**  Three nested generators, up to two open clients and an exception that
  cleanup must not replace; Ray may stop iterating at any block.
* **Planning over several nodes.**  A read of a Distributed table is planned by asking
  the entry node and one replica of each shard, with two clients open at a time.  A
  confirmed lack of a capability anywhere must lead to the logical read, a real error
  must never, and a plan must be whole: one replica of every shard, on servers of their
  own, and nothing of a call that failed.
* **Clones.**  Ray's optimizer makes datasource objects of one another, in any order with
  planning, while the table may be altered.  A task must apply the conditions and deliver
  the columns of its own branch, with range bounds from facts about its own rows, and
  nothing asked of one branch may be felt by another.
* **Predicates.**  Ray gives up its own filter when a predicate is accepted.  ClickHouse
  must keep exactly the rows that Arrow would have kept: NULL under NOT, literals at the
  limits of a type, a literal on the left.
* **Binding.**  One query has one binding protocol, chosen by the driver from the text of
  all of it.  Whatever filter, predicate and split values come together, every
  placeholder must be bound and no literal text formatted, and what cannot work must be
  refused before a task is made of it.
* **Query reads.**  DESCRIBE, probe and each run of the task are separate requests.  Ray
  must be told the schema of one result, and every block must have it.
* **Releases.**  Every push of a version makes a candidate; the runs of two candidates
  may interleave and may end anywhere.  What reaches PyPI must be what was tested and
  tagged, receipts must be true, and an operation that is repeated must go on.

`PROJECT.json` lists each hazard at its line with the properties that would catch it.

## 2. Modules

| Module | Models | Checked by | Proved in |
|---|---|---|---|
| `ClientErrors` | both error translators | used by four modules | |
| `AppendWrite` | what an append promises (abstract) | `write_tasks` | `WriteTasksProofs` |
| `WriteTasks` | an append: gate, driver callbacks, tasks, sessions, network, server | `MCWriteTasks` | `WriteTasksProofs` |
| `TableManagement` | create and overwrite by concurrent writers, then target discovery | `MCTableManagement` | `TableManagementProofs` |
| `BatchSlicing` | `iter_batch_slices` | `MCReadAlgorithms` | `ReadTaskProofs` |
| `RangeIntervals` | range facts, the interval arithmetic, the WHERE clause of an interval, the closed form of the planner | used by two modules | |
| `RangePlan` | `plan_integer_ranges`, one step per iteration | `MCReadAlgorithms` | `ReadPlanningProofs` |
| `PartitionGroups` | `group_partitions`, one step per partition | `MCReadAlgorithms` | `ReadPlanningProofs` |
| `RowStream` | what a read task promises Ray (abstract) | `read_task` | `ReadTaskProofs` |
| `ReadTask` | `_group_read_tasks` over `stream_query` with its diagnostics | `MCReadTask` | `ReadTaskProofs` |
| `SplitRead` | planning and tasks of a split read of a changing table | `MCSplitRead` | `ReadPlanningProofs` |
| `LocalReadPlan` | what planning a Distributed read promises (abstract) | `distributed_planning` | `DistributedPlanningProofs` |
| `DistributedPlanning` | `resolve_distributed`, `_prepare_local_sources` and the publication of the plan | `MCDistributedPlanning` | `DistributedPlanningProofs` |
| `DatasourcePlan` | the datasource objects of one read, their plans, clones and tasks | `MCDatasourcePlan` | `DatasourcePlanProofs` |
| `PredicateCompile` | `decode_predicate` and `compile_predicate`, with evaluators of both sides | `MCPushdown` | `QueryProofs` |
| `FilterBindings` | the binding protocol of a query | `MCPushdown` | `QueryProofs` |
| `QueryRead` | planning and runs of a query read | `MCQueryRead` | `QueryProofs` |
| `ReleasePromotion` | the promotion of a version | `MCReleasePromotion` | `ReleasePromotionProofs` |

The split follows the interfaces of the code.  `SplitRead` composes the planners: it uses
the closed form of the interval planner, `PlannedRanges`, which the property
`MatchesClosedForm` of `RangePlan` ties to the loop of the code, and it lets
`group_partitions` return *any* exact grouping without empty groups, which is what the
theorem `Loop_makes_groupings` establishes for `PartitionGroups`.  `ReadTask` likewise lets
a slice have any size the row limit allows, and `Slices_as_taken` says that
`BatchSlicing` yields such slices whatever the rows weigh; `WriteTasks` takes the batches of
a block as given.  `DatasourcePlan`
takes "the predicate compiles" and "the filter can be combined" as given, which
`PredicateCompile` and `FilterBindings` are about.

Two MC modules instantiate several modules that share no state: `MCReadAlgorithms` the
three algorithms, `MCPushdown` the two halves of a pushed predicate.  Their variable
`part` says which of them a behaviour runs; the others stay in one initial state, so that
the state space is the sum of the parts and not their product.

### How state and actions correspond to the code

**WriteTasks.**  `driver` is where `write_clickhouse` is: before the gate (`call`), with
prepared arguments (`ready`), in Ray's execution (`running`), ended.  `task[t]` is the
latest attempt of a task: its place in the loops of `ClickHouseDataSink.write` (`block`,
`drawn`), the totals it counts after each confirmed insert (`batches`, `rows`), its copy
of the sink's schema, the answer to its current request and the exception it will raise.
`net` and `buffered` are requests the server has not processed and its asynchronous
insert queue; `applied` counts how often a batch entered the table.  One action is one
step between two requests: `Insert` sends, `Confirmed`, `Rejected`, `GiveUp` and
`Interrupted` are the four ways `client.insert_arrow` returns.  `InsertError` is the
handler of `ClickHouseInsertSession.insert`, which turns a transport failure into
`AmbiguousWriteError`; `PrepareRemoteArgs` is the no-replay gate.  Ray is modelled from
its documented behaviour: a crashed task is repeated while `max_retries` allows, a raised
exception only with `retry_exceptions`, and the first failure that is not retried ends
the call without waiting for the other tasks.  Batches are numbered through all blocks of
a task and blocks are known by the index of their last batch, so that the content of
Arrow tables disappears while empty blocks remain.

**TableManagement.**  A writer's `pc` follows `create_or_replace_table` statement by
statement (`dropStarted` is the local of that name), then `discover_target` with its two
queries.  The catalog holds one *incarnation* of the table, named for the writer that
created it, which lets a property tell a table from its replacement.

**ReadTask.**  `pc` is the innermost generator's position, `exc` the exception in flight,
`failure` the local variable that the `finally` block of `stream_query` consults, and
`clients` the open connections.  The three nested generators are folded into one program
counter: closing the outer closes the inner, which is `Resume` (limit reached) and
`CloseEarly` going to the `close` step.

**SplitRead.**  `facts`, `tasks` and `results` are per shard and per task; `RunScan` runs
one query on the table *as it is then*, `Rerun` is Ray executing a task again, `Insert`
and `Delete` are other clients (an update is a delete and an insert).  `stable` is a
history variable: the rows that have been in the table since planning began.  Its inductive
invariant has four parts besides the types: a snapshot knows every stable row (`Foreseen`),
no two scans can return the same row (`Apart`), together they match every stable row (`Covering`),
and a scan returns only rows it matches and every stable one of them (`Answered`).

**DistributedPlanning.**  `pc` is the place in `_ensure_planning_snapshot` and, below it,
in `resolve_distributed`.  `clients` are the metadata readers whose `with` blocks are
open, `exc` the exception that is leaving them, `node` the replica being asked and
`targets` the shards resolved.  A method of `MetadataReader` that `resolve_distributed`
calls, together with the comparison made of its answer, is one *question*: it is answered,
or it is left by one of its exits.  `Exits` says which questions can end in
`NotApplicable`, which only lack a piece the split would have used (`Missing`), and any
can fail or be interrupted.  Nodes may answer differently each time, so neither the
caches of a reader nor the stability of the servers is relied on.  `raised` is a history
variable: the errors of the latest call and where they came from.  Questions asked for
the first time in `columns` cannot find a gap, because `engine` or `context` has looked
up the same system tables before (`MetadataReader.capability` caches them).

**DatasourcePlan.**  `ds` are the objects (`_selected_columns`, `_predicate_node`,
`_pushed_predicate`, `_predicate_expr`, `_predicate_schema`, and what they have planned:
`snapshot`, `local` for `_local_sources`, `fallback`).  A predicate is a set of
conditions and a compiled one the same set, so that `node`, `pushed` and `expr`
can disagree only if the code mixes up objects.  `plans` is Ray's side: a branch, the
object it uses, what was asked of it, and the conditions that were refused and stay above
the source.  Every method plans first if its object has no snapshot
(`Planned`), and planning that fails leaves the object alone.  `table` is the definition
on the server, which `Alter` changes between any two requests.

**FilterBindings.**  A text is a set of pieces: where each stands (code, quote, comment)
and what it holds (plain text, a percent sign, a placeholder of either protocol, or
something malformed).  `Configure`, `PushPredicate` and `Send` are the three moments at
which the code validates; `Driver` is what clickhouse-connect does with the text
and the names it gets, which is external to the repository.

**PredicateCompile.**  `expression` is what Ray offers, grown by its operators; `accepted`
and `compiled` are what the datasource holds.  A tree is the sequence of its nodes in the
order in which a traversal leaves them, so that what the recursion of `render` passes
along is a set of nodes (`Visited`) and a count of earlier ones (`Number`, which is
`len(parameters)`).  `CompilePredicate` refuses as a whole.  `Arrow`
and `ClickHouse` evaluate the expression and the compiled tree on a row, in three-valued
logic; they model the two engines and not the connector.

**QueryRead.**  `pc` is the place in `discover_query_schema`, `columns` its DESCRIBE,
`plan` the plan that is kept, `told` the schema Ray got first, `task` what
`get_read_tasks` put into the task and `stream` the result of the current run.
`relation` is what the query would return now.

**ReleasePromotion.**  `index`, `tag` and `release` are what the world holds of one
version, `runs` the workflow runs and the step each is at, `receipts` what they uploaded.
One action is one step of a job, or one upload of a file; between any two of them
another run may act, and `Fail` ends a run before or after its request had an effect.
`PutByHand` is a maintainer with the rights to do so.

**BatchSlicing, RangePlan, PartitionGroups.**  The loop variables of the functions, one
action per iteration and per exit.  Python's integers are unbounded, and so are the
model's.

## 3. Runs

| Run | What it shows | Instance |
|---|---|---|
| `write_tasks` | exact receipts, no replay, honest errors, prefixes, the promise of `AppendWrite`, and that the call returns | two tasks, up to two batches each, four Datasets, three kinds of arguments, both insert modes and wait settings |
| `table_management` | drops are admitted, creators are creators, no self-destruction, no writing into the replaced table, every writer settles | two writers with any two of seven calls, table present or not |
| `overwrite_inputs`, `overwrite_ambiguity` | the two disagreements of section 6 | one writer |
| `read_algorithms` | a range split reads every value once and equals its closed form; every partition is in one non-empty group, within Graham's bound of every other dealing; slices are adjacent, cover the table, respect both limits and are maximal | ranges: extremes in -3..4, up to 7 rows, targets 0 to 5, column values beyond the extremes; groups: up to 5 partitions of weight 0 to 3, some without a byte count, up to 3 groups; slices: every table of up to 7 rows weighing 0, 1 or 4 bytes, limits of 5 rows (the least interval in which the search ends on one untried size) and 3 bytes |
| `read_task` | clients released, errors kept, the promise of `RowStream`, termination | three plans of one to three scans with empty batches and empty scans, six limits, two lookup attempts |
| `split_read` | no row twice, stable rows exactly once, no more tasks than allowed, and tasks shared between shards only when there are more shards than tasks | two layouts: four rows of one table in two partitions, and two local shards of two rows, a NULL in each; every split mode, two concurrent changes, one repeated task |
| `distributed_planning` | clients closed, errors remain errors, the promise of `LocalReadPlan` | six clusters, twelve configurations, two calls |
| `datasource_clones` | tasks answer what was asked of their branch, bounds come from facts about their own rows, predicates and projections fit the declared schema, branches are independent | three objects, three columns, two conditions, two definitions of the table, five configurations |
| `pushdown` | every placeholder bound, literal text untouched, refusals early; ClickHouse keeps the rows Arrow keeps | bindings: every filter of up to three of twelve pieces, every subset of two names, every kind of query; predicates: nine columns, eleven literals, two operators on top |
| `query_read` | blocks as told, a schema of one result | eleven results of one or two columns, two alterations, two runs |
| `release_promotion` | published as tested, receipts true and chained, repeated operations go on | three candidates (one of failed tests), six runs, one failure, one repetition, one thing put in place by hand |

Why these bounds are enough to be interesting:

* `write_tasks`: a violation needs at most a confirmed batch, a batch of unknown fate
  behind it and a sibling task; two batches and two tasks give all of these, and the
  four Datasets add an empty block, a schema that changes between blocks, a value the
  target refuses, a refused schema and no input at all.  There is no bound on steps: the
  state space is finite because no action repeats a request.  The theorems cover all
  other sizes.
* `table_management`: two writers are enough for each pair of requests to interleave; a
  writer sends at most one DROP and one CREATE.  The theorems cover more writers.
* `read_algorithms`: eight values and up to five tasks give every rest of width modulo
  tasks, and more tasks than values.  Ties, zero weights and more groups than partitions
  all occur; Graham's worst case 7/6 for two groups needs the weights 3, 3, 2, 2, 2, which
  are in the instance.  The theorems cover all other sizes.
* `read_task`: `BatchRows = 2` against batches of 0 to 5 rows puts limits inside, at the
  end of and between slices, batches and scans.
* `split_read`: `Changes = 2` allows a delete and an insert (an update) on either side
  of discovery and of each query; `Reruns = 1` lets a task be repeated after part of its
  scans.  Both are named constants that appear in guards.
* `distributed_planning`: the clusters are a replicated one, a circular one, one whose
  shards meet on one server, one with a row given twice, one of a single replica, and an
  empty one; two shards suffice to have one resolved when the other fails.  `Calls = 2`,
  a named constant that appears in the guard of `Call`, lets a call follow one that
  failed or one that succeeded.  The configurations are every split mode under both
  discovery policies, and the ways not to be eligible.
* `datasource_clones`: with the root there are two clones, either of one another or side
  by side; the other definition of the table drops a column and makes another one
  unfit for predicates.  `MaxAlters = 1` puts it before or after anything planned.  The
  theorems cover all other sizes.
* `pushdown`: three pieces are one per party, or a pair and something between; a
  condition of a filter is about at most two pieces.  Int64 is three bits wide and the
  other integers two (`LongBits`), so that every value of a row's type and every literal up
  to one past the limits is tried; `MaxNodes` and `MaxDepth` are scaled down so that
  expressions reach them within `Growth = 2` operators and one combination.
* `query_read`: `MaxAlters = 2` puts a change between DESCRIBE and probe and another
  one before the task; `MaxRuns = 2` lets one run succeed and the next meet a change.
* `release_promotion`: two good candidates share their wheel, so that a file alone does
  not tell them apart; six runs are a whole promotion with one run to spare.  The limits
  `MaxFailures`, `MaxRepeats` and `MaxStrays` are 1 each.  The theorems cover all other
  numbers.

Deadlock is checked in the runs of protocols that must come to an end; each of their
modules has an explicit step for having ended.  It is not checked in `datasource_clones`,
`pushdown`, `query_read` and `release_promotion`, where callers and maintainers may stop at
any time and the bounds use the rest up.

### Fairness

* `WriteTasks`: weak fairness of the driver and of each task's own steps.  The driver
  loop and the workers run, and a call that waits is ended, at the latest, by
  `query_timeout_seconds`, which is `GiveUp`.  Nothing is assumed of the server or the
  network: `CallReturns` holds even if no request is ever processed.
* `TableManagement`: weak fairness of each writer, for the same reason.
* `ReadTask`: weak fairness of the generator's steps (each request is answered or times
  out) and of the consumer, who asks for the next block or closes the generator.

No other run needs fairness.  That a repeated operation of a promotion goes on is stated
as a safety property, `Continues`: wherever a run is, unless the version is spoiled, the
check of the step it is at holds (`Passes`, a conjunct per step, of the same guards that
the actions have; that it agrees with ENABLED in every reachable state was checked with
TLC).  Nothing makes maintainers repeat one.

## 4. Proofs

All constants are arbitrary up to the named assumptions: the limits are positive
(`ResourceLimits.__post_init__`), sizes of Arrow slices are monotone, range facts are
those of some column, a Dataset's blocks end in batches of increasing index, a missing
`max_retries` is not a number, the rows of a table are finitely many, an integer column
has a width of at least one bit and at most that of Int64 and holds what fits, and None
and an exception of Arrow are no values.

* **ReadPlanningProofs**, from the two algorithms to the rows that are read:
  - `RangePlan`: `EveryValueOnce`, from `NoValueTwice` and `NoValueLost`.  The inductive
    invariant says that the intervals so far tile the numbers below `lower`, that NULL
    belongs to the first, and that the loop has not used up the tasks.  The arithmetic
    fact behind `NoValueLost` is that `TaskCount` steps of size `Step` reach beyond the
    maximum.  `Loop_as_planned` ties the loop to the closed form: before iteration
    `index`, `lower` is `index` steps above the minimum, and the iterations end when these
    steps reach the width of the column, which is the quotient rounded up (`Ceiling`).
  - `PartitionGroups`: `EveryPartitionOnce`, `EvenGroups`, `Near_optimal`.  The buckets and the partitions
    still to be dealt are a division of the table, `weights` are the buckets' sums in
    increments, and the gap between two buckets never exceeds a weight that one of them
    has received.  `Loop_makes_groupings`: what the loop returns is a grouping of the
    kind that `SplitRead` takes.  `Near_optimal` is Graham's
    bound for this rule, against every other assignment of the partitions to as many
    groups.  Sums of weights are cardinalities of sets of units, so that counting arguments
    need no induction over an assignment (`Room`, `Fill`).  The partition dealt now is the
    lightest so far, because the heaviest come first.  If it weighs at most a third of the
    other assignment's fullest group, that group is at least the average, which bounds
    what the lightest group held before (`SmallLast`).  If it weighs more, the lightest group
    stays within the other's fullest: were it not so, a partition alone in its group
    could count twice, every group here would hold two and every group there two at
    most, of one partition more (`LargeLast`).
  - `SplitRead`: `No_row_twice`, `Stable_rows_read`, `Within_task_limit`, for any tables,
    shards, splits and numbers of changes and repetitions.  The invariant says of a read
    under way that the scans of each shard partition what its rows may be like:
    the intervals tile whatever the column holds (`EveryValueOnce` in closed form), the
    groups divide the partitions, one scan takes everything.  It says of every task which
    rows its scans have returned: rows of its own part of the table, once, and
    all of those that have been there since planning began.  Different tasks have different
    parts, so a row is read by one task at most.
* **ReadTaskProofs**: `TypeCorrect`, `NothingLeftOpen`, `ErrorSurvives`, by `ClientsHeld` (which clients
  are open at each place) and `InFlight` (which exception is in flight there, and
  whether `failure` knows it).  The types need `Searched` besides: the scan being read is
  one of the plan, and the log is searched a bounded number of times after a failure.
  `TaskImplementsRowStream` is the refinement of `RowStream`: what has been delivered is
  the first `Sliced` rows of all scans in their order (`FirstRows`), a block that is yielded
  continues them (`RowsFollow`), and the rows left of a limit are those not delivered.
  `Every_step_advances`: each step decreases, lexicographically, the scans left, the
  batches left of the scan, the rows left of the batch, the lookups left, and the `Stage`
  of the generators.
  `BatchSlicing`: `ExactlySliced`, from `NoRowLost` and `LargestSlices` (and type
  correctness, `SliceInvariance`).  They speak of slices that were yielded; what makes
  them inductive is `SearchInv`, the invariant of the binary search: every size below
  `low` fits, every size above `high` does not, and `size` is the last that fitted.
* **TableManagementProofs**: `Drops_admitted`, `Confirmed_made`, `No_self_destruct`,
  `Plans_new_table`, for any number of writers and any arguments.  The properties speak of
  a writer that has ended; the invariant says of every label what it leaves behind.
  `DropMarked`: a DROP that was carried out or still may be has been marked, and where the
  call has failed since, its error admits it.  `CreateOnce`: a writer has made no table
  before it sends its CREATE, and sends none while a DROP of its own is on its way, so
  that what a late DROP hits is never its own.  `OldStaysGone`: once any CREATE has been
  carried out, the table that exists is not the old one.  A step of a writer only has to
  re-establish this for that writer (`OwnStep`, `GotoStep`, `FailStep`); a step of the
  server takes one request off the network (`ServerKeeps`).  `Calls_advance`: a step of a
  writer takes it to a later `Stage`, a step of the server changes no more than a reply.
* **QueryProofs**, what is sent and what is told:
  - `QueryRead`: `Delivered_as_told` and `Told_of_one_result`, for any results of the
    query.  A call runs only where there is no plan, so nobody has been told a schema when
    it ends (`Planning`), and what Ray and the task hold is that plan (`Told`).  The probe
    has the names of the DESCRIBE in their order whatever the query returns by then
    (`SelectKeepsNames`), and `_schema_plan` compares the rest.
  - `FilterBindings`: `Every_placeholder_bound`, `Literals_untouched`, `Refused_early`, for
    any filters and parameter names.  The invariant, `BindInv`, is that a filter that got past
    `Configure` is valid by itself (`Validated`) and a predicate only joins one that has
    the same protocol; what a query is sent with follows, piece by piece, from which party
    brought a placeholder.
  - `PredicateCompile`: `Same_rows`, for any columns, widths, rows and literals and
    expressions of any shape and size.  The invariant, `TreeInv`, says that what was
    accepted is a tree all of which could be rendered.  For such a tree the values of its
    nodes are the same on both sides, by induction on the place of a node (`SameTree`):
    a connective has operands that are visited themselves (`VisitedNodes`), a condition is
    compared alike (`SameCondition`).  The latter rests on two facts: a literal that `bind`
    accepts fits its column and Int64, and comes out of the wrapping of a typed parameter
    as it was (`IntegerFits`), and no two conditions have one number (`Numbered`).
* **WriteTasksProofs**: `TypeCorrect`, `WrittenOnce`, `PrefixWritten`, `DefiniteErrors`, `ReceiptTrue`
  and `PromiseKept`, the refinement of `AppendWrite`.  None of these properties is
  inductive.  The invariant has a part for the driver (what it has decided; after the
  gate nothing is repeated), for the network (a request is in one place, only
  asynchronous inserts are queued), and three for each task: `Once` (an attempt is the
  first), `Position` (where the loops of `write` are) and `Ledger`, which relates the
  counters of the task to the table and the network: at most the batch after the
  confirmed ones is in doubt, its request is the only one outstanding, it has not been
  applied while it is outstanding, and a task that has not seen an ambiguous failure has
  nothing outstanding at all.  A step of a task that leaves the server alone only has to
  re-establish these three for that task (`LocalStep`); a step of the server disposes of
  one request (`Processed`).  `Every_step_advances`: a task has `StepsLeft` until it ends,
  two for each block and each batch that is left and those of the `Stage` it is at, and
  every step of it leaves fewer; that a task is launched once (`NoRetry`) is what makes
  this true of a task that has failed.
* **DistributedPlanningProofs**: `TypeCorrect`, `Closing`, `Errors_remain_errors` and
  `Implementation`, the refinement of `LocalReadPlan`, for any clusters and configurations.  The inductive
  invariant says which readers are open at each place (`ClientInv`); that at most one
  error has been raised before local sources are prepared, and that it is the one in
  flight while readers are closed (`ErrorInv`); and that the targets so far are of
  different shards on different servers, the current node belongs to neither, and no
  shard is left when preparation begins (`PlanInv`).

* **DatasourcePlanProofs**: `TypeCorrect`, `Answers_as_asked`, `Bounds_of_own_rows`,
  `Fits_declared_schema`, `Branches_independent`, for any number of objects, predicates
  and alterations.  The invariant has a part for each object (`ObjectInv`: one predicate
  in all its places, compiled for the schema the object knows, and everything planned was
  planned under it), for each branch (`PlanInv`: the object's predicate and the conditions
  Ray kept are what was asked) and for each task (`TaskInv`: it is its object's).  An
  object once made only ever plans (`OnlyPlans`), which carries `PlanInv` and `TaskInv`
  over every step of another branch.
* **ReleasePromotionProofs**: `TypeCorrect`, `Published_as_tested`, `Receipts_true`,
  `Receipts_chained`, for any number of candidates, runs, failures and things put in
  place by hand.  The argument is the chain itself: an operation other than the dry run
  started from a receipt (`Founded`), receipts are true when they are made (`RunInv`), and
  nothing that one tells of is ever replaced (`Stable`).  Two candidates of one version
  cannot both get past the tag, and only the one that did publishes to PyPI.  `Writers`
  is needed for the assets of the GitHub Release, which are not added at once: one run
  adds them, to a draft.  `Repetition_continues` says that a repeated operation goes on.
  What an earlier operation left is still there (`Foundation`), and what this run relied
  on at its last step, too (`Seen`); where neither index, tag nor release is spoiled, that
  leaves only the candidate itself to be found.  For the release this needs `ReleaseInv`:
  its assets are those of the candidate that the tag names, whoever added them.

Where a component has a proof, its types are a theorem (`TypeCorrect`, or a part of the
invariance theorem) and not repeated in the runs; those of the other modules are checked
as far as their properties evaluate.

The inductive invariants were checked with TLC before they were proved.

Four remarks for those who extend the proofs.  tlapm 1.4.5 expands an `@` inside an
`EXCEPT` that is itself the new value of an `EXCEPT ![t] = [@ EXCEPT ...]` wrongly; the
modules therefore write `[task[t] EXCEPT !.drawn = @ + 1]` where both would occur.
Modules with theorems use recursive functions and folds, never `RECURSIVE` operators,
which the SMT backend does not support.  That backend also refuses an obligation that
names a string with a space in it, so arithmetic about the places of `ReadTask` is kept
apart from their names (`Stages`).  And the induction theorems of the library, which
take an operator, cannot be used; the proofs take the least element of a set of
counterexamples instead (`LeastNat`, from the well-foundedness of `Nat`), and build the
functions that a recursive definition denotes from their values up to each number
(`RecursiveFunction`, `ValueDef`).

### Only model-checked

Liveness (`CallReturns`, `EveryWriterSettles`, `TaskEnds`) is outside what TLAPS can do
with its installed backends.  The half of it that is about the code's data is proved: in
`WriteTasks` and `ReadTask` (`Every_step_advances`) and in `TableManagement`
(`Calls_advance`) every step decreases a measure, so that nothing goes round.  What TLC
adds is the other half: that a step is enabled until the end, and fairness.  Every safety
property and action property of the passing runs is a theorem.

## 5. Abstractions

* The server carries out one INSERT, DROP or CREATE atomically.  The connector's batches
  are single requests, and nothing in it relies on more.
* Bytes are counted like rows in totals and left out of `WriteTasks`; only
  `BatchSlicing` knows sizes.
* An exception of clickhouse-connect is one of five kinds, by the first test of
  `_translate` it meets.  A request without an answer is always reported in the words of a
  transport failure (timeouts, broken connections and failed HTTP requests are); other
  words are assumed to come from an answer of the server.
* Interrupts come while a request is waited for.  In `ReadTask` an interrupt during the
  diagnostics replaces the error, as `except Exception` in `_lookup_query_diagnostic`
  lets it; `failure` is then unset, so that a failing `close` would replace the
  interrupt in turn.  `FailureKept` allows that for interrupts and for nothing else.
* A value is accepted by `prepare_arrow_table` or not (`clean`), a schema by
  `validate_source_schema` or not; type rules are string processing.
* `TableManagement` has engine and columns of the target discovered by two queries that
  may see two incarnations of the table.  No property speaks of that: the code promises
  nothing, and the INSERT names its columns.
* `SplitRead` leaves out user filters and projections: they are the same for all scans of
  a read.
* `DistributedPlanning` reduces an answer to whether planning can go on.  What a method
  concludes from rows, the parsing of engine definitions and filters, and the values of
  the topology other than shard, replica and host are left out, and so is a `close` that
  is itself interrupted.  A cluster that changes after it was planned is outside what the
  connector supports (`doc/source/security.md:39`).
* `DatasourcePlan` has one local source for those of all shards, which the code builds
  alike.  A condition that is refused stays with its branch; that Ray keeps a filter above
  a source that refused it, and only projects away columns its own filters do not need, is
  taken from how `apply_predicate` answers.  `discover_predicate_context` and the EXPLAIN
  probe are part of the refusal.  The tasks are those of the latest `get_read_tasks`.
* `PredicateCompile` has Arrow's and ClickHouse's evaluation as far as comparisons,
  NULL and connectives go: an integer parameter of a typed placeholder wraps around at the
  width of its type, Arrow holds a Python integer in an Int64 and raises outside of it.
  These two are external.  Wrappers of a type (Nullable, LowCardinality) only say which
  values a column has.
* `FilterBindings` leaves the scanner of quotes and comments out: a text comes as pieces.
* `QueryRead` has six types, one call of `get_read_tasks`, and a query that returns its
  columns without further evaluation; what a CAST of the server returns is external.
* `ReleasePromotion` takes the three questions of the dry run as one, leaves out file
  sizes, attestations, the expiry of artifacts and GitHub's "re-run failed jobs", and nobody
  removes a tag, a file or a release.  An index with part of a version is not repaired by
  the workflow: the check wants an exact match (`CONTRIBUTING.md:58`), which `Continues`
  excepts as `Spoiled`.
* Logging, redaction and message texts are left out.

## 6. Findings

Both concern one sentence, `doc/source/security.md:26`: "Generated overwrite validates
inputs before destructive operations and reports table-management ambiguity when
replacement status is unknown."

1. `overwrite_inputs`: `on_write_start` calls `create_or_replace_table` first and
   validates the source schema against the discovered target afterwards.  A schema for
   which a CREATE TABLE can be rendered but which the writer then refuses, or a `columns`
   argument that does not fit, is reported when the old table is gone.
2. `overwrite_ambiguity`: ambiguity is reported only when `drop_started` is set.  An
   overwrite that finds no table sends CREATE without a DROP; if its answer is lost, the
   caller gets a plain `TransportError` although the table may exist.

Both are safe in the sense of the other properties (`DropsAdmitted` holds: a call that
has dropped a table and fails in table management does say so); they are divergences
between the document and the code.

## 7. Plan

Done, in this order, most important behaviour first: the write path with its abstract
promise and proofs; table management with proofs; the planners with their proofs; read tasks with
their promise and proofs; split reads; planning over the nodes of a Distributed table
with its promise and proofs; the clones of a datasource with proofs; binding of filters
and compilation of predicates; query reads with proofs; the promotion of releases with proofs.

Next:

1. `MetadataReader`: the caches and cross-checks of one node's answers (`capability`,
   `require_fields`, `columns` against DESCRIBE, the policy inventory).  Properties: an
   answer that disagrees with what the node has said before is an error, never a gap.
   It refines the questions of `DistributedPlanning`.
2. `WritePath`: `TableManagement` followed by `WriteTasks` in one call, so that receipts
   are about the table that was planned for.

The TLC runs take between seconds and a minute and a half each.

### Not modelled, and why

Type parsing and Arrow conversion (`_schema.py`) and SQL text are string processing with
no behaviour over time; most of models and configuration is value checks whose results
are assumptions of the modules; Ray version shims and the static checks of policies,
documentation and dependencies (`tools/`), CI and container scripts look at files once.
Streams of the driver (HTTP, compression) are clickhouse-connect's.  A target whose
engine and columns are discovered from two incarnations, and a cluster that changes while
it is planned, are modelled but bound by no promise of the code, so that no property
speaks of them (see the hazards in `PROJECT.json`).
