------------------------------ MODULE SplitRead ------------------------------
(***************************************************************************)
(* A read of a table by several tasks: the driver collects what it splits  *)
(* by (_ensure_planning_snapshot, _prepare_local_sources), makes read      *)
(* tasks of it (get_read_tasks), and workers run their queries one by one  *)
(* while other clients insert into the table and delete from it.  With     *)
(* convert_distributed_to_local the shards of a Distributed table are      *)
(* planned and read one by one, and a task may hold scans of several.      *)
(*                                                                         *)
(* No snapshot is shared: each query sees the table as it is when it runs. *)
(* What the intervals of RangeIntervals and the groups of PartitionGroups  *)
(* are worth is decided here, against a table that changes.                *)
(***************************************************************************)
EXTENDS RangeIntervals, Sequences, FiniteSetsExt

CONSTANTS
    Layouts,  \* what may be read: [rows, shards, local], below
    Configs,  \* [split, policy, target, max, parallelism]
    Changes,  \* a bound: rows inserted or deleted by other clients
    Reruns    \* a bound: tasks that Ray executes again

ASSUME SplitAssumption ==
    /\ \A l \in Layouts :
           /\ IsFiniteSet(l.rows)
           /\ \A r \in l.rows : r.shard \in Range(l.shards) /\ r.value \in Int \cup {Null}
           /\ l.shards \in Seq(Range(l.shards)) /\ l.shards # << >> /\ IsInjective(l.shards)
           /\ ~l.local => Len(l.shards) = 1
    /\ \A c \in Configs :
           /\ c.split \in {"single", "partition", "range", "auto"}
           /\ c.policy \in {"single", "error"}
           /\ c.target \in Nat \ {0} /\ c.max \in Nat /\ c.max >= c.target
           /\ c.parallelism \in Int
    /\ Changes \in Nat /\ Reruns \in Nat

VARIABLES
    layout, config,
    table, fresh,      \* the rows in the table; those not yet inserted
    changes, reruns,
    phase,             \* "plan" | "read" | "failed"
    snapshots,         \* for each shard planned: [parts, range], below
    tasks,             \* for each task, its scans: [shard, parts, range]
    results,           \* for each task, the rows of the scans that have ended
    stable             \* history: the rows in the table ever since planning began

vars ==
    <<layout, config, table, fresh, changes, reruns, phase, snapshots, tasks, results, stable>>

Rows   == layout.rows    \* the rows there may be: [shard, part, value, id]
Shards == layout.shards  \* the shards planned on their own; one for a table
Local  == layout.local   \* whether they are local targets of a Distributed table

Init ==
    /\ layout \in Layouts
    /\ config \in Configs
    /\ table \in SUBSET Rows
    /\ fresh = Rows \ table
    /\ changes = 0 /\ reruns = 0
    /\ phase = "plan"
    /\ snapshots = << >> /\ tasks = << >> /\ results = << >>
    /\ stable = table
-----------------------------------------------------------------------------
(* Planning *)

Here(shard) == {r \in table : r.shard = shard}
Numbers(rs) == {r.value : r \in rs} \ {Null}

\* Mutant of RangeFacts: NULLs are not counted.
RangeFactsNoNulls(rs) ==
    [total |-> Cardinality(rs), nulls |-> 0,
     minimum |-> IF Numbers(rs) = {} THEN None ELSE Min(Numbers(rs)),
     maximum |-> IF Numbers(rs) = {} THEN None ELSE Max(Numbers(rs))]

\* The aggregate query of discover_range_facts.
RangeFacts(rs) ==
    [total |-> Cardinality(rs),
     nulls |-> Cardinality({r \in rs : r.value = Null}),
     minimum |-> IF Numbers(rs) = {} THEN None ELSE Min(Numbers(rs)),
     maximum |-> IF Numbers(rs) = {} THEN None ELSE Max(Numbers(rs))]

\* The defaults of a DiscoverySnapshot: no partitions, no range facts.
Nothing == [parts |-> {}, range |-> None]

\* What the split needs to know of a shard.
Discovered(rs) ==
    CASE config.split = "single" -> Nothing
      [] config.split = "partition" -> [Nothing EXCEPT !.parts = {r.part : r \in rs}]
      [] OTHER -> [Nothing EXCEPT !.range = RangeFacts(rs)]

NextShard == Shards[Len(snapshots) + 1]

Discover ==
    /\ phase = "plan" /\ Len(snapshots) < Len(Shards)
    /\ snapshots' = Append(snapshots, Discovered(Here(NextShard)))
    /\ UNCHANGED <<layout, config, table, fresh, changes, reruns, phase, tasks, results, stable>>

\* A DiscoveryError: the policy says whether the shard is read by one query
\* then, or not at all.
DiscoveryFails ==
    /\ phase = "plan" /\ Len(snapshots) < Len(Shards) /\ config.split # "single"
    /\ IF config.policy = "error"
       THEN phase' = "failed" /\ UNCHANGED snapshots
       ELSE snapshots' = Append(snapshots, Nothing) /\ UNCHANGED phase
    /\ UNCHANGED <<layout, config, table, fresh, changes, reruns, tasks, results, stable>>

\* An error that no policy covers, such as a refused permission.
PlanningFails ==
    /\ phase = "plan"
    /\ phase' = "failed"
    /\ UNCHANGED <<layout, config, table, fresh, changes, reruns, snapshots, tasks, results,
                   stable>>

\* task_count: min(max(1, parallelism), target_tasks, max_tasks)
TaskLimit(parallelism) ==
    Least(Least(Greatest(1, parallelism), config.target), config.max)

\* A scan without partitions has no partition clause, and one over everything
\* no range clause.
Scan(shard, parts, range) == [shard |-> shard, parts |-> parts, range |-> range]

Everything == Interval(None, None, FALSE)

\* What group_partitions may return: PartitionGroups shows that it is exact
\* and has no empty group; which group a partition goes to does not matter.
Groupings(parts, n) ==
    {g \in UNION {[1..m -> (SUBSET parts) \ {{}}] : m \in 1..n} :
        /\ UNION Range(g) = parts
        /\ \A a, b \in DOMAIN g : a # b => g[a] \cap g[b] = {}}

PartitionScans(i, n) ==
    {[k \in DOMAIN g |-> Scan(Shards[i], g[k], Everything)] :
        g \in Groupings(snapshots[i].parts, n)}

RangeScans(i, n) ==
    LET planned == PlannedRanges(snapshots[i].range, [target |-> n, max |-> config.max])
    IN [k \in DOMAIN planned |-> Scan(Shards[i], {}, planned[k])]

SingleScan(i) == <<Scan(Shards[i], {}, Everything)>>

\* Mutant of ScanChoices: no rows, no tasks.
ScanChoicesNoFallback(i, parallelism) ==
    IF snapshots[i].parts # {} THEN PartitionScans(i, TaskLimit(parallelism))
    ELSE IF snapshots[i].range # None THEN {RangeScans(i, TaskLimit(parallelism))}
    ELSE {SingleScan(i)}

\* The scans get_read_tasks may make of shard i.
ScanChoices(i, parallelism) ==
    IF snapshots[i].parts # {} THEN PartitionScans(i, TaskLimit(parallelism))
    ELSE IF snapshots[i].range # None /\ snapshots[i].range.total > 0
         THEN {RangeScans(i, TaskLimit(parallelism))}
    ELSE {SingleScan(i)}

\* The scans of the first shards, in the order of the shards.
ScansUpTo(choice) ==
    LET scans[n \in 0..Len(Shards)] == IF n = 0 THEN << >> ELSE scans[n - 1] \o choice[n]
    IN scans

AllScans(choice) == ScansUpTo(choice)[Len(Shards)]

\* The scans of all shards go to no more tasks than were asked for.
ScanGroups(n) == Least(TaskLimit(config.parallelism), n)

Grouped(scans) ==
    LET count == ScanGroups(Len(scans))
    IN [k \in 1..count |->
          [j \in 1..((Len(scans) - k) \div count + 1) |-> scans[k + (j - 1) * count]]]

\* task_count // shards, at least one
ShardBudget == Greatest(1, TaskLimit(config.parallelism) \div Len(Shards))

Plan ==
    /\ phase = "plan" /\ Len(snapshots) = Len(Shards)
    /\ IF Local
       THEN \E choice \in [DOMAIN Shards ->
                              UNION {ScanChoices(i, ShardBudget) : i \in DOMAIN Shards}] :
                /\ \A i \in DOMAIN Shards : choice[i] \in ScanChoices(i, ShardBudget)
                /\ tasks' = Grouped(AllScans(choice))
       ELSE \E scans \in ScanChoices(1, config.parallelism) :
                tasks' = [k \in DOMAIN scans |-> <<scans[k]>>]
    /\ results' = [k \in DOMAIN tasks' |-> << >>]
    /\ phase' = "read"
    /\ UNCHANGED <<layout, config, table, fresh, changes, reruns, snapshots, stable>>
-----------------------------------------------------------------------------
(* Reading *)

\* The WHERE clause of a scan (build_select).
Matches(scan, r) ==
    /\ r.shard = scan.shard
    /\ scan.parts # {} => r.part \in scan.parts
    /\ Selects(scan.range, r.value)

\* The next scan of a task runs its query, on the table as it is now.
RunScan(k) ==
    /\ phase = "read" /\ Len(results[k]) < Len(tasks[k])
    /\ results' = [results EXCEPT ![k] =
                     Append(@, {r \in table : Matches(tasks[k][Len(@) + 1], r)})]
    /\ UNCHANGED <<layout, config, table, fresh, changes, reruns, phase, snapshots, tasks, stable>>

\* Mutant of Rerun: the blocks of the first attempt are kept.
RerunAppends(k) ==
    /\ phase = "read" /\ reruns < Reruns /\ results[k] # << >>
    /\ reruns' = reruns + 1
    /\ results' = Append(results, << >>) /\ tasks' = Append(tasks, tasks[k])
    /\ UNCHANGED <<layout, config, table, fresh, changes, phase, snapshots, stable>>

\* Ray executes a task again, because it failed or its blocks were lost: all
\* its scans, whose queries are fixed, and in place of its first results.
Rerun(k) ==
    /\ phase = "read" /\ reruns < Reruns /\ results[k] # << >>
    /\ reruns' = reruns + 1
    /\ results' = [results EXCEPT ![k] = << >>]
    /\ UNCHANGED <<layout, config, table, fresh, changes, phase, snapshots, tasks, stable>>

\* A task fails for good, and the read with it.
ReadFails ==
    /\ phase = "read" /\ \E k \in DOMAIN tasks : Len(results[k]) < Len(tasks[k])
    /\ phase' = "failed"
    /\ UNCHANGED <<layout, config, table, fresh, changes, reruns, snapshots, tasks, results,
                   stable>>
-----------------------------------------------------------------------------
(* Other clients *)

Insert(r) ==
    /\ phase # "failed" /\ changes < Changes /\ r \in fresh
    /\ table' = table \cup {r}
    /\ fresh' = fresh \ {r}
    /\ changes' = changes + 1
    /\ UNCHANGED <<layout, config, reruns, phase, snapshots, tasks, results, stable>>

Delete(r) ==
    /\ phase # "failed" /\ changes < Changes /\ r \in table
    /\ table' = table \ {r}
    /\ stable' = stable \ {r}
    /\ changes' = changes + 1
    /\ UNCHANGED <<layout, config, fresh, reruns, phase, snapshots, tasks, results>>

Done == phase = "read" /\ \A k \in DOMAIN tasks : Len(results[k]) = Len(tasks[k])

Ended == (phase = "failed" \/ Done) /\ UNCHANGED vars

Next ==
    \/ Discover \/ DiscoveryFails \/ PlanningFails \/ Plan
    \/ \E k \in DOMAIN tasks : RunScan(k) \/ Rerun(k)
    \/ ReadFails
    \/ \E r \in Rows : Insert(r) \/ Delete(r)
    \/ Ended

Spec == Init /\ [][Next]_vars
-----------------------------------------------------------------------------
\* The scans that returned r.
Readers(r) == {x \in UNION {{k} \X DOMAIN results[k] : k \in DOMAIN results} :
                  r \in results[x[1]][x[2]]}

\* No row is read twice, not even one that was inserted, or that no fact
\* foresaw, after planning; executing a task again does not change that.
NoRowTwice == \A r \in Rows : Cardinality(Readers(r)) <= 1

\* A row that is in the table from planning to the end is read, whatever else
\* is inserted or deleted meanwhile, whichever discovery fails, and wherever
\* the shards' scans go.
StableRowsRead == Done => \A r \in stable : Readers(r) # {}

\* A read has at least one task and no more than target_tasks, max_tasks and
\* Ray's parallelism allow, shards and groups included, and no task is empty.
\* Unless there are more shards than tasks, each task has one scan.
WithinTaskLimit ==
    phase = "read" =>
        /\ Len(tasks) \in 1..TaskLimit(config.parallelism)
        /\ \A k \in DOMAIN tasks : tasks[k] # << >>
        /\ Len(Shards) <= TaskLimit(config.parallelism) =>
               \A k \in DOMAIN tasks : Len(tasks[k]) = 1
-----------------------------------------------------------------------------
(* The inductive invariant of the proofs *)

Parts  == {r.part : r \in Rows}
Ends   == Int \cup {None}
Scans  == [shard : Range(Shards), parts : SUBSET Parts,
           range : [lower : Ends, upper : Ends, null : BOOLEAN]]

TypeOK ==
    /\ layout \in Layouts /\ config \in Configs
    /\ table \subseteq Rows /\ stable \subseteq table
    /\ phase \in {"plan", "read", "failed"}
    /\ snapshots \in
           Seq([parts : SUBSET Parts,
                range : {None} \cup [total : Nat, nulls : Nat, minimum : Ends, maximum : Ends]])
    /\ Len(snapshots) <= Len(Shards)
    /\ tasks \in Seq(Seq(Scans)) /\ results \in Seq(Seq(SUBSET Rows))
    /\ Len(results) = Len(tasks)
    /\ \A k \in DOMAIN tasks : Len(results[k]) <= Len(tasks[k])

\* A value the facts speak of.
Within(f, v) ==
    IF v = Null THEN HasNulls(f) ELSE f.minimum # None /\ f.minimum <= v /\ v <= f.maximum

\* A snapshot knows of every row of its shard that has been there since.
Foreseen ==
    \A i \in DOMAIN snapshots :
        /\ snapshots[i].parts # {} =>
               \A r \in stable : r.shard = Shards[i] => r.part \in snapshots[i].parts
        /\ snapshots[i].range # None =>
               /\ IsFacts(snapshots[i].range)
               /\ \A r \in stable : r.shard = Shards[i] => Within(snapshots[i].range, r.value)

\* No two scans of a read can return the same row, whatever it holds.
Apart ==
    \A k, l \in DOMAIN tasks : \A i \in DOMAIN tasks[k], j \in DOMAIN tasks[l] :
        \A r \in Rows : Matches(tasks[k][i], r) /\ Matches(tasks[l][j], r) => k = l /\ i = j

Covering ==
    phase = "read" =>
        \A r \in stable :
            \E k \in DOMAIN tasks : \E i \in DOMAIN tasks[k] : Matches(tasks[k][i], r)

\* A scan has returned rows that it matches, and all of those that stay.
Answered ==
    \A k \in DOMAIN results : \A i \in DOMAIN results[k] :
        /\ \A r \in results[k][i] : Matches(tasks[k][i], r)
        /\ \A r \in stable : Matches(tasks[k][i], r) => r \in results[k][i]

IInv == TypeOK /\ Foreseen /\ Apart /\ Covering /\ Answered /\ WithinTaskLimit
=============================================================================
