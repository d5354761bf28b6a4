-------------------------- MODULE PartitionGroups --------------------------
(***************************************************************************)
(* group_partitions (_planning.py): the physical partitions of a table     *)
(* are dealt to a bounded number of read tasks, the heaviest first, each   *)
(* to the group that is lightest so far.                                   *)
(*                                                                         *)
(* The hazards: a partition in no group is lost, one in two groups is read *)
(* twice, and a group without a partition is a task whose SELECT cannot be *)
(* built (build_select refuses an empty list).  A partition without bytes  *)
(* does not make its group any heavier, so groups may stay empty.          *)
(***************************************************************************)
EXTENDS Integers, FiniteSets

CONSTANTS
    Unknown,       \* Python's None
    Listings,      \* what discover_partitions may return: id -> [rows, bytes]
    GroupRequests  \* how many tasks are asked for: [target, max]

ASSUME UnknownAssumption == Unknown \notin Int

\* One entry per partition id (the query groups by it).  Ids are ordered the
\* way their strings are; integers stand for them.
ASSUME ListingsAssumption ==
    \A t \in Listings :
        /\ IsFiniteSet(DOMAIN t) /\ DOMAIN t \subseteq Int
        /\ \A p \in DOMAIN t : /\ t[p].rows \in Nat \cup {Unknown}
                               /\ t[p].bytes \in Nat \cup {Unknown}

\* ResourceLimits and get_read_tasks keep both positive.
ASSUME GroupRequestsAssumption ==
    \A r \in GroupRequests : r.target \in Nat \ {0} /\ r.max \in Nat \ {0}

VARIABLES
    partitions, asked,  \* the arguments
    waiting,            \* partition ids the loop has not placed
    buckets,            \* group index -> partition ids
    weights,            \* group index -> weight so far
    groups              \* the result: the buckets kept; Unknown before the end

groupVars == <<partitions, asked, waiting, buckets, weights, groups>>

Weight(p) ==
    IF partitions[p].bytes # Unknown THEN partitions[p].bytes
    ELSE IF partitions[p].rows # Unknown THEN partitions[p].rows ELSE 1

Smaller(a, b) == IF a <= b THEN a ELSE b

\* min(len(items), target_tasks, max_tasks); no items, no groups.
GroupCount(t, r) == Smaller(Smaller(Cardinality(DOMAIN t), r.target), r.max)

GroupInit ==
    /\ partitions \in Listings /\ asked \in GroupRequests
    /\ waiting = DOMAIN partitions
    /\ buckets = [i \in 1..GroupCount(partitions, asked) |-> {}]
    /\ weights = [i \in 1..GroupCount(partitions, asked) |-> 0]
    /\ groups = Unknown

\* sorted(..., key = (-weight, partition_id)) is a total order.
Before(p, q) == Weight(p) > Weight(q) \/ (Weight(p) = Weight(q) /\ p < q)

\* Mutant of IsFirst: in the order the partitions were listed.
IsFirstListed(p) == \A q \in waiting : p <= q

IsFirst(p) == \A q \in waiting : q # p => Before(p, q)

\* min(range(group_count), key = (weights, index))
IsLightest(i) ==
    \A j \in DOMAIN weights :
        j # i => weights[i] < weights[j] \/ (weights[i] = weights[j] /\ i < j)

Deal(p, i) ==
    /\ waiting' = waiting \ {p}
    /\ buckets' = [buckets EXCEPT ![i] = @ \cup {p}]
    /\ weights' = [weights EXCEPT ![i] = @ + Weight(p)]
    /\ UNCHANGED <<partitions, asked, groups>>

\* One iteration of the loop.
Place ==
    \E p \in waiting, i \in DOMAIN buckets :
        IsFirst(p) /\ IsLightest(i) /\ Deal(p, i)

\* Mutant of Return: a group is dropped for weighing nothing.
ReturnWeighty ==
    /\ waiting = {} /\ groups = Unknown
    /\ groups' = [i \in {j \in DOMAIN buckets : weights[j] > 0} |-> buckets[i]]
    /\ UNCHANGED <<partitions, asked, waiting, buckets, weights>>

\* The buckets with a partition are returned.
Return ==
    /\ waiting = {} /\ groups = Unknown
    /\ groups' = [i \in {j \in DOMAIN buckets : buckets[j] # {}} |-> buckets[i]]
    /\ UNCHANGED <<partitions, asked, waiting, buckets, weights>>

Returned == groups # Unknown /\ UNCHANGED groupVars

GroupNext == Place \/ Return \/ Returned

GroupSpec == GroupInit /\ [][GroupNext]_groupVars
-----------------------------------------------------------------------------
GroupTypeOK ==
    /\ partitions \in Listings /\ asked \in GroupRequests
    /\ waiting \subseteq DOMAIN partitions
    /\ buckets \in [1..GroupCount(partitions, asked) -> SUBSET DOMAIN partitions]
    /\ weights \in [1..GroupCount(partitions, asked) -> Nat]
    /\ \/ groups = Unknown
       \/ DOMAIN groups \subseteq DOMAIN buckets

\* What get_read_tasks turns into tasks: every partition in exactly one group,
\* and no group that asks build_select for no partition at all, also when
\* partitions weigh nothing.
ExactGroups ==
    groups # Unknown =>
        /\ \A i \in DOMAIN groups : groups[i] # {}
        /\ \A p \in DOMAIN partitions :
               \E i \in DOMAIN groups :
                   p \in groups[i] /\ \A j \in DOMAIN groups : p \in groups[j] => i = j

\* Two groups never differ by more than one partition of the heavier: without
\* it, that group was no heavier than the other is now.
Balanced ==
    \A i, j \in DOMAIN buckets :
        buckets[i] = {} \/ \E p \in buckets[i] : weights[i] - Weight(p) <= weights[j]

\* Sums are counts: an item of weight k has the k units <<item, 1>> to <<item, k>>.
Units(weight, items) == UNION {{p} \X (1..weight[p]) : p \in items}
Total(weight, items) == Cardinality(Units(weight, items))
Weighted == [p \in DOMAIN partitions |-> Weight(p)]

\* What group g weighs when f deals the partitions.
DealtTo(f, items, g) == {p \in items : f[p] = g}
Load(f, g) == Total(Weighted, DealtTo(f, DOMAIN partitions, g))

\* Heaviest first is what makes the dealing good: no other way of dealing the
\* partitions to as many groups has a heaviest group lighter by more than
\* Graham's factor, 4/3 - 1/(3n).
WithinFactor(n, total) ==
    \A f \in [DOMAIN partitions -> 1..n] :
        \E g \in 1..n : 3 * n * total <= (4 * n - 1) * Load(f, g)

NearOptimal ==
    groups # Unknown =>
        \A i \in DOMAIN groups :
            WithinFactor(GroupCount(partitions, asked), Total(Weighted, groups[i]))

-----------------------------------------------------------------------------
(* The inductive invariant of the proofs *)

\* While items are placed, no partition is in two buckets or both placed and
\* waiting.
Dealt ==
    /\ \A p \in DOMAIN partitions : p \in waiting \/ \E i \in DOMAIN buckets : p \in buckets[i]
    /\ \A i \in DOMAIN buckets : buckets[i] \cap waiting = {}
    /\ \A i, j \in DOMAIN buckets : i # j => buckets[i] \cap buckets[j] = {}

\* What has been placed is no lighter than what waits, and has been weighed.
Ordered == \A p \in DOMAIN partitions \ waiting, q \in waiting : Weight(p) >= Weight(q)
Weighed == \A i \in DOMAIN buckets : weights[i] = Total(Weighted, buckets[i])

\* Each group is within the factor from the beginning.
Graham == \A i \in DOMAIN buckets : WithinFactor(GroupCount(partitions, asked), weights[i])

\* The groups returned are the buckets that are not empty.
GroupsKept ==
    groups # Unknown =>
        /\ waiting = {}
        /\ groups = [i \in {j \in DOMAIN buckets : buckets[j] # {}} |-> buckets[i]]

GroupInv ==
    /\ GroupTypeOK /\ Dealt /\ ExactGroups /\ Balanced
    /\ Ordered /\ Weighed /\ Graham /\ GroupsKept
=============================================================================
