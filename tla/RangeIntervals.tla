--------------------------- MODULE RangeIntervals ---------------------------
(***************************************************************************)
(* The intervals of a range split: the facts they are planned from, the    *)
(* WHERE clause build_select (_sql.py) makes of one, and in closed form    *)
(* what the loop of plan_integer_ranges (_planning.py) returns.  RangePlan *)
(* has the loop itself.                                                    *)
(***************************************************************************)
EXTENDS Integers

CONSTANTS
    None,  \* Python's None: an open end, or no extremes
    Null   \* the NULL of the column

ASSUME NoneAssumption == None \notin Int /\ Null \notin Int

\* What the aggregate query of discover_range_facts can return: without a
\* value that is not NULL there are no extremes, and two different values
\* take two rows.
IsFacts(f) ==
    /\ f.total \in Nat /\ f.nulls \in 0..f.total
    /\ IF f.total = f.nulls
       THEN f.minimum = None /\ f.maximum = None
       ELSE /\ f.minimum \in Int /\ f.maximum \in Int /\ f.minimum <= f.maximum
            /\ f.minimum < f.maximum => f.total - f.nulls >= 2

Least(a, b) == IF a <= b THEN a ELSE b
Greatest(a, b) == IF a <= b THEN b ELSE a

\* min(max(1, target_tasks), max_tasks, facts.total_rows)
TaskCount(f, r) == Least(Least(Greatest(1, r.target), r.max), f.total)

Width(f) == f.maximum - f.minimum + 1
Step(f, r) == Greatest(1, (Width(f) + TaskCount(f, r) - 1) \div TaskCount(f, r))

Interval(l, u, n) == [lower |-> l, upper |-> u, null |-> n]
HasNulls(f) == f.nulls > 0

\* The early returns: no rows, only NULLs, one value or one task.
Trivial(f, r) ==
    \/ f.total = 0
    \/ f.minimum = None
    \/ f.minimum = f.maximum
    \/ TaskCount(f, r) = 1

EarlyResult(f) ==
    IF f.total = 0 THEN << >>
    ELSE IF f.minimum = None THEN <<Interval(None, None, HasNulls(f))>>
    ELSE <<Interval(f.minimum, None, HasNulls(f))>>

\* The loop in closed form: interval k starts k - 1 steps above the minimum.
PlannedRanges(f, r) ==
    IF Trivial(f, r) THEN EarlyResult(f)
    ELSE LET start(k) == f.minimum + (k - 1) * Step(f, r)
             count == Least(TaskCount(f, r), (Width(f) + Step(f, r) - 1) \div Step(f, r))
         IN [k \in 1..count |->
               Interval(start(k),
                        IF k = TaskCount(f, r) THEN None
                        ELSE Least(f.maximum + 1, start(k + 1)),
                        k = 1 /\ HasNulls(f))]

\* The WHERE clause for interval i and column value v: without an end there is
\* no clause, as _make_task then names no range column; a comparison with NULL
\* is not true; range_include_null adds OR IS NULL to the range clause.
Selects(i, v) ==
    \/ i.lower = None /\ i.upper = None
    \/ /\ v # Null
       /\ i.lower # None => v >= i.lower
       /\ i.upper # None => v < i.upper
    \/ v = Null /\ i.null
=============================================================================
