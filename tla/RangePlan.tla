----------------------------- MODULE RangePlan -----------------------------
(***************************************************************************)
(* plan_integer_ranges (_planning.py): from the number of rows, the        *)
(* extremes and the number of NULLs of an integer column to the half-open  *)
(* intervals that the read tasks of a range split select.                  *)
(*                                                                         *)
(* The hazard is at the joints: a value that no interval or two intervals  *)
(* select is a row lost or read twice.                                     *)
(***************************************************************************)
EXTENDS RangeIntervals, Sequences

CONSTANTS
    Facts,     \* the RangeFacts a table may have
    Requests,  \* how many tasks are asked for: [target, max]
    Values     \* the integers the column may hold

ASSUME FactsAssumption == \A f \in Facts : IsFacts(f)

\* ResourceLimits keeps both positive; plan_integer_ranges itself would accept
\* a target of zero.
ASSUME RequestsAssumption ==
    \A r \in Requests : r.target \in Nat /\ r.max \in Nat \ {0}

ASSUME ValuesAssumption == Values \subseteq Int

VARIABLES
    facts, request,  \* the arguments
    lower, index,    \* the loop
    ranges,          \* the intervals so far: [lower, upper, null]
    pc               \* "start" | "loop" | "done"

rangeVars == <<facts, request, lower, index, ranges, pc>>

RangeInit ==
    /\ facts \in Facts
    /\ request \in Requests
    /\ lower = 0 /\ index = 0
    /\ ranges = << >>
    /\ pc = "start"

ReturnEarly ==
    /\ pc = "start"
    /\ Trivial(facts, request)
    /\ ranges' = EarlyResult(facts)
    /\ pc' = "done"
    /\ UNCHANGED <<facts, request, lower, index>>

EnterLoop ==
    /\ pc = "start"
    /\ ~Trivial(facts, request)
    /\ lower' = facts.minimum
    /\ pc' = "loop"
    /\ UNCHANGED <<facts, request, index, ranges>>

\* Mutant of UpperEnd: every interval is closed, the last one included.
UpperEndClosed == Least(facts.maximum + 1, lower + Step(facts, request))

\* The last task has no upper end.
UpperEnd ==
    IF index = TaskCount(facts, request) - 1 THEN None
    ELSE Least(facts.maximum + 1, lower + Step(facts, request))

\* Mutant of Iterate: the intervals leave out their upper end, and so does
\* the loop.
IterateGap ==
    /\ pc = "loop"
    /\ ranges' = Append(ranges, Interval(lower, UpperEnd, index = 0 /\ HasNulls(facts)))
    /\ IF UpperEnd = None
       THEN pc' = "done" /\ UNCHANGED <<lower, index>>
       ELSE /\ lower' = UpperEnd + 1
            /\ index' = index + 1
            /\ pc' = IF UpperEnd + 1 >= facts.maximum + 1 THEN "done" ELSE "loop"
    /\ UNCHANGED <<facts, request>>

\* One iteration, with both its breaks.
Iterate ==
    /\ pc = "loop"
    /\ ranges' = Append(ranges, Interval(lower, UpperEnd, index = 0 /\ HasNulls(facts)))
    /\ IF UpperEnd = None
       THEN pc' = "done" /\ UNCHANGED <<lower, index>>
       ELSE /\ lower' = UpperEnd
            /\ index' = index + 1
            /\ pc' = IF UpperEnd >= facts.maximum + 1 THEN "done" ELSE "loop"
    /\ UNCHANGED <<facts, request>>

Terminated == pc = "done" /\ UNCHANGED rangeVars

RangeNext == ReturnEarly \/ EnterLoop \/ Iterate \/ Terminated

RangeSpec == RangeInit /\ [][RangeNext]_rangeVars
-----------------------------------------------------------------------------
\* The column values the table held when the facts were collected.
Occurs(v) ==
    \/ v \in Values /\ facts.minimum # None /\ facts.minimum <= v /\ v <= facts.maximum
    \/ v = Null /\ HasNulls(facts)

RangeTypeOK ==
    /\ facts \in Facts /\ request \in Requests
    /\ lower \in Int /\ index \in Nat
    /\ pc \in {"start", "loop", "done"}
    /\ ranges \in Seq([lower : Int \cup {None}, upper : Int \cup {None}, null : BOOLEAN])
    /\ pc = "loop" =>
          /\ index \in 0..(TaskCount(facts, request) - 1)
          /\ lower \in facts.minimum..facts.maximum

\* No value is read twice: not even one outside the extremes, such as a row
\* inserted after planning, or NULL (the half-open intervals, and
\* include_null for the first of them only).
Disjoint ==
    \A i, j \in DOMAIN ranges : \A v \in Values \cup {Null} :
        Selects(ranges[i], v) /\ Selects(ranges[j], v) => i = j

\* No value that was there when the facts were collected is left out, however
\* the width divides by the number of tasks.
Complete ==
    pc = "done" =>
        \A v \in Values \cup {Null} :
            Occurs(v) => \E i \in DOMAIN ranges : Selects(ranges[i], v)

\* Every value the column held is read by one task, and no other value by two.
ReadOnce == Disjoint /\ Complete

\* The loop returns the closed form that SplitRead plans with.
MatchesClosedForm == pc = "done" => ranges = PlannedRanges(facts, request)
-----------------------------------------------------------------------------
(* The inductive invariant of the proofs *)

\* While the loop runs, every interval is proper and ends where, or before,
\* any later one begins; only the first takes the NULLs.
Chain ==
    /\ pc = "start" => ranges = << >> /\ index = 0
    /\ pc = "loop" =>
        /\ ~Trivial(facts, request)
        /\ Len(ranges) = index
        /\ index = 0 => lower = facts.minimum
        /\ \A i \in DOMAIN ranges :
               /\ ranges[i].lower \in Int /\ ranges[i].upper \in Int
               /\ ranges[i].lower < ranges[i].upper /\ ranges[i].upper <= lower
               /\ ranges[i].lower <= facts.maximum
               /\ ranges[i].null <=> (i = 1 /\ HasNulls(facts))
        /\ \A i, j \in DOMAIN ranges : i < j => ranges[i].upper <= ranges[j].lower

\* While the loop runs, the values below lower are covered.
Covered ==
    pc = "loop" =>
        \A v \in facts.minimum..(lower - 1) :
            \E i \in DOMAIN ranges : ranges[i].lower <= v /\ v < ranges[i].upper

LoopInv == Chain /\ Covered

RangeInv == RangeTypeOK /\ LoopInv /\ Disjoint /\ Complete
=============================================================================
