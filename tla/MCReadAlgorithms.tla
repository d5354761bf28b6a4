-------------------------- MODULE MCReadAlgorithms --------------------------
(* TLC instances of the three algorithms a read is planned and cut with:    *)
(* RangePlan, PartitionGroups and BatchSlicing.  They share no state: a     *)
(* behaviour runs one of them, from every argument, and the other two stay  *)
(* in one initial state of theirs.                                          *)
EXTENDS RangePlan, PartitionGroups, BatchSlicing, SequencesExt

VARIABLE part  \* the algorithm that runs: "ranges" | "groups" | "slices"

MCVars == <<part, rangeVars, groupVars, sliceVars>>

\* RangePlan: every RangeFacts with extremes in MCValues and up to seven rows,
\* every request for up to five tasks, and column values beyond the extremes.
MCValues == -3..4
MCExtremes == MCValues \cup {None}
MCFacts == {f \in [total : 0..7, nulls : 0..2, minimum : MCExtremes, maximum : MCExtremes] :
               IsFacts(f)}
MCRequests == [target : {0, 1, 2, 3, 5}, max : {1, 4, 5}]
MCColumn == -5..7

\* PartitionGroups: up to five partitions of weight 0 to 3, with equal and zero
\* weights, and some without a byte count.
MCInfo(w) == [rows |-> w, bytes |-> IF w = 2 THEN Unknown ELSE w]
MCListings ==
    UNION {[1..n -> {MCInfo(w) : w \in 0..3}] : n \in 0..5}
        \cup {[p \in 1..2 |-> [rows |-> Unknown, bytes |-> Unknown]]}
MCGroupRequests == [target : 1..3, max : {2, 4}]

\* BatchSlicing: every table of at most MCMaxLen rows whose rows weigh 0, 1 or
\* 4 bytes, the last being larger than the byte limit.
MCMaxLen == 7
MCTables == BoundedSeq({0, 1, 4}, MCMaxLen)
MCNumRows(t) == Len(t)
MCSliceBytes(t, o, n) ==
    FoldSeq(LAMBDA w, acc : w + acc, 0, SubSeq(t, o + 1, o + n))

\* The initial states of the parts that do not run.
MCIdleFacts == CHOOSE f \in Facts : TRUE
MCIdleRequest == CHOOSE r \in Requests : TRUE
MCIdleAsked == CHOOSE r \in GroupRequests : TRUE

MCIdleRanges == facts = MCIdleFacts /\ request = MCIdleRequest /\ RangeInit
MCIdleGroups == partitions = << >> /\ asked = MCIdleAsked /\ GroupInit
MCIdleSlices == table = << >> /\ SliceInit

MCInit ==
    \/ part = "ranges" /\ RangeInit /\ MCIdleGroups /\ MCIdleSlices
    \/ part = "groups" /\ MCIdleRanges /\ GroupInit /\ MCIdleSlices
    \/ part = "slices" /\ MCIdleRanges /\ MCIdleGroups /\ SliceInit

MCNext ==
    \/ part = "ranges" /\ RangeNext /\ UNCHANGED <<part, groupVars, sliceVars>>
    \/ part = "groups" /\ GroupNext /\ UNCHANGED <<part, rangeVars, sliceVars>>
    \/ part = "slices" /\ SliceNext /\ UNCHANGED <<part, rangeVars, groupVars>>

MCSpec == MCInit /\ [][MCNext]_MCVars
=============================================================================
