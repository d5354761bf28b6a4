---------------------------- MODULE BatchSlicing ----------------------------
(***************************************************************************)
(* The loop of iter_batch_slices (_transport.py): an Arrow table is cut    *)
(* into slices of at most MaxRows rows and MaxBytes bytes, a single row    *)
(* that is larger than MaxBytes still being emitted on its own.            *)
(*                                                                         *)
(* Both the read stream and the insert session send their data through     *)
(* this loop, so a slice that is skipped, repeated or cut short here is a  *)
(* lost or duplicated row.                                                 *)
(*                                                                         *)
(* Rows carry no value; a table is known by its number of rows and by the  *)
(* bytes its slices occupy, of which the loop only needs that a longer     *)
(* slice is never smaller.                                                 *)
(***************************************************************************)
EXTENDS Integers, Sequences

CONSTANTS
    Tables,               \* the tables the loop may be given
    NumRows(_),           \* table.num_rows
    SliceBytes(_, _, _),  \* table.slice(offset, n).nbytes
    MaxRows,              \* max_rows:  ResourceLimits.batch_rows
    MaxBytes              \* max_bytes: ResourceLimits.batch_bytes

\* ResourceLimits.__post_init__ rejects limits that are not positive integers.
ASSUME LimitsAssumption == MaxRows \in Nat \ {0} /\ MaxBytes \in Nat \ {0}

\* Arrow's contract: sizes are natural numbers, monotone in the slice length.
ASSUME TablesAssumption ==
    \A t \in Tables :
        /\ NumRows(t) \in Nat
        /\ \A o \in 0..NumRows(t) : \A n \in 0..(NumRows(t) - o) :
               /\ SliceBytes(t, o, n) \in Nat
               /\ \A m \in 0..n : SliceBytes(t, o, m) <= SliceBytes(t, o, n)

VARIABLES
    table,   \* the argument
    offset,  \* first row not yet emitted
    low, high, size,  \* the binary search of one slice
    stage,   \* "head" | "search" | "emit" | "done"
    out      \* the slices yielded: a sequence of [start, rows]

sliceVars == <<table, offset, low, high, size, stage, out>>

Fits(o, n) == SliceBytes(table, o, n) <= MaxBytes

\* The first candidate: upper = min(max_rows, table.num_rows - offset).
Upper(o) == IF MaxRows <= NumRows(table) - o THEN MaxRows ELSE NumRows(table) - o

Candidate == (low + high) \div 2

SliceInit ==
    /\ table \in Tables
    /\ offset = 0
    /\ low = 1 /\ high = 0 /\ size = 0
    /\ stage = "head"
    /\ out = << >>

\* while offset < num_rows is false: the generator returns.
Finish ==
    /\ stage = "head"
    /\ offset >= NumRows(table)
    /\ stage' = "done"
    /\ UNCHANGED <<table, offset, low, high, size, out>>

\* The row limit alone decides the slice.
TakeUpper ==
    /\ stage = "head"
    /\ offset < NumRows(table)
    /\ Fits(offset, Upper(offset))
    /\ size' = Upper(offset)
    /\ stage' = "emit"
    /\ UNCHANGED <<table, offset, low, high, out>>

\* The byte limit decides: start the search at low, high, size = 1, upper, 1.
StartSearch ==
    /\ stage = "head"
    /\ offset < NumRows(table)
    /\ ~Fits(offset, Upper(offset))
    /\ low' = 1 /\ high' = Upper(offset) /\ size' = 1
    /\ stage' = "search"
    /\ UNCHANGED <<table, offset, out>>

\* One iteration whose candidate fits.
SearchUp ==
    /\ stage = "search"
    /\ low <= high
    /\ Fits(offset, Candidate)
    /\ size' = Candidate
    /\ low' = Candidate + 1
    /\ UNCHANGED <<table, offset, high, stage, out>>

\* One iteration whose candidate is too large.
SearchDown ==
    /\ stage = "search"
    /\ low <= high
    /\ ~Fits(offset, Candidate)
    /\ high' = Candidate - 1
    /\ UNCHANGED <<table, offset, low, size, stage, out>>

\* Mutant of EndSearch: the loop runs while low < high.
EndSearchEarly ==
    /\ stage = "search"
    /\ low >= high
    /\ stage' = "emit"
    /\ UNCHANGED <<table, offset, low, high, size, out>>

EndSearch ==
    /\ stage = "search"
    /\ low > high
    /\ stage' = "emit"
    /\ UNCHANGED <<table, offset, low, high, size, out>>

\* yield table.slice(offset, size); offset += size
Emit ==
    /\ stage = "emit"
    /\ out' = Append(out, [start |-> offset, rows |-> size])
    /\ offset' = offset + size
    /\ stage' = "head"
    /\ UNCHANGED <<table, low, high, size>>

Exhausted == stage = "done" /\ UNCHANGED sliceVars

SliceNext ==
    \/ Finish \/ TakeUpper \/ StartSearch
    \/ SearchUp \/ SearchDown \/ EndSearch
    \/ Emit \/ Exhausted

SliceSpec == SliceInit /\ [][SliceNext]_sliceVars
-----------------------------------------------------------------------------
\* The state between iterations has its type and the slice under
\* construction stays inside the table.
SliceTypeOK ==
    /\ table \in Tables
    /\ offset \in 0..NumRows(table)
    /\ low \in Nat \ {0}
    /\ high \in Nat
    /\ size \in Nat
    /\ stage \in {"head", "search", "emit", "done"}
    /\ out \in Seq([start : Nat, rows : Nat])

\* Rows are neither skipped nor repeated: the slices yielded are adjacent,
\* begin at row 0 and end at the current offset, which is the end of the
\* table when the generator returns (the offset loop of iter_batch_slices).
ExactCover ==
    /\ \A i \in DOMAIN out :
          out[i].start = IF i = 1 THEN 0 ELSE out[i - 1].start + out[i - 1].rows
    /\ offset = IF out = << >> THEN 0
                ELSE out[Len(out)].start + out[Len(out)].rows
    /\ stage = "done" => offset = NumRows(table)

\* What the two limits promise of each slice s: it is not empty, it has at
\* most MaxRows rows, and only a single row may be larger than MaxBytes.
WithinLimits(s) ==
    /\ s.rows \in 1..MaxRows
    /\ Fits(s.start, s.rows) \/ s.rows = 1

\* No needless fragmentation: the slice ends because the table ends, the row
\* limit is reached, or one more row would be too large.
Maximal(s) ==
    \/ s.start + s.rows = NumRows(table)
    \/ s.rows = MaxRows
    \/ ~Fits(s.start, s.rows + 1)

\* Every slice yielded respects the limits and is the largest that does: the
\* binary search neither overshoots nor stops early.
SlicesBounded == \A i \in DOMAIN out : WithinLimits(out[i]) /\ Maximal(out[i])

\* Of a table with rows of any size, the slices are all of it, once, and each
\* is as large as the limits allow.
ExactSlices == ExactCover /\ SlicesBounded

\* The invariant of the binary search: all sizes below low fit (size is the
\* largest tried, or the single row that is emitted whatever its size), all
\* sizes above high are too large.
SearchInv ==
    /\ stage = "search" =>
          /\ offset < NumRows(table)
          /\ low <= high + 1
          /\ high <= Upper(offset)
          /\ size = IF low = 1 THEN 1 ELSE low - 1
          /\ low > 1 => Fits(offset, size)
          /\ high < Upper(offset) => ~Fits(offset, high + 1)
          /\ ~Fits(offset, Upper(offset))
    /\ stage = "emit" =>
          /\ offset < NumRows(table)
          /\ size \in 1..Upper(offset)
          /\ Fits(offset, size) \/ size = 1
          /\ size = Upper(offset) \/ ~Fits(offset, size + 1)

\* The inductive invariant of the proofs.
SliceInv == SliceTypeOK /\ SearchInv /\ ExactCover /\ SlicesBounded
=============================================================================
