----------------------------- MODULE RowStream -----------------------------
(***************************************************************************)
(* What a read task promises Ray: the rows of its scans in order, cut off  *)
(* by its row limit and by nothing else, unless the task fails or is       *)
(* closed.  ReadTask implements it.                                        *)
(***************************************************************************)
EXTENDS Integers, Sequences

CONSTANT None  \* Python's None: no row limit

VARIABLES
    rows,       \* the rows of all scans, in order
    limit,      \* the row limit
    delivered,  \* what Ray has received
    outcome     \* "running" | "returned" | "raised" | "closed"

vars == <<rows, limit, delivered, outcome>>

Owed == IF limit = None \/ limit > Len(rows) THEN Len(rows) ELSE limit

Init == delivered = << >> /\ outcome = "running"

Deliver ==
    /\ outcome = "running"
    /\ \E n \in (Len(delivered) + 1)..Owed : delivered' = SubSeq(rows, 1, n)
    /\ UNCHANGED <<rows, limit, outcome>>

Return ==
    /\ outcome = "running"
    /\ Len(delivered) = Owed
    /\ outcome' = "returned"
    /\ UNCHANGED <<rows, limit, delivered>>

\* Also after the last row: closing the client may fail.
GiveUp ==
    /\ outcome = "running"
    /\ outcome' \in {"raised", "closed"}
    /\ UNCHANGED <<rows, limit, delivered>>

Spec == Init /\ [][Deliver \/ Return \/ GiveUp]_vars
=============================================================================
