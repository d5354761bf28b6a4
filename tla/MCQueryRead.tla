----------------------------- MODULE MCQueryRead -----------------------------
(***************************************************************************)
(* Results of one or two columns that turn into each other: another type,  *)
(* NULLs allowed, columns swapped, added, renamed, doubled; types that     *)
(* are cast, that no Arrow type stands for, and that are not supported.    *)
(***************************************************************************)
EXTENDS QueryRead

C(name, type) == [name |-> name, type |-> type, nullable |-> FALSE]
N(name, type) == [name |-> name, type |-> type, nullable |-> TRUE]

MCRelations ==
    {<<C("a", "Int64"), C("d", "Date")>>,
     <<C("d", "Date"), C("a", "Int64")>>,
     <<C("a", "Int64"), N("d", "Date")>>,
     <<N("a", "Int64"), C("d", "Date")>>,
     <<C("a", "Int64"), C("d", "UInt16")>>,
     <<C("a", "Int64"), C("d", "Enum8")>>,
     <<C("a", "Int64")>>,
     <<C("a", "Int64"), C("a", "Int64")>>,
     <<C("a", "Int64"), C("f()", "Date")>>,
     <<C("a", "Decimal32")>>,
     <<C("a", "AggregateFunction")>>}
=============================================================================
