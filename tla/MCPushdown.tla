----------------------------- MODULE MCPushdown -----------------------------
(* TLC instances of what a pushed predicate has to do with: its own        *)
(* compilation (PredicateCompile) and the text it shares with the filter   *)
(* of the caller and the values of a split (FilterBindings).  A behaviour  *)
(* runs one of the two, from all its initial states; the other stays in    *)
(* one of its own.                                                         *)
EXTENDS FilterBindings, PredicateCompile, FiniteSetsExt

VARIABLE part  \* what runs: "filter" | "predicate"

MCVars == <<part, bindVars, treeVars>>

\* FilterBindings: every filter of up to three of twelve pieces, every set of
\* two parameter names, every kind of query.
At(at, holds, name, type) == [at |-> at, holds |-> holds, name |-> name, type |-> type]

MCNames == {"x", "y"}

MCPieces ==
    {At("code", "plain", "x", "Int64"), At("code", "percent", "x", "Int64"),
     At("code", "malformed", "x", "Int64"),
     At("code", "client", "x", "Int64"), At("code", "client", "y", "Int64"),
     At("code", "server", "x", "Int64"), At("code", "server", "x", "String"),
     At("quote", "percent", "x", "Int64"), At("quote", "client", "x", "Int64"),
     At("quote", "server", "x", "Int64"),
     At("comment", "client", "y", "Int64"), At("comment", "server", "y", "Int64")}

MCFilters == {Unset} \cup UNION {kSubset(k, MCPieces) : k \in 1..3}
MCQueries == {"plain", "partition", "range"}

\* PredicateCompile: Int64 is three bits wide and another integer two; a Bool,
\* a text, an alias and a column that is not read; literals up to one past the
\* limits of the signed types.
Integer(declared, arrow, bits) ==
    [declared |-> declared, bits |-> bits, arrow |-> arrow, arrowBits |-> bits,
     alias |-> FALSE, visible |-> TRUE]

MCColumns ==
    [c \in {"i2", "u2", "i3", "u3", "flag", "text", "cast", "alias", "hidden"} |->
      CASE c = "i2"   -> Integer("Int", "int", 2)
        [] c = "u2"   -> Integer("UInt", "uint", 2)
        [] c = "i3"   -> Integer("Int", "int", 3)
        [] c = "u3"   -> Integer("UInt", "uint", 3)
        [] c = "flag" -> Integer("Bool", "bool", 0)
        [] c = "text" -> Integer("String", "string", 0)
        [] c = "cast" -> [Integer("Int", "int", 3) EXCEPT !.bits = 2]
        [] c = "alias"  -> [Integer("UInt", "uint", 2) EXCEPT !.alias = TRUE, !.visible = FALSE]
        [] c = "hidden" -> [Integer("UInt", "uint", 2) EXCEPT !.visible = FALSE]]

Scalar(type, value) == [type |-> type, value |-> value]

MCLiterals ==
    {Scalar("int", n) : n \in {-3, -2, 1, 2, 3, 4}} \cup
    {Scalar("bool", 1), Scalar("str", 1), Scalar("bytes", 1), Scalar("float", 1), Scalar("none", 0)}

\* Rows that put every column at its limits and at NULL.
MCRows ==
    {[c \in DOMAIN MCColumns |->
       CASE c = "i2" -> i [] c = "u2" -> u [] c = "i3" -> i [] c = "u3" -> v
         [] c = "flag" -> f [] c = "text" -> t [] c = "cast" -> i [] OTHER -> u] :
       i \in {Null, -2, 1}, u \in {Null, 0, 3}, v \in {0, 5}, f \in {Null, 0, 1}, t \in {Null, 1}}

MCPartners ==
    {Join("gt", <<Literal(Scalar("int", 1))>>, <<Column("u2")>>)}
-----------------------------------------------------------------------------
MCIdleFilter == reads = "table" /\ filter = Unset /\ values = {} /\ BindInit
MCIdlePredicate ==
    native = TRUE /\ expression = Under("is_in", <<Column("i2")>>) /\ CompileInit

MCInit ==
    \/ part = "filter" /\ MCIdlePredicate /\ BindInit
    \/ part = "predicate" /\ MCIdleFilter /\ CompileInit

MCNext ==
    \/ part = "filter" /\ BindNext /\ UNCHANGED <<part, treeVars>>
    \/ part = "predicate" /\ CompileNext /\ UNCHANGED <<part, bindVars>>

MCSpec == MCInit /\ [][MCNext]_MCVars
=============================================================================
