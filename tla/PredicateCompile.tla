--------------------------- MODULE PredicateCompile ---------------------------
(***************************************************************************)
(* From a filter expression of Ray to a WHERE condition: decode_predicate  *)
(* (_compat.py) and compile_predicate (_predicates.py).                    *)
(*                                                                         *)
(* Ray gives up its own filter when the datasource takes the predicate, so *)
(* ClickHouse must keep exactly the rows that Arrow would: integers of     *)
(* other widths, NULL under NOT, literals on the left.  Whatever is not    *)
(* known to be the same is refused, and the expression with it.            *)
(*                                                                         *)
(* An expression is the sequence of its nodes, each after its operands,    *)
(* those of the left operand first, and the whole last: the order in which *)
(* a traversal leaves them.  A scalar is [type, value], its value an       *)
(* integer: 0 and 1 for a Bool, a code for a text.  Wrappers of a type     *)
(* (Nullable, LowCardinality, a dictionary in Arrow) only say which values *)
(* it has.                                                                 *)
(***************************************************************************)
EXTENDS Integers, Sequences, FiniteSets, Functions

LOCAL INSTANCE FiniteSetsExt

CONSTANTS
    Null,      \* Python's None, SQL's and Arrow's NULL
    Error,     \* Arrow raises
    Columns,   \* name -> [declared, bits, arrow, arrowBits, alias, visible], one schema
    Literals,  \* the scalars in expressions
    Rows,      \* rows of the table: name -> Int or Null
    Partners,  \* what Ray combines an expression with
    LongBits,  \* the width of Int64
    MaxNodes,  \* 256 nodes
    MaxDepth,  \* 32 levels
    Growth     \* how many operators Ray puts on top of a condition

Comparisons == {"eq", "ne", "lt", "le", "gt", "ge"}
Connectives == {"and", "or", "not"}
NullTests   == {"is_null", "is_not_null"}

\* A node: how far before it its operands are, 0 if there is none, and what a
\* leaf holds.
Node(op, left, right) ==
    [op |-> op, left |-> left, right |-> right, name |-> Null, scalar |-> Null]
Column(name)    == [Node("column", 0, 0) EXCEPT !.name = name]
Literal(scalar) == [Node("literal", 0, 0) EXCEPT !.scalar = scalar]

Left(e, i)       == i - e[i].left
Right(e, i)      == i - e[i].right
OperandsOf(e, i) == {Left(e, i), Right(e, i)} \ {i}

\* A tree: no node is an operand of two.
IsExpression(e) ==
    /\ e \in Seq(Range(e)) /\ e # << >>
    /\ \A i \in DOMAIN e :
         /\ e[i].left \in 0..i - 1 /\ e[i].right \in 0..i - 1
         /\ e[i].op \in Connectives \cup NullTests => e[i].left # 0
         /\ e[i].op \in Comparisons \cup {"and", "or"} => 0 \notin {e[i].left, e[i].right}
         /\ \A j \in DOMAIN e : i # j => OperandsOf(e, i) \cap OperandsOf(e, j) = {}

\* 2 ** n
Power == LET power[n \in 0..LongBits] == IF n = 0 THEN 1 ELSE 2 * power[n - 1] IN power

Lower(column) == IF column.declared = "Int" THEN -Power[column.bits - 1] ELSE 0

\* Mutant of Upper: the bounds of a signed type for every type.
UpperUnsigned(column) == Power[column.bits]
Upper(column) == Power[IF column.declared = "Int" THEN column.bits - 1 ELSE column.bits]

IsInteger(column) == column.declared \in {"Int", "UInt"}

\* The integers that a column may hold.
ValuesOf(column) ==
    IF IsInteger(column) THEN {v \in Int : Lower(column) <= v /\ v < Upper(column)} ELSE Int

ASSUME PredicateAssumption ==
    /\ LongBits \in Nat \ {0} /\ {MaxNodes, MaxDepth, Growth} \subseteq Nat
    /\ \A c \in DOMAIN Columns :
         /\ Columns[c].declared \in {"Int", "UInt", "Bool", "String", "other"}
         /\ Columns[c].arrow \in {"int", "uint", "bool", "string", "binary", "other"}
         /\ Columns[c].bits \in 0..LongBits /\ Columns[c].arrowBits \in 0..LongBits
         /\ IsInteger(Columns[c]) => Columns[c].bits # 0
         /\ Columns[c].visible \in BOOLEAN
    /\ \A s \in Literals : s.type \in {"int", "bool", "str", "bytes", "float", "none"}
    /\ \A p \in Partners : IsExpression(p)
    /\ \A row \in Rows : \A c \in DOMAIN Columns : row[c] \in ValuesOf(Columns[c]) \cup {Null}
    /\ Null \notin Int \cup BOOLEAN /\ Error \notin BOOLEAN \cup {Null}

VARIABLES
    expression,  \* the expression that Ray offers
    grown,       \* the operators that were put on top
    native,      \* the binding protocol of the filter of the user
    accepted,    \* _predicate_node and _predicate_expr of the datasource, or Null
    compiled     \* its _pushed_predicate, or Null

treeVars == <<expression, grown, native, accepted, compiled>>
-----------------------------------------------------------------------------
(* Trees *)

\* An expression under one more operator: of one operand, or of two.
Under(op, e)   == Append(e, Node(op, 1, 0))
Join(op, e, f) == e \o f \o <<Node(op, Len(f) + 1, 1)>>

\* How deep a traversal goes that looks below these operators.
Depth(e, operators) ==
    LET depth[i \in DOMAIN e] ==
          IF e[i].op \notin operators THEN 0
          ELSE 1 + Max({depth[j] : j \in OperandsOf(e, i)})
    IN depth[Len(e)]

\* decode_predicate: classes, operators and literals that are known, in a tree
\* that is not too large.
Decodes(e) ==
    LET operators == Comparisons \cup Connectives \cup NullTests
    IN /\ Len(e) <= MaxNodes /\ Depth(e, operators) <= MaxDepth
       /\ \A i \in DOMAIN e :
            \/ e[i].op = "column"
            \/ e[i].op = "literal" /\ e[i].scalar.type # "float"
            \/ e[i].op \in operators
-----------------------------------------------------------------------------
(* compile_predicate *)

\* column_type: a column of the read, of a type that Arrow holds as it is.
Typed(e) ==
    /\ e.op = "column" /\ e.name \in DOMAIN Columns
    /\ LET column == Columns[e.name]
       IN /\ ~column.alias /\ column.visible
          /\ \/ column.declared = "Int" /\ column.arrow = "int" /\ column.arrowBits = column.bits
             \/ column.declared = "UInt" /\ column.arrow = "uint" /\ column.arrowBits = column.bits
             \/ column.declared = "Bool" /\ column.arrow = "bool"
             \/ column.declared = "String" /\ column.arrow \in {"string", "binary"}

\* The values of an Int64, in which Arrow holds a Python integer.
Long == -Power[LongBits - 1] .. Power[LongBits - 1] - 1

\* bind: the literal is a value of the type, and Arrow compares it as one.
Binds(scalar, column, op) ==
    IF IsInteger(column)
    THEN /\ ~(column.declared = "UInt" /\ column.bits = LongBits)
         /\ scalar.type = "int"
         /\ scalar.value >= Lower(column) /\ scalar.value < Upper(column)
         /\ scalar.value \in Long
    ELSE IF column.declared = "Bool" THEN scalar.type = "bool" /\ op \in {"eq", "ne"}
    ELSE /\ op \in {"eq", "ne"}
         /\ <<column.arrow, scalar.type>> \in {<<"string", "str">>, <<"binary", "bytes">>}

Reverse(op) ==
    CASE op = "lt" -> "gt" [] op = "le" -> "ge" [] op = "gt" -> "lt" [] op = "ge" -> "le"
      [] OTHER -> op

\* The condition on a column that a comparison is, or none.
Condition(e, i) ==
    LET left   == e[Left(e, i)]
        right  == e[Right(e, i)]
        turned == left.op = "literal" /\ right.op = "column"
    IN IF turned THEN [column |-> right, literal |-> left, op |-> Reverse(e[i].op)]
       ELSE [column |-> left, literal |-> right, op |-> e[i].op]

\* The nodes that render visits: not the operands of a condition.
Visited(e) ==
    DOMAIN e \ UNION {OperandsOf(e, i) :
                        i \in {j \in DOMAIN e : e[j].op \in Comparisons \cup NullTests}}

\* A node of which it can make SQL.
Rendered(e, i) ==
    \/ e[i].op \in Connectives
    \/ e[i].op \in NullTests /\ Typed(e[Left(e, i)])
    \/ e[i].op = "column" /\ Typed(e[i]) /\ Columns[e[i].name].declared = "Bool"
    \/ /\ e[i].op \in Comparisons
       /\ LET condition == Condition(e, i)
          IN /\ Typed(condition.column) /\ condition.literal.op = "literal"
             /\ Binds(condition.literal.scalar, Columns[condition.column.name], condition.op)

\* It makes SQL of all of the expression, or of nothing.
Compiles(e) ==
    /\ Cardinality(Visited(e)) <= MaxNodes /\ Depth(e, Connectives) <= MaxDepth
    /\ \A i \in Visited(e) : Rendered(e, i)

\* The nodes that bind a parameter, and the number of the parameter: how many
\* have been bound by then.
Binders(e)   == {i \in Visited(e) : e[i].op \in Comparisons \cup {"column"}}
Number(e, i) == Cardinality({j \in Binders(e) : j <= i})

True == [type |-> "bool", value |-> 1]
Parameters(e) ==
    [n \in 1..Cardinality(Binders(e)) |->
      LET i == CHOOSE j \in Binders(e) : Number(e, j) = n
      IN IF e[i].op = "column" THEN True ELSE Condition(e, i).literal.scalar]

Compare(name, op, number) ==
    [op |-> "compare", column |-> name, with |-> op, parameter |-> number]

\* The SQL of each node, a placeholder by the number of its parameter.
Render(e) ==
    [i \in DOMAIN e |->
      IF i \notin Visited(e) THEN [op |-> "operand"]
      ELSE IF e[i].op \in Connectives
           THEN [op |-> e[i].op, left |-> e[i].left, right |-> e[i].right]
      ELSE IF e[i].op \in NullTests THEN [op |-> e[i].op, column |-> e[Left(e, i)].name]
      ELSE IF e[i].op = "column" THEN Compare(e[i].name, "eq", Number(e, i))
      ELSE LET condition == Condition(e, i)
           IN Compare(condition.column.name, condition.op, Number(e, i))]

CompilePredicate(e) == [sql |-> Render(e), parameters |-> Parameters(e)]

CompileInit ==
    /\ \/ \E c \in DOMAIN Columns : \E s \in Literals : \E op \in Comparisons :
            expression \in {Join(op, <<Column(c)>>, <<Literal(s)>>),
                            Join(op, <<Literal(s)>>, <<Column(c)>>)}
       \/ \E c \in DOMAIN Columns :
            expression \in {<<Column(c)>>} \cup {Under(op, <<Column(c)>>) : op \in NullTests}
       \/ \E c, d \in DOMAIN Columns : expression = Join("eq", <<Column(c)>>, <<Column(d)>>)
       \/ \E c \in DOMAIN Columns : expression = Under("is_in", <<Column(c)>>)
    /\ grown = 0 /\ native \in BOOLEAN /\ accepted = Null /\ compiled = Null

\* The program of the user combines expressions.
Grow ==
    /\ grown < Growth /\ grown' = grown + 1
    /\ \/ expression' = Under("not", expression)
       \/ \E op \in {"and", "or"} : \E p \in Partners :
            expression' \in {Join(op, expression, p), Join(op, p, expression)}
    /\ UNCHANGED <<native, accepted, compiled>>

\* apply_predicate: what was accepted before and this, all of it or nothing.  The
\* program may go on to filter by another expression.  What else may refuse it
\* (a release of Ray, the context of the server) leaves everything as it is.
ApplyPredicate ==
    LET combined == IF accepted = Null THEN expression ELSE Join("and", accepted, expression)
    IN /\ Decodes(expression) /\ Compiles(combined)
       /\ grown' = Growth
       /\ expression' \in Partners
       /\ accepted' = combined
       /\ compiled' = CompilePredicate(combined)
       /\ UNCHANGED native

CompileNext == Grow \/ ApplyPredicate
CompileSpec == CompileInit /\ [][CompileNext]_treeVars
-----------------------------------------------------------------------------
(* What the conditions mean: Arrow, as Ray evaluates the expression, and   *)
(* ClickHouse.  Both are three-valued.                                     *)

Holds(op, a, b) ==
    CASE op = "eq" -> a = b [] op = "ne" -> a # b [] op = "lt" -> a < b
      [] op = "le" -> a <= b [] op = "gt" -> a > b [] op = "ge" -> a >= b

Kleene(op, a, b) ==
    LET decides == (op = "or")  \* this value of one decides
    IN IF Error \in {a, b} THEN Error
       ELSE IF decides \in {a, b} THEN decides
       ELSE IF Null \in {a, b} THEN Null ELSE ~decides

Negation(a) == IF a \in {Null, Error} THEN a ELSE ~a

\* The value of a tree with these values of its conditions.
Value(tree, condition) ==
    LET value[i \in DOMAIN tree] ==
          IF tree[i].op \in {"and", "or"}
          THEN Kleene(tree[i].op, value[Left(tree, i)], value[Right(tree, i)])
          ELSE IF tree[i].op = "not" THEN Negation(value[Left(tree, i)])
          ELSE condition[i]
    IN value[Len(tree)]

\* Arrow holds a Python integer as an Int64, and compares an UInt64 with it
\* as one.
ArrowCompare(op, name, scalar, row, turned) ==
    LET column == Columns[name]
        value == row[name]
        integers == column.arrow \in {"int", "uint"} /\ scalar.type = "int"
    IN IF ~column.visible THEN Error
       ELSE IF scalar.type = "none" THEN Null
       ELSE IF ~(integers \/ <<column.arrow, scalar.type>> \in
                   {<<"bool", "bool">>, <<"string", "str">>, <<"binary", "bytes">>}) THEN Error
       ELSE IF integers /\ scalar.value \notin Long THEN Error
       ELSE IF value = Null THEN Null
       ELSE IF integers /\ value \notin Long THEN Error
       ELSE IF turned THEN Holds(op, scalar.value, value) ELSE Holds(op, value, scalar.value)

\* What Arrow makes of a node that is no connective.
ArrowCondition(e, i, row) ==
    IF e[i].op \in NullTests THEN
         LET name == e[Left(e, i)].name
         IN IF Columns[name].visible THEN (e[i].op = "is_null") = (row[name] = Null) ELSE Error
    ELSE IF e[i].op = "column" THEN
         IF ~Columns[e[i].name].visible \/ Columns[e[i].name].arrow # "bool" THEN Error
         ELSE IF row[e[i].name] = Null THEN Null ELSE row[e[i].name] = 1
    ELSE IF e[i].op \in Comparisons THEN
         LET left  == e[Left(e, i)]
             right == e[Right(e, i)]
         IN IF right.op = "literal" THEN ArrowCompare(e[i].op, left.name, right.scalar, row, FALSE)
            ELSE IF left.op = "literal"
                 THEN ArrowCompare(e[i].op, right.name, left.scalar, row, TRUE)
            ELSE Error
    ELSE Error

Arrow(e, row) == Value(e, [i \in DOMAIN e |-> ArrowCondition(e, i, row)])

\* A typed parameter is read as a value of the type of its placeholder, and
\* wraps around; the literal that the client writes is taken as it is.
Parameter(scalar, column) ==
    IF native /\ IsInteger(column)
    THEN ((scalar.value - Lower(column)) % Power[column.bits]) + Lower(column)
    ELSE scalar.value

ServerCondition(node, parameters, row) ==
    IF node.op \in NullTests THEN (node.op = "is_null") = (row[node.column] = Null)
    ELSE IF node.op # "compare" \/ row[node.column] = Null THEN Null
    ELSE Holds(node.with, row[node.column],
               Parameter(parameters[node.parameter], Columns[node.column]))

ClickHouse(sql, parameters, row) ==
    Value(sql, [i \in DOMAIN sql |-> ServerCondition(sql[i], parameters, row)])
-----------------------------------------------------------------------------
(* Properties *)

\* ClickHouse keeps the rows that Arrow keeps, and never one of which Arrow
\* could not tell ("Rejection returns the original datasource unchanged,
\* preserving the Ray Filter"): widths, NULLs under NOT, the number of each
\* parameter, whichever protocol binds it (compile_predicate).
SameRows ==
    compiled # Null => \A row \in Rows :
      LET expected == Arrow(accepted, row)
      IN expected # Error /\ ClickHouse(compiled.sql, compiled.parameters, row) = expected
-----------------------------------------------------------------------------
(* The inductive invariant of the proofs *)

TreeInv ==
    /\ IsExpression(expression) /\ native \in BOOLEAN
    /\ accepted # Null => IsExpression(accepted)
    /\ compiled # Null =>
         IsExpression(accepted) /\ Compiles(accepted) /\ compiled = CompilePredicate(accepted)
=============================================================================
