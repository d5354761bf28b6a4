--------------------------- MODULE MCDatasourcePlan ---------------------------
(***************************************************************************)
(* Three columns, two conditions, two definitions of the table (c is       *)
(* dropped and b an ALIAS in the other), every kind of plan.               *)
(***************************************************************************)
EXTENDS DatasourcePlan, TLC

CONSTANTS A, B, C, S1, S2

MCColumns == {A, B, C}
MCSources == {Root, S1, S2}
MCPredicates == {"on a", "on b"}
MCColumnOf == [q \in MCPredicates |-> IF q = "on a" THEN A ELSE B]
MCSchemas == {"first", "altered"}
MCNames == [v \in MCSchemas |-> IF v = "first" THEN {A, B, C} ELSE {A, B}]
MCFilterable == [v \in MCSchemas |-> IF v = "first" THEN {A, B, C} ELSE {A}]

MCConfig(columns, filtered, engine, convert, ordered, split) ==
    [columns |-> columns, filtered |-> filtered, bindable |-> TRUE, engine |-> engine,
     convert |-> convert, ordered |-> ordered, split |-> split]

MCConfigs ==
    {MCConfig(None, FALSE, "MergeTree", FALSE, FALSE, "range"),
     MCConfig({A, B}, FALSE, "MergeTree", FALSE, FALSE, "single"),
     MCConfig(None, FALSE, "Distributed", TRUE, FALSE, "auto"),
     MCConfig({A, B}, TRUE, "Distributed", TRUE, TRUE, "single"),
     [MCConfig(None, TRUE, "View", FALSE, FALSE, "auto") EXCEPT !.bindable = FALSE]}

Clones == Permutations({S1, S2})
=============================================================================
