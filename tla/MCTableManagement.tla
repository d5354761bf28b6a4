------------------------- MODULE MCTableManagement -------------------------
(* TLC instance of TableManagement: two writers with any of seven sets of  *)
(* arguments.  The schema "plain" can be created and inserted, "large"     *)
(* only created (an Arrow large_string column), "binary" not even that.    *)
EXTENDS TableManagement, TLC

CONSTANTS w1, w2

Job(m, s, c) == [mode |-> m, schema |-> s, columns |-> c]

MCJobs == {Job("append", "plain", TRUE),
           Job("create", "plain", TRUE), Job("create", "large", TRUE),
           Job("overwrite", "plain", TRUE), Job("overwrite", "plain", FALSE),
           Job("overwrite", "large", TRUE), Job("overwrite", "binary", TRUE)}
=============================================================================
