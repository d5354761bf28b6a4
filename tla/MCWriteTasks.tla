---------------------------- MODULE MCWriteTasks ----------------------------
(* TLC instance of WriteTasks: two tasks, at most two batches each.        *)
EXTENDS WriteTasks, TLC

CONSTANTS t1, t2, A, B, C

MCBlock(s, c, l) == [schema |-> s, clean |-> c, last |-> l]
MCInput(blocks, rowEnd) == [blocks |-> blocks, rowEnd |-> rowEnd]
MCNothing == MCInput(<< >>, 0 :> 0)

\* Everything can be written: two batches of one block, and two blocks of
\* which the second is empty.
MCGood == t1 :> MCInput(<<MCBlock(A, TRUE, 2)>>, 0 :> 0 @@ 1 :> 3 @@ 2 :> 4)
       @@ t2 :> MCInput(<<MCBlock(A, TRUE, 1), MCBlock(A, TRUE, 1)>>, 0 :> 0 @@ 1 :> 2)

\* One task changes its schema after a batch, the other has a value that the
\* target cannot take.
MCMixed == t1 :> MCInput(<<MCBlock(A, TRUE, 1), MCBlock(B, TRUE, 2)>>,
                         0 :> 0 @@ 1 :> 1 @@ 2 :> 2)
        @@ t2 :> MCInput(<<MCBlock(B, TRUE, 1), MCBlock(B, FALSE, 2)>>,
                         0 :> 0 @@ 1 :> 1 @@ 2 :> 2)

\* The target has no place for C.
MCRefused == t1 :> MCInput(<<MCBlock(C, TRUE, 1)>>, 0 :> 0 @@ 1 :> 1)
          @@ t2 :> MCInput(<<MCBlock(A, TRUE, 1)>>, 0 :> 0 @@ 1 :> 1)

MCEmpty == [t \in Tasks |-> MCNothing]

MCDatasets == {MCGood, MCMixed, MCRefused, MCEmpty}
MCUserArgs == {[max_retries |-> Absent, retry_exceptions |-> FALSE],
               [max_retries |-> 2, retry_exceptions |-> FALSE],
               [max_retries |-> 0, retry_exceptions |-> TRUE]}
=============================================================================
