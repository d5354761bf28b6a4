----------------------------- MODULE AppendWrite -----------------------------
(***************************************************************************)
(* What write_clickhouse() promises of an append: each batch of the        *)
(* Dataset enters the table at most once, and a WriteReceipt is returned   *)
(* only for a table that holds every batch.  An error promises neither     *)
(* that batches are absent nor that no further batch will appear: requests *)
(* that were on their way may still be carried out.                        *)
(***************************************************************************)
EXTENDS Naturals

VARIABLES
    batches,  \* the batches of the Dataset
    content,  \* how many times each batch is in the table
    outcome   \* "pending", "receipt" or "error"

avars == <<batches, content, outcome>>

Init ==
    /\ content = [b \in batches |-> 0]
    /\ outcome = "pending"

\* The server carries out an INSERT it has not carried out before.
Append(b) ==
    /\ content[b] = 0
    /\ content' = [content EXCEPT ![b] = 1]
    /\ UNCHANGED <<batches, outcome>>

\* The caller gets a receipt.
Confirm ==
    /\ outcome = "pending"
    /\ \A b \in batches : content[b] = 1
    /\ outcome' = "receipt"
    /\ UNCHANGED <<batches, content>>

\* The caller gets an exception.
Fail ==
    /\ outcome = "pending"
    /\ outcome' = "error"
    /\ UNCHANGED <<batches, content>>

Next == (\E b \in batches : Append(b)) \/ Confirm \/ Fail

Spec == Init /\ [][Next]_avars
=============================================================================
