--------------------------- MODULE LocalReadPlan ---------------------------
(***************************************************************************)
(* What planning promises the reader of a Distributed table: whenever it   *)
(* succeeds there is a plan that reads the whole table once, either        *)
(* through the Distributed engine or from one replica of every shard.  The *)
(* plan appears in one step and stays; a call that fails leaves none       *)
(* behind.  DistributedPlanning implements it.                             *)
(***************************************************************************)
EXTENDS Integers

CONSTANTS
    Topologies,  \* the clusters there may be: sets of [shard, replica, host]
    Unplanned,   \* no plan yet
    Logical      \* the plan that queries the Distributed table itself

VARIABLES
    plan,    \* Unplanned, Logical, or the replicas to read, in order
    result   \* of the latest call: "none" | "planned" | "error"

\* Each shard of the cluster has one place in the plan, and no server is
\* read for two of them.
ReadsOnce(p, cluster) ==
    /\ \A i \in DOMAIN p : p[i] \in cluster
    /\ \A r \in cluster : \E i \in DOMAIN p : p[i].shard = r.shard
    /\ \A i, j \in DOMAIN p : i # j => p[i].shard # p[j].shard /\ p[i].host # p[j].host

Init == plan = Unplanned /\ result = "none"

Call == result' = "none" /\ UNCHANGED plan

Succeed ==
    /\ plan = Unplanned
    /\ plan' # Unplanned
    /\ plan' # Logical => \E cluster \in Topologies : ReadsOnce(plan', cluster)
    /\ result' = "planned"

\* The plan is there already.
Reuse == plan # Unplanned /\ result' = "planned" /\ UNCHANGED plan

Fail == plan = Unplanned /\ result' = "error" /\ UNCHANGED plan

Spec == Init /\ [][Call \/ Succeed \/ Reuse \/ Fail]_<<plan, result>>
=============================================================================
