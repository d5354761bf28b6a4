----------------------- MODULE MCDistributedPlanning -----------------------
(* TLC instance of DistributedPlanning: clusters of one and two shards that *)
(* are proper, share servers between shards, or are not what they should be.*)
EXTENDS DistributedPlanning

MCRow(s, r, h) == [shard |-> s, replica |-> r, host |-> h]

MCReplicated == {MCRow(1, 1, "a"), MCRow(1, 2, "b"), MCRow(2, 1, "c"), MCRow(2, 2, "d")}
MCCircular == {MCRow(1, 1, "a"), MCRow(1, 2, "b"), MCRow(2, 1, "b"), MCRow(2, 2, "a")}
MCSameServer == {MCRow(1, 1, "a"), MCRow(2, 2, "a"), MCRow(2, 3, "b")}
MCTwice == {MCRow(1, 1, "a"), MCRow(1, 1, "b")}

MCTopologies == {MCReplicated, MCCircular, MCSameServer, MCTwice, {MCRow(3, 2, "a")}, {}}

MCConfigs ==
    [filtered : {TRUE}, ordered : {FALSE}, eligible : {TRUE},
     split : {"single", "partition", "range", "auto"}, policy : {"single", "error"}]
        \cup [filtered : BOOLEAN, ordered : BOOLEAN, eligible : {FALSE},
              split : {"single"}, policy : {"single"}]
=============================================================================
