---------------------------- MODULE MCSplitRead ----------------------------
(* TLC instances of SplitRead: a table of four rows in two partitions, and  *)
(* two shards with two rows each; values on both sides of the joints of the *)
(* intervals, outside them, and NULL.                                       *)
EXTENDS SplitRead

MCRow(id, shard, part, value) == [id |-> id, shard |-> shard, part |-> part, value |-> value]

MCTableRows == {MCRow(1, "s1", "p", 1), MCRow(2, "s1", "p", 4),
                MCRow(3, "s1", "q", 2), MCRow(4, "s1", "q", Null)}
MCTableShards == <<"s1">>

MCShardRows == {MCRow(1, "s1", "p", 1), MCRow(2, "s1", "q", 3),
                MCRow(3, "s2", "p", 1), MCRow(4, "s2", "q", Null)}
MCShards == <<"s1", "s2">>

MCLayouts == {[rows |-> MCTableRows, shards |-> MCTableShards, local |-> FALSE],
              [rows |-> MCShardRows, shards |-> MCShards, local |-> TRUE]}

MCConfigs ==
    [split : {"single", "partition", "range"}, policy : {"single", "error"},
     target : {2}, max : {3}, parallelism : {0, 2}]
        \cup [split : {"partition", "auto"}, policy : {"single"},
              target : {3, 4}, max : {4}, parallelism : {4}]
        \cup [split : {"partition", "range"}, policy : {"single"},
              target : {1}, max : {1}, parallelism : {2}]
=============================================================================
