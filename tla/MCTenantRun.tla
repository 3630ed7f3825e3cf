------------------------------ MODULE MCTenantRun ------------------------------
(* Two groups of three recording rules to push, so that the record names   *)
(* run over a group boundary, and one left over; two metrics of four       *)
(* series on three shards, in three batches, the last one short.           *)
EXTENDS TenantRun

MCProfile == [series |-> [metrics |-> 2, perMetric |-> 4, shards |-> 3],
              rules  |-> [groups |-> 2, recording |-> 3, alerting |-> 1]]

MCGroups  == 1..2
MCStale   == {9}
MCBatches == 1..3
MCSizeOf  == <<3, 3, 2>>
================================================================================
