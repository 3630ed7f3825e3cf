------------------------------- MODULE LoadProfile ------------------------------
(***************************************************************************)
(* What loadgen derives from one tenant of its profile: the series it      *)
(* writes, cut into batches, and the rules it generates together with the  *)
(* series each is recorded to write (RuleTruth).  A tenant is              *)
(*   [series |-> [metrics, perMetric, shards],                             *)
(*    rules  |-> [groups, recording, alerting]]                            *)
(* with the last two per group.  Metrics, shards and rules are numbers;    *)
(* intervals, ranges, padding labels and the churn label, which the rules  *)
(* aggregate away, are left out.                                           *)
(***************************************************************************)
EXTENDS Integers, FiniteSets, Functions

(* Profile.validate: with fewer series than shards "the expected           *)
(* rule-output count would be wrong".  That the numbers of rules per group *)
(* are not negative it leaves to the profile's author.                     *)
ValidTenant(t) ==
    /\ t.series.metrics \in Nat \ {0} /\ t.series.perMetric \in Nat \ {0}
    /\ t.series.shards \in 1..t.series.perMetric
    /\ t.rules.groups \in Nat \ {0}
    /\ t.rules.recording \in Nat /\ t.rules.alerting \in Nat

Live(t) == t.series.metrics * t.series.perMetric

(* buildSeries, in the order pushAll cuts it up.                           *)
BuildSeries(t) ==
    [i \in 1..Live(t) |->
        LET j == (i - 1) % t.series.perMetric
        IN  [metric |-> (i - 1) \div t.series.perMetric, id |-> j, shard |-> j % t.series.shards]]

(* pushAll's slices, lo..hi, of n series.                                  *)
Slices(n, batch) ==
    [b \in 1..(n + batch - 1) \div batch |->
        {i \in 1..n : (b - 1) * batch < i /\ i <= b * batch}]

--------------------------------------------------------------------------------
(* generateRules.                                                          *)

(* Recording rule k, whose name holds k; even ones keep the shard label.   *)
RecordingRule(t, k) ==
    [record |-> k, metric |-> k % t.series.metrics, byShard |-> k % 2 = 0]

(* Mutant: k starts again in every group.                                  *)
GenerateRules_Restarts(t) ==
    [g \in 1..t.rules.groups |->
        [recording |-> {RecordingRule(t, i - 1) : i \in 1..t.rules.recording},
         alerting  |-> {(g - 1) * t.rules.alerting + i - 1 : i \in 1..t.rules.alerting}]]

(* k and j run on from group to group.                                     *)
GenerateRules(t) ==
    [g \in 1..t.rules.groups |->
        [recording |-> {RecordingRule(t, (g - 1) * t.rules.recording + i - 1) : i \in 1..t.rules.recording},
         alerting  |-> {(g - 1) * t.rules.alerting + i - 1 : i \in 1..t.rules.alerting}]]

(* RuleTruth; the series are kept per record: name, as in the code.        *)
RuleTruth(t) ==
    LET groups  == GenerateRules(t)
        all     == UNION {groups[g].recording : g \in DOMAIN groups}
        written == [k \in {r.record : r \in all} |-> IF k % 2 = 0 THEN t.series.shards ELSE 1]
    IN  [recording         |-> t.rules.groups * t.rules.recording,
         alerting          |-> t.rules.groups * t.rules.alerting,
         recordSeries      |-> written,
         recordSeriesTotal |-> SumFunction(written)]

(* External: the series a recording rule writes for the series it reads,   *)
(* sum by (shard) (rate(m)) or sum(rate(m)); an alerting rule, < 0 of a    *)
(* rate, writes none.                                                      *)
Writes(r, ss) ==
    LET read == {s \in ss : s.metric = r.metric}
    IN  IF r.byShard THEN {s.shard : s \in read} ELSE {0 : s \in read}
================================================================================
