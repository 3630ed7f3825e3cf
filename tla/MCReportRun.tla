------------------------------- MODULE MCReportRun -----------------------------
(* Five rules of two tenants: two that share an expression, two with one   *)
(* identity, groups of one name in two files, or one rule loaded twice, as *)
(* for a tenant that was named twice; telemetry lines that match           *)
(* one, two or none of them, fully, partly or not measured; and metric     *)
(* samples of two tenants, twice for one tenant, fractional or unusable,   *)
(* in an answer of every kind the client tells apart.                      *)
EXTENDS ReportRun, SequencesExt

Def(t, f, n, x, k) == [tenant |-> t, file |-> f, group |-> 1, name |-> n, expr |-> x, kind |-> k]

AllDefs == <<Def(1, 1, 1, 1, "recording"), Def(1, 2, 1, 2, "recording"), Def(1, 1, 2, 1, "alerting"),
             Def(1, 1, 1, 3, "alerting"), Def(2, 1, 1, 1, "recording")>>

MCDefinitionLists ==
    {[k \in 1..Cardinality(S) |-> AllDefs[SetToSortSeq(S, <)[k]]] : S \in SUBSET DOMAIN AllDefs}
    \cup {<<AllDefs[5], AllDefs[5]>>}

Measured(b, d, n) ==
    [s \in Stats |-> CASE s = "bytes" -> b [] s = "duration" -> d [] s = "samples" -> n [] OTHER -> None]

Local  == Measured(2, 3, 1)
Idle   == Measured(0, 1, None)
Remote == Measured(None, None, None)

Line(t, x, ts, st) == [kind |-> "record", tenant |-> t, expr |-> x, ts |-> ts, stats |-> st]

MCLogLines ==
    {Line(1, 1, 1, Local), Line(1, 2, 2, Idle), Line(1, 3, 1, Remote), Line(2, 1, 2, Local),
     Line(2, 2, 1, Idle), Line(None, 1, 1, Idle), Line(1, 1, None, Idle),
     [kind |-> "malformed"]}

Record(t, f, n, ts, st) ==
    [kind |-> "record", tenant |-> t, file |-> f, group |-> 1, name |-> n, ts |-> ts, stats |-> st]

MCJSONLines ==
    {Record(1, 1, 1, 1, Local), Record(1, 2, 1, 2, Idle), Record(1, 2, 3, 1, Local),
     Record(2, 1, 1, 2, Remote), Record(3, 1, 1, 1, Idle), Record(1, 1, None, 1, Idle),
     [kind |-> "malformed"]}

Number(v) == [kind |-> IF v = None THEN "NaN" ELSE "finite", number |-> v]
Sample(u, v)        == [user |-> u, pair |-> Number(v)]
InGroup(u, d, g, v) == [user |-> u, pair |-> Number(v), label |-> [dir |-> d, file |-> 1, group |-> g]]

Vector(samples) == [reached |-> TRUE, status |-> 200, decodes |-> TRUE, api |-> "success",
                    type |-> "vector", result |-> samples]
Answer(S) ==
    {Vector(s) : s \in SeqOf(S, 2)}
    \cup {[Vector(<<>>) EXCEPT !.type = ""], [Vector(<<>>) EXCEPT !.reached = FALSE],
          [Vector(<<>>) EXCEPT !.status = 422], [Vector(<<>>) EXCEPT !.decodes = FALSE],
          [Vector(<<>>) EXCEPT !.api = "error"],
          [Vector(<<[user |-> 1, pair |-> [kind |-> "none", number |-> None]]>>) EXCEPT !.type = "matrix"]}

MCAnswers ==
    "duration" :> Answer({Sample(1, 0), Sample(1, 3), Sample(2, 4), Sample(2, None)})
    @@ "count" :> Answer({Sample(1, 3), Sample(2, 1), Sample(None, 2)})
    @@ "groups" :> Answer({InGroup(1, 1, 1, 1), InGroup(1, 2, 1, 4), InGroup(1, 1, 2, 4), InGroup(3, 1, 1, 2)})
================================================================================
