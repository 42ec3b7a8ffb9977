---------------------------- MODULE MetricsPath ----------------------------
(***************************************************************************)
(* What becomes of data on its way through a collector: an SNMP target     *)
(* (SnmpCollect) or the NATS receiver, which takes requests of any form,   *)
(* on one side, and the Parquet exporter's records (ParquetRecords) on the *)
(* other.  The pipeline between them calls the exporter with the request   *)
(* as it is.                                                               *)
(***************************************************************************)
EXTENDS SnmpCollect

CONSTANT Requests \* what the NATS receiver may hand over

ASSUME RequestsAssumption == \A req \in Requests : WellFormed(req)

VARIABLES
  source,  \* who handed over the last request
  request, \* the last request
  records  \* the records made from it

path == <<source, request, records>>
vars == <<dev, age, stage, group, walks, part, cursor, collected, attrs, good, failures,
          before, touched, source, request, records>>

NoRequest == [signal |-> "metrics", resources |-> <<>>]

Init ==
  /\ CollectInit
  /\ source = "none" /\ request = NoRequest /\ records = ToRecords(NoRequest)

Push(from, req) ==
  /\ source' = from /\ request' = req
  /\ records' = ToRecords(req)

Poll == Sent /\ Push("snmp", BuildMetrics(collected))

Receive == \E req \in Requests :
  /\ stage = "start" /\ source = "none"
  /\ Push("nats", req)
  /\ UNCHANGED collectVars

(* What was handed over is forgotten when the next round begins. *)
Forget == source' = "none" /\ request' = NoRequest /\ records' = ToRecords(NoRequest)

Next == \/ Poll \/ Receive
        \/ (AttributesRead \/ NextRound) /\ Forget
        \/ (Agent \/ Collect) /\ UNCHANGED path

Spec == Init /\ [][Next]_vars

-----------------------------------------------------------------------------
(* Properties. *)

(* Every builder of a record has been appended to once for each row, as    *)
(* the type its column has in the schema, and without a value only where   *)
(* the column may be NULL: otherwise NewRecord panics, or a cell slips     *)
(* into another row.                                                       *)
RecordsFitSchema ==
  \A kind \in DOMAIN records :
    /\ records[kind].types \subseteq Schema(kind)
    /\ \A c \in ColumnNames(kind) : Len(records[kind].columns[c]) = records[kind].rows

(* The points of a kind in an item of a request, and their places: the     *)
(* resource, the scope, the item, and the point of a metric.               *)
PointsOf(kind, item) == IF kind \notin MetricKinds THEN {1}
                        ELSE IF item.type = kind THEN DOMAIN item.points ELSE {}

Places(kind, req) ==
  LET places(a, b, c) ==
        {<<a, b, c, d>> : d \in PointsOf(kind, req.resources[a].scopes[b].items[c])}
  IN UNION {UNION {UNION {places(a, b, c) : c \in DOMAIN req.resources[a].scopes[b].items} :
                   b \in DOMAIN req.resources[a].scopes} :
            a \in DOMAIN req.resources}

Earlier(p, q) == \E n \in 1 .. 4 : p[n] < q[n] /\ \A k \in 1 .. n - 1 : p[k] = q[k]

(* A cell holds a map: every attribute is there, and unchanged unless it   *)
(* is a number that JSON cannot express.                                   *)
SameAttributes(cell, m) ==
  DOMAIN cell = DOMAIN m /\ \A k \in DOMAIN m : m[k] \in Rejected \/ cell[k] = m[k]

(* A signed cell for an unsigned number: the number as far as it fits, and *)
(* beyond that the negative one with the same bits.                        *)
SameBits(cell, v, w) == /\ v <= MaxSigned(w) => cell = v
                        /\ v > MaxSigned(w)  => cell + 2 ^ w = v

Unsigned64 == {"StartTimeUnix", "TimeUnix", "Timestamp", "Count", "ZeroCount"}
Unsigned32 == {"Flags", "TraceFlags"}
Buckets    == {"BucketCounts", "PositiveBucketCounts", "NegativeBucketCounts"}

SameCounts(cell, counts) ==
  DOMAIN cell = DOMAIN counts /\ \A n \in DOMAIN counts : SameBits(cell[n], counts[n], Width)

OfResource(res) == [ResourceSchemaUrl |-> res.schemaUrl, ServiceName |-> ServiceName(res)]
OfScope(scope)  == [ScopeName |-> scope.name, ScopeVersion |-> scope.version,
                    ScopeSchemaUrl |-> scope.schemaUrl]
OfMetric(m)     == [MetricName |-> m.name, MetricDescription |-> m.description,
                    MetricUnit |-> m.unit, AggregationTemporality |-> m.temporality,
                    IsMonotonic |-> m.monotonic]

(* The cell of a column is that of one point, its metric, its scope and    *)
(* its resource; what is not set is NULL; an unsigned number keeps its     *)
(* bits; a duration is right as far as an int64 goes, and a span that ends *)
(* before it starts takes no time.                                         *)
CellIs(kind, c, cell, res, scope, m, item) ==
  CASE c = "ResourceAttributes" -> SameAttributes(cell, res.attributes)
    [] c = "ScopeAttributes"    -> SameAttributes(cell, scope.attributes)
    [] c \in {"Attributes", "SpanAttributes", "LogAttributes"} ->
         SameAttributes(cell, item[c])
    [] c \in {"Sum", "Min", "Max"} /\ kind # "summary" ->
         cell = IF c \in item.has THEN item[c] ELSE NULL
    [] c = "Value" -> cell = IF item.Value.kind = "int" THEN ToDouble(item.Value.n)
                                                        ELSE item.Value.n
    [] c \in Unsigned64 -> SameBits(cell, item[c], Width)
    [] c \in Unsigned32 -> SameBits(cell, item[c], Half)
    [] c \in Buckets    -> SameCounts(cell, item[c])
    [] c = "Duration" -> item.end - item.Timestamp <= MaxInt =>
                           /\ cell >= 0
                           /\ item.end >= item.Timestamp => item.Timestamp + cell = item.end
    [] c \in DOMAIN OfResource(res) -> cell = OfResource(res)[c]
    [] c \in DOMAIN OfScope(scope)  -> cell = OfScope(scope)[c]
    [] kind \in MetricKinds /\ c \in DOMAIN OfMetric(m) -> cell = OfMetric(m)[c]
    [] OTHER -> cell = item[c]

CellsOf(kind, n, p) ==
  LET res   == request.resources[p[1]]
      scope == res.scopes[p[2]]
      m     == scope.items[p[3]]
      item  == IF kind \in MetricKinds THEN m.points[p[4]] ELSE m
  IN \A c \in DOMAIN records[kind].columns :
       CellIs(kind, c, records[kind].columns[c][n], res, scope, m, item)

(* Every point of a request is one row, in the order of the request: no    *)
(* point is left out or appears twice, and no cell of its row is that of   *)
(* another point, or of another column (the loops and appends of           *)
(* metrics.go, traces.go and logs.go).                                     *)
RowsArePoints ==
  /\ \A kind \in DOMAIN records :
       LET places == Places(kind, request)
       IN /\ records[kind].rows = Cardinality(places)
          /\ \A p \in places : CellsOf(kind, 1 + Cardinality({q \in places : Earlier(q, p)}), p)
  /\ request.signal = "metrics" =>
       \A kind \in MetricKinds \ DOMAIN records : Places(kind, request) = {}

(* The rows of a metric; of an interface when it is at index i.            *)
Table(m) == IF m.type = "gauge" THEN "gauge" ELSE "sum"

RowsNamed(m) ==
  IF Table(m) \notin DOMAIN records THEN {}
  ELSE {n \in 1 .. records[Table(m)].rows : records[Table(m)].columns.MetricName[n] = m.name}

Cell(m, c, n) == records[Table(m)].columns[c][n]

RowsAt(g, m, i) ==
  {n \in RowsNamed(m) : g.index \in DOMAIN Cell(m, "Attributes", n)
                        /\ Cell(m, "Attributes", n)[g.index] = ToString(i)}

(* What object oid of interface f was during the round. *)
Seen(f, oid) == {Rows[f][a][oid] : a \in before.age[f] .. age[f]}

(* A row of the agent's table whose interface stays where it is reaches    *)
(* the metric's table exactly once, with a value and with labels that it   *)
(* had during the round, whatever other columns lack, whatever else        *)
(* changes on the agent and whichever other group fails; of an index       *)
(* without an interface there is no row.  Nothing is claimed of a row that *)
(* lacks the first metric of its group, from whose walk collectTable takes *)
(* the indexes.                                                            *)
Has(f, oid) == f # NoInterface /\ oid \in DOMAIN Rows[f][1]

HasNumber(f, m) == Has(f, m.oid) /\ IsSupportedNumber(Rows[f][1][m.oid])

TableRowsArrive(g, m, i) ==
  LET f == before.dev[i]
  IN /\ ~HasNumber(f, m) => RowsAt(g, m, i) = {}
     /\ HasNumber(f, m) /\ Has(f, g.metrics[1].oid) =>
          \E n \in RowsAt(g, m, i) :
            /\ RowsAt(g, m, i) = {n}
            /\ \E v \in Seen(f, m.oid) : Cell(m, "Value", n) = ToDouble(v.n)
            /\ \A d \in DOMAIN LabelDefs(g) :
                 LET label == LabelDefs(g)[d]
                 IN label.oid \in DOMAIN Rows[f][1] =>
                      /\ label.name \in DOMAIN Cell(m, "Attributes", n)
                      /\ \E v \in Seen(f, label.oid) :
                           Cell(m, "Attributes", n)[label.name] = Sprintf(v)

ScalarArrives(m) ==
  Cardinality(RowsNamed(m)) =
    IF m.oid \in DOMAIN Scalars /\ IsSupportedNumber(Scalars[m.oid]) THEN 1 ELSE 0

DeviceRowsReachTable ==
  source = "snmp" =>
    \A k \in DOMAIN Groups : \A c \in DOMAIN Groups[k].metrics :
      LET g == Groups[k]
          m == g.metrics[c]
      IN /\ \A n \in RowsNamed(m) : /\ Cell(m, "ResourceAttributes", n)["snmp.host"] = Host
                                        /\ Cell(m, "ResourceAttributes", n)["snmp.port"] = Port
         /\ k \notin good => RowsNamed(m) = {}
         /\ k \in good /\ ~g.walk => ScalarArrives(m)
         /\ k \in good /\ g.walk  => \A i \in Indexes \ touched : TableRowsArrive(g, m, i)

(* Two rows of a round are never points of one series, even when an        *)
(* interface moves to another index while its table is read.               *)
SeriesStayApart ==
  source = "snmp" =>
    \A kind \in DOMAIN records : \A a, b \in 1 .. records[kind].rows :
      LET columns == records[kind].columns
      IN a # b => \/ columns.MetricName[a] # columns.MetricName[b]
                  \/ columns.Attributes[a] # columns.Attributes[b]

(* "Resolve raw indexes to human-readable labels": a label whose object is *)
(* a text is that text.                                                    *)
LabelsReadable ==
  source = "snmp" =>
    \A kind \in DOMAIN records : \A n \in 1 .. records[kind].rows :
      \A k \in DOMAIN records[kind].columns.Attributes[n] :
        records[kind].columns.Attributes[n][k] \notin {Bytes[t] : t \in DOMAIN Bytes}
=============================================================================
