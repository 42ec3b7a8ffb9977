--------------------------- MODULE ParquetRecords ---------------------------
(***************************************************************************)
(* How the Parquet exporter turns a request into records                   *)
(* (exporter/parquetexporter: schema.go, metrics.go, traces.go, logs.go,   *)
(* attributes.go).  A record has one builder for each column of a schema;  *)
(* the code appends to them by name, one item of the request after the     *)
(* other, and nothing but its care keeps the columns at the same length.   *)
(*                                                                         *)
(* A request is [signal, resources], where resources is a sequence of      *)
(* [attributes, schemaUrl, scopes], scopes one of [name, version,          *)
(* attributes, schemaUrl, items], and items the spans, the log records or  *)
(* the metrics; a metric is [type, name, description, unit, temporality,   *)
(* monotonic, points].  What an item says of itself is a record whose      *)
(* fields carry the names of the columns they are meant for.               *)
(*                                                                         *)
(* External: the conversion of a 64-bit integer to a float64 (ToDouble),   *)
(* the builders of the Arrow library and json.Marshal.                     *)
(***************************************************************************)
EXTENDS Integers, Sequences, SequencesExt

CONSTANTS
  Width,    \* bits of an int64 and of a uint64
  Half,     \* bits of an int32 and of a uint32
  Mantissa  \* bits of the mantissa of a float64

ASSUME WidthAssumption == Width \in Nat \ {0}
ASSUME HalfAssumption == Half \in Nat \ {0}
ASSUME MantissaAssumption == Mantissa \in Nat \ {0}

MaxSigned(w) == 2 ^ (w - 1) - 1
MaxInt == MaxSigned(Width)

(* int64(v) of a uint64, int32(v) of a uint32: the same bits. *)
AsSigned(v, w) == IF v <= MaxSigned(w) THEN v ELSE v - 2 ^ w
ToInt(v)   == AsSigned(v, Width)
ToInt32(v) == AsSigned(v, Half)

(* float64(v): the nearest number with Mantissa bits, the even one of two. *)
Abs(v) == IF v < 0 THEN -v ELSE v

Spacing(v) == CHOOSE s \in {2 ^ k : k \in 0 .. Width} :
                /\ v < s * 2 ^ Mantissa
                /\ s = 1 \/ v >= (s \div 2) * 2 ^ Mantissa

RoundHalfEven(v, s) ==
  LET q == v \div s
      r == v % s
  IN IF 2 * r > s \/ (2 * r = s /\ q % 2 = 1) THEN (q + 1) * s ELSE q * s

ToDouble(v) == LET a == RoundHalfEven(Abs(v), Spacing(Abs(v)))
               IN IF v < 0 THEN -a ELSE a

-----------------------------------------------------------------------------
(* schema.go: the columns of every table, each with its type. *)

Of(type, names) == {<<c, type>> : c \in names}

TracesSchema ==
  Of("string", {"TraceId", "SpanId", "ParentSpanId", "TraceState", "SpanName", "SpanKind",
                "ServiceName", "ResourceAttributes", "ScopeName", "ScopeVersion",
                "SpanAttributes", "StatusCode", "StatusMessage"})
  \cup Of("int64", {"Timestamp", "Duration"}) \cup Of("list", {"Events", "Links"})

LogsSchema ==
  Of("string", {"TraceId", "SpanId", "SeverityText", "ServiceName", "Body",
                "ResourceAttributes", "ScopeName", "ScopeVersion", "ScopeAttributes",
                "LogAttributes", "EventName"})
  \cup Of("int64", {"Timestamp"}) \cup Of("int32", {"TraceFlags", "SeverityNumber"})

MetricsCommonFields ==
  Of("string", {"ResourceAttributes", "ResourceSchemaUrl", "ScopeName", "ScopeVersion",
                "ScopeAttributes", "ScopeSchemaUrl", "ServiceName", "MetricName",
                "MetricDescription", "MetricUnit", "Attributes"})
  \cup Of("int64", {"StartTimeUnix", "TimeUnix"}) \cup Of("int32", {"Flags"})

MetricsGaugeSchema ==
  MetricsCommonFields \cup Of("float64", {"Value"}) \cup Of("list", {"Exemplars"})

MetricsSumSchema ==
  MetricsCommonFields \cup Of("float64", {"Value"}) \cup Of("int32", {"AggregationTemporality"})
  \cup Of("bool", {"IsMonotonic"}) \cup Of("list", {"Exemplars"})

MetricsHistogramSchema ==
  MetricsCommonFields \cup Of("int64", {"Count"}) \cup Of("nullable", {"Sum", "Min", "Max"})
  \cup Of("int32", {"AggregationTemporality"})
  \cup Of("list", {"BucketCounts", "ExplicitBounds", "Exemplars"})

MetricsExpHistogramSchema ==
  MetricsCommonFields \cup Of("int64", {"Count", "ZeroCount"})
  \cup Of("nullable", {"Sum", "Min", "Max"})
  \cup Of("int32", {"Scale", "PositiveOffset", "NegativeOffset", "AggregationTemporality"})
  \cup Of("list", {"PositiveBucketCounts", "NegativeBucketCounts", "Exemplars"})

MetricsSummarySchema ==
  MetricsCommonFields \cup Of("int64", {"Count"}) \cup Of("float64", {"Sum"})
  \cup Of("list", {"ValueAtQuantiles"})

Schema(kind) ==
  CASE kind = "traces"  -> TracesSchema
    [] kind = "logs"    -> LogsSchema
    [] kind = "gauge"   -> MetricsGaugeSchema
    [] kind = "sum"     -> MetricsSumSchema
    [] kind = "histogram"    -> MetricsHistogramSchema
    [] kind = "exphistogram" -> MetricsExpHistogramSchema
    [] kind = "summary" -> MetricsSummarySchema

ColumnNames(kind) == {field[1] : field \in Schema(kind)}

MetricKinds == {"gauge", "sum", "histogram", "exphistogram", "summary"}

-----------------------------------------------------------------------------
(* What the code appends: [col, type, cell], the builder it asks for, the  *)
(* type it takes it for, and what it appends to it.  A row is a sequence   *)
(* of appends.                                                             *)

NULL == "NULL"

Append1(type, col, cell) == [col |-> col, type |-> type, cell |-> cell]

Str(col, v)     == Append1("string", col, v)
I64(col, v)     == Append1("int64", col, v)
I32(col, v)     == Append1("int32", col, v)
F64(col, v)     == Append1("float64", col, v)
Boolean(col, v) == Append1("bool", col, v)
List(col, v)    == Append1("list", col, v)

I64ListFromUint(col, vals) == List(col, [n \in DOMAIN vals |-> ToInt(vals[n])])

(* The mutant appends to no column when a value is not there. *)
F64IfSet(col, has, v)  == Append1("nullable", IF has THEN col ELSE "none", v)
F64OrNull(col, has, v) == Append1("nullable", col, IF has THEN v ELSE NULL)

(* attributesToJSON: numbers that json.Marshal rejects become null. *)
Rejected == {"NaN", "[NaN]"}

SanitizeForJSON(v) == CASE v = "NaN"   -> "null"
                        [] v = "[NaN]" -> "[null]"
                        [] OTHER       -> v

ValuesOf(m) == {m[k] : k \in DOMAIN m}

AttributesToJSON(m) == IF ValuesOf(m) \cap Rejected = {} THEN m
                       ELSE [k \in DOMAIN m |-> SanitizeForJSON(m[k])]

ServiceName(res) == IF "service.name" \in DOMAIN res.attributes
                    THEN res.attributes["service.name"] ELSE ""

-----------------------------------------------------------------------------
(* metrics.go. *)

Common(res, scope, m, dp) ==
  <<Str("ResourceAttributes", AttributesToJSON(res.attributes)),
    Str("ResourceSchemaUrl", res.schemaUrl), Str("ScopeName", scope.name),
    Str("ScopeVersion", scope.version),
    Str("ScopeAttributes", AttributesToJSON(scope.attributes)),
    Str("ScopeSchemaUrl", scope.schemaUrl), Str("ServiceName", ServiceName(res)),
    Str("MetricName", m.name), Str("MetricDescription", m.description),
    Str("MetricUnit", m.unit), Str("Attributes", AttributesToJSON(dp.Attributes)),
    I64("StartTimeUnix", ToInt(dp.StartTimeUnix)), I64("TimeUnix", ToInt(dp.TimeUnix)),
    I32("Flags", ToInt32(dp.Flags))>>

NumberValue(v) == IF v.kind = "int" THEN ToDouble(v.n) ELSE v.n

GaugeRow(m, dp) ==
  <<F64("Value", NumberValue(dp.Value)), List("Exemplars", dp.Exemplars)>>

SumRow(m, dp) ==
  <<F64("Value", NumberValue(dp.Value)),
    I32("AggregationTemporality", m.temporality),
    Boolean("IsMonotonic", m.monotonic), List("Exemplars", dp.Exemplars)>>

HistogramRow(m, dp) ==
  <<I64("Count", ToInt(dp.Count)), F64OrNull("Sum", "Sum" \in dp.has, dp.Sum),
    I64ListFromUint("BucketCounts", dp.BucketCounts),
    List("ExplicitBounds", dp.ExplicitBounds),
    F64OrNull("Min", "Min" \in dp.has, dp.Min),
    F64OrNull("Max", "Max" \in dp.has, dp.Max),
    I32("AggregationTemporality", m.temporality), List("Exemplars", dp.Exemplars)>>

ExpHistogramRow(m, dp) ==
  <<I64("Count", ToInt(dp.Count)), F64OrNull("Sum", "Sum" \in dp.has, dp.Sum),
    I32("Scale", dp.Scale), I64("ZeroCount", ToInt(dp.ZeroCount)),
    I32("PositiveOffset", dp.PositiveOffset),
    I64ListFromUint("PositiveBucketCounts", dp.PositiveBucketCounts),
    I32("NegativeOffset", dp.NegativeOffset),
    I64ListFromUint("NegativeBucketCounts", dp.NegativeBucketCounts),
    F64OrNull("Min", "Min" \in dp.has, dp.Min),
    F64OrNull("Max", "Max" \in dp.has, dp.Max),
    I32("AggregationTemporality", m.temporality), List("Exemplars", dp.Exemplars)>>

SummaryRow(m, dp) ==
  <<I64("Count", ToInt(dp.Count)), F64("Sum", dp.Sum),
    List("ValueAtQuantiles", dp.ValueAtQuantiles)>>

(* The branch of appendMetric; a metric of no type appends nothing. *)
RowOf(m, dp) ==
  CASE m.type = "gauge"        -> GaugeRow(m, dp)
    [] m.type = "sum"          -> SumRow(m, dp)
    [] m.type = "histogram"    -> HistogramRow(m, dp)
    [] m.type = "exphistogram" -> ExpHistogramRow(m, dp)
    [] m.type = "summary"      -> SummaryRow(m, dp)

AppendMetric(kind, res, scope, m) ==
  IF m.type # kind THEN <<>>
  ELSE [n \in DOMAIN m.points |->
          Common(res, scope, m, m.points[n]) \o RowOf(m, m.points[n])]

(* traces.go: appendSpanRow.  The mutant subtracts whatever the order.     *)
Elapsed(start, end) == ToInt((end - start) % 2 ^ Width)

DurationOf(start, end) == IF end > start THEN ToInt(end - start) ELSE 0

SpanRow(res, scope, s) ==
  <<I64("Timestamp", ToInt(s.Timestamp)), Str("TraceId", s.TraceId),
    Str("SpanId", s.SpanId), Str("ParentSpanId", s.ParentSpanId),
    Str("TraceState", s.TraceState), Str("SpanName", s.SpanName),
    Str("SpanKind", s.SpanKind), Str("ServiceName", ServiceName(res)),
    Str("ResourceAttributes", AttributesToJSON(res.attributes)),
    Str("ScopeName", scope.name), Str("ScopeVersion", scope.version),
    Str("SpanAttributes", AttributesToJSON(s.SpanAttributes)),
    I64("Duration", DurationOf(s.Timestamp, s.end)),
    Str("StatusCode", s.StatusCode), Str("StatusMessage", s.StatusMessage),
    List("Events", s.Events), List("Links", s.Links)>>

(* logs.go: logsToRecord. *)
LogRow(res, scope, lr) ==
  <<I64("Timestamp", ToInt(lr.Timestamp)), Str("TraceId", lr.TraceId),
    Str("SpanId", lr.SpanId), I32("TraceFlags", ToInt32(lr.TraceFlags)),
    Str("SeverityText", lr.SeverityText), I32("SeverityNumber", lr.SeverityNumber),
    Str("ServiceName", ServiceName(res)), Str("Body", lr.Body),
    Str("ResourceAttributes", AttributesToJSON(res.attributes)),
    Str("ScopeName", scope.name), Str("ScopeVersion", scope.version),
    Str("ScopeAttributes", AttributesToJSON(scope.attributes)),
    Str("LogAttributes", AttributesToJSON(lr.LogAttributes)),
    Str("EventName", lr.EventName)>>

-----------------------------------------------------------------------------
(* The loops over resources, scopes and items of a request, each of them a *)
(* slice.                                                                  *)

IsSeq(s) == s \in Seq(Range(s))

(* The unsigned numbers of a point. *)
PointNumbers(m, dp) ==
  /\ {dp.StartTimeUnix, dp.TimeUnix, dp.Flags} \subseteq Nat
  /\ m.type \in {"histogram", "exphistogram", "summary"} => dp.Count \in Nat
  /\ m.type = "histogram" => dp.BucketCounts \in Seq(Nat)
  /\ m.type = "exphistogram" => /\ dp.ZeroCount \in Nat
                                /\ dp.PositiveBucketCounts \in Seq(Nat)
                                /\ dp.NegativeBucketCounts \in Seq(Nat)

WellFormed(req) ==
  /\ req.signal \in {"traces", "logs", "metrics"}
  /\ IsSeq(req.resources)
  /\ \A res \in Range(req.resources) :
       /\ IsSeq(res.scopes)
       /\ \A scope \in Range(res.scopes) :
            /\ IsSeq(scope.items)
            /\ req.signal = "metrics" => \A m \in Range(scope.items) :
                 IsSeq(m.points) /\ \A dp \in Range(m.points) : PointNumbers(m, dp)
            /\ req.signal = "traces" =>
                 \A s \in Range(scope.items) : s.Timestamp \in Nat /\ s.end \in Nat
            /\ req.signal = "logs" =>
                 \A lr \in Range(scope.items) : lr.Timestamp \in Nat /\ lr.TraceFlags \in Nat

ItemRows(kind, res, scope, item) ==
  CASE kind = "traces" -> <<SpanRow(res, scope, item)>>
    [] kind = "logs"   -> <<LogRow(res, scope, item)>>
    [] OTHER           -> AppendMetric(kind, res, scope, item)

ForEach(s, Op(_)) == FlattenSeq([n \in DOMAIN s |-> Op(s[n])])

(* The appends, row by row, for one table. *)
RowsFor(kind, req) ==
  ForEach(req.resources, LAMBDA res :
    ForEach(res.scopes, LAMBDA scope :
      ForEach(scope.items, LAMBDA item : ItemRows(kind, res, scope, item))))

(* The builders' contents after all of them: the cells of a column are in  *)
(* the order of the appends, whichever row they were meant for.            *)
Column(appends, col) == ForEach(appends, LAMBDA a : IF a.col = col THEN <<a.cell>> ELSE <<>>)

Kinds(req) == CASE req.signal = "traces"  -> {"traces"}
                [] req.signal = "logs"    -> {"logs"}
                [] req.signal = "metrics" -> {k \in MetricKinds : RowsFor(k, req) # <<>>}

RecordOf(kind, req) ==
  LET rows    == RowsFor(kind, req)
      appends == FlattenSeq(rows)
  IN [rows    |-> Len(rows),
      types   |-> {<<appends[n].col, appends[n].type>> : n \in DOMAIN appends},
      columns |-> [c \in ColumnNames(kind) |-> Column(appends, c)]]

ToRecords(req) == [kind \in Kinds(req) |-> RecordOf(kind, req)]
=============================================================================
