--------------------------- MODULE MCMetricsPath ---------------------------
(***************************************************************************)
(* A table of two rows and a group of scalars; requests with several       *)
(* resources, scopes, items and points of every kind.                      *)
(***************************************************************************)
EXTENDS MetricsPath

Num(kind, n)     == [kind |-> kind, n |-> n]
Text(kind, text) == [kind |-> kind, text |-> text]

MCBytes == [t \in {"eth0", "eth1", "sw"} |->
              CASE t = "eth0" -> "[101 116 104 48]"
                [] t = "eth1" -> "[101 116 104 49]"
                [] t = "sw"   -> "[115 119]"]

(* With Width = 5 and Mantissa = 3 a signed number ends at 15, and numbers *)
(* from 9 on are rounded.  eth1 has no speed and no alias, lo no octets.   *)
MCRows ==
  [eth0 |-> <<[octets |-> Num("uint64", 9), speed |-> Num("uint", 3),
               alias |-> Text("string", "up"), name |-> Text("[]byte", "eth0")],
              [octets |-> Num("uint64", 17), speed |-> Num("uint", 4),
               alias |-> Text("string", "up"), name |-> Text("[]byte", "eth0")]>>,
   eth1 |-> <<[octets |-> Num("uint64", 15), name |-> Text("[]byte", "eth1")]>>,
   lo   |-> <<[speed |-> Num("uint", 1), name |-> Text("[]byte", "eth1")]>>]

MCScalars == [uptime |-> Num("uint32", 11), descr |-> Text("[]byte", "sw")]

MCGroups ==
  <<[index |-> "if_index", walk |-> TRUE,
     metrics |-> <<[oid |-> "octets", name |-> "octets", type |-> "counter"],
                   [oid |-> "speed", name |-> "speed", type |-> "gauge"]>>,
     attributes |-> <<[oid |-> "alias", name |-> "alias"]>>,
     lookups |-> <<[oid |-> "name", name |-> "ifname"]>>, scalars |-> <<>>],
    [index |-> "sys_index", walk |-> FALSE,
     metrics |-> <<[oid |-> "uptime", name |-> "uptime", type |-> "gauge"],
                   [oid |-> "descr", name |-> "descr", type |-> "gauge"],
                   [oid |-> "load", name |-> "load", type |-> "up_down_counter"]>>,
     attributes |-> <<>>, lookups |-> <<>>,
     scalars |-> <<[oid |-> "descr", name |-> "snmp.host"], [oid |-> "load", name |-> "load"]>>]>>

(* Requests: the fields of an item say whose they are. *)
Field(c, id) == [field |-> c, of |-> id]
Fields(cs, id) == [c \in cs |-> Field(c, id)]

PointFields == {"Exemplars", "Sum", "Min", "Max", "ExplicitBounds", "Scale", "PositiveOffset",
                "NegativeOffset", "ValueAtQuantiles"}
SpanFields  == {"TraceId", "SpanId", "ParentSpanId", "TraceState", "SpanName", "SpanKind",
                "StatusCode", "StatusMessage", "Events", "Links"}
LogFields   == {"TraceId", "SpanId", "SeverityText", "SeverityNumber", "Body", "EventName"}

Attrs(id) == CASE id = 1 -> [k |-> "v", x |-> "NaN"]
               [] id = 2 -> [k |-> "[NaN]", x |-> "v"]
               [] OTHER  -> <<>>

(* Unsigned numbers, the same for no two fields of a point, below and above *)
(* the signed ones: 15 with Width = 5, 3 with Half = 3.                    *)
Numbers(id) ==
  [StartTimeUnix |-> 10 + id, TimeUnix |-> 15 + id, Flags |-> 2 + id, Count |-> 20 + id,
   ZeroCount |-> 4 + id, BucketCounts |-> <<id, 24 + id>>,
   PositiveBucketCounts |-> <<31 - id>>, NegativeBucketCounts |-> <<8 + id, 14 + id>>]

Point(id, has, value) ==
  Fields(PointFields, id) @@ Numbers(id)
    @@ [Attributes |-> Attrs(id), has |-> has, Value |-> value]
Metric(id, type, points) ==
  [type |-> type, name |-> Field("name", id), description |-> Field("description", id),
   unit |-> Field("unit", id), temporality |-> Field("temporality", id), monotonic |-> id = 1,
   points |-> points]
Span(id, start, end) ==
  Fields(SpanFields, id) @@ [SpanAttributes |-> Attrs(id), Timestamp |-> start, end |-> end]
Log(id) == Fields(LogFields, id)
             @@ [LogAttributes |-> Attrs(id), Timestamp |-> 14 + id, TraceFlags |-> 2 + id]

Scope(id, items) ==
  [name |-> Field("name", id), version |-> Field("version", id), attributes |-> Attrs(id),
   schemaUrl |-> Field("schemaUrl", id), items |-> items]
Resource(id, scopes) ==
  [attributes |-> IF id = 1 THEN ("service.name" :> "shop") ELSE Attrs(id),
   schemaUrl |-> Field("schemaUrl", id), scopes |-> scopes]

(* Three items in two scopes, or in two resources. *)
Arranged(a, b, c) ==
  {<<Resource(1, <<Scope(1, <<a, b>>), Scope(2, <<c>>)>>)>>,
   <<Resource(1, <<Scope(1, <<a>>)>>), Resource(2, <<Scope(1, <<>>), Scope(3, <<b, c>>)>>)>>}

Sets   == {{}, {"Sum"}, {"Min", "Max"}}
Values == {Num("int", 13), Num("double", 12), Num("int", -9)}

MetricRequests ==
  {[signal |-> "metrics", resources |-> rs] : rs \in
     UNION {Arranged(Metric(1, t, <<Point(1, h, v), Point(2, {"Sum", "Min", "Max"}, v)>>),
                     Metric(2, u, <<Point(3, {"Min"}, Num("int", 2))>>),
                     Metric(3, t, <<Point(4, h, Num("int", 1))>>)) :
              t \in MetricKinds, u \in MetricKinds, h \in Sets, v \in Values}}

Times == {0, 3, 18}

SpanRequests ==
  {[signal |-> "traces", resources |-> rs] : rs \in
     UNION {Arranged(Span(1, s, e), Span(2, e, s), Span(3, 0, 5)) : s \in Times, e \in Times}}

LogRequests == {[signal |-> "logs", resources |-> rs] : rs \in Arranged(Log(1), Log(2), Log(3))}

MCRequests == MetricRequests \cup SpanRequests \cup LogRequests
=============================================================================
