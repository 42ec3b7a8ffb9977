---------------------------- MODULE SnmpCollect ----------------------------
(***************************************************************************)
(* How the SNMP receiver reads one target (receiver/snmpreceiver:          *)
(* internal/poller/collector.go and collectAndSend of poller.go,           *)
(* internal/connection, internal/metrics/builder.go).  A table is read     *)
(* column by column and row by row, while the agent goes on counting and   *)
(* interfaces come and go: the columns are put together again by index.    *)
(*                                                                         *)
(* External, modelled from the use made of it: the agent, and the library, *)
(* whose Walk gives the objects of one column that exist when it comes by, *)
(* in the order of their indexes, and whose Get gives those that exist.    *)
(* An object identifier is the column, with the index of the row.          *)
(***************************************************************************)
EXTENDS ParquetRecords, FiniteSets, TLC

CONSTANTS
  Host,       \* TargetDef.Host
  Port,       \* TargetDef.Port, as a text
  Groups,     \* TargetDef.MetricGroups, a sequence
  Indexes,    \* of table rows
  Interfaces, \* what a row may be about
  NoInterface,
  Rows,       \* for each interface its row, and what it becomes as it counts
  Scalars,    \* the agent's objects outside tables
  Bytes,      \* "%v" of the bytes of a text
  MaxChanges, \* bound on interfaces that come or go during a round
  MaxFailures \* bound on requests that fail during a round

(* A group is [index, walk, metrics, attributes, lookups, scalars]: index  *)
(* is its name with "_index", walk says whether it is a table, metrics     *)
(* are [oid, name, type], the others [oid, name].  A value is [kind, n] or *)
(* [kind, text], kind its Go type.                                         *)
ASSUME IndexesAssumption ==
  /\ Indexes \subseteq Nat \ {0} /\ IsFiniteSet(Indexes)
  /\ NoInterface \notin Interfaces
ASSUME RowsAssumption ==
  \A f \in Interfaces : Rows[f] # <<>> /\ \A n \in DOMAIN Rows[f] : DOMAIN Rows[f][n] = DOMAIN Rows[f][1]
ASSUME CollectBoundsAssumption == MaxChanges \in Nat /\ MaxFailures \in Nat
(* Validate: a group has a metric. *)
ASSUME GroupsAssumption ==
  /\ IsSeq(Groups)
  /\ \A g \in DOMAIN Groups : /\ Groups[g].metrics # <<>>
                             /\ IsSeq(Groups[g].metrics)
                             /\ IsSeq(Groups[g].attributes) /\ IsSeq(Groups[g].lookups)

VARIABLES
  dev,       \* the interface at each index of the agent's table
  age,       \* how far each interface has counted
  stage,     \* of the target's loop
  group,     \* the group it is at
  walks,     \* the columns of the group that it has read
  part,      \* what it has read of the next one
  cursor,    \* the index it has read last
  collected, \* the metrics of the round so far
  attrs,     \* target.ResourceAttrs
  good,      \* the groups of the round that were read
  failures,  \* requests of the round that failed
  before,    \* dev and age when the round began
  touched    \* the indexes whose interface has changed since

agent   == <<dev, age>>
reading == <<stage, group, walks, part, cursor, collected, attrs, good, failures>>
round   == <<before, touched>>
collectVars == <<dev, age, stage, group, walks, part, cursor, collected, attrs, good,
                 failures, before, touched>>

Present(i)   == dev[i] # NoInterface
RowAt(i)     == Rows[dev[i]][age[dev[i]]]
HasObject(i, oid) == Present(i) /\ oid \in DOMAIN RowAt(i)

CollectInit ==
  /\ dev \in [Indexes -> Interfaces \cup {NoInterface}]
  /\ \A i, j \in Indexes : i # j /\ Present(i) => dev[i] # dev[j]
  /\ age = [f \in Interfaces |-> 1]
  /\ stage = "start" /\ group = 1
  /\ walks = <<>> /\ part = <<>> /\ cursor = 0
  /\ collected = <<>> /\ attrs = <<>> /\ good = {} /\ failures = 0
  /\ before = [dev |-> dev, age |-> age] /\ touched = {}

-----------------------------------------------------------------------------
(* The agent. *)

Counts(f) ==
  /\ age[f] < Len(Rows[f])
  /\ age' = [age EXCEPT ![f] = @ + 1]
  /\ UNCHANGED <<dev, reading, round>>

Changes(i) ==
  /\ stage = "reading" /\ Cardinality(touched) < MaxChanges /\ i \notin touched
  /\ \E f \in {NoInterface} \cup (Interfaces \ {dev[j] : j \in Indexes}) :
       f # dev[i] /\ dev' = [dev EXCEPT ![i] = f]
  /\ touched' = touched \cup {i}
  /\ UNCHANGED <<age, reading, before>>

-----------------------------------------------------------------------------
(* collector.go. *)

(* fmt.Sprintf("%v", v).  A text comes from the library as bytes, unless   *)
(* it is an address or an identifier.                                      *)
Sprintf(v) == CASE v.kind = "[]byte" -> Bytes[v.text]
                [] v.kind = "string" -> v.text
                [] OTHER             -> ToString(v.n)

(* The attributes of a sequence of definitions, of which those in the      *)
(* domain of value were found; of two with one name the later one counts.  *)
Labels(defs, value) ==
  LET found == DOMAIN value
      last(name) == CHOOSE n \in found :
                      /\ defs[n].name = name
                      /\ \A k \in found : defs[k].name = name => k <= n
  IN [name \in {defs[n].name : n \in found} |-> Sprintf(value[last(name)])]

(* CollectScalarAttributes, of the values of one Get. *)
ScalarLabels(defs) ==
  LET found == {n \in DOMAIN defs : defs[n].oid \in DOMAIN Scalars}
  IN Labels(defs, [n \in found |-> Scalars[defs[n].oid]])

(* collectScalar. *)
CollectScalar(g) ==
  ForEach(g.metrics, LAMBDA m :
    IF m.oid \notin DOMAIN Scalars THEN <<>>
    ELSE <<[name |-> m.name, type |-> m.type,
            points |-> <<[value |-> Scalars[m.oid], labels |-> <<>>]>>]>>)

(* The columns in the order they are walked. *)
Columns(g)  == g.metrics \o g.attributes \o g.lookups
LabelDefs(g) == g.attributes \o g.lookups

(* collectTable, once every column is there: the first metric says which   *)
(* rows there are, and each column is asked for them by index.  (Their     *)
(* order is that of a Go map; nothing depends on it.)                      *)
TableIndexes(w) == SetToSeq(DOMAIN w[1])

(* The mutant leaves the index out. *)
RowLabels(g, w, i) ==
  LET column(n) == w[Len(g.metrics) + n]
      found     == {n \in DOMAIN LabelDefs(g) : i \in DOMAIN column(n)}
  IN Labels(LabelDefs(g), [n \in found |-> column(n)[i]])

TableLabels(g, w, i) == RowLabels(g, w, i) @@ (g.index :> ToString(i))

(* The mutant takes the n-th value of each column for the n-th row.        *)
ByPosition(w, c, i) ==
  LET n == Cardinality({j \in DOMAIN w[1] : j <= i})
      s == SetToSortSeq(DOMAIN w[c], <)
  IN IF n <= Len(s) THEN <<w[c][s[n]]>> ELSE <<>>

ByIndex(w, c, i) == IF i \in DOMAIN w[c] THEN <<w[c][i]>> ELSE <<>>

CollectTable(g, w) ==
  [c \in DOMAIN g.metrics |->
     [name |-> g.metrics[c].name, type |-> g.metrics[c].type,
      points |-> ForEach(TableIndexes(w), LAMBDA i :
                   [n \in DOMAIN ByIndex(w, c, i) |->
                      [value  |-> ByIndex(w, c, i)[n], labels |-> TableLabels(g, w, i)]])]]

-----------------------------------------------------------------------------
(* builder.go: BuildMetrics. *)

IsSupportedNumber(v) ==
  v.kind \in {"int", "int64", "uint", "uint32", "uint64", "float32", "float64"}

DataPointValue(v) ==
  CASE v.kind \in {"float32", "float64"} -> [kind |-> "double", n |-> v.n]
    [] v.kind \in {"uint", "uint64"} /\ v.n > MaxInt -> [kind |-> "double", n |-> ToDouble(v.n)]
    [] OTHER -> [kind |-> "int", n |-> v.n]

NumberPoint(p) ==
  [Attributes |-> p.labels, StartTimeUnix |-> 0, TimeUnix |-> 1, Flags |-> 0,
   Value |-> DataPointValue(p.value), Exemplars |-> <<>>]

BuiltMetric(cm) ==
  [type |-> IF cm.type = "gauge" THEN "gauge" ELSE "sum",
   name |-> cm.name, description |-> "", unit |-> "",
   temporality |-> "cumulative", monotonic |-> cm.type = "counter",
   points |-> ForEach(cm.points, LAMBDA p :
                IF IsSupportedNumber(p.value) THEN <<NumberPoint(p)>> ELSE <<>>)]

Known(cm) == cm.type \in {"gauge", "counter", "up_down_counter"}

(* Host and port are the target's, whatever its scalar attributes are      *)
(* called.                                                                 *)
ResourceAttributes == ("snmp.host" :> Host) @@ ("snmp.port" :> Port) @@ attrs

BuildMetrics(cs) ==
  [signal |-> "metrics",
   resources |-> <<[attributes |-> ResourceAttributes, schemaUrl |-> "",
     scopes |-> <<[name |-> "snmpreceiver", version |-> "", attributes |-> <<>>,
                   schemaUrl |-> "",
                   items |-> ForEach(cs, LAMBDA cm :
                               IF Known(cm) THEN <<BuiltMetric(cm)>> ELSE <<>>)]>>]>>]

-----------------------------------------------------------------------------
(* The loop of the target.  Start has read the scalar attributes, once,    *)
(* group by group; it goes without those of a group whose Get fails.       *)

Definitions(ok) ==
  FlattenSeq([g \in DOMAIN Groups |-> IF g \in ok THEN Groups[g].scalars ELSE <<>>])

StartRound(as) ==
  /\ stage' = IF Groups = <<>> THEN "waiting" ELSE "reading"
  /\ group' = 1 /\ attrs' = as
  /\ collected' = <<>> /\ good' = {} /\ failures' = 0
  /\ walks' = <<>> /\ part' = <<>> /\ cursor' = 0
  /\ before' = [dev |-> dev, age |-> age] /\ touched' = {}

AttributesRead ==
  /\ stage = "start"
  /\ \E ok \in SUBSET DOMAIN Groups : StartRound(ScalarLabels(Definitions(ok)))
  /\ UNCHANGED agent

(* On to the next group, or to the consumer if there is anything for it.   *)
GroupDone(cs, ok) ==
  /\ collected' = cs
  /\ good' = IF ok THEN good \cup {group} ELSE good
  /\ walks' = <<>> /\ part' = <<>> /\ cursor' = 0
  /\ IF group < Len(Groups)
     THEN group' = group + 1 /\ stage' = "reading"
     ELSE group' = group /\ stage' = IF cs = <<>> THEN "waiting" ELSE "sending"

Current == Groups[group]

WalkColumn == Columns(Current)[Len(walks) + 1].oid

Ahead == {i \in Indexes : i > cursor /\ HasObject(i, WalkColumn)}

WalkRow ==
  /\ stage = "reading" /\ Current.walk /\ Ahead # {}
  /\ LET i == CHOOSE i \in Ahead : \A j \in Ahead : i <= j
     IN /\ part' = [j \in DOMAIN part \cup {i} |->
                      IF j = i THEN RowAt(i)[WalkColumn] ELSE part[j]]
        /\ cursor' = i
  /\ UNCHANGED <<agent, stage, group, walks, collected, attrs, good, failures, round>>

WalkEnds ==
  /\ stage = "reading" /\ Current.walk /\ Ahead = {}
  /\ LET w == Append(walks, part)
     IN IF Len(w) = Len(Columns(Current))
        THEN GroupDone(collected \o CollectTable(Current, w), TRUE)
        ELSE /\ walks' = w /\ part' = <<>> /\ cursor' = 0
             /\ UNCHANGED <<stage, group, collected, good>>
  /\ UNCHANGED <<agent, attrs, failures, round>>

ScalarGet ==
  /\ stage = "reading" /\ ~Current.walk
  /\ GroupDone(collected \o CollectScalar(Current), TRUE)
  /\ UNCHANGED <<agent, attrs, failures, round>>

(* A Walk or a Get fails: nothing of the group is used. *)
RequestFails ==
  /\ stage = "reading" /\ failures < MaxFailures
  /\ failures' = failures + 1
  /\ GroupDone(collected, FALSE)
  /\ UNCHANGED <<agent, attrs, round>>

(* ConsumeMetrics has returned. *)
Sent ==
  /\ stage = "sending"
  /\ stage' = "waiting"
  /\ UNCHANGED <<agent, group, walks, part, cursor, collected, attrs, good, failures, round>>

NextRound ==
  /\ stage = "waiting"
  /\ StartRound(attrs)
  /\ UNCHANGED agent

Agent   == (\E f \in Interfaces : Counts(f)) \/ (\E i \in Indexes : Changes(i))
Collect == WalkRow \/ WalkEnds \/ ScalarGet \/ RequestFails
=============================================================================
