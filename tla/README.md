# Models and proofs for ollygarden/grafts

TLA+ models of the OpenTelemetry Collector components in this repository, their model-checking
configurations for TLC, and TLAPS proofs: every safety invariant the runs check is a theorem for all values of the
constants, except two of the path from the SNMP target to the records, and both refinements are. Paths below are relative to the
repository root (`exporter/parquetexporter/writer.go` and so on). Every definition follows the Go
source; what the source only *uses* (the file system, the Parquet and SNMP libraries, the NATS
client and server, the collector) is modelled as far as the source relies on it, and is named as
external in the head comment of its module.

## The system

grafts is a set of components built into one collector binary:

```
 NATS JetStream --> natsjetstreamreceiver --\                      /--> natsjetstreamexporter --> NATS
                                             >-- collector pipelines
 SNMP agents, traps --> snmpreceiver -------/                      \--> parquetexporter --> *.parquet
```

The collector creates the components of a configuration, starts exporters before receivers, calls
the exporters' push functions from the goroutines of the receivers, and stops receivers before
exporters. Components share no state with each other; inside a component goroutines meet at a
mutex, a channel, a context or a WaitGroup.

| Component | State it keeps | Operations | What is hard | What makes it correct |
|---|---|---|---|---|
| Parquet signal writer (`writer.go`) | open file, row count, opening time, all under `mu` | `write`, `maybeRotateForAge`, `close`; `rotateLocked` closes, fsyncs, closes, renames | any of these calls fails after others succeeded; crashes between them; three kinds of callers | a reader never sees a partial file; an accepted batch becomes visible once or its loss is recorded |
| Parquet file naming (`openLocked`) | the package's `seq`, the clock, the directory | create under `.part`, rename | two exporters in one directory; `seq` starts again after a restart | no file is truncated or replaced |
| Parquet exporter (`exporter.go`) | one writer per table, ticker, `done`, `shutdownOnce` | Start, push functions, flush loop, Shutdown | Start fails half-way; Shutdown repeated; a flush round meets Shutdown; one kind of several fails | an error is not forgotten; rows leave without another push; Shutdown leaves nothing buffered |
| NATS receiver (`receiver.go`) | connection, iterators, a loop per signal | Start, `signalLoop`, `handleMessage`, `ackOrNak`, Shutdown | redelivery, lost answers, fetch errors, crash between consume and ack, Shutdown while `Next` waits | answers are earned; duplicates only by AckWait; every message is settled |
| Shared receivers (`factory.go` of both receivers) | store by `component.ID`, `startOnce`, `stopOnce` | create, Start and Shutdown of the wrappers | several wrappers around one receiver, over several configurations and failing starts | a running collector has a loop for each of its signals; a stopped one leaves nothing |
| NATS exporter (`exporter.go`) | connection, pending asynchronous publishes | Start, `publishSync`, `publishAsync`, `classifyError`, error handler, Shutdown | timeouts after the server stored the message; failures after the push returned nil; Shutdown with a silent server | with a subject, nil means stored, or counted, or still to be answered until a connection is lost for good; only what cannot be marshalled or was refused is given up |
| SNMP receiver (`receiver.go`, `poller.go`, `trapper.go`) | connections, a loop per target, trap socket | Start, poll rounds, trap handling, Shutdown | Start fails after some connections; a loop in the middle of a round or the listener in a read when Shutdown comes | connections used only while open and closed once; every target goes on being polled; Shutdown returns |
| SNMP collection (`collector.go`, `builder.go`, `connection.go`) | the target's attributes, read once | `CollectScalarAttributes`, `collectScalar`, `collectTable`, `BuildMetrics` | columns are walked one after the other while the agent counts and its interfaces come and go; sparse columns; widths of numbers | a row's cells belong together; every row arrives once; two rows are never one series |
| Record conversion (`schema.go`, `metrics.go`, `traces.go`, `logs.go`, `attributes.go`) | none | `tracesToRecord`, `logsToRecord`, `metricsTo...Record`, `attributesToJSON` | seven schemas whose builders are filled by name, one by one; values that are not set; unsigned times; numbers JSON cannot express | columns stay at one length; a row is one item with its own cells |
| SNMP credentials (`config.go`, `connection.go`, `trapper.go`) | USM table, communities | `Validate`, `USM`, `trapper.New`, `isAuthorized` | names listed in two files, spelled in any case; two entries of one user; flags that claim more than the packet has | nothing is sent or accepted below the level that was configured |
| Configuration, log builder, distribution | none | validation of single settings, formatting, packaging | - | not modelled |

## Modules

| Module | Models | Composes |
|---|---|---|
| `ParquetTable` | abstract: what one table promises to readers and callers | |
| `ParquetWriter` | one signalWriter, system call by system call | implements `ParquetTable` |
| `PartNames` | names of files across writers and restarts | |
| `ParquetExporter` | one exporter over its writers; a writer call is one step, as in `ParquetTable` | |
| `Delivery` | abstract: what the stream is promised of each message | |
| `NatsReceiver` | one signal of the receiver, several collectors on one durable consumer | implements `Delivery` |
| `SharedReceiver` | store and wrappers around a receiver, over configurations | |
| `NatsExporter` | the exporter, its connection and the server's answers | |
| `SnmpAuth` | operators: which credentials Validate accepts, and what they demand of a packet | |
| `SnmpReceiver` | lifecycle, poll loops, trap listener | extends `SnmpAuth` |
| `ParquetRecords` | operators: from a request to Parquet records, and the number conversions | |
| `SnmpCollect` | one target's groups, walked row by row while the agent changes | extends `ParquetRecords` for the numbers |
| `MetricsPath` | data from an SNMP target or the NATS receiver to the records | composes `SnmpCollect` and `ParquetRecords` |
| `ParquetWriterProofs`, `PartNamesProofs`, `ParquetExporterProofs`, `NatsReceiverProofs`, `SharedReceiverProofs`, `NatsExporterProofs`, `SnmpReceiverProofs`, `MetricsPathProofs` | theorems about the module each is named after, and the lemmas about the operators it uses | |
| `MC*` | constants, bounds and symmetry sets for TLC | |

### How the models correspond to the code

**ParquetWriter.** `lock` is `w.mu`; `pc[p]` is where a caller is between `w.mu.Lock` and the deferred
`Unlock`; `fw`, `rows`, `aged` are `w.fw`, `w.rows` and the comparison in `maybeRotateForAge`.
`FirstStep` is what each of the three methods does first under the lock. `Open`, `AppendBatch`,
`CloseWriter`, `Sync`, `CloseFile`, `Rename` are the calls of `openLocked`, `write` and
`rotateLocked` in their order, each with its failing twin, which closes the file, records the error
and resets as the code's error path does. `files` is the directory: what a reader finds
(`name`), what it would find after a crash (`disk`), and how much of the content is on disk
(`body`). `Crash` keeps what is durable and starts the process again. `fate[b]` remembers what the
caller was told of batch `b`; a refused batch may be pushed again.

**ParquetExporter.** `Start` makes the writers and the loop, `StartFails` stops at any one of them
and leaves the ones it made. `PushStep` goes through the kinds of a request one by one and keeps
the first error, as `pushMetrics` does (traces and logs have a single kind). `FlushOne` is one
`maybeRotateForAge` of `rotateAllForAge`. `OnceBody` closes `done` once, `Waited` is `wg.Wait`,
`CloseOne` goes through the writers. Dereferencing a nil writer and closing a channel twice are
observable (`scan` outside `made`, `stop = "panic"`).

**NatsReceiver.** `loop[r]` is the position in `signalLoop`: the check of `ctx.Done`, `iter.Next`,
the second of pause after an error, `handleMessage`, the answer. `Decide` with `OnNil`, `OnRetryable` is
`ackOrNak`. `Cancel`, `Drain`, `CloseConn` are the steps of Shutdown, in the code's order. The
server is `srv` (ready, pending, delayed, acked, termed, exhausted) with `MaxDeliver`, `MaxAckPending`
and AckWait; a collector that stopped or crashed is replaced by a fresh one. `Delivery` sees of all this
only where a message went and why: `Outcome` maps `acked`, `termed`, `exhausted` to "done", "dropped",
"given up", everything before to "queued"; `taken` are the messages consumed at least once.

**SharedReceiver.** `store` is the map for one `component.ID`, `wrapper[k]` the receiver behind each
wrapper, `started` and `stopped` the two `sync.Once`. A generation is a configuration; a receiver is
named after the one it was created in. `CreateFails` is the error of `newNatsJetStreamReceiver` (and of `newSNMPReceiver`), which can
only come with the first wrapper: nothing has been stored, and the collector gives the configuration up.

**NatsExporter.** `async` is `Config.PublishAsync`, `subject` whether the signal has one in `Config.Subjects`, `deadline` whether
Shutdown's context has one. A push ends in one of four ways: skipped with nil where there is no subject (`PushSkipped`), permanent
where `MarshalProto` fails (`PushGarbled`, for the messages of `Garbled`), or handed to `publishSync` or `publishAsync`.
`wire`, `stored`, `acks` are the message and its acknowledgement under way; `pending` is what the
client counts against its limit; `counted` is what the error handler passed to `recordPublishError`; `dropped` are the publishes that still waited
when the connection was closed, which nobody answers or reports any more (`Hangup`). A phase of its own, "expired", is a Shutdown
that the end of its context cut short.

**SnmpReceiver.** `connections` is `r.connections`, `socket[t]` the connection itself, `ctx` is
`loopCtx` (nil before Start made it). `loop[t]`, `got`, `skipped`, `tick` are `pollTarget` and
`collectAndSend`: the groups one by one, the consumer when something was read, then the select
between the context and a ticker whose channel holds one tick. `listener`, `packet`, `udp` are
`Run` and `receive` of the trap listener.

**SnmpAuth.** `ValidAccepted` is what `Config.Validate` requires of `accepted_auth` and its entries, `USM` what
`connection.USM` makes of an entry with the two protocol maps, `UsmTable` and `Communities` what
`trapper.New` builds. `Decodes` is the library: it verifies a packet against any parameters of its
user, as far as the packet's flags claim protection. `Want` and `IsAuthorized` are the code's own check on top.
`Configured` is not code: it is what an entry asks for, and the properties compare with it. Setups are chosen freely
and `Init` keeps those `ValidAccepted` accepts, so a gap in Validate would reach the listener.

**ParquetRecords.** Each `...Schema` is the schema of `schema.go`, with the type of every column. A row
function (`GaugeRow`, `SpanRow`, ...) is the list of appends the code makes for an item, in its order, each with the
builder's name and the type the code casts it to. `Column` gathers what reached one builder: nothing
aligns the columns except that each is appended to once per row. `ToInt`, `ToInt32`, `ToDouble` are Go's
conversions at widths and a mantissa that are constants: of the unsigned times, counts, zero counts and bucket counts to an int64, of flags to an int32,
of integers to a float64. A list is one cell; bucket counts are converted one by one (`I64ListFromUint`), the
contents of events, links, exemplars and quantiles are not looked at. `AttributesToJSON`
keeps the map and replaces the numbers that `json.Marshal` rejects.

**SnmpCollect.** `dev` is the interface at each index of the agent, `age` how far its counters are. A walk is
`WalkRow` for each object, in the order of the indexes, so interfaces count, appear, vanish and change
places between any two rows; `WalkEnds` goes on with the next column, and after the last one `CollectTable`
puts the columns together by index. `RequestFails` drops the group and goes on, as
`collectAndSend` does. `BuildMetrics` is `builder.go` with `IsSupportedNumber` and the widths of
`setDataPointValue`; `Sprintf` is `fmt.Sprintf("%v", ...)`, which prints bytes as a list of numbers.

**MetricsPath.** `Poll` hands what was collected to the exporter, `Receive` a request of the NATS receiver;
`records` is what `ToRecords` makes of it.

## Runs

| Run | Question | Bounds | Result |
|---|---|---|---|
| `writer_faults` | Do rows survive, exactly once, any two failing calls? | 3 batches of 1, 2, 2 rows, limit 3, 2 pushers, flush loop, shutdown | holds |
| `writer_crash` | Is a reader ever shown a partial or changed file, is `ParquetTable` implemented, does every file leave and every push return? | 2 batches, 1 failing call, 1 crash | holds |
| `part_names` | Can two files share a name? | 2 writers, 3 processes, 3 files each, clock to 2 | holds |
| `exporter` | Are errors kept, rows flushed, and is Shutdown complete? | 2 tables, 2 requests, 2 failing writer calls, 2 Shutdowns | holds |
| `nats_receiver` | Is `Delivery` implemented, are duplicates explained, is the connection there while a message is handled? | 2 collectors, 2 messages (one does not parse), 2 deliveries each, 2 faults, 1 stop or crash | holds |
| `nats_receiver_live` | Is every message settled, does Shutdown return? | 1 collector, 2 messages, 1 waiting for an answer | holds |
| `nats_receiver_drain` | Does Shutdown process in-flight messages? | as `nats_receiver`, no faults | **violated** |
| `shared_receiver` | Does a running collector serve every signal, and a stopped one leave nothing? | 3 signals, 3 configurations, 2 failing creations or starts | holds |
| `nats_exporter` | What does nil mean, what is given up, does Shutdown end? | 4 messages (one cannot be marshalled), 2 pending, 2 pushes each, 2 faults, with and without a subject | holds |
| `snmp_receiver` | Are connections used and closed properly, does polling go on, are traps accepted at their level, does Shutdown return? | 2 targets, 2 groups, 8 packets, 10 setups with 8 different `accepted_auth` | holds |
| `metrics_path` | Do rows and columns belong together, from the agent or a request to the records? | 2 indexes, 3 interfaces, 2 changes and 1 failing request per round; 5-bit integers, 3-bit flags, 3-bit mantissa; requests of up to 3 resources, scopes, items and points | holds |
| `snmp_labels` | Are labels of rows readable? | as `metrics_path` | **violated** |

**Why the bounds are enough.** In the writer, three batches of unequal size against a limit of three
let a file fill up exactly, overshoot, and be followed by another; two faults let an error path
follow an error path; one crash is enough because everything a crash forgets is forgotten by the
first. The theorems below remove these bounds for the properties that matter most. In the exporter, two tables are
what "some writers exist" and "one kind fails" need, and a second Shutdown is the repeated one. In the
NATS receiver the second delivery is the redelivery, and two collectors are what it takes for the
same message to be at two of them. Three configurations in `SharedReceiver` are one that leaves something, one that
meets it, and one after that. In the NATS exporter the limit of two pending publishes is below the
number of messages, so the client refuses one. In `SnmpReceiver` failures are not bounded at all;
the second target and the second group are there to be disturbed by the first; its setups hold every level a
user may have, a user listed twice, a protocol nobody knows, names spelled in lower case and privacy alone. In `metrics_path` five bits put a counter
above the largest signed number, as the times and counts of some requests are, three bits do the same for flags, and three bits of mantissa make numbers from nine on inexact; of the three
interfaces one lacks the first column of the table and one lacks others, and two changes let one of them move to another's place during
a walk. Requests pair every kind of metric with every other, with each optional value set and not set,
and spans that end before, when and after they start. `CHECK_DEADLOCK FALSE` is set where
a component that has been shut down, or a bounded run, really stops.

Symmetry is used over pushers, collectors and signals, in runs without liveness properties only.

### Fairness

Weak fairness on every step of a goroutine that has been started and is not blocked: the Go
scheduler runs it in the end. Weak fairness on timers (ticker, AckWait, nak delay, publish timeout) and on the passage of
time. Strong fairness in three places: `Lock` in `ParquetWriter` (a `sync.Mutex` in starvation mode hands
itself to the waiter at the head), `Deliver` in `NatsReceiver` (a server with a ready message and
pulls that come again and again delivers it), and `LoopEnds` in `SnmpReceiver` (a select picks a
ready branch at random, so it does not prefer the ticker for ever once the context is done).
Nothing is assumed of crashes, faults, reconnections, arriving traps, or of when the collector
shuts down. Calls into consumers and SNMP requests return: the latter have timeouts and a number of retries.

### What is assumed of the outside

- Parquet library: a `Close` that returns nil has written the footer over the batches whose `Write`
  returned nil. What it writes on `Close` after a failed `Write` is its own.
- File system: `fsync` makes content and present name durable; a rename is atomic for readers; the code does not fsync the
  directory, so a rename may be undone by a crash. The model lets it, and `ParquetTable` says so
  (a shown file is withdrawn only by a crash, only while it is not settled).
- The clock is not set back and a restart takes longer than a nanosecond (file names).
- Collector: stops what feeds an exporter before the exporter; calls Shutdown on components whose
  Start failed or did not come; never calls Start and Shutdown of one component at the same time.
- NATS client and server: a pull expires; Drain closes an iterator after its buffer; a message unanswered
  for AckWait is ready again until MaxDeliver; reconnecting fails pending publishes; closing the
  connection drops them without calling the error handler.

### Disagreements between the code and its documentation

- `nats_receiver_drain`: Shutdown cancels the loop's context *before* it drains the iterators
  (`receiver.go:387-403`). The loop leaves at its next check, and messages already delivered stay
  unhandled until AckWait redelivers them; the README and the comment at `receiver.go:391` say that
  Drain is there to process them. No message is lost (`EveryMessageSettles` holds).
- `snmp_labels`: attributes and lookups are formatted with `%v` (`collector.go:198`, `collector.go:207`), and the
  library delivers an OctetString as `[]byte`: the label of `eth0` becomes `[101 116 104 48]`, where the
  README of the receiver (`README.md:158`) promises "human-readable labels".

Others were met while modelling and have no run. Where they change what a property may say, the models follow the code:

- `natsjetstreamexporter/telemetry.go:20` calls the error counter the only signal of lost asynchronous data. Publishes
  that still wait when the context of Shutdown ends are dropped with the connection (`exporter.go:126`), and
  the counter is not called for them (`ContextDone` in `NatsExporter`); the same goes for a connection that the client gives up. They may
  be lost with no signal at all. `AsyncAccounted` says that this happens in these two cases only: what was dropped without a count was dropped with
  a connection given up or by a Shutdown whose context had ended, never by one that flushed.
- The same comment, and "so async data loss is observable" (`exporter.go:82`), do not speak of the push functions: a signal without a subject is
  skipped with nil, as their own comment says. `SyncOkIsStored` and `AsyncAccounted` are therefore about signals that have one.
- `flush_timeout` is documented as the timeout of flushing on shutdown (`config.go:25`), and no code reads it: the wait
  (`exporter.go:123`) ends with the context that the collector passes. `ShutdownEnds` is stated for a context that has a deadline.
- The rows of an SNMP table are the indexes of its first metric (`collectTable`); the receiver's `README.md:142` says "Each row
  becomes a separate data point". A row without the first metric gives none, even if it has the others
  (`collector.go:145`). `DeviceRowsReachTable` neither asks for such a row nor forbids it: it claims that the rows which have the first metric arrive,
  whatever they lack in later columns.
- The Parquet design document speaks of the helper's retry queue, and `natsjetstreamexporter/exporter.go:226`
  of its retries, while neither factory configures them. The models leave it to the caller whether a
  refused push is repeated.
- `source_indexes` of a lookup is read from the configuration (`config.go:69`) and copied (`receiver.go:227`), and the
  collector looks every lookup up by the index of the row itself.

## Proofs

TLC answers for the instances above; the theorems hold for every set of batches and pushers, every
row limit, and any number of faults and crashes of the writer; every number of writers, directories and restarts
for the names; every set of tables and requests, any number of faults, ticks and Shutdowns for the Parquet exporter; any number of
collectors, messages, deliveries, faults and crashes for the NATS receiver; every set of signals, and any number of configurations and
failing creations and starts for the shared receivers; any set of messages, limits and faults for the NATS exporter; every set of targets, groups,
packets and configurations for the SNMP receiver; every request, and whatever an SNMP target, its agent and the network come up with, for the
record conversion.

| Theorem | Says |
|---|---|
| `TypeCorrect` of every proof module but `MetricsPathProofs` | `Spec => []TypeOK` |
| `ParquetWriterProofs!ReadersSeeWholeFiles` | `Spec => []VisibleComplete` |
| `ParquetWriterProofs!NothingLostUnnoticed` | `Spec => []AcceptedAccounted` |
| `ParquetWriterProofs!VisibleFilesNeverChange` | `Spec => VisibleImmutable` |
| `ParquetWriterProofs!FullFilesAreRotated` | `Spec => []OpenBelowLimit` |
| `ParquetWriterProofs!ShutdownFlushesWriter` | `Spec => []CloseFlushes` |
| `ParquetWriterProofs!RowsShownOnce` | `Spec => []NoDuplicateRows` |
| `ParquetWriterProofs!CounterIsExact` | `Spec => []CommittedRowsExact` |
| `ParquetWriterProofs!WriterImplementsTable` | `Spec => ImplementsTable` |
| `PartNamesProofs!NoNameTwice` | `Spec => []NamesAreFresh` |
| `ParquetExporterProofs!PushCoversEveryKind` | `Spec => []OkCoversEveryKind` |
| `ParquetExporterProofs!NoNilWriter` | `Spec => []LoopMeetsNoNil` |
| `ParquetExporterProofs!LoopEndsFirst` | `Spec => []LoopGoneBeforeClose` |
| `ParquetExporterProofs!ShutdownFlushes` | `Spec => []ShutdownLeavesNothing` |
| `NatsReceiverProofs!HandlesConnected` | `Spec => []NoHandlingAfterClose` |
| `NatsReceiverProofs!HandedOverOnce` | `Spec => []DuplicatesOnlyByAckWait` |
| `NatsReceiverProofs!Implements` | `Spec => ImplementsDelivery` |
| `SharedReceiverProofs!EveryKindServed` | `Spec => []RunningServesEveryKind` |
| `SharedReceiverProofs!NothingOutlivesItsConfiguration` | `Spec => []StopLeavesNothing` |
| `NatsExporterProofs!OkMeansStored` | `Spec => []SyncOkIsStored` |
| `NatsExporterProofs!PermanentForCause` | `Spec => []GivenUpForCause` |
| `NatsExporterProofs!AsyncNeverForgotten` | `Spec => []AsyncAccounted` |
| `SnmpReceiverProofs!ReadsOpenConnections` | `Spec => []NoUseAfterClose` |
| `SnmpReceiverProofs!NoDoubleClose` | `Spec => []ClosedOnce` |
| `SnmpReceiverProofs!NothingLeft` | `Spec => []ShutdownLeavesNothing` |
| `SnmpReceiverProofs!LevelAsConfigured` | for every entry Validate accepts: requests go out, and traps are demanded, at exactly the level configured |
| `SnmpReceiverProofs!OnlyAcceptedTraps` | `Spec => []TrapsAreEarned` |
| `MetricsPathProofs!EveryRecordFits` | `Spec => []RecordsFitSchema` |
| `MetricsPathProofs!EveryCellInItsRow` | the columns of every record are those of its rows: place n of each column holds what the n-th row appended to it |
| `MetricsPathProofs!EveryPointIsARow` | `Spec => []RowsArePoints` |

**The argument for the writer.** `TypeOK` alone is not inductive: that `files[fw]` exists where the code
dereferences it depends on who is where. `Basic == TypeOK /\ Control` adds that only the holder of
the mutex is past `Lock` and that a file is open exactly at the steps that use one. On top of it:
`Durability` ties the content of the open file to the step its holder is at (footer written after
`CloseWriter`, everything on disk after `Sync`), so that at `Rename` the content is complete; the rest of a visible file's life changes
nothing. `Acks` says that a batch whose write is about to return nil, or has returned nil, is
accounted for; `Keeps` is the action-level fact that no step makes an accounted batch unaccounted. Each is proved action by
action, and the temporal step is PTL. The same invariants give the action property. `OpenBelowLimit` speaks of the moments
when the mutex is free; `Limit` says for all others that a file which has reached the limit is being rotated by somebody.
`CloseFlushes` needs `Closing`: nobody else is in a call once the exporter closes a writer, and no file is open past its
rotation; then `Acks` says where each batch is.

**That rows appear once.** `NoDuplicateRows` looks at the files a reader finds, but the hazard is the open one: a batch that is
pushed again while its first copy sits in an open file would be shown twice later. `Once` is therefore about the *live* files,
the visible ones and the open one: they hold each batch at one place at most, and do not hold a batch whose caller was told, or is
about to be told, that it failed, or has not come to `fw.Write` yet. `Calls` adds that two callers never write the same batch and that
an error is decided only on the way out. A crash keeps the live set from growing because of `Settled`: whatever name
the disk has, the page cache had before.

**The row counter.** Rows are a set (`RowsOf`: file, place of the batch, row in it), so that nothing is added up by recursion.
`Counting` says that `w.rows` is the number of rows of the open file, that this file is one of this process, and that the counter is the
cardinality of `Committed`. A write adds the rows of one batch, disjoint from those that were there (`Added`); a rename moves those of the open file,
until then invisible, into `Committed`, just when the counter grows by `w.rows`; a rotation that fails moves nothing and counts nothing; and a
crash starts both again, as every file is then one of an earlier process.

**The writer implements the table.** The mapping is that of `Table` in `ParquetWriter`: `pending` is the content of the open
file, `shown` the visible files, `settled` those whose name is on disk, `reported` and `lost` the batches of
files that were given up or cut by a crash. The invariant is `TableInv`, with `Clean`: the open file is not one of those given up, so
that its batches do not count twice. One lemma for each step the table sees: `AppendBatch` is `Accept` (`AppendAccepts`);
`Rename` is `Publish`, where `Durability` says that the content is complete (`RenamePublishes`); each way a rotation can fail
is `GiveUp` (`FailureGivesUp`), `SettleDir` is `Settle`, and `Crash` is `Crash` of exactly the shown files whose names were not
settled (`CrashTakes`). Opening a file shows nothing (`OpensUnnoticed`), and every other step leaves what the table sees
alone (`Unnoticed`).

**The argument for the names.** A name consists of directory, time and number. `Inv` says that the number of a name in this process was
drawn from `seq` by one writer only, and that files of earlier processes carry a time before `boot`, while
every writer's stamp is at least `boot`.

**The argument for the Parquet exporter.** `OkCoversEveryKind` is about the end of a loop over kinds, so the invariant `Covered`
speaks of its middle: as long as no kind has failed, those already pushed are known to their tables; and no
step makes a table forget a request (`KnownKept`). `Orderly` relates the lifecycle to the loop: a loop exists exactly after a
Start that made every writer; `done` is closed once and only by a Shutdown of such an exporter; past the wait the loop
is gone. `LoopGoneBeforeClose` and `LoopMeetsNoNil` are instances. `Draining` follows the writers through Shutdown: rows are buffered only
in open files, nobody pushes once Shutdown was called, and while Shutdown goes through the writers every open file belongs to
one that it has still to come to.

**The argument for the NATS receiver.** To map a step to one of `Delivery` one must know that an answer is earned
when it is sent, several steps after it was decided. `Good(r)` says so for each collector: the message it is at,
and every one in its buffer, was delivered at least once (`AtMessage`, `Buffered`); an `ack` about to be sent is for a
message that was consumed, a `term` for one that does not parse or was refused (`Earned`); and a loop that runs has its
connection (`Connected`). What was delivered, consumed or refused stays so (`Grows`), hence a collector is not
disturbed by the steps of another (`Stays`). Then a delivery is `Try`, an accepted message `Take`, a refusal
`Refuse`, an answer `Settle`, `Drop` or nothing when the message has left the stream before, and the end of AckWait or of a nak's
delay `GiveUp` or nothing; every other step leaves what the stream sees alone (`Unseen`).
`DuplicatesOnlyByAckWait` is an account: every hand-over so far, every copy of the message that may still be
handed over, and the one the server owes while the message is ready or delayed must be paid for, by the message itself or by an AckWait that passed
(`Paid`). Copies are counted by their places, in buffers and at loops; a loop about to nak counts as well, because its nak makes the
server owe another. Each step then moves one unit: a delivery from the server to a buffer (`Fills`), `Next` from place to place (an injection,
`Shifts`), a hand-over or a nak out of a loop (`Spends`); AckWait adds one on both sides; what is lost in a crash lowers the count (`Lowers`).

**The argument for the shared receivers.** `Shared` says who knows whom: all wrappers of a configuration hold the one
receiver made for it, this receiver has the consumers of this configuration and no others, and every
earlier one has neither a loop nor a connection. `Served` says what it does at each phase of the collector: it stays in the store until
it is shut down; the first Start of a wrapper starts it with the loops of all; the first Shutdown stops all of them and
empties the store. That the store is empty between two configurations is what makes the next `Create` make a fresh receiver: without
it `startOnce`, used up, would swallow Start. The type invariant needs help too: a receiver that was not started has no loops (`Basic`), because
a loop uses the iterator that only Start makes.

**The argument for the NATS exporter.** Where there is a subject, the server's answer is the only way to nil in synchronous mode: `Answers` adds to the properties that an
acknowledgement under way is for a message already stored, and that a permanent error has its cause. In asynchronous mode a message leaves `pending`
stored, counted or dropped. `Unpushed` says that nothing waits or was dropped before a Start that succeeded, `Connected` that a started exporter has a
connection and one that was shut down a closed one, and `Dropping` that what waits, waits on a connection that is not closed, and that nothing was dropped before the
connection was closed, nor before a Shutdown that flushed:
`Flushed` asks for `dropped` to be empty, as `PublishAsyncComplete` does not fire while a publish has no answer. `Basic` keeps `pending` finite, as its limit compares a cardinality.

**The argument for the SNMP receiver.** `Owned` ties four things that the code keeps apart: no loop
and no listener before `Start` ended or after `Shutdown`; a connection is in `r.connections` exactly while it is open,
until `Shutdown` closes all of them; a loop that runs has its connection there. It is inductive together with
the types, and `NoUseAfterClose` and most of `ShutdownLeavesNothing` are instances of it; the rest,
the trap socket, is `Listening`: it is open at most while the listener runs. `ClosedOnce` needs `Owned` at the step
before, where everything about to be closed is open: that is why a failing `Start` must set
`r.connections` to nil. For the traps, `LevelAsConfigured` compares the two lists of
protocol names for every entry Validate accepts. `Trapped` says what is known of the datagram at each point of `receive`;
`AuthorizedEarned`, that a packet which verifies under some parameters of the table and passes
`isAuthorized` meets *every* entry of its user: there is only one, because Validate refuses a user listed twice.

**The argument for the record conversion.** A record is columns, each filled by the appends that name its builder, with no index: rows stay
aligned only because every row appends exactly once to every builder. `Fills(row, schema)` says so of a list of appends: its
names and types are those of the schema, each name once. It is proved for each of the seven row functions (`GaugeFills` to `LogFills`), for every
item and every way its optional values are set, and from there for all rows of a request (`RowsFill`). What is left is about sequences: `Column` is the
concatenation of what each append gives to it (`ColumnIsFlat`), a row gives it one place (`ColumnOnce`), so n rows give it n, the n-th
from the n-th row (`ColumnOfRows`, `ColumnsOfRows`). These, and the lemmas about `FlattenSeq` they rest on (`FlattenPrefixes`, `FlattenElements`, `FlattenCat`), go by
induction on the length: `Induct` states it for a set of numbers, which the provers can instantiate where they cannot instantiate a
predicate, and `RecursionExists` gives functions defined by recursion their equations. `PathInv` then follows the data: whatever was collected is
a sequence of measurements (`Measured`), group by group and column by column (`Reading`), hence what `BuildMetrics` makes of it is a
well-formed request (`BuiltIsWellFormed`), and `records` is always what `ToRecords` makes of one (`Pushed`).

**That every point is a row.** `RowsArePoints` knows nothing of the loops: it counts. The row of a point is the one after as many rows as there are
points at earlier places (resource, scope, item, point). `Lists(rows, places, row)` says that some enumeration of the places, in their order, has the
same length as the rows and the row of its place at each. A loop body lists the points of its item (`ItemListed`); two lists follow each other when the places
of one come before those of the other (`ListsBoth`), hence by induction any number (`ListsFlatten`), and so the loops over items, scopes and
resources, whose places differ in the field of the loop and agree in those before (`RowsListed`). Then the n-th row is that of the place with n - 1
earlier ones (`RowAtItsRank`, by a bijection). That its cells are those of the point is `CellRules`, applied to each append of the seven row
functions (`CommonCells` to `LogCells`). An unsigned number above the signed range is in its cell as the negative number with the same bits (`BitsKept`, `CountsKept`);
a duration is right as far as it fits an int64.

**Assumptions.** The ASSUMEs of `ParquetWriter` (`MaxRows` positive, as `Config.Validate` demands; callers distinct),
of `PartNames`, of `SnmpReceiver` (there are groups; the setups and packets have the
form of `Entry` and `Packet`), of `SnmpCollect` (groups and attributes have the form of a target's configuration, and there are finitely
many indexes), of `MetricsPath` (requests are `WellFormed`: lists of resources, scopes, items and points, whose times, counts and flags are natural numbers of any size), of
`NatsExporter` (`Garbled` is a set of messages), and of the other modules, which say that bounds are numbers and that requests and messages have the form the module
speaks of. TLC evaluates all of them. Nothing else is taken on trust.

**Only model-checked.** Two properties of `MetricsPath`: `DeviceRowsReachTable` and `SeriesStayApart` depend on the text of indexes and labels, which the model makes with `ToString`, and
on attribute maps made with `:>` and `@@`: these are operators of the module TLC that the provers know nothing about;
and that two rows are two series also needs the configured names to be different. The rounding of `ToDouble`
is checked on a small width. Liveness
(`EveryFileLeaves`, `EveryPushReturns`, `RowsLeaveBuffer`, `EveryMessageSettles`, `EveryTargetKeepsPolling`, every `...Returns` and `...Ends`)
stays with TLC too: the prover knows neither fairness nor ENABLED.

## Not modelled

Whole parts:

- Distribution and build files.
- Validation of single settings (intervals, addresses, paths), apart from the bounds the models assume; TLS and the
  authentication of NATS connections.
- The SNMP log builder, which formats the bindings of a trap into a log record.
- Encryption, compression, permissions of Parquet files: settings passed on to a library.
- Decoding, signatures and encryption of SNMP messages; BER parsing of a v3 packet, of which only the answer is modelled (is
  its scoped PDU encrypted).

Left out inside modelled parts:

- The contents of events, links, exemplars and quantiles, one cell each; the formatting of bodies, ids and kinds as text.
- In `SnmpCollect`, identifiers are symbols: leading dots, which the code strips on both sides, do not exist,
  and of two attributes with the same identifier the code shares one walk where the model makes two.
- A target's resource attributes are read in Start only, as documented; that they may be out of date later has no property.
- `SnmpCollect` has one target. Several do not share state beyond what `SnmpReceiver` shows.
- The order in which the collector starts components that no pipeline connects. A shared receiver that was started for
  one signal runs the loops of all, and could push to an exporter of another signal before its Start, whose
  writers are nil then; nothing in this repository rules it out or promises it.
- Rows of kinds that went well appear twice when a request is repeated because another kind failed: the
  code promises nothing about it, so no property mentions it.

## Plan

Done, in this order: the Parquet path, because it holds the data and has the most steps that can fail; the receivers
and exporter that can lose or repeat messages; the SNMP receiver; the conversions, from an agent's table to Parquet records; the credentials;
`Delivery` and its refinement.

Next, the models:

1. `Pipeline`: `SharedReceiver` in front of `ParquetExporter`, over the orders in which the collector may start
   unconnected pipelines. It takes over the run of `SharedReceiver`.
2. End to end: `Delivery` in front of `ParquetTable`, an acknowledged message is in an accepted batch.

Then the proofs: the properties of `Pipeline`, from `Served` and `Orderly`; that each state function of `ParquetExporter` behaves as `ParquetTable` says for its table.
