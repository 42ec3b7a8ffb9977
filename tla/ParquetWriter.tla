--------------------------- MODULE ParquetWriter ---------------------------
(***************************************************************************)
(* One signalWriter of the Parquet exporter (exporter/parquetexporter,     *)
(* writer.go) and the directory it writes into.                            *)
(*                                                                         *)
(* Callers: the goroutines that push batches, the flush loop, and the      *)
(* shutdown.  Each runs one of write, maybeRotateForAge and close, which   *)
(* hold w.mu from their first to their last step; every system call and    *)
(* every call into the Parquet library is a step of its own, which may     *)
(* fail, and the machine may stop between any two.                         *)
(*                                                                         *)
(* External, modelled from the use made of it: the Parquet library (a      *)
(* Close that returns nil has written the footer over the batches whose    *)
(* Write returned nil) and the file system (fsync makes the content and    *)
(* the present name of a file durable; a rename is atomic for a reader,    *)
(* but nothing syncs the directory after it, so a crash may undo it).      *)
(***************************************************************************)
EXTENDS Naturals, Sequences, FiniteSets, Functions

CONSTANTS
  Batches,     \* record batches
  NumRows,     \* rows of each batch
  MaxRows,     \* Config.MaxRows
  Pushers,     \* goroutines that call write
  Flusher,     \* the flush loop's goroutine
  Closer,      \* the goroutine of Shutdown
  Nobody,      \* holder of a free mutex
  NoBatch,     \* argument of a pusher that is not in a call
  MaxFaults,   \* bound on failing calls
  MaxCrashes   \* bound on crashes

Procs == Pushers \cup {Flusher, Closer}

ASSUME RowsAssumption ==
  /\ NumRows \in [Batches -> Nat]
  /\ MaxRows \in Nat \ {0}
ASSUME ProcsAssumption ==
  /\ Flusher \notin Pushers
  /\ Closer \notin Pushers \cup {Flusher}
  /\ Nobody \notin Procs
  /\ NoBatch \notin Batches
ASSUME BoundsAssumption == MaxFaults \in Nat /\ MaxCrashes \in Nat

VARIABLES
  lock,      \* holder of w.mu
  pc,        \* where each caller is
  arg,       \* the batch each pusher writes
  ret,       \* what the caller's call is about to return
  fate,      \* what became of the latest write of each batch
  fw,        \* w.fw, w.file and w.partPath: id of the open file, or NoFile
  rows,      \* w.rows
  aged,      \* time.Since(w.openedAt) >= FlushInterval
  files,     \* files[f]: the f-th file opened, its name, durability, content
  reported,  \* files given up with a recorded error
  cut,       \* files a crash took: open, or renamed and the rename undone
  boot,      \* Len(files) when the process last started
  rotated,   \* rows counted by recordRotation since then
  faults,    \* failing calls so far
  crashes    \* crashes so far

caller == <<lock, pc, arg, ret, fate>>
writer == <<fw, rows, aged>>
store  == <<files, reported, cut, boot, rotated>>
vars   == <<lock, pc, arg, ret, fate, fw, rows, aged, files, reported, cut,
            boot, rotated, faults, crashes>>

NoFile == 0

Labels == {"idle", "lock", "open", "append", "close", "sync", "fclose",
           "rename", "unlock", "done"}

(* name: what a reader finds; disk: what it finds after a crash;           *)
(* body: no footer yet, footer in the page cache, all durable, or lost.    *)
Names  == {"none", "part", "final"}
Bodies == {"growing", "footed", "synced", "torn"}
File   == [name : Names, disk : Names, body : Bodies, batches : Seq(Batches)]

Visible == {f \in DOMAIN files : files[f].name = "final"}
In(b, f) == \E i \in DOMAIN files[f].batches : files[f].batches[i] = b

TypeOK ==
  /\ lock \in Procs \cup {Nobody}
  /\ pc \in [Procs -> Labels]
  /\ arg \in [Pushers -> Batches \cup {NoBatch}]
  /\ ret \in [Procs -> {"ok", "err"}]
  /\ fate \in [Batches -> {"new", "sent", "ok", "err", "crashed"}]
  /\ files \in Seq(File)
  /\ fw \in DOMAIN files \cup {NoFile}
  /\ rows \in Nat
  /\ aged \in BOOLEAN
  /\ reported \subseteq DOMAIN files
  /\ cut \subseteq DOMAIN files
  /\ boot \in Nat
  /\ rotated \in Nat
  /\ faults \in Nat
  /\ crashes \in Nat

Init ==
  /\ lock = Nobody
  /\ pc = [p \in Procs |-> "idle"]
  /\ arg = [p \in Pushers |-> NoBatch]
  /\ ret = [p \in Procs |-> "ok"]
  /\ fate = [b \in Batches |-> "new"]
  /\ fw = NoFile
  /\ rows = 0
  /\ aged = FALSE
  /\ files = <<>>
  /\ reported = {}
  /\ cut = {}
  /\ boot = 0
  /\ rotated = 0
  /\ faults = 0
  /\ crashes = 0

-----------------------------------------------------------------------------
(* The callers.  Shutdown waits for the flush loop before it closes the    *)
(* writers, and the collector stops what feeds an exporter before it.      *)

(* A batch is pushed again only after its write returned an error. *)
Push(p, b) ==
  /\ pc[p] = "idle"
  /\ pc[Closer] = "idle"
  /\ fate[b] \in {"new", "err"}
  /\ fate' = [fate EXCEPT ![b] = "sent"]
  /\ arg' = [arg EXCEPT ![p] = b]
  /\ pc' = [pc EXCEPT ![p] = "lock"]
  /\ UNCHANGED <<lock, ret, writer, store, faults, crashes>>

Tick ==
  /\ pc[Flusher] = "idle"
  /\ pc[Closer] = "idle"
  /\ pc' = [pc EXCEPT ![Flusher] = "lock"]
  /\ UNCHANGED <<lock, arg, ret, fate, writer, store, faults, crashes>>

Close ==
  /\ \A p \in Procs : pc[p] = "idle"
  /\ pc' = [pc EXCEPT ![Closer] = "lock"]
  /\ UNCHANGED <<lock, arg, ret, fate, writer, store, faults, crashes>>

(* Mutants of FirstStep: a shutdown that only rotates files of age; a      *)
(* flush loop that never finds a file old.                                 *)
FirstStepAgedClose(p) ==
  CASE p \in Pushers -> IF fw = NoFile THEN "open" ELSE "append"
    [] p \in {Flusher, Closer} -> IF fw # NoFile /\ aged THEN "close" ELSE "unlock"

FirstStepNeverAged(p) ==
  CASE p \in Pushers -> IF fw = NoFile THEN "open" ELSE "append"
    [] p = Flusher   -> "unlock"
    [] p = Closer    -> IF fw # NoFile THEN "close" ELSE "unlock"

(* The first step under the mutex: write opens a file if none is open,     *)
(* maybeRotateForAge rotates an open file that is old enough, close        *)
(* rotates whatever is open.                                               *)
FirstStep(p) ==
  CASE p \in Pushers -> IF fw = NoFile THEN "open" ELSE "append"
    [] p = Flusher   -> IF fw # NoFile /\ aged THEN "close" ELSE "unlock"
    [] p = Closer    -> IF fw # NoFile THEN "close" ELSE "unlock"

Lock(p) ==
  /\ pc[p] = "lock"
  /\ lock = Nobody
  /\ lock' = p
  /\ pc' = [pc EXCEPT ![p] = FirstStep(p)]
  /\ UNCHANGED <<arg, ret, fate, writer, store, faults, crashes>>

(* The deferred unlock, and the return to the caller. *)
Unlock(p) ==
  /\ pc[p] = "unlock"
  /\ lock' = Nobody
  /\ pc' = [pc EXCEPT ![p] = IF p = Closer THEN "done" ELSE "idle"]
  /\ ret' = [ret EXCEPT ![p] = "ok"]
  /\ IF p \in Pushers
       THEN /\ fate' = [fate EXCEPT ![arg[p]] = ret[p]]
            /\ arg' = [arg EXCEPT ![p] = NoBatch]
       ELSE UNCHANGED <<fate, arg>>
  /\ UNCHANGED <<writer, store, faults, crashes>>

-----------------------------------------------------------------------------
(* Steps under the mutex. *)

Fault == faults < MaxFaults /\ faults' = faults + 1

Goto(p, l) == pc' = [pc EXCEPT ![p] = l]

(* An early return. The mutant leaves past the deferred unlock. *)
RefuseLocked(p) == Goto(p, "done") /\ ret' = [ret EXCEPT ![p] = "err"]
Refuse(p)       == Goto(p, "unlock") /\ ret' = [ret EXCEPT ![p] = "err"]

(* reset.  The mutant forgets w.fw. *)
ResetRowsOnly == rows' = 0 /\ UNCHANGED <<fw, aged>>
Reset         == fw' = NoFile /\ rows' = 0 /\ UNCHANGED aged

(* recordError for a file that is given up, and recordRotation.  Mutants:  *)
(* an error path without telemetry; w.rows read after the reset.           *)
RecordNoError(f)    == reported' = reported
RecordError(f)      == reported' = reported \cup {f}
RecordAfterReset    == rotated' = rotated + rows'
RecordRotation      == rotated' = rotated + rows

(* A file as it is opened.  The mutant writes under the final name. *)
NewVisible(name) == [name |-> "final", disk |-> "none", body |-> "growing", batches |-> <<>>]
NewFile(name)    == [name |-> name, disk |-> "none", body |-> "growing", batches |-> <<>>]

(* openLocked: os.Create and NewFileWriter succeed. *)
Open(p) ==
  /\ pc[p] = "open"
  /\ files' = Append(files, NewFile("part"))
  /\ fw' = Len(files) + 1
  /\ rows' = 0
  /\ aged' = FALSE
  /\ Goto(p, "append")
  /\ UNCHANGED <<lock, arg, ret, fate, reported, cut, boot, rotated, faults, crashes>>

(* os.Create fails: the sequence number is used up, no file appears. *)
CreateFails(p) ==
  /\ pc[p] = "open"
  /\ Fault
  /\ files' = Append(files, NewFile("none"))
  /\ RecordError(Len(files) + 1)
  /\ Refuse(p)
  /\ UNCHANGED <<lock, arg, fate, writer, cut, boot, rotated, crashes>>

(* NewFileWriter fails: an empty .part file stays behind, unrecorded. *)
NewWriterFails(p) ==
  /\ pc[p] = "open"
  /\ Fault
  /\ files' = Append(files, NewFile("part"))
  /\ Refuse(p)
  /\ UNCHANGED <<lock, arg, fate, writer, reported, cut, boot, rotated, crashes>>

(* What write does after fw.Write returned nil.  `big` is the outcome of   *)
(* size >= MaxBytes: compressed sizes are not modelled.  The mutant lets a *)
(* file reach MaxRows and stay open.                                       *)
AfterAppendLate(n, big) == IF n > MaxRows \/ big THEN "close" ELSE "unlock"
AfterAppend(n, big)     == IF n >= MaxRows \/ big THEN "close" ELSE "unlock"

AppendBatch(p, big) ==
  /\ pc[p] = "append"
  /\ files' = [files EXCEPT ![fw].batches = Append(@, arg[p])]
  /\ rows' = rows + NumRows[arg[p]]
  /\ Goto(p, AfterAppend(rows', big))
  /\ UNCHANGED <<lock, arg, ret, fate, fw, aged, reported, cut, boot, rotated, faults, crashes>>

(* fw.Write fails: the error is returned, the file stays open. *)
AppendFails(p) ==
  /\ pc[p] = "append"
  /\ Fault
  /\ Refuse(p)
  /\ UNCHANGED <<lock, arg, fate, writer, store, crashes>>

(* rotateLocked, system call by system call. *)
CloseWriter(p) ==
  /\ pc[p] = "close"
  /\ files' = [files EXCEPT ![fw].body = "footed"]
  /\ Goto(p, "sync")
  /\ UNCHANGED <<lock, arg, ret, fate, writer, reported, cut, boot, rotated, faults, crashes>>

(* What fsync makes of a file.  The mutant returns without syncing. *)
Unsynced(f) == f
Durable(f)  == [name |-> f.name, disk |-> f.name, body |-> "synced", batches |-> f.batches]

Sync(p) ==
  /\ pc[p] = "sync"
  /\ files' = [files EXCEPT ![fw] = Durable(@)]
  /\ Goto(p, "fclose")
  /\ UNCHANGED <<lock, arg, ret, fate, writer, reported, cut, boot, rotated, faults, crashes>>

CloseFile(p) ==
  /\ pc[p] = "fclose"
  /\ Goto(p, "rename")
  /\ UNCHANGED <<lock, arg, ret, fate, writer, store, faults, crashes>>

Rename(p) ==
  /\ pc[p] = "rename"
  /\ files' = [files EXCEPT ![fw].name = "final"]
  /\ Reset
  /\ RecordRotation
  /\ Goto(p, "unlock")
  /\ UNCHANGED <<lock, arg, ret, fate, reported, cut, boot, faults, crashes>>

(* Any of the four fails: reset, recordError, and the .part file stays. *)
RotateFails(p) ==
  /\ pc[p] \in {"close", "sync", "fclose", "rename"}
  /\ Fault
  /\ RecordError(fw)
  /\ Reset
  /\ Refuse(p)
  /\ UNCHANGED <<lock, arg, fate, files, cut, boot, rotated, crashes>>

-----------------------------------------------------------------------------
(* Time, the kernel, and crashes. *)

(* FlushInterval elapses after the file was opened. *)
Age ==
  /\ fw # NoFile
  /\ ~aged
  /\ aged' = TRUE
  /\ UNCHANGED <<caller, fw, rows, store, faults, crashes>>

(* The kernel writes the directory back in its own time; only a crash that *)
(* is still to come can tell.                                              *)
SettleDir ==
  /\ crashes < MaxCrashes
  /\ \E f \in DOMAIN files : files[f].disk # files[f].name
  /\ files' = [f \in DOMAIN files |-> [files[f] EXCEPT !.disk = files[f].name]]
  /\ UNCHANGED <<caller, writer, reported, cut, boot, rotated, faults, crashes>>

(* What a crash leaves of a file: its name if the directory entry got out  *)
(* (N), and its content if it was synced or happened to get out (B).       *)
Survivor(f, N, B) ==
  LET kept == IF f \in N THEN files[f].name ELSE files[f].disk
  IN  [name    |-> kept,
       disk    |-> kept,
       body    |-> IF files[f].body = "synced" \/ f \in B THEN files[f].body ELSE "torn",
       batches |-> files[f].batches]

(* The process starts again at once, with a new writer and new counters.   *)
(* It never looks at what earlier processes left in the directory.         *)
Crash(N, B) ==
  /\ crashes < MaxCrashes
  /\ crashes' = crashes + 1
  /\ files' = [f \in DOMAIN files |-> Survivor(f, N, B)]
  /\ cut' = cut \cup {f \in DOMAIN files : f = fw}
                \cup {f \in Visible : files'[f].name # "final"}
  /\ lock' = Nobody
  /\ pc' = [p \in Procs |-> "idle"]
  /\ arg' = [p \in Pushers |-> NoBatch]
  /\ ret' = [p \in Procs |-> "ok"]
  /\ fate' = [b \in Batches |-> IF fate[b] = "sent" THEN "crashed" ELSE fate[b]]
  /\ fw' = NoFile
  /\ rows' = 0
  /\ aged' = FALSE
  /\ boot' = Len(files)
  /\ rotated' = 0
  /\ UNCHANGED <<reported, faults>>

-----------------------------------------------------------------------------
Locked(p) ==
  \/ Open(p) \/ CreateFails(p) \/ NewWriterFails(p)
  \/ \E big \in BOOLEAN : AppendBatch(p, big)
  \/ AppendFails(p)
  \/ CloseWriter(p) \/ Sync(p) \/ CloseFile(p) \/ Rename(p)
  \/ RotateFails(p)
  \/ Unlock(p)

Next ==
  \/ \E p \in Pushers, b \in Batches : Push(p, b)
  \/ Tick
  \/ Close
  \/ \E p \in Procs : Lock(p)
  \/ \E p \in Procs : Locked(p)
  \/ Age
  \/ SettleDir
  \/ \E N, B \in SUBSET DOMAIN files : Crash(N, B)

Spec == Init /\ [][Next]_vars

(* Goroutines run, a sync.Mutex starves nobody, time passes, and the flush *)
(* loop's ticker keeps firing.                                             *)
Fairness ==
  /\ WF_vars(Age)
  /\ WF_vars(Tick)
  /\ \A p \in Procs : WF_vars(Locked(p)) /\ SF_vars(Lock(p))

FairSpec == Spec /\ Fairness
-----------------------------------------------------------------------------
(* Properties. *)

(* The rows of a file: the k-th row of its i-th batch. *)
RowsOf(f) == UNION {{<<f, i, k>> : k \in 1 .. NumRows[files[f].batches[i]]} :
                      i \in DOMAIN files[f].batches}

(* The rows that this process has made visible. *)
Committed == UNION {RowsOf(f) : f \in {g \in Visible : g > boot}}

(* "Readers never see a partial file", before and after a crash: a file    *)
(* with its final name has its footer and all its content on disk          *)
(* (writer.go, rotateLocked: close the writer, fsync, close, rename).      *)
VisibleComplete == \A f \in Visible : files[f].body = "synced"

(* No accepted batch disappears unnoticed: once write returned nil, the    *)
(* batch is in the open file, in a visible file, in a file whose failed    *)
(* rotation was recorded in the telemetry, or in one that a crash took.    *)
AcceptedAccounted ==
  \A b \in Batches : fate[b] = "ok" =>
    \E f \in DOMAIN files :
      /\ In(b, f)
      /\ f = fw \/ f \in Visible \cup reported \cup cut

(* A caller may push a batch again after an error without showing readers  *)
(* its rows twice: a batch is in the visible files at most once, and not   *)
(* at all while its latest write is the one that was refused.              *)
NoDuplicateRows ==
  /\ \A f, g \in Visible : \A i \in DOMAIN files[f].batches, j \in DOMAIN files[g].batches :
       files[f].batches[i] = files[g].batches[j] => f = g /\ i = j
  /\ \A b \in Batches : fate[b] \in {"new", "err"} => \A f \in Visible : ~In(b, f)

(* A file that has reached MaxRows is rotated by the very write that took  *)
(* it there: whenever the mutex is free, the open file has room.           *)
OpenBelowLimit == lock = Nobody /\ fw # NoFile => rows < MaxRows

(* "Rows committed ... counted at rotation": the row counter is the number *)
(* of rows this process has made visible, never those of a file it lost.   *)
CommittedRowsExact == rotated = Cardinality(Committed)

(* After a Shutdown nothing waits in an open file: what was accepted is    *)
(* visible, or its loss was recorded, or an earlier crash took it.         *)
CloseFlushes ==
  pc[Closer] = "done" =>
    /\ fw = NoFile
    /\ \A b \in Batches : fate[b] = "ok" =>
         \E f \in Visible \cup reported \cup cut : In(b, f)

(* A visible file never changes, and only a crash takes its name away. *)
KeepVisible ==
  \A f \in Visible :
    /\ f \in DOMAIN files'
    /\ files'[f].batches = files[f].batches
    /\ crashes' = crashes => files'[f].name = "final"

VisibleImmutable == [][KeepVisible]_vars

(* Every opened file leaves the writer, with no push to help: it reaches   *)
(* its age, the shutdown comes first, it fails, or the machine stops.      *)
EveryFileLeaves == []<>(fw = NoFile)

(* Every push gets its answer, whatever fails on the way. *)
EveryPushReturns == \A b \in Batches : fate[b] = "sent" ~> fate[b] # "sent"

(* The writer implements the table that readers and callers are promised. *)
BatchesOf(F) == UNION {Range(files[f].batches) : f \in F}

Table == INSTANCE ParquetTable WITH
  pending  <- IF fw = NoFile THEN <<>> ELSE files[fw].batches,
  shown    <- [f \in Visible |-> files[f].batches],
  settled  <- {f \in Visible : files[f].disk = "final"},
  reported <- BatchesOf(reported),
  lost     <- BatchesOf(cut)

ImplementsTable == Table!Spec
=============================================================================
