------------------------- MODULE ParquetWriterProofs -------------------------
(***************************************************************************)
(* Proofs about one signalWriter, for any number of pushers, batches,      *)
(* failing calls and crashes: readers see whole files, each row is shown   *)
(* once and counted once, and what callers and readers are promised is     *)
(* what ParquetTable says.                                                 *)
(***************************************************************************)
EXTENDS ParquetWriter, SequenceTheorems, FunctionTheorems, FiniteSetTheorems, TLAPS

-----------------------------------------------------------------------------
(* Facts about the sequence of files. *)

(* Changing one file changes no other, and opens or closes none. *)
LEMMA UpdateFile ==
  ASSUME files \in Seq(File), NEW f \in DOMAIN files, NEW r \in File,
         files' = [files EXCEPT ![f] = r]
  PROVE  /\ files' \in Seq(File)
         /\ DOMAIN files' = DOMAIN files
         /\ Len(files') = Len(files)
         /\ files'[f] = r
         /\ \A g \in DOMAIN files : g # f => files'[g] = files[g]
  BY ExceptSeq, LenProperties

(* Opening a file leaves the others as they are. *)
LEMMA AddFile ==
  ASSUME files \in Seq(File), NEW r \in File, files' = Append(files, r)
  PROVE  /\ files' \in Seq(File)
         /\ DOMAIN files' = DOMAIN files \cup {Len(files) + 1}
         /\ Len(files) + 1 \in Nat \ {0}
         /\ Len(files) + 1 \notin DOMAIN files
         /\ files'[Len(files) + 1] = r
         /\ \A g \in DOMAIN files : files'[g] = files[g]
  OBVIOUS

(* Changing every file at once keeps their number. *)
LEMMA MapFiles ==
  ASSUME files \in Seq(File),
         DOMAIN files' = DOMAIN files,
         files' = [f \in DOMAIN files |-> files'[f]],
         \A f \in DOMAIN files : files'[f] \in File
  PROVE  files' \in Seq(File) /\ Len(files') = Len(files)
<1> DEFINE n == Len(files)
<1>1. n \in Nat /\ DOMAIN files = 1 .. n
  BY LenProperties
<1>2. files' \in [1 .. n -> File]
  BY <1>1
<1>3. files' \in Seq(File)
  BY <1>1, <1>2, SeqDef
<1>4. Len(files') = n
  BY <1>1, <1>3, LenProperties
<1> QED BY <1>3, <1>4

LEMMA NoFileIsNoFile == files \in Seq(File) => NoFile \notin DOMAIN files
  BY DEF NoFile

LEMMA FirstStepType ==
  ASSUME NEW p \in Procs
  PROVE  /\ FirstStep(p) \in {"open", "append", "close", "unlock"}
         /\ FirstStep(p) = "open" => p \in Pushers /\ fw = NoFile
         /\ FirstStep(p) = "append" => p \in Pushers /\ fw # NoFile
         /\ FirstStep(p) = "close" => p \notin Pushers /\ fw # NoFile
         /\ FirstStep(p) = "unlock" => p \notin Pushers
  BY ProcsAssumption DEF FirstStep, Procs

-----------------------------------------------------------------------------
(* Type correctness. *)

LEMMA FileTypes ==
  /\ NewFile("part") \in File /\ NewFile("none") \in File
  /\ \A r \in File : Durable(r) \in File /\ Durable(r).name = r.name
  BY DEF NewFile, Durable, File, Names, Bodies

Rotating == {"close", "sync", "fclose", "rename"}
Critical == Rotating \cup {"open", "append", "unlock"}

(* Where a caller may be: only the holder of the mutex is past Lock; a     *)
(* file is open exactly where the code dereferences w.fw and w.file.       *)
Control ==
  /\ \A p \in Procs :
       /\ pc[p] \in Critical => lock = p
       /\ pc[p] \in {"open", "append"} => p \in Pushers
       /\ pc[p] = "open" => fw = NoFile
       /\ pc[p] \in Rotating \cup {"append"} => fw # NoFile
  /\ \A p \in Pushers : pc[p] \in Critical \cup {"lock"} => arg[p] \in Batches

Basic == TypeOK /\ Control

LEMMA BasicInit == Init => Basic
<1> SUFFICES ASSUME Init PROVE Basic
  OBVIOUS
<1>1. files \in Seq(File) /\ DOMAIN files = {}
  BY EmptySeq DEF Init
<1> QED
  BY <1>1, ProcsAssumption DEF Init, Basic, TypeOK, Control, Labels, Procs, NoFile,
     Critical, Rotating

LEMMA CallerSteps ==
  ASSUME Basic
  PROVE  /\ \A p \in Pushers, b \in Batches : Push(p, b) => Basic'
         /\ Tick => Basic'
         /\ Close => Basic'
<1> USE DEF Basic, TypeOK, Control, Labels, Procs, Critical, Rotating, writer, store
<1>1. ASSUME NEW p \in Pushers, NEW b \in Batches, Push(p, b) PROVE Basic'
  BY <1>1 DEF Push
<1>2. ASSUME Tick PROVE Basic'
  BY <1>2, ProcsAssumption DEF Tick
<1>3. ASSUME Close PROVE Basic'
  BY <1>3, ProcsAssumption DEF Close
<1> QED BY <1>1, <1>2, <1>3

LEMMA LockStep == ASSUME Basic, NEW p \in Procs, Lock(p) PROVE Basic'
<1> USE DEF Basic, TypeOK, Control, Labels, Procs, Critical, Rotating, writer, store
<1>1. pc' = [pc EXCEPT ![p] = FirstStep(p)] /\ lock' = p /\ lock = Nobody /\ pc[p] = "lock"
  BY DEF Lock
<1>2. TypeOK'
  BY <1>1, FirstStepType DEF Lock
<1>3. \A q \in Procs : q # p => pc[q] \notin Critical
  BY <1>1, ProcsAssumption
<1>4. \A q \in Procs : q # p => pc'[q] = pc[q]
  BY <1>1
<1>5. pc'[p] = FirstStep(p)
  BY <1>1
<1>6. Control'
  BY <1>1, <1>3, <1>4, <1>5, FirstStepType DEF Lock
<1> QED BY <1>2, <1>6

LEMMA UnlockStep == ASSUME Basic, NEW p \in Procs, Unlock(p) PROVE Basic'
<1> USE DEF Basic, TypeOK, Control, Labels, Procs, Critical, Rotating, writer, store
<1>1. \A q \in Procs : q # p => pc[q] \notin Critical
  BY DEF Unlock
<1>2. TypeOK'
  BY DEF Unlock
<1>3. Control'
  BY <1>1 DEF Unlock
<1> QED BY <1>2, <1>3

LEMMA OpenSteps ==
  ASSUME Basic, NEW p \in Procs
  PROVE  /\ Open(p) => Basic'
         /\ CreateFails(p) => Basic'
         /\ NewWriterFails(p) => Basic'
<1> USE DEF Basic, TypeOK, Control, Labels, Procs, Critical, Rotating, writer, store,
        Fault, Goto, Refuse, RecordError, NoFile
<1>1. ASSUME Open(p) PROVE Basic'
  BY <1>1, FileTypes, AddFile DEF Open
<1>2. ASSUME CreateFails(p) PROVE Basic'
  BY <1>2, FileTypes, AddFile DEF CreateFails
<1>3. ASSUME NewWriterFails(p) PROVE Basic'
  BY <1>3, FileTypes, AddFile DEF NewWriterFails
<1> QED BY <1>1, <1>2, <1>3

(* The four calls that change the open file leave a file in its place. *)
LEMMA OpenFileTypes ==
  ASSUME Basic, fw # NoFile
  PROVE  /\ fw \in DOMAIN files
         /\ files[fw] \in File
         /\ [files[fw] EXCEPT !.body = "footed"] \in File
         /\ [files[fw] EXCEPT !.name = "final"] \in File
         /\ \A b \in Batches : [files[fw] EXCEPT !.batches = Append(@, b)] \in File
<1>1. fw \in DOMAIN files /\ files[fw] \in File
  BY DEF Basic, TypeOK
<1>2. \A b \in Batches : Append(files[fw].batches, b) \in Seq(Batches)
  BY <1>1 DEF File
<1> QED
  BY <1>1, <1>2 DEF File, Names, Bodies

LEMMA WriteSteps ==
  ASSUME Basic, NEW p \in Procs
  PROVE  /\ \A big \in BOOLEAN : AppendBatch(p, big) => Basic'
         /\ AppendFails(p) => Basic'
<1> USE DEF Basic, TypeOK, Control, Labels, Procs, Critical, Rotating, writer, store,
        Fault, Goto, Refuse
<1>1. ASSUME NEW big \in BOOLEAN, AppendBatch(p, big) PROVE Basic'
  <2>1. fw # NoFile /\ p \in Pushers /\ arg[p] \in Batches
    BY <1>1 DEF AppendBatch
  <2>2. files' = [files EXCEPT ![fw] = [files[fw] EXCEPT !.batches = Append(@, arg[p])]]
    BY <1>1 DEF AppendBatch
  <2>3. files' \in Seq(File) /\ DOMAIN files' = DOMAIN files
    BY <2>1, <2>2, OpenFileTypes, UpdateFile
  <2>4. rows' \in Nat
    BY <1>1, <2>1, RowsAssumption DEF AppendBatch
  <2> QED
    BY <1>1, <2>1, <2>3, <2>4 DEF AppendBatch, AfterAppend
<1>2. ASSUME AppendFails(p) PROVE Basic'
  BY <1>2 DEF AppendFails
<1> QED BY <1>1, <1>2

LEMMA RotateSteps ==
  ASSUME Basic, NEW p \in Procs
  PROVE  /\ CloseWriter(p) => Basic'
         /\ Sync(p) => Basic'
         /\ CloseFile(p) => Basic'
         /\ Rename(p) => Basic'
         /\ RotateFails(p) => Basic'
<1> USE DEF Basic, TypeOK, Control, Labels, Procs, Critical, Rotating, writer, store,
        Fault, Goto, Refuse, RecordError, RecordRotation, Reset
<1>1. ASSUME CloseWriter(p) PROVE Basic'
  <2>1. files' = [files EXCEPT ![fw] = [files[fw] EXCEPT !.body = "footed"]]
    BY <1>1 DEF CloseWriter
  <2>2. files' \in Seq(File) /\ DOMAIN files' = DOMAIN files
    BY <1>1, <2>1, OpenFileTypes, UpdateFile DEF CloseWriter
  <2> QED BY <1>1, <2>2 DEF CloseWriter
<1>2. ASSUME Sync(p) PROVE Basic'
  <2>1. files' = [files EXCEPT ![fw] = Durable(files[fw])]
    BY <1>2 DEF Sync
  <2>2. files' \in Seq(File) /\ DOMAIN files' = DOMAIN files
    BY <1>2, <2>1, OpenFileTypes, FileTypes, UpdateFile DEF Sync
  <2> QED BY <1>2, <2>2 DEF Sync
<1>3. ASSUME CloseFile(p) PROVE Basic'
  BY <1>3 DEF CloseFile
<1>4. ASSUME Rename(p) PROVE Basic'
  <2>1. files' = [files EXCEPT ![fw] = [files[fw] EXCEPT !.name = "final"]]
    BY <1>4 DEF Rename
  <2>2. files' \in Seq(File) /\ DOMAIN files' = DOMAIN files
    BY <1>4, <2>1, OpenFileTypes, UpdateFile DEF Rename
  <2> QED BY <1>4, <2>2 DEF Rename
<1>5. ASSUME RotateFails(p) PROVE Basic'
  BY <1>5 DEF RotateFails
<1> QED BY <1>1, <1>2, <1>3, <1>4, <1>5

LEMMA SurvivorType ==
  ASSUME files \in Seq(File), NEW f \in DOMAIN files, NEW N, NEW B
  PROVE  Survivor(f, N, B) \in File
<1>1. files[f] \in File
  OBVIOUS
<1> QED BY <1>1 DEF Survivor, File, Names, Bodies

LEMMA WorldSteps ==
  ASSUME Basic
  PROVE  /\ Age => Basic'
         /\ SettleDir => Basic'
         /\ \A N, B \in SUBSET DOMAIN files : Crash(N, B) => Basic'
<1> USE DEF Basic, TypeOK, Control, Labels, Procs, Critical, Rotating, caller, writer, store
<1>1. ASSUME Age PROVE Basic'
  BY <1>1 DEF Age
<1>2. ASSUME SettleDir PROVE Basic'
  <2>1. \A f \in DOMAIN files : files[f] \in File
    OBVIOUS
  <2>2. \A f \in DOMAIN files : files'[f] \in File
    BY <1>2, <2>1 DEF SettleDir, File
  <2>3. DOMAIN files' = DOMAIN files /\ files' = [f \in DOMAIN files |-> files'[f]]
    BY <1>2 DEF SettleDir
  <2>4. files' \in Seq(File)
    BY <2>2, <2>3, MapFiles
  <2> QED BY <1>2, <2>3, <2>4 DEF SettleDir
<1>3. ASSUME NEW N \in SUBSET DOMAIN files, NEW B \in SUBSET DOMAIN files, Crash(N, B)
      PROVE  Basic'
  <2>1. DOMAIN files' = DOMAIN files /\ files' = [f \in DOMAIN files |-> files'[f]]
    BY <1>3 DEF Crash
  <2>2. \A f \in DOMAIN files : files'[f] \in File
    BY <1>3, SurvivorType DEF Crash
  <2>3. files' \in Seq(File) /\ Len(files) \in Nat
    BY <2>1, <2>2, MapFiles, LenProperties
  <2>4. cut' \subseteq DOMAIN files'
    BY <1>3, <2>1 DEF Crash, Visible
  <2>5. reported' \subseteq DOMAIN files'
    BY <1>3, <2>1 DEF Crash
  <2>6. fate' \in [Batches -> {"new", "sent", "ok", "err", "crashed"}]
    BY <1>3 DEF Crash
  <2>7. TypeOK'
    <3>1. /\ lock' \in Procs \cup {Nobody} /\ pc' \in [Procs -> Labels]
          /\ arg' \in [Pushers -> Batches \cup {NoBatch}]
          /\ ret' \in [Procs -> {"ok", "err"}]
      BY <1>3 DEF Crash
    <3>2. aged' \in BOOLEAN
      BY <1>3 DEF Crash
    <3>3. /\ fw' \in DOMAIN files' \cup {NoFile} /\ rows' \in Nat /\ boot' \in Nat
          /\ rotated' \in Nat /\ faults' \in Nat /\ crashes' \in Nat
      BY <1>3, <2>3 DEF Crash
    <3> QED BY <2>3, <2>4, <2>5, <2>6, <3>1, <3>2, <3>3
  <2>8. Control'
    BY <1>3, ProcsAssumption DEF Crash
  <2> QED BY <2>7, <2>8
<1> QED BY <1>1, <1>2, <1>3

LEMMA BasicStep == Basic /\ [Next]_vars => Basic'
<1> SUFFICES ASSUME Basic, [Next]_vars PROVE Basic'
  OBVIOUS
<1>1. CASE UNCHANGED vars
  BY <1>1 DEF vars, Basic, TypeOK, Control
<1>2. CASE Next
  BY <1>2, CallerSteps, LockStep, UnlockStep, OpenSteps, WriteSteps, RotateSteps,
     WorldSteps DEF Next, Locked
<1> QED BY <1>1, <1>2

(* Every variable keeps its type, whoever calls and whatever fails. *)
THEOREM TypeCorrect == Spec => []TypeOK
<1>1. Init => Basic
  BY BasicInit
<1>2. Basic /\ [Next]_vars => Basic'
  BY BasicStep
<1>3. Basic => TypeOK
  BY DEF Basic
<1> QED BY <1>1, <1>2, <1>3, PTL DEF Spec

-----------------------------------------------------------------------------
(* Readers never see a partial file. *)

(* The strengthening: what carries the final name in the page cache or on  *)
(* disk is durable, the open file carries it in neither, and it is durable *)
(* by the time the rename is reached.                                      *)
Durability ==
  /\ \A f \in DOMAIN files :
       files[f].name = "final" \/ files[f].disk = "final" => files[f].body = "synced"
  /\ fw # NoFile => files[fw].name = "part" /\ files[fw].disk # "final"
  /\ \A p \in Procs : pc[p] \in {"fclose", "rename"} => files[fw].body = "synced"

LEMMA DurabilityOpens ==
  ASSUME Basic, Basic', Durability, NEW p \in Procs,
         Open(p) \/ CreateFails(p) \/ NewWriterFails(p)
  PROVE  Durability'
<1> USE DEF writer, Goto, Refuse
<1>1. PICK n \in {"part", "none"} :
        files' = Append(files, NewFile(n)) /\ ((fw' = Len(files) + 1 /\ n = "part") \/ fw' = fw)
  BY DEF Open, CreateFails, NewWriterFails
<1>2. /\ DOMAIN files' = DOMAIN files \cup {Len(files) + 1}
      /\ Len(files) + 1 \notin DOMAIN files
      /\ files'[Len(files) + 1] = NewFile(n)
      /\ \A g \in DOMAIN files : files'[g] = files[g]
  BY <1>1, AddFile, FileTypes DEF Basic, TypeOK
<1>3. fw = NoFile /\ \A q \in Procs : q # p => pc[q] \notin Critical
  BY DEF Basic, Control, Critical, Open, CreateFails, NewWriterFails
<1>4. \A q \in Procs : pc'[q] \notin {"fclose", "rename"}
  <2>1. \A q \in Procs : q # p => pc'[q] = pc[q]
    BY DEF Basic, TypeOK, Open, CreateFails, NewWriterFails
  <2>2. pc'[p] \in {"append", "unlock"}
    BY DEF Basic, TypeOK, Open, CreateFails, NewWriterFails
  <2> QED BY <1>3, <2>1, <2>2 DEF Critical, Rotating
<1> QED
  BY <1>1, <1>2, <1>3, <1>4 DEF Durability, NewFile

LEMMA DurabilityFile ==
  ASSUME Basic, Durability, NEW p \in Procs,
         \/ \E big \in BOOLEAN : AppendBatch(p, big)
         \/ CloseWriter(p) \/ Sync(p) \/ Rename(p)
  PROVE  Durability'
<1> USE DEF writer, Goto, Reset
<1> DEFINE r == files'[fw]
<1>0. /\ fw # NoFile /\ fw \in DOMAIN files /\ files[fw] \in File
      /\ pc[p] = "append" => arg[p] \in Batches
  BY DEF Basic, TypeOK, Control, Critical, Rotating, AppendBatch, CloseWriter, Sync, Rename
<1>1. \A q \in Procs : q # p => pc[q] \notin Critical /\ pc'[q] = pc[q]
  BY DEF Basic, TypeOK, Control, Critical, Rotating, AppendBatch, CloseWriter, Sync, Rename
<1>2. CASE \E big \in BOOLEAN : AppendBatch(p, big)
  <2>1. /\ files' = [files EXCEPT ![fw] = [files[fw] EXCEPT !.batches = Append(@, arg[p])]]
        /\ fw' = fw /\ pc'[p] \in {"close", "unlock"}
    BY <1>2 DEF AppendBatch, AfterAppend, Basic, TypeOK
  <2>2. /\ DOMAIN files' = DOMAIN files /\ \A g \in DOMAIN files : g # fw => files'[g] = files[g]
        /\ r.name = files[fw].name /\ r.disk = files[fw].disk /\ r.body = files[fw].body
    BY <1>0, <2>1 DEF File, Basic, TypeOK
  <2> QED BY <1>0, <1>1, <2>1, <2>2 DEF Durability, Critical, Rotating
<1>3. CASE CloseWriter(p)
  <2>1. /\ files' = [files EXCEPT ![fw] = [files[fw] EXCEPT !.body = "footed"]]
        /\ fw' = fw /\ pc'[p] = "sync"
    BY <1>3 DEF CloseWriter, Basic, TypeOK
  <2>2. /\ DOMAIN files' = DOMAIN files /\ \A g \in DOMAIN files : g # fw => files'[g] = files[g]
        /\ r.name = files[fw].name /\ r.disk = files[fw].disk
    BY <1>0, <2>1 DEF File, Basic, TypeOK
  <2> QED BY <1>0, <1>1, <2>1, <2>2 DEF Durability, Critical, Rotating
<1>4. CASE Sync(p)
  <2>1. /\ files' = [files EXCEPT ![fw] = Durable(files[fw])]
        /\ fw' = fw /\ pc'[p] = "fclose"
    BY <1>4 DEF Sync, Basic, TypeOK
  <2>2. /\ DOMAIN files' = DOMAIN files /\ \A g \in DOMAIN files : g # fw => files'[g] = files[g]
        /\ r.name = files[fw].name /\ r.disk = files[fw].name /\ r.body = "synced"
    BY <1>0, <2>1 DEF Durable, Basic, TypeOK
  <2> QED BY <1>0, <1>1, <2>1, <2>2 DEF Durability, Critical, Rotating
<1>5. CASE Rename(p)
  <2>1. /\ files' = [files EXCEPT ![fw] = [files[fw] EXCEPT !.name = "final"]]
        /\ fw' = NoFile /\ pc'[p] = "unlock" /\ pc[p] = "rename"
    BY <1>5 DEF Rename, Basic, TypeOK
  <2>2. /\ DOMAIN files' = DOMAIN files /\ \A g \in DOMAIN files : g # fw => files'[g] = files[g]
        /\ r.body = files[fw].body
    BY <1>0, <2>1 DEF File, Basic, TypeOK
  <2>3. files[fw].body = "synced"
    BY <2>1 DEF Durability
  <2> QED BY <1>0, <1>1, <2>1, <2>2, <2>3 DEF Durability, Critical, Rotating
<1> QED BY <1>2, <1>3, <1>4, <1>5

(* The steps that touch no file. *)
LEMMA DurabilityCalls ==
  ASSUME Basic, Durability, UNCHANGED files, fw' \in {fw, NoFile},
         NEW p \in Procs, \A q \in Procs : q # p => pc'[q] = pc[q] /\ pc[q] \notin Critical,
         pc'[p] \in {"fclose", "rename"} => pc[p] = "fclose" /\ fw' = fw
  PROVE  Durability'
  BY DEF Durability, Critical, Rotating

LEMMA DurabilityWorld ==
  ASSUME Basic, Durability,
         SettleDir \/ \E N, B \in SUBSET DOMAIN files : Crash(N, B)
  PROVE  Durability'
<1>1. CASE SettleDir
  <2>1. \A f \in DOMAIN files : files[f] \in File
    BY DEF Basic, TypeOK
  <2>2. \A f \in DOMAIN files : /\ files'[f].name = files[f].name
                                /\ files'[f].disk = files[f].name
                                /\ files'[f].body = files[f].body
    BY <1>1, <2>1 DEF SettleDir, File
  <2>3. DOMAIN files' = DOMAIN files /\ fw' = fw /\ pc' = pc
    BY <1>1 DEF SettleDir, writer, caller
  <2>4. fw # NoFile => fw \in DOMAIN files
    BY DEF Basic, TypeOK
  <2>5. \A q \in Procs : pc[q] \in {"fclose", "rename"} => fw # NoFile
    BY DEF Basic, Control, Rotating
  <2> QED BY <2>2, <2>3, <2>4, <2>5 DEF Durability
<1>2. CASE \E N, B \in SUBSET DOMAIN files : Crash(N, B)
  <2>1. PICK N, B \in SUBSET DOMAIN files : Crash(N, B)
    BY <1>2
  <2>2. files' = [f \in DOMAIN files |-> Survivor(f, N, B)]
    BY <2>1 DEF Crash
  <2>3. DOMAIN files' = DOMAIN files /\ \A f \in DOMAIN files : files'[f] = Survivor(f, N, B)
    BY <2>2
  <2>4. fw' = NoFile /\ \A p \in Procs : pc'[p] = "idle"
    BY <2>1 DEF Crash
  <2> QED BY <2>3, <2>4 DEF Durability, Survivor
<1> QED BY <1>1, <1>2

LEMMA DurabilityStep == Basic /\ Durability /\ [Next]_vars => Durability'
<1> SUFFICES ASSUME Basic, Durability, [Next]_vars PROVE Durability'
  OBVIOUS
<1> USE DEF writer, store, caller
<1>1. CASE UNCHANGED vars
  BY <1>1 DEF vars, Durability
<1>2. CASE \/ \E p \in Pushers, b \in Batches : Push(p, b)
           \/ Tick \/ Close \/ Age
  <2>1. files' = files /\ fw' = fw
    BY <1>2 DEF Push, Tick, Close, Age
  <2>2. \A q \in Procs : pc'[q] = pc[q] \/ pc'[q] = "lock"
    BY <1>2, ProcsAssumption DEF Push, Tick, Close, Age, Basic, TypeOK, Procs
  <2> QED BY <2>1, <2>2 DEF Durability
<1>3. ASSUME NEW p \in Procs, Lock(p) PROVE Durability'
  <2>1. \A q \in Procs : q # p => pc'[q] = pc[q] /\ pc[q] \notin Critical
    BY <1>3, ProcsAssumption DEF Lock, Basic, TypeOK, Control, Procs
  <2>2. pc'[p] \notin {"fclose", "rename"} /\ files' = files /\ fw' = fw
    BY <1>3, FirstStepType DEF Lock, Basic, TypeOK
  <2> QED BY <2>1, <2>2, DurabilityCalls
<1>4. ASSUME NEW p \in Procs, Locked(p) PROVE Durability'
  <2>1. \A q \in Procs : q # p => pc'[q] = pc[q] /\ pc[q] \notin Critical
    BY <1>4 DEF Locked, Basic, TypeOK, Control, Critical, Rotating, Goto, Refuse,
       Open, CreateFails, NewWriterFails, AppendBatch, AppendFails,
       CloseWriter, Sync, CloseFile, Rename, RotateFails, Unlock
  <2>2. CASE AppendFails(p) \/ CloseFile(p) \/ RotateFails(p) \/ Unlock(p)
    <3>1. files' = files /\ fw' \in {fw, NoFile}
      BY <2>2 DEF AppendFails, CloseFile, RotateFails, Unlock, Reset
    <3>2. pc'[p] \in {"fclose", "rename"} => pc[p] = "fclose" /\ fw' = fw
      <4>1. pc \in [Procs -> Labels]
        BY DEF Basic, TypeOK
      <4>2. CASE AppendFails(p)
        BY <4>1, <4>2 DEF AppendFails, Goto, Refuse
      <4>3. CASE CloseFile(p)
        BY <4>1, <4>3 DEF CloseFile, Goto
      <4>4. CASE RotateFails(p)
        BY <4>1, <4>4 DEF RotateFails, Goto, Refuse, Fault, RecordError, Reset
      <4>5. CASE Unlock(p)
        BY <4>1, <4>5 DEF Unlock
      <4> QED BY <2>2, <4>2, <4>3, <4>4, <4>5
    <3> QED BY <2>1, <3>1, <3>2, DurabilityCalls
  <2>3. CASE Open(p) \/ CreateFails(p) \/ NewWriterFails(p)
    BY <2>3, OpenSteps, DurabilityOpens
  <2> QED BY <1>4, <2>2, <2>3, DurabilityFile DEF Locked
<1>5. CASE SettleDir \/ \E N, B \in SUBSET DOMAIN files : Crash(N, B)
  BY <1>5, DurabilityWorld
<1> QED BY <1>1, <1>2, <1>3, <1>4, <1>5 DEF Next

(* "A hard crash after the rename cannot produce a file with a missing     *)
(* footer": whatever carries the final name is complete and durable, at    *)
(* every moment and after every crash.                                     *)
THEOREM ReadersSeeWholeFiles == Spec => []VisibleComplete
<1>1. Init => Basic /\ Durability
  BY BasicInit, ProcsAssumption DEF Init, Durability, Procs, NoFile
<1>2. Basic /\ Durability /\ [Next]_vars => (Basic /\ Durability)'
  BY BasicStep, DurabilityStep
<1>3. Durability => VisibleComplete
  BY DEF Durability, VisibleComplete, Visible
<1> QED BY <1>1, <1>2, <1>3, PTL DEF Spec

-----------------------------------------------------------------------------
(* No accepted batch disappears unnoticed. *)

Kept(f)      == f = fw \/ f \in Visible \cup reported \cup cut
Accounted(b) == \E f \in DOMAIN files : In(b, f) /\ Kept(f)

(* The strengthening follows a batch from fw.Write to the return of write: *)
(* a rotation on its behalf is one of the file that holds it.              *)
Acks ==
  /\ \A b \in Batches : fate[b] = "ok" => Accounted(b)
  /\ \A p \in Pushers :
       /\ pc[p] \in Rotating => In(arg[p], fw)
       /\ pc[p] = "unlock" /\ ret[p] = "ok" => Accounted(arg[p])

(* What every step does: files keep their batches, and a file that counts  *)
(* goes on counting.                                                       *)
Keeps ==
  \A f \in DOMAIN files :
    /\ f \in DOMAIN files'
    /\ \A b \in Batches : In(b, f) => In(b, f)'
    /\ Kept(f) => Kept(f)'

LEMMA AccountedKept == Keeps => \A b \in Batches : Accounted(b) => Accounted(b)'
<1> SUFFICES ASSUME Keeps, NEW b \in Batches, Accounted(b) PROVE Accounted(b)'
  OBVIOUS
<1>1. PICK f \in DOMAIN files : In(b, f) /\ Kept(f)
  BY DEF Accounted
<1>2. f \in DOMAIN files' /\ In(b, f)' /\ Kept(f)'
  BY <1>1 DEF Keeps
<1> QED BY <1>2 DEF Accounted

LEMMA KeepsFiles ==
  ASSUME Basic,
         UNCHANGED <<files, cut>>, reported \subseteq reported',
         fw' # fw => fw \in reported'
  PROVE  Keeps
  BY DEF Keeps, Kept, In, Visible

LEMMA KeepsOpens ==
  ASSUME Basic, NEW p \in Procs,
         Open(p) \/ CreateFails(p) \/ NewWriterFails(p)
  PROVE  Keeps
<1> USE DEF writer
<1>1. PICK n \in {"part", "none"} : files' = Append(files, NewFile(n))
  BY DEF Open, CreateFails, NewWriterFails
<1>2. \A g \in DOMAIN files : g \in DOMAIN files' /\ files'[g] = files[g]
  BY <1>1, AddFile, FileTypes DEF Basic, TypeOK
<1>3. fw = NoFile /\ NoFile \notin DOMAIN files
  BY NoFileIsNoFile DEF Basic, TypeOK, Control, Critical, Open, CreateFails, NewWriterFails
<1>4. reported \subseteq reported' /\ cut' = cut
  BY DEF Open, CreateFails, NewWriterFails, RecordError
<1> QED BY <1>2, <1>3, <1>4 DEF Keeps, Kept, In, Visible

LEMMA KeepsWrite ==
  ASSUME Basic, NEW p \in Procs, NEW big \in BOOLEAN, AppendBatch(p, big)
  PROVE  Keeps /\ In(arg[p], fw)' /\ Kept(fw)'
<1>1. p \in Pushers /\ fw # NoFile /\ fw \in DOMAIN files /\ files[fw] \in File /\ arg[p] \in Batches
  BY DEF AppendBatch, Basic, TypeOK, Control, Critical
<1>2. files' = [files EXCEPT ![fw] = [files[fw] EXCEPT !.batches = Append(@, arg[p])]]
  BY DEF AppendBatch
<1>3. fw' = fw /\ arg' = arg /\ reported' = reported /\ cut' = cut
  BY DEF AppendBatch
<1>4. /\ DOMAIN files' = DOMAIN files /\ \A g \in DOMAIN files : g # fw => files'[g] = files[g]
      /\ files'[fw].name = files[fw].name
      /\ files'[fw].batches = Append(files[fw].batches, arg[p])
  BY <1>1, <1>2 DEF File, Basic, TypeOK
<1>5. files[fw].batches \in Seq(Batches)
  BY <1>1 DEF File
<1> DEFINE s == files[fw].batches
           t == files'[fw].batches
<1>7. /\ DOMAIN t = DOMAIN s \cup {Len(s) + 1} /\ t[Len(s) + 1] = arg[p]
      /\ \A i \in DOMAIN s : t[i] = s[i]
  BY <1>1, <1>4, <1>5
<1> HIDE DEF s, t
<1>8. In(arg[p], fw)'
  BY <1>3, <1>7 DEF In, t
<1>9. \A f \in DOMAIN files, b \in Batches : In(b, f) => In(b, f)'
  <2> SUFFICES ASSUME NEW f \in DOMAIN files, NEW b \in Batches, In(b, f)
               PROVE  In(b, f)'
    OBVIOUS
  <2>1. CASE f = fw
    BY <2>1, <1>7 DEF In, s, t
  <2>2. CASE f # fw
    BY <2>2, <1>4 DEF In
  <2> QED BY <2>1, <2>2
<1>10. \A f \in DOMAIN files : Kept(f) => Kept(f)'
  BY <1>3, <1>4 DEF Kept, Visible
<1> QED BY <1>1, <1>3, <1>4, <1>8, <1>9, <1>10 DEF Keeps, Kept

LEMMA KeepsRotate ==
  ASSUME Basic, NEW p \in Procs, CloseWriter(p) \/ Sync(p) \/ Rename(p)
  PROVE  /\ Keeps
         /\ \A f \in DOMAIN files : files'[f].batches = files[f].batches
<1>1. fw # NoFile /\ fw \in DOMAIN files /\ files[fw] \in File
  BY DEF CloseWriter, Sync, Rename, Basic, TypeOK, Control, Rotating
<1>2. /\ DOMAIN files' = DOMAIN files /\ \A g \in DOMAIN files : g # fw => files'[g] = files[g]
      /\ files'[fw].batches = files[fw].batches
      /\ files'[fw].name = files[fw].name \/ files'[fw].name = "final"
  <2>1. CASE CloseWriter(p)
    BY <1>1, <2>1 DEF CloseWriter, Basic, TypeOK, File
  <2>2. CASE Sync(p)
    BY <1>1, <2>2 DEF Sync, Durable, Basic, TypeOK
  <2>3. CASE Rename(p)
    BY <1>1, <2>3 DEF Rename, Basic, TypeOK, File
  <2> QED BY <2>1, <2>2, <2>3
<1>3. fw' = fw \/ files'[fw].name = "final"
  <2>1. CASE CloseWriter(p) \/ Sync(p)
    BY <2>1 DEF CloseWriter, Sync, writer
  <2>2. CASE Rename(p)
    BY <1>1, <2>2 DEF Rename, Basic, TypeOK, File
  <2> QED BY <2>1, <2>2
<1>4. reported' = reported /\ cut' = cut
  BY DEF CloseWriter, Sync, Rename
<1>5. \A f \in DOMAIN files : files'[f].batches = files[f].batches
  BY <1>2
<1>6. Visible \subseteq Visible'
  BY <1>2 DEF Visible
<1>7. \A f \in DOMAIN files : Kept(f) => Kept(f)'
  BY <1>1, <1>2, <1>3, <1>4, <1>6 DEF Kept, Visible
<1> QED BY <1>2, <1>5, <1>7 DEF Keeps, In

LEMMA KeepsWorld ==
  ASSUME Basic, SettleDir \/ \E N, B \in SUBSET DOMAIN files : Crash(N, B)
  PROVE  Keeps
<1>1. CASE SettleDir
  <2>1. \A f \in DOMAIN files : files[f] \in File
    BY DEF Basic, TypeOK
  <2>2. /\ DOMAIN files' = DOMAIN files /\ fw' = fw /\ reported' = reported /\ cut' = cut
        /\ \A f \in DOMAIN files : files'[f].name = files[f].name
                                   /\ files'[f].batches = files[f].batches
    BY <1>1, <2>1 DEF SettleDir, File, writer
  <2> QED BY <2>2 DEF Keeps, Kept, In, Visible
<1>2. CASE \E N, B \in SUBSET DOMAIN files : Crash(N, B)
  <2>1. PICK N, B \in SUBSET DOMAIN files : Crash(N, B)
    BY <1>2
  <2>2. files' = [f \in DOMAIN files |-> Survivor(f, N, B)]
    BY <2>1 DEF Crash
  <2>3. /\ DOMAIN files' = DOMAIN files
        /\ \A f \in DOMAIN files : files'[f].batches = files[f].batches
    BY <2>2 DEF Survivor
  <2>4. /\ reported' = reported
        /\ cut' = cut \cup {f \in DOMAIN files : f = fw}
                      \cup {f \in Visible : files'[f].name # "final"}
    BY <2>1 DEF Crash
  <2>5. \A f \in DOMAIN files : Kept(f) => Kept(f)'
    BY <2>3, <2>4 DEF Kept, Visible
  <2> QED BY <2>3, <2>5 DEF Keeps, In
<1> QED BY <1>1, <1>2

(* The steps outside the mutex, and Lock: no write is past fw.Write yet. *)
LEMMA AcksCalls ==
  ASSUME Basic, Acks,
         \/ \E p \in Pushers, b \in Batches : Push(p, b)
         \/ Tick \/ Close \/ Age
         \/ \E p \in Procs : Lock(p)
  PROVE  Acks'
<1> USE DEF writer, store, caller
<1>1. files' = files /\ fw' = fw /\ reported' = reported /\ cut' = cut /\ ret' = ret
  BY DEF Push, Tick, Close, Age, Lock
<1>2. \A b \in Batches : fate'[b] = "ok" => fate[b] = "ok"
  BY DEF Push, Tick, Close, Age, Lock, Basic, TypeOK
<1>3. \A q \in Pushers : pc'[q] \in Rotating \cup {"unlock"} =>
        pc'[q] = pc[q] /\ arg'[q] = arg[q] /\ arg[q] \in Batches
  <2> SUFFICES ASSUME NEW q \in Pushers, pc'[q] \in Rotating \cup {"unlock"}
               PROVE  pc'[q] = pc[q] /\ arg'[q] = arg[q]
    BY DEF Basic, TypeOK, Control, Critical, Procs
  <2>1. CASE \E p \in Procs : Lock(p)
    BY <2>1, FirstStepType DEF Lock, Basic, TypeOK, Procs, Rotating
  <2>2. CASE \E p \in Pushers, b \in Batches : Push(p, b)
    BY <2>2 DEF Push, Basic, TypeOK, Procs, Rotating
  <2>3. CASE Tick \/ Close \/ Age
    BY <2>3, ProcsAssumption DEF Tick, Close, Age, Basic, TypeOK, Procs, Rotating
  <2> QED BY <2>1, <2>2, <2>3
<1>4. \A b \in Batches : /\ \A f : In(b, f) => In(b, f)'
                         /\ Accounted(b) => Accounted(b)'
  BY <1>1 DEF In, Accounted, Kept, Visible
<1>5. \A q \in Pushers : pc'[q] \in Rotating => In(arg[q], fw)'
  BY <1>1, <1>3, <1>4 DEF Acks
<1>6. \A q \in Pushers : pc'[q] = "unlock" /\ ret'[q] = "ok" => Accounted(arg[q])'
  BY <1>1, <1>3, <1>4 DEF Acks
<1> QED BY <1>1, <1>2, <1>3, <1>4, <1>5, <1>6 DEF Acks

(* A step under the mutex that returns nothing yet moves only its caller. *)
LEMMA AcksLocked ==
  ASSUME Basic, Acks, Keeps, UNCHANGED <<arg, fate>>, NEW p \in Procs,
         \A q \in Procs : q # p => pc'[q] = pc[q] /\ pc[q] \notin Critical,
         p \in Pushers => /\ pc'[p] \in Rotating => In(arg[p], fw)'
                          /\ pc'[p] = "unlock" /\ ret'[p] = "ok" => Accounted(arg[p])'
  PROVE  Acks'
<1>1. \A b \in Batches : fate'[b] = "ok" => Accounted(b)'
  BY AccountedKept DEF Acks
<1>2. \A q \in Pushers : q # p => pc'[q] \notin Rotating \cup {"unlock"}
  BY DEF Critical, Procs
<1> QED BY <1>1, <1>2 DEF Acks

LEMMA AcksHolder ==
  ASSUME Basic, Acks, NEW p \in Procs, Locked(p)
  PROVE  Acks'
<1> USE DEF Goto, Refuse
<1>1. \A q \in Procs : q # p => pc'[q] = pc[q] /\ pc[q] \notin Critical
  BY DEF Locked, Basic, TypeOK, Control, Critical, Rotating,
     Open, CreateFails, NewWriterFails, AppendBatch, AppendFails,
     CloseWriter, Sync, CloseFile, Rename, RotateFails, Unlock
<1>2. pc \in [Procs -> Labels] /\ ret \in [Procs -> {"ok", "err"}]
  BY DEF Basic, TypeOK
<1>3. CASE Open(p) \/ CreateFails(p) \/ NewWriterFails(p)
  <2>1. Keeps /\ arg' = arg /\ fate' = fate
    BY <1>3, KeepsOpens DEF Open, CreateFails, NewWriterFails
  <2>2. pc'[p] = "append" \/ (pc'[p] = "unlock" /\ ret'[p] = "err")
    BY <1>2, <1>3 DEF Open, CreateFails, NewWriterFails
  <2> QED BY <1>1, <2>1, <2>2, AcksLocked DEF Rotating
<1>4. CASE \E big \in BOOLEAN : AppendBatch(p, big)
  <2>1. /\ Keeps /\ In(arg[p], fw)' /\ Kept(fw)'
        /\ arg' = arg /\ fate' = fate /\ fw' = fw
    BY <1>4, KeepsWrite DEF AppendBatch
  <2>2. fw \in DOMAIN files
    BY <1>4 DEF AppendBatch, Basic, TypeOK, Control
  <2>3. Accounted(arg[p])'
    BY <2>1, <2>2 DEF Accounted, Keeps
  <2> QED BY <1>1, <2>1, <2>3, AcksLocked
<1>5. CASE AppendFails(p) \/ RotateFails(p)
  <2>1. Keeps
    BY <1>5, KeepsFiles DEF AppendFails, RotateFails, RecordError, Reset, writer, store
  <2>2. arg' = arg /\ fate' = fate /\ pc'[p] = "unlock" /\ ret'[p] = "err"
    BY <1>2, <1>5 DEF AppendFails, RotateFails
  <2> QED BY <1>1, <2>1, <2>2, AcksLocked DEF Rotating
<1>6. CASE CloseWriter(p) \/ Sync(p) \/ CloseFile(p)
  <2>1. Keeps
    BY <1>6, KeepsRotate, KeepsFiles DEF CloseFile, writer, store
  <2>2. /\ arg' = arg /\ fate' = fate /\ fw' = fw
        /\ pc[p] \in Rotating /\ pc'[p] \in Rotating
    BY <1>2, <1>6 DEF CloseWriter, Sync, CloseFile, writer, Rotating
  <2>3. fw \in DOMAIN files
    BY <2>2 DEF Basic, TypeOK, Control
  <2>4. p \in Pushers => In(arg[p], fw)'
    BY <2>1, <2>2, <2>3 DEF Acks, Keeps, Basic, Control, Critical
  <2> QED BY <1>1, <2>1, <2>2, <2>4, AcksLocked DEF Rotating
<1>7. CASE Rename(p)
  <2>1. Keeps /\ arg' = arg /\ fate' = fate /\ pc'[p] = "unlock" /\ pc[p] \in Rotating
    BY <1>2, <1>7, KeepsRotate DEF Rename, Rotating
  <2>2. fw \in DOMAIN files /\ fw # NoFile /\ files[fw] \in File
    BY <2>1 DEF Basic, TypeOK, Control
  <2>3. fw \in Visible'
    BY <1>7, <2>2 DEF Rename, Visible, Basic, TypeOK, File
  <2>4. p \in Pushers => Accounted(arg[p])'
    <3> SUFFICES ASSUME p \in Pushers PROVE Accounted(arg[p])'
      OBVIOUS
    <3>1. PICK f, b : f = fw /\ b = arg[p]
      OBVIOUS
    <3>2. In(b, f) /\ b \in Batches /\ f \in DOMAIN files
      BY <2>1, <2>2, <3>1 DEF Acks, Basic, Control, Critical
    <3>3. f \in DOMAIN files' /\ In(b, f)' /\ f \in Visible'
      BY <2>1, <2>3, <3>1, <3>2 DEF Keeps
    <3>4. b = arg'[p]
      BY <2>1, <3>1
    <3> QED BY <3>3, <3>4 DEF Accounted, Kept
  <2> QED BY <1>1, <2>1, <2>4, AcksLocked DEF Rotating
<1>8. CASE Unlock(p)
  <2>1. Keeps /\ files' = files /\ fw' = fw /\ reported' = reported /\ cut' = cut
    BY <1>8, KeepsFiles DEF Unlock, writer, store
  <2>2. \A q \in Pushers : pc'[q] \notin Rotating \cup {"unlock"}
    BY <1>1, <1>2, <1>8 DEF Unlock, Critical, Rotating, Procs
  <2>3. \A b \in Batches : fate'[b] = "ok" => Accounted(b)
    <3>1. CASE p \in Pushers
      BY <1>8, <3>1 DEF Unlock, Acks, Basic, TypeOK
    <3>2. CASE p \notin Pushers
      BY <1>8, <3>2 DEF Unlock, Acks
    <3> QED BY <3>1, <3>2
  <2> QED BY <2>1, <2>2, <2>3, AccountedKept DEF Acks
<1> QED BY <1>3, <1>4, <1>5, <1>6, <1>7, <1>8 DEF Locked

LEMMA AcksWorld ==
  ASSUME Basic, Acks, SettleDir \/ \E N, B \in SUBSET DOMAIN files : Crash(N, B)
  PROVE  Acks'
<1>1. \A b \in Batches : Accounted(b) => Accounted(b)'
  BY KeepsWorld, AccountedKept
<1>2. CASE SettleDir
  <2>1. pc' = pc /\ arg' = arg /\ ret' = ret /\ fate' = fate /\ fw' = fw
    BY <1>2 DEF SettleDir, caller, writer
  <2>2. \A q \in Pushers : pc[q] \in Rotating => In(arg[q], fw)'
    <3> SUFFICES ASSUME NEW q \in Pushers, pc[q] \in Rotating PROVE In(arg[q], fw)'
      OBVIOUS
    <3>1. fw \in DOMAIN files /\ arg[q] \in Batches /\ In(arg[q], fw)
      BY DEF Basic, TypeOK, Control, Critical, Procs, Acks
    <3> QED BY <2>1, <3>1, KeepsWorld DEF Keeps
  <2>3. \A q \in Pushers : pc[q] = "unlock" => arg[q] \in Batches
    BY DEF Basic, Control, Critical
  <2> QED BY <1>1, <2>1, <2>2, <2>3 DEF Acks
<1>3. CASE \E N, B \in SUBSET DOMAIN files : Crash(N, B)
  <2>1. \A q \in Pushers : pc'[q] = "idle"
    BY <1>3 DEF Crash, Procs
  <2>2. \A b \in Batches : fate'[b] = "ok" => fate[b] = "ok"
    BY <1>3 DEF Crash
  <2> QED BY <1>1, <2>1, <2>2 DEF Acks, Rotating
<1> QED BY <1>2, <1>3

LEMMA AcksStep == Basic /\ Acks /\ [Next]_vars => Acks'
<1> SUFFICES ASSUME Basic, Acks, [Next]_vars PROVE Acks'
  OBVIOUS
<1>1. CASE UNCHANGED vars
  BY <1>1 DEF vars, Acks, Accounted, Kept, In, Visible
<1>2. CASE Next
  BY <1>2, AcksCalls, AcksHolder, AcksWorld DEF Next
<1> QED BY <1>1, <1>2

(* Once write has returned nil, the batch is in the open file, in one that *)
(* readers see, in one whose loss the error telemetry recorded, or in one  *)
(* that a crash took.                                                      *)
THEOREM NothingLostUnnoticed == Spec => []AcceptedAccounted
<1>1. Init => Basic /\ Acks
  <2>1. Init => Acks
    BY DEF Init, Acks, Procs, Rotating
  <2> QED BY <2>1, BasicInit
<1>2. Basic /\ Acks /\ [Next]_vars => (Basic /\ Acks)'
  BY BasicStep, AcksStep
<1>3. Acks => AcceptedAccounted
  BY DEF Acks, AcceptedAccounted, Accounted, Kept
<1> QED BY <1>1, <1>2, <1>3, PTL DEF Spec

-----------------------------------------------------------------------------
(* Visible files never change. *)

LEMMA KeepVisibleLocked ==
  ASSUME Basic, Durability, NEW p \in Procs, Locked(p)
  PROVE  KeepVisible
<1>1. fw \notin Visible
  BY NoFileIsNoFile DEF Basic, TypeOK, Durability, Visible
<1>2. CASE Open(p) \/ CreateFails(p) \/ NewWriterFails(p)
  <2>1. PICK n \in {"part", "none"} : files' = Append(files, NewFile(n))
    BY <1>2 DEF Open, CreateFails, NewWriterFails
  <2>2. \A g \in DOMAIN files : g \in DOMAIN files' /\ files'[g] = files[g]
    BY <2>1, AddFile, FileTypes DEF Basic, TypeOK
  <2> QED BY <2>2 DEF KeepVisible, Visible
<1>3. CASE (\E big \in BOOLEAN : AppendBatch(p, big)) \/ CloseWriter(p) \/ Sync(p) \/ Rename(p)
  <2>1. \A g \in DOMAIN files : g # fw => g \in DOMAIN files' /\ files'[g] = files[g]
    BY <1>3 DEF AppendBatch, CloseWriter, Sync, Rename, Basic, TypeOK
  <2> QED BY <1>1, <2>1 DEF KeepVisible, Visible
<1>4. CASE AppendFails(p) \/ CloseFile(p) \/ RotateFails(p) \/ Unlock(p)
  <2>1. files' = files
    BY <1>4 DEF AppendFails, CloseFile, RotateFails, Unlock, store
  <2> QED BY <2>1 DEF KeepVisible, Visible
<1> QED BY <1>2, <1>3, <1>4 DEF Locked

LEMMA KeepVisibleStep == Basic /\ Durability /\ [Next]_vars => [KeepVisible]_vars
<1> SUFFICES ASSUME Basic, Durability, Next PROVE KeepVisible
  BY DEF vars
<1>1. CASE \/ \E p \in Pushers, b \in Batches : Push(p, b)
           \/ Tick \/ Close \/ Age
           \/ \E p \in Procs : Lock(p)
  <2>1. files' = files
    BY <1>1 DEF Push, Tick, Close, Age, Lock, store
  <2> QED BY <2>1 DEF KeepVisible, Visible
<1>2. CASE SettleDir
  <2>1. \A f \in DOMAIN files : files[f] \in File
    BY DEF Basic, TypeOK
  <2> QED BY <1>2, <2>1 DEF SettleDir, File, KeepVisible, Visible
<1>3. ASSUME NEW N \in SUBSET DOMAIN files, NEW B \in SUBSET DOMAIN files, Crash(N, B)
      PROVE  KeepVisible
  <2>1. files' = [f \in DOMAIN files |-> Survivor(f, N, B)] /\ crashes' = crashes + 1
    BY <1>3 DEF Crash
  <2>2. crashes' # crashes
    BY <2>1 DEF Basic, TypeOK
  <2> QED BY <2>1, <2>2 DEF KeepVisible, Visible, Survivor
<1> QED BY <1>1, <1>2, <1>3, KeepVisibleLocked DEF Next

(* Once a file has its final name, its batches stay as they are and only a *)
(* crash can take the name back: os.Rename is the last thing the writer    *)
(* does to a file.                                                         *)
THEOREM VisibleFilesNeverChange == Spec => VisibleImmutable
<1>1. Init => Basic /\ Durability
  BY BasicInit, ProcsAssumption DEF Init, Durability, Procs, NoFile
<1>2. Basic /\ Durability /\ [Next]_vars => (Basic /\ Durability)'
  BY BasicStep, DurabilityStep
<1>3. Basic /\ Durability /\ [Next]_vars => [KeepVisible]_vars
  BY KeepVisibleStep
<1> QED BY <1>1, <1>2, <1>3, PTL DEF Spec, VisibleImmutable

-----------------------------------------------------------------------------
(* What the steps do to the files, for the proofs that follow. *)

(* A new file is empty and has no final name yet. *)
LEMMA Opened ==
  ASSUME Basic, NEW p \in Procs, Open(p) \/ CreateFails(p) \/ NewWriterFails(p)
  PROVE  /\ fw = NoFile
         /\ DOMAIN files' = DOMAIN files \cup {Len(files) + 1}
         /\ Len(files) + 1 \notin DOMAIN files
         /\ \A g \in DOMAIN files : files'[g] = files[g]
         /\ files'[Len(files) + 1].name # "final"
         /\ files'[Len(files) + 1].disk = "none"
         /\ files'[Len(files) + 1].batches = <<>>
<1>1. PICK n \in {"part", "none"} : files' = Append(files, NewFile(n))
  BY DEF Open, CreateFails, NewWriterFails
<1>2. /\ DOMAIN files' = DOMAIN files \cup {Len(files) + 1}
      /\ Len(files) + 1 \notin DOMAIN files
      /\ files'[Len(files) + 1] = NewFile(n)
      /\ \A g \in DOMAIN files : files'[g] = files[g]
  BY <1>1, AddFile, FileTypes DEF Basic, TypeOK
<1>3. fw = NoFile
  BY DEF Basic, Control, Open, CreateFails, NewWriterFails
<1> QED BY <1>2, <1>3 DEF NewFile

(* The calls on the open file change no other file; only one of them       *)
(* changes its batches, only the last its name.                            *)
LEMMA OpenFileSteps ==
  ASSUME Basic, NEW p \in Procs,
         \/ \E big \in BOOLEAN : AppendBatch(p, big)
         \/ CloseWriter(p) \/ Sync(p) \/ Rename(p)
  PROVE  /\ fw # NoFile /\ fw \in DOMAIN files /\ files[fw] \in File
         /\ DOMAIN files' = DOMAIN files
         /\ \A g \in DOMAIN files : g # fw => files'[g] = files[g]
         /\ reported' = reported /\ cut' = cut
         /\ \/ /\ \E big \in BOOLEAN : AppendBatch(p, big)
               /\ p \in Pushers /\ arg[p] \in Batches
               /\ fw' = fw
               /\ files'[fw].name = files[fw].name /\ files'[fw].disk = files[fw].disk
               /\ files'[fw].batches = Append(files[fw].batches, arg[p])
            \/ /\ CloseWriter(p) \/ Sync(p)
               /\ fw' = fw
               /\ files'[fw].name = files[fw].name
               /\ files'[fw].disk \in {files[fw].disk, files[fw].name}
               /\ files'[fw].batches = files[fw].batches
            \/ /\ Rename(p)
               /\ fw' = NoFile
               /\ files'[fw].name = "final" /\ files'[fw].disk = files[fw].disk
               /\ files'[fw].batches = files[fw].batches
<1> USE DEF writer, Reset
<1>1. fw # NoFile /\ fw \in DOMAIN files /\ files[fw] \in File
  BY DEF AppendBatch, CloseWriter, Sync, Rename, Basic, TypeOK, Control, Rotating
<1>2. CASE \E big \in BOOLEAN : AppendBatch(p, big)
  <2>1. /\ files' = [files EXCEPT ![fw] = [files[fw] EXCEPT !.batches = Append(@, arg[p])]]
        /\ p \in Pushers /\ arg[p] \in Batches
        /\ fw' = fw /\ reported' = reported /\ cut' = cut
    BY <1>2 DEF AppendBatch, Basic, Control, Critical
  <2> QED BY <1>1, <1>2, <2>1 DEF File, Basic, TypeOK
<1>3. CASE CloseWriter(p)
  <2>1. /\ files' = [files EXCEPT ![fw] = [files[fw] EXCEPT !.body = "footed"]]
        /\ fw' = fw /\ reported' = reported /\ cut' = cut
    BY <1>3 DEF CloseWriter
  <2> QED BY <1>1, <1>3, <2>1 DEF File, Basic, TypeOK
<1>4. CASE Sync(p)
  <2>1. /\ files' = [files EXCEPT ![fw] = Durable(files[fw])]
        /\ fw' = fw /\ reported' = reported /\ cut' = cut
    BY <1>4 DEF Sync
  <2> QED BY <1>1, <1>4, <2>1 DEF Durable, Basic, TypeOK
<1>5. CASE Rename(p)
  <2>1. /\ files' = [files EXCEPT ![fw] = [files[fw] EXCEPT !.name = "final"]]
        /\ fw' = NoFile /\ reported' = reported /\ cut' = cut
    BY <1>5 DEF Rename
  <2> QED BY <1>1, <1>5, <2>1 DEF File, Basic, TypeOK
<1> QED BY <1>2, <1>3, <1>4, <1>5

(* The steps that touch no file. *)
LEMMA FilesUntouched ==
  ASSUME \/ \E p \in Pushers, b \in Batches : Push(p, b)
         \/ Tick \/ Close \/ Age
         \/ \E p \in Procs : Lock(p) \/ AppendFails(p) \/ CloseFile(p) \/ RotateFails(p) \/ Unlock(p)
  PROVE  files' = files /\ cut' = cut
  BY DEF Push, Tick, Close, Age, Lock, AppendFails, CloseFile, RotateFails, Unlock, store

(* The directory is written back, or a crash takes what was not.           *)
LEMMA SettleSteps ==
  ASSUME Basic, SettleDir
  PROVE  /\ DOMAIN files' = DOMAIN files
         /\ \A f \in DOMAIN files : /\ files'[f].name = files[f].name
                                    /\ files'[f].disk = files[f].name
                                    /\ files'[f].batches = files[f].batches
<1>1. \A f \in DOMAIN files : files[f] \in File
  BY DEF Basic, TypeOK
<1> QED BY <1>1 DEF SettleDir, File

LEMMA CrashSteps ==
  ASSUME Basic, NEW N \in SUBSET DOMAIN files, NEW B \in SUBSET DOMAIN files, Crash(N, B)
  PROVE  /\ DOMAIN files' = DOMAIN files
         /\ \A f \in DOMAIN files : /\ files'[f].name \in {files[f].name, files[f].disk}
                                    /\ files'[f].disk = files'[f].name
                                    /\ files'[f].batches = files[f].batches
  BY DEF Crash, Survivor

(* A name on disk is one the page cache has too, unless the crash that     *)
(* takes the cache has come.                                               *)
Settled == \A f \in DOMAIN files : files[f].disk = "final" => files[f].name = "final"

LEMMA SettledStep == Basic /\ Settled /\ [Next]_vars => Settled'
<1> SUFFICES ASSUME Basic, Settled, [Next]_vars PROVE Settled'
  OBVIOUS
<1>1. CASE \/ UNCHANGED vars
           \/ \E p \in Pushers, b \in Batches : Push(p, b)
           \/ Tick \/ Close \/ Age
           \/ \E p \in Procs : Lock(p) \/ AppendFails(p) \/ CloseFile(p) \/ RotateFails(p) \/ Unlock(p)
  <2>1. files' = files
    BY <1>1, FilesUntouched DEF vars
  <2> QED BY <2>1 DEF Settled
<1>2. ASSUME NEW p \in Procs, Open(p) \/ CreateFails(p) \/ NewWriterFails(p) PROVE Settled'
  BY <1>2, Opened DEF Settled
<1>3. ASSUME NEW p \in Procs,
             \/ \E big \in BOOLEAN : AppendBatch(p, big)
             \/ CloseWriter(p) \/ Sync(p) \/ Rename(p)
      PROVE  Settled'
  BY <1>3, OpenFileSteps DEF Settled
<1>4. CASE SettleDir
  BY <1>4, SettleSteps DEF Settled
<1>5. ASSUME NEW N \in SUBSET DOMAIN files, NEW B \in SUBSET DOMAIN files, Crash(N, B)
      PROVE  Settled'
  BY <1>5, CrashSteps DEF Settled
<1> QED BY <1>1, <1>2, <1>3, <1>4, <1>5 DEF Next, Locked

-----------------------------------------------------------------------------
(* A full file does not stay open, and a Shutdown leaves none. *)

(* Where the callers are: the holder of the mutex is alone past Lock.      *)
LEMMA HolderAlone ==
  ASSUME Basic, NEW p \in Procs, Locked(p)
  PROVE  /\ pc[p] \in Critical
         /\ \A q \in Procs : q # p => /\ pc'[q] = pc[q] /\ ret'[q] = ret[q]
                                      /\ pc[q] \notin Critical
<1> USE DEF Goto, Refuse
<1>1. pc[p] \in Critical
  BY DEF Locked, Critical, Rotating, Open, CreateFails, NewWriterFails, AppendBatch, AppendFails,
     CloseWriter, Sync, CloseFile, Rename, RotateFails, Unlock
<1>2. \A q \in Procs : q # p => pc[q] \notin Critical
  BY <1>1 DEF Basic, Control
<1>3. \A q \in Procs : q # p => pc'[q] = pc[q] /\ ret'[q] = ret[q]
  BY DEF Locked, Open, CreateFails, NewWriterFails, AppendBatch, AppendFails,
     CloseWriter, Sync, CloseFile, Rename, RotateFails, Unlock, Basic, TypeOK
<1> QED BY <1>1, <1>2, <1>3

(* The strengthening: a file that has reached its limit is being rotated.  *)
Limit == fw # NoFile /\ (\A p \in Procs : pc[p] \notin Rotating) => rows < MaxRows

LEMMA LimitStep == Basic /\ Limit /\ [Next]_vars => Limit'
<1> SUFFICES ASSUME Basic, Limit, [Next]_vars PROVE Limit'
  OBVIOUS
<1>1. CASE UNCHANGED vars
  BY <1>1 DEF vars, Limit
<1>2. CASE \/ \E p \in Pushers, b \in Batches : Push(p, b)
           \/ Tick \/ Close \/ Age \/ SettleDir
           \/ \E p \in Procs : Lock(p)
  <2>1. fw' = fw /\ rows' = rows
    BY <1>2 DEF Push, Tick, Close, Age, SettleDir, Lock, writer
  <2>2. \A q \in Procs : pc[q] \in Rotating => pc'[q] \in Rotating
    BY <1>2 DEF Push, Tick, Close, Age, SettleDir, Lock, caller, Rotating, Basic, TypeOK
  <2> QED BY <2>1, <2>2 DEF Limit
<1>3. ASSUME NEW p \in Procs, Locked(p) PROVE Limit'
  <2> USE DEF Goto, Refuse, Critical, Rotating
  <2>1. pc[p] \in Critical /\ \A q \in Procs : q # p => pc'[q] = pc[q] /\ pc[q] \notin Rotating
    BY <1>3, HolderAlone
  <2>2. pc \in [Procs -> Labels]
    BY DEF Basic, TypeOK
  <2>3. CASE Open(p)
    BY <2>3, RowsAssumption DEF Open, Limit
  <2>4. CASE CreateFails(p) \/ NewWriterFails(p)
    BY <2>4 DEF CreateFails, NewWriterFails, writer, Basic, Control, Limit
  <2>5. ASSUME NEW big \in BOOLEAN, AppendBatch(p, big) PROVE Limit'
    <3>1. rows' \in Nat /\ MaxRows \in Nat
      BY <2>5, RowsAssumption DEF AppendBatch, Basic, TypeOK, Control
    <3>2. pc'[p] = AfterAppend(rows', big)
      BY <2>2, <2>5 DEF AppendBatch
    <3> QED BY <3>1, <3>2 DEF AfterAppend, Limit
  <2>6. CASE AppendFails(p) \/ Unlock(p)
    <3>1. fw' = fw /\ rows' = rows /\ pc[p] \notin Rotating
      BY <2>6 DEF AppendFails, Unlock, writer
    <3> QED BY <2>1, <3>1 DEF Limit
  <2>7. CASE CloseWriter(p) \/ Sync(p) \/ CloseFile(p)
    BY <2>2, <2>7 DEF CloseWriter, Sync, CloseFile, Limit
  <2>8. CASE Rename(p) \/ RotateFails(p)
    BY <2>8 DEF Rename, RotateFails, Reset, Limit
  <2> QED BY <1>3, <2>3, <2>4, <2>5, <2>6, <2>7, <2>8 DEF Locked
<1>4. CASE \E N, B \in SUBSET DOMAIN files : Crash(N, B)
  BY <1>4 DEF Crash, Limit
<1> QED BY <1>1, <1>2, <1>3, <1>4 DEF Next

(* The write that takes a file to MaxRows rotates it before it unlocks the *)
(* mutex: whoever comes next finds a file with room, or none.              *)
THEOREM FullFilesAreRotated == Spec => []OpenBelowLimit
<1>1. Init => Basic /\ Limit
  BY BasicInit DEF Init, Limit
<1>2. Basic /\ Limit /\ [Next]_vars => (Basic /\ Limit)'
  BY BasicStep, LimitStep
<1>3. Basic /\ Limit => OpenBelowLimit
  BY ProcsAssumption DEF Basic, Control, Critical, Limit, OpenBelowLimit
<1> QED BY <1>1, <1>2, <1>3, PTL DEF Spec

(* The strengthening: once Shutdown has begun to close the writer, nobody  *)
(* else is in a call, and past the rotation no file is open.               *)
Closing ==
  /\ pc[Closer] # "idle" => \A p \in Procs : p # Closer => pc[p] = "idle"
  /\ pc[Closer] \in {"unlock", "done"} => fw = NoFile

LEMMA ClosingStep == Basic /\ Closing /\ [Next]_vars => Closing'
<1> SUFFICES ASSUME Basic, Closing, [Next]_vars PROVE Closing'
  OBVIOUS
<1>0. Closer \in Procs /\ Closer \notin Pushers /\ Closer # Flusher /\ Flusher \in Procs
  BY ProcsAssumption DEF Procs
<1>1. CASE UNCHANGED vars
  BY <1>1 DEF vars, Closing
<1>2. CASE (\E p \in Pushers, b \in Batches : Push(p, b)) \/ Tick \/ Close
  <2>1. fw' = fw /\ pc[Closer] = "idle"
    BY <1>0, <1>2 DEF Push, Tick, Close, writer
  <2>2. pc'[Closer] = "idle" \/ (Close /\ pc'[Closer] = "lock")
    BY <1>0, <1>2, <2>1 DEF Push, Tick, Close, Basic, TypeOK
  <2>3. Close => \A p \in Procs : p # Closer => pc'[p] = "idle"
    BY <1>0 DEF Close, Basic, TypeOK
  <2> QED BY <2>1, <2>2, <2>3 DEF Closing
<1>3. CASE Age \/ SettleDir
  BY <1>3 DEF Age, SettleDir, caller, writer, Closing
<1>4. ASSUME NEW p \in Procs, Lock(p) PROVE Closing'
  <2>1. fw' = fw /\ pc' = [pc EXCEPT ![p] = FirstStep(p)] /\ pc[p] = "lock"
    BY <1>4 DEF Lock, writer
  <2>2. \A q \in Procs : q # p => pc'[q] = pc[q]
    BY <2>1 DEF Basic, TypeOK
  <2>3. p = Closer /\ pc'[p] = "unlock" => fw = NoFile
    BY <1>0, <2>1 DEF FirstStep, Basic, TypeOK
  <2>4. p = Closer => pc'[p] # "done"
    BY <2>1, FirstStepType DEF Basic, TypeOK
  <2> QED BY <1>0, <2>1, <2>2, <2>3, <2>4 DEF Closing
<1>5. ASSUME NEW p \in Procs, Locked(p) PROVE Closing'
  <2> USE DEF Goto, Refuse
  <2>1. /\ pc[p] \in Critical
        /\ \A q \in Procs : q # p => pc'[q] = pc[q]
    BY <1>5, HolderAlone
  <2>2. CASE p # Closer
    <3>1. pc[Closer] = "idle" /\ pc'[Closer] = "idle"
      BY <1>0, <2>1, <2>2 DEF Closing, Critical, Rotating
    <3> QED BY <3>1 DEF Closing
  <2>3. CASE p = Closer
    <3>1. \A q \in Procs : q # Closer => pc'[q] = "idle"
      BY <1>0, <2>1, <2>3 DEF Closing, Critical, Rotating
    <3>2. pc'[Closer] \in {"unlock", "done"} => fw' = NoFile
      <4>1. pc[Closer] \notin {"open", "append"} /\ pc \in [Procs -> Labels]
        BY <1>0 DEF Basic, Control, TypeOK
      <4>2. CASE CloseWriter(p) \/ Sync(p) \/ CloseFile(p)
        BY <1>0, <2>3, <4>1, <4>2 DEF CloseWriter, Sync, CloseFile
      <4>3. CASE Rename(p) \/ RotateFails(p)
        BY <4>3 DEF Rename, RotateFails, Reset
      <4>4. CASE Unlock(p)
        BY <2>3, <4>4 DEF Unlock, writer, Closing
      <4> QED
        BY <1>5, <2>3, <4>1, <4>2, <4>3, <4>4
           DEF Locked, Open, CreateFails, NewWriterFails, AppendBatch, AppendFails
    <3> QED BY <3>1, <3>2 DEF Closing
  <2> QED BY <2>2, <2>3
<1>6. CASE \E N, B \in SUBSET DOMAIN files : Crash(N, B)
  BY <1>0, <1>6 DEF Crash, Closing
<1> QED BY <1>1, <1>2, <1>3, <1>4, <1>5, <1>6 DEF Next

(* After a Shutdown no file is open, and every accepted batch is visible,  *)
(* or its loss was recorded, or an earlier crash took it.                  *)
THEOREM ShutdownFlushesWriter == Spec => []CloseFlushes
<1> DEFINE IInv == Basic /\ Acks /\ Closing
<1>1. Init => IInv
  BY BasicInit, ProcsAssumption DEF Init, Acks, Closing, Procs, Rotating
<1>2. IInv /\ [Next]_vars => IInv'
  BY BasicStep, AcksStep, ClosingStep
<1>3. IInv => CloseFlushes
  BY NoFileIsNoFile DEF Basic, TypeOK, Acks, Accounted, Kept, Closing, CloseFlushes
<1> QED BY <1>1, <1>2, <1>3, PTL DEF Spec

-----------------------------------------------------------------------------
(* The row counter counts the rows that became visible, once each. *)

LEMMA RowMembers ==
  \A f, bs, x : x \in UNION {{<<f, i, k>> : k \in 1 .. NumRows[bs[i]]} : i \in DOMAIN bs}
                 <=> \E i \in DOMAIN bs : \E k \in 1 .. NumRows[bs[i]] : x = <<f, i, k>>
  OBVIOUS

LEMMA RowsKept ==
  ASSUME NEW f, files'[f].batches = files[f].batches
  PROVE  RowsOf(f)' = RowsOf(f)
  BY DEF RowsOf

(* n rows of the i-th batch. *)
BatchRows(f, i, n) == {<<f, i, k>> : k \in 1 .. n}

LEMMA BatchCounted ==
  ASSUME NEW f, NEW i, NEW n \in Nat
  PROVE  IsFiniteSet(BatchRows(f, i, n)) /\ Cardinality(BatchRows(f, i, n)) = n
<1> DEFINE R == {<<f, i, k>> : k \in 1 .. n}
           b == [k \in 1 .. n |-> <<f, i, k>>]
<1>1. b \in Bijection(1 .. n, R)
  <2>1. b \in [1 .. n -> R]
    OBVIOUS
  <2>2. \A x, y \in 1 .. n : b[x] = b[y] => x = y
    OBVIOUS
  <2>3. \A t \in R : \E x \in 1 .. n : b[x] = t
    OBVIOUS
  <2> HIDE DEF b, R
  <2> QED BY <2>1, <2>2, <2>3, Fun_IsBij
<1> HIDE DEF b, R
<1>2. IsFiniteSet(1 .. n) /\ Cardinality(1 .. n) = n
  BY FS_Interval
<1>3. ExistsBijection(1 .. n, R)
  BY <1>1 DEF ExistsBijection
<1> QED BY <1>2, <1>3, FS_Bijection DEF R, BatchRows

(* Rows that are added to others. *)
LEMMA Added ==
  ASSUME NEW S, NEW T, IsFiniteSet(S), IsFiniteSet(T), S \cap T = {}
  PROVE  IsFiniteSet(S \cup T) /\ Cardinality(S \cup T) = Cardinality(S) + Cardinality(T)
<1>1. /\ IsFiniteSet(S \cup T)
      /\ Cardinality(S \cup T) = Cardinality(S) + Cardinality(T) - Cardinality(S \cap T)
  BY FS_Union
<1>2. Cardinality(S \cap T) = 0 /\ Cardinality(S) \in Nat /\ Cardinality(T) \in Nat
  BY FS_EmptySet, FS_CardinalityType
<1> QED BY <1>1, <1>2

(* The strengthening: the open file is one of this process and its rows    *)
(* are those of w.rows.                                                    *)
Counting ==
  /\ boot \in 0 .. Len(files)
  /\ fw # NoFile => /\ fw > boot /\ IsFiniteSet(RowsOf(fw))
                    /\ rows = Cardinality(RowsOf(fw))
  /\ IsFiniteSet(Committed)
  /\ CommittedRowsExact

(* Nothing is committed when no file of this process changes its part. *)
LEMMA CommittedKept ==
  ASSUME DOMAIN files' = DOMAIN files, boot' = boot,
         \A f \in DOMAIN files :
           /\ files'[f].name = "final" <=> files[f].name = "final"
           /\ files[f].name = "final" => files'[f].batches = files[f].batches
  PROVE  Committed' = Committed
<1>1. Visible' = Visible
  BY DEF Visible
<1>2. \A f \in Visible : RowsOf(f)' = RowsOf(f)
  BY RowsKept DEF Visible
<1> QED BY <1>1, <1>2 DEF Committed

LEMMA CountingOpens ==
  ASSUME Basic, Counting, NEW p \in Procs,
         Open(p) \/ CreateFails(p) \/ NewWriterFails(p)
  PROVE  Counting'
<1> DEFINE n == Len(files)
<1>1. n \in Nat /\ boot' = boot /\ rotated' = rotated
  BY LenProperties DEF Basic, TypeOK, Open, CreateFails, NewWriterFails
<1>2. Len(files') = n + 1
  <2>1. PICK m \in {"part", "none"} : files' = Append(files, NewFile(m))
    BY DEF Open, CreateFails, NewWriterFails
  <2> QED BY <1>1, <2>1 DEF Basic, TypeOK
<1>3. /\ DOMAIN files' = DOMAIN files \cup {n + 1}
      /\ \A g \in DOMAIN files : files'[g] = files[g]
      /\ files'[n + 1].name # "final" /\ files'[n + 1].batches = <<>>
  BY Opened
<1>4. Visible' = Visible
  BY <1>3 DEF Visible
<1>5. \A f \in Visible : RowsOf(f)' = RowsOf(f)
  BY <1>3, RowsKept DEF Visible
<1>6. Committed' = Committed
  BY <1>1, <1>4, <1>5 DEF Committed
<1>7. fw' # NoFile => /\ fw' > boot' /\ IsFiniteSet(RowsOf(fw)')
                      /\ rows' = Cardinality(RowsOf(fw)')
  <2>1. CASE Open(p)
    <3>1. fw' = n + 1 /\ rows' = 0 /\ n + 1 > boot
      BY <1>1, <2>1 DEF Open, Counting
    <3>2. RowsOf(fw)' = {}
      BY <1>3, <3>1 DEF RowsOf
    <3> QED BY <1>1, <3>1, <3>2, FS_EmptySet
  <2>2. CASE CreateFails(p) \/ NewWriterFails(p)
    BY <2>2, Opened DEF CreateFails, NewWriterFails, writer
  <2> QED BY <2>1, <2>2
<1> QED BY <1>1, <1>2, <1>6, <1>7 DEF Counting, CommittedRowsExact

LEMMA CountingWrite ==
  ASSUME Basic, Durability, Counting, NEW p \in Procs, NEW big \in BOOLEAN,
         AppendBatch(p, big)
  PROVE  Counting'
<1> DEFINE b == arg[p]
           bs == files[fw].batches
           k == Len(bs)
           R == BatchRows(fw, k + 1, NumRows[b])
<1>1. /\ fw \in DOMAIN files /\ fw # NoFile /\ b \in Batches
      /\ fw' = fw /\ DOMAIN files' = DOMAIN files
      /\ \A g \in DOMAIN files : g # fw => files'[g] = files[g]
      /\ files'[fw].name = files[fw].name /\ files'[fw].batches = Append(bs, b)
  BY OpenFileSteps DEF AppendBatch, CloseWriter, Sync, Rename, Goto, Basic, Control, Critical
<1>2. bs \in Seq(Batches) /\ k \in Nat /\ DOMAIN bs = 1 .. k /\ NumRows[b] \in Nat
  <2>1. files[fw] \in File
    BY <1>1 DEF Basic, TypeOK
  <2>2. bs \in Seq(Batches)
    BY <2>1 DEF File
  <2> QED BY <1>1, <2>2, RowsAssumption, LenProperties
<1>3. Len(files') = Len(files) /\ boot' = boot /\ rotated' = rotated /\ rows' = rows + NumRows[b]
  BY <1>1, LenProperties DEF Basic, TypeOK, AppendBatch
<1>4. /\ DOMAIN Append(bs, b) = 1 .. k + 1 /\ Append(bs, b)[k + 1] = b
      /\ \A i \in 1 .. k : Append(bs, b)[i] = bs[i]
  BY <1>2
<1>5. RowsOf(fw)' = RowsOf(fw) \cup R
  <2> DEFINE c == Append(bs, b)
  <2>1. /\ files'[fw].batches = c /\ fw' = fw /\ files[fw].batches = bs
        /\ DOMAIN c = 1 .. k + 1 /\ c[k + 1] = b /\ DOMAIN bs = 1 .. k
        /\ \A i \in 1 .. k : c[i] = bs[i]
    BY <1>1, <1>2, <1>4
  <2> HIDE DEF c, bs
  <2>2. ASSUME NEW x PROVE x \in RowsOf(fw)' <=> x \in RowsOf(fw) \/ x \in R
    <3>1. x \in RowsOf(fw)' <=> \E i \in DOMAIN c : \E j \in 1 .. NumRows[c[i]] : x = <<fw, i, j>>
      BY <2>1, RowMembers DEF RowsOf
    <3>2. x \in RowsOf(fw) <=> \E i \in DOMAIN bs : \E j \in 1 .. NumRows[bs[i]] : x = <<fw, i, j>>
      BY <2>1, RowMembers DEF RowsOf
    <3>3. x \in R <=> \E j \in 1 .. NumRows[b] : x = <<fw, k + 1, j>>
      BY DEF BatchRows
    <3>4. \A i : i \in 1 .. k + 1 <=> i \in 1 .. k \/ i = k + 1
      BY <1>2
    <3> HIDE DEF R, k, b
    <3> QED BY ONLY <2>1, <3>1, <3>2, <3>3, <3>4
  <2> QED BY <2>2
<1>6. RowsOf(fw) \cap R = {}
  <2>1. \A x \in RowsOf(fw) : x[2] \in 1 .. k
    BY <1>2 DEF RowsOf
  <2>2. \A x \in R : x[2] = k + 1
    BY DEF BatchRows
  <2> QED BY <1>2, <2>1, <2>2
<1>7. IsFiniteSet(R) /\ Cardinality(R) = NumRows[b]
  BY <1>2, BatchCounted
<1>8. IsFiniteSet(RowsOf(fw)) /\ rows = Cardinality(RowsOf(fw)) /\ fw > boot
  BY <1>1 DEF Counting
<1>9. IsFiniteSet(RowsOf(fw)') /\ rows' = Cardinality(RowsOf(fw)')
  <2> HIDE DEF R
  <2> QED BY <1>3, <1>5, <1>6, <1>7, <1>8, Added
<1>10. files[fw].name # "final"
  BY <1>1 DEF Durability
<1>11. Committed' = Committed
  BY <1>1, <1>3, <1>10, CommittedKept
<1> QED BY <1>1, <1>3, <1>8, <1>9, <1>11 DEF Counting, CommittedRowsExact

(* The rename moves the rows of the open file from w.rows to the counter.  *)
LEMMA CountingRename ==
  ASSUME Basic, Durability, Counting, NEW p \in Procs, Rename(p)
  PROVE  Counting'
<1>1. /\ fw \in DOMAIN files /\ fw # NoFile /\ fw' = NoFile /\ DOMAIN files' = DOMAIN files
      /\ \A g \in DOMAIN files : g # fw => files'[g] = files[g]
      /\ files'[fw].name = "final" /\ files'[fw].batches = files[fw].batches
  BY OpenFileSteps DEF AppendBatch, CloseWriter, Sync, Rename, Goto, Basic, TypeOK, Labels, Procs
<1>2. Len(files') = Len(files) /\ boot' = boot /\ rotated' = rotated + rows
  BY <1>1, LenProperties DEF Basic, TypeOK, Rename, RecordRotation
<1>3. files[fw].name # "final" /\ fw > boot /\ rows = Cardinality(RowsOf(fw))
  BY <1>1 DEF Durability, Counting
<1>4. Visible' = Visible \cup {fw}
  BY <1>1 DEF Visible
<1>5. \A f \in DOMAIN files : RowsOf(f)' = RowsOf(f)
  BY <1>1, RowsKept
<1>6. Committed' = Committed \cup RowsOf(fw)
  <2>1. {g \in Visible' : g > boot} = {g \in Visible : g > boot} \cup {fw}
    BY <1>3, <1>4
  <2>2. Visible \subseteq DOMAIN files
    BY DEF Visible
  <2> QED BY <1>1, <1>2, <1>5, <2>1, <2>2 DEF Committed
<1>7. Committed \cap RowsOf(fw) = {}
  <2>1. \A f : \A x \in RowsOf(f) : x[1] = f
    BY DEF RowsOf
  <2>2. fw \notin Visible
    BY <1>3 DEF Visible
  <2> QED BY <2>1, <2>2 DEF Committed
<1>8. IsFiniteSet(Committed) /\ IsFiniteSet(RowsOf(fw)) /\ rotated = Cardinality(Committed)
  BY <1>1 DEF Counting, CommittedRowsExact
<1>9. IsFiniteSet(Committed') /\ rotated' = Cardinality(Committed')
  BY <1>2, <1>3, <1>6, <1>7, <1>8, Added
<1> QED BY <1>1, <1>2, <1>9 DEF Counting, CommittedRowsExact

(* After a crash no file is one of this process. *)
LEMMA CountingCrash ==
  ASSUME Basic, NEW N \in SUBSET DOMAIN files, NEW B \in SUBSET DOMAIN files, Crash(N, B)
  PROVE  Counting'
<1>1. /\ DOMAIN files' = DOMAIN files /\ boot' = Len(files) /\ rotated' = 0 /\ fw' = NoFile
  BY CrashSteps DEF Crash
<1>2. Len(files) \in Nat /\ Len(files') = Len(files) /\ DOMAIN files' = 1 .. Len(files)
  BY <1>1, LenProperties DEF Basic, TypeOK
<1>3. {g \in Visible' : g > boot'} = {}
  BY <1>1, <1>2 DEF Visible
<1>4. Committed' = {}
  BY <1>3 DEF Committed
<1> QED BY <1>1, <1>2, <1>4, FS_EmptySet DEF Counting, CommittedRowsExact

LEMMA CountingStep == Basic /\ Durability /\ Counting /\ [Next]_vars => Counting'
<1> SUFFICES ASSUME Basic, Basic', Durability, Counting, [Next]_vars PROVE Counting'
  BY BasicStep
<1>1. CASE \/ UNCHANGED vars
           \/ \E p \in Pushers, b \in Batches : Push(p, b)
           \/ Tick \/ Close \/ Age
           \/ \E p \in Procs : Lock(p) \/ AppendFails(p) \/ CloseFile(p) \/ RotateFails(p) \/ Unlock(p)
  <2>1. /\ files' = files /\ boot' = boot /\ rotated' = rotated
        /\ fw' = NoFile \/ (fw' = fw /\ rows' = rows)
    BY <1>1 DEF vars, Push, Tick, Close, Age, Lock, AppendFails, CloseFile, RotateFails, Unlock,
       Reset, store, writer
  <2>2. Committed' = Committed /\ (fw' = fw => RowsOf(fw)' = RowsOf(fw))
    BY <2>1 DEF Committed, Visible, RowsOf
  <2> QED BY <2>1, <2>2 DEF Counting, CommittedRowsExact
<1>2. CASE \E p \in Procs : Open(p) \/ CreateFails(p) \/ NewWriterFails(p)
  BY <1>2, CountingOpens
<1>3. CASE \E p \in Procs, big \in BOOLEAN : AppendBatch(p, big)
  BY <1>3, CountingWrite
<1>4. CASE \E p \in Procs : Rename(p)
  BY <1>4, CountingRename
<1>5. CASE SettleDir \/ \E p \in Procs : CloseWriter(p) \/ Sync(p)
  <2> DEFINE SameRows == \A f \in DOMAIN files : /\ files'[f].name = files[f].name
                                                 /\ files'[f].batches = files[f].batches
  <2>1. fw' = fw /\ rows' = rows /\ boot' = boot /\ rotated' = rotated
    BY <1>5 DEF SettleDir, CloseWriter, Sync, writer
  <2>2. DOMAIN files' = DOMAIN files /\ SameRows
    <3>1. CASE SettleDir
      BY <3>1, SettleSteps
    <3>2. ASSUME NEW p \in Procs, CloseWriter(p) \/ Sync(p)
          PROVE  DOMAIN files' = DOMAIN files /\ SameRows
      <4>1. /\ fw \in DOMAIN files /\ DOMAIN files' = DOMAIN files
            /\ \A g \in DOMAIN files : g # fw => files'[g] = files[g]
            /\ files'[fw].batches = files[fw].batches
        BY <3>2, OpenFileSteps DEF AppendBatch, Rename, CloseWriter, Sync, Goto, Basic, TypeOK, Labels, Procs
      <4>2. files'[fw].name = files[fw].name
        BY <2>1, <3>2, <4>1, OpenFileSteps DEF Rename
      <4> QED BY <4>1, <4>2
    <3> QED BY <1>5, <3>1, <3>2
  <2>3. Len(files') = Len(files)
    BY <2>2, LenProperties DEF Basic, TypeOK
  <2>4. Committed' = Committed
    BY <2>1, <2>2, CommittedKept
  <2>5. fw # NoFile => RowsOf(fw)' = RowsOf(fw)
    BY <2>1, <2>2, RowsKept DEF RowsOf, Basic, TypeOK
  <2> QED BY <2>1, <2>3, <2>4, <2>5 DEF Counting, CommittedRowsExact
<1>6. CASE \E N, B \in SUBSET DOMAIN files : Crash(N, B)
  BY <1>6, CountingCrash
<1> QED BY <1>1, <1>2, <1>3, <1>4, <1>5, <1>6 DEF Next, Locked

(* The row counter of the telemetry is the number of rows this process has *)
(* made visible, whatever failed and whatever crashed in between: rotate   *)
(* reads w.rows before reset clears it, and nothing that gives a file up   *)
(* counts its rows.                                                        *)
THEOREM CounterIsExact == Spec => []CommittedRowsExact
<1> DEFINE IInv == Basic /\ Durability /\ Counting
<1>1. Init => IInv
  <2> SUFFICES ASSUME Init PROVE IInv
    OBVIOUS
  <2>1. Basic /\ Durability
    BY BasicInit, ProcsAssumption DEF Init, Durability, Procs, NoFile
  <2>2. Committed = {} /\ Len(files) = 0
    BY DEF Init, Committed, Visible
  <2> QED BY <2>1, <2>2, FS_EmptySet DEF Init, Counting, CommittedRowsExact
<1>2. IInv /\ [Next]_vars => IInv'
  BY BasicStep, DurabilityStep, CountingStep
<1>3. IInv => CommittedRowsExact
  BY DEF Counting
<1> QED BY <1>1, <1>2, <1>3, PTL DEF Spec

-----------------------------------------------------------------------------
(* No row is shown twice. *)

Busy == Critical \cup {"lock"}

(* The calls: each pusher in a call writes a batch of its own, and only a  *)
(* call that is about to return has an error to return.                    *)
Calls ==
  /\ \A p \in Procs : pc[p] # "unlock" => ret[p] = "ok"
  /\ \A p \in Pushers : pc[p] \in Busy => arg[p] \in Batches /\ fate[arg[p]] = "sent"
  /\ \A p, q \in Pushers : pc[p] \in Busy /\ pc[q] \in Busy /\ arg[p] = arg[q] => p = q

(* The files that are shown, or may be without another write. *)
Live == Visible \cup {f \in DOMAIN files : f = fw}

Absent(b) == \A f \in Live : ~In(b, f)

(* The strengthening: a batch is at most once in the live files, the open  *)
(* one included, and in none of them while its caller may, or will be told *)
(* to, push it again.                                                      *)
Once ==
  /\ \A f, g \in Live : \A i \in DOMAIN files[f].batches, j \in DOMAIN files[g].batches :
       files[f].batches[i] = files[g].batches[j] => f = g /\ i = j
  /\ \A b \in Batches : fate[b] \in {"new", "err"} => Absent(b)
  /\ \A p \in Pushers :
       pc[p] \in {"lock", "open", "append"} \/ (pc[p] = "unlock" /\ ret[p] = "err") =>
         Absent(arg[p])

LEMMA CallsCallers ==
  ASSUME Basic, Calls,
         \/ \E p \in Pushers, b \in Batches : Push(p, b)
         \/ Tick \/ Close \/ Age \/ SettleDir
         \/ \E p \in Procs : Lock(p)
  PROVE  Calls'
<1> USE DEF writer, store, caller
<1>1. CASE \E p \in Pushers, b \in Batches : Push(p, b)
  <2>1. PICK p \in Pushers, b \in Batches : Push(p, b)
    BY <1>1
  <2>2. /\ fate[b] \in {"new", "err"} /\ fate'[b] = "sent" /\ arg'[p] = b
        /\ pc[p] = "idle" /\ pc'[p] = "lock" /\ ret' = ret
        /\ \A c \in Batches : c # b => fate'[c] = fate[c]
        /\ \A q \in Pushers : q # p => arg'[q] = arg[q]
        /\ \A q \in Procs : q # p => pc'[q] = pc[q]
    BY <2>1 DEF Push, Basic, TypeOK, Procs
  <2> QED BY <2>2 DEF Calls, Procs
<1>2. CASE Tick \/ Close \/ Age \/ SettleDir
  <2>1. UNCHANGED <<arg, ret, fate>>
    BY <1>2 DEF Tick, Close, Age, SettleDir
  <2>2. \A q \in Pushers : pc'[q] = pc[q]
    BY <1>2, ProcsAssumption DEF Tick, Close, Age, SettleDir, Basic, TypeOK, Procs
  <2>3. \A q \in Procs : pc'[q] # "unlock" => pc[q] # "unlock"
    BY <1>2, ProcsAssumption DEF Tick, Close, Age, SettleDir, Basic, TypeOK, Procs
  <2> QED BY <2>1, <2>2, <2>3 DEF Calls
<1>3. ASSUME NEW p \in Procs, Lock(p) PROVE Calls'
  <2>1. /\ UNCHANGED <<arg, ret, fate>> /\ pc[p] = "lock"
        /\ \A q \in Procs : q # p => pc'[q] = pc[q]
    BY <1>3 DEF Lock, Basic, TypeOK
  <2> QED BY <2>1 DEF Calls, Busy, Procs
<1> QED BY <1>1, <1>2, <1>3

LEMMA CallsHolder ==
  ASSUME Basic, Calls, NEW p \in Procs, Locked(p)
  PROVE  Calls'
<1> USE DEF Goto, Refuse, writer, store
<1>1. /\ pc[p] \in Critical
      /\ \A q \in Procs : q # p => pc'[q] = pc[q] /\ ret'[q] = ret[q] /\ pc[q] \notin Critical
  BY HolderAlone
<1>2. pc'[p] # "unlock" => ret'[p] = "ok"
  BY DEF Locked, Open, CreateFails, NewWriterFails, AppendBatch, AppendFails,
     CloseWriter, Sync, CloseFile, Rename, RotateFails, Unlock, Basic, TypeOK, Calls
<1>3. CASE ~Unlock(p)
  <2>1. arg' = arg /\ fate' = fate
    BY <1>3 DEF Locked, Open, CreateFails, NewWriterFails, AppendBatch, AppendFails,
       CloseWriter, Sync, CloseFile, Rename, RotateFails
  <2> QED BY <1>1, <1>2, <2>1 DEF Calls, Busy, Procs
<1>4. CASE Unlock(p)
  <2>1. pc'[p] \notin Busy
    BY <1>4 DEF Unlock, Basic, TypeOK, Busy, Critical, Rotating
  <2>2. \A q \in Pushers : q # p => arg'[q] = arg[q]
    BY <1>4 DEF Unlock, Basic, TypeOK
  <2>3. \A q \in Pushers : q # p /\ pc[q] \in Busy => fate'[arg[q]] = fate[arg[q]]
    <3> SUFFICES ASSUME NEW q \in Pushers, q # p, pc[q] \in Busy
                 PROVE  fate'[arg[q]] = fate[arg[q]]
      OBVIOUS
    <3>1. CASE p \in Pushers
      <4>1. arg[p] # arg[q] /\ arg[q] \in Batches
        BY <1>1, <3>1 DEF Calls, Busy
      <4> QED BY <1>4, <3>1, <4>1 DEF Unlock, Basic, TypeOK
    <3>2. CASE p \notin Pushers
      BY <1>4, <3>2 DEF Unlock
    <3> QED BY <3>1, <3>2
  <2> QED BY <1>1, <1>2, <2>1, <2>2, <2>3 DEF Calls, Procs
<1> QED BY <1>3, <1>4

LEMMA CallsStep == Basic /\ Calls /\ [Next]_vars => Calls'
<1> SUFFICES ASSUME Basic, Calls, [Next]_vars PROVE Calls'
  OBVIOUS
<1>1. CASE UNCHANGED vars
  BY <1>1 DEF vars, Calls
<1>2. CASE \E N, B \in SUBSET DOMAIN files : Crash(N, B)
  BY <1>2 DEF Crash, Calls, Busy, Critical, Rotating, Procs
<1> QED BY <1>1, <1>2, CallsCallers, CallsHolder DEF Next

(* Most steps only take files out of the live ones, or add an empty one.   *)
LiveKept ==
  \A f \in Live' : \/ f \in Live /\ files'[f].batches = files[f].batches
                   \/ files'[f].batches = <<>>

LEMMA AbsentKept == LiveKept => \A b : Absent(b) => Absent(b)'
<1> SUFFICES ASSUME LiveKept, NEW b, Absent(b), NEW f \in Live' PROVE ~In(b, f)'
  BY DEF Absent
<1>1. CASE files'[f].batches = <<>>
  BY <1>1 DEF In
<1>2. CASE f \in Live /\ files'[f].batches = files[f].batches
  BY <1>2 DEF Absent, In
<1> QED BY <1>1, <1>2 DEF LiveKept

LEMMA AbsentArg ==
  ASSUME LiveKept, NEW p \in Pushers, Absent(arg'[p])
  PROVE  Absent(arg[p])'
<1>1. PICK b : b = arg'[p]
  OBVIOUS
<1>2. Absent(b)'
  BY <1>1, AbsentKept
<1> QED BY <1>1, <1>2 DEF Absent

LEMMA LiveKeptStep ==
  ASSUME Basic, Durability, Settled,
         \/ \E p \in Pushers, b \in Batches : Push(p, b)
         \/ Tick \/ Close \/ Age \/ SettleDir
         \/ \E N, B \in SUBSET DOMAIN files : Crash(N, B)
         \/ \E p \in Procs : Lock(p) \/ (Locked(p) /\ ~\E big \in BOOLEAN : AppendBatch(p, big))
  PROVE  LiveKept
<1>1. CASE \/ \E p \in Pushers, b \in Batches : Push(p, b)
           \/ Tick \/ Close \/ Age
           \/ \E p \in Procs : Lock(p) \/ AppendFails(p) \/ CloseFile(p) \/ RotateFails(p) \/ Unlock(p)
  <2>1. files' = files
    BY <1>1, FilesUntouched
  <2>2. fw' = fw \/ fw' = NoFile
    BY <1>1 DEF Push, Tick, Close, Age, Lock, AppendFails, CloseFile, RotateFails, Unlock,
       Reset, writer
  <2> QED BY <2>1, <2>2, NoFileIsNoFile DEF LiveKept, Live, Visible, Basic, TypeOK
<1>2. ASSUME NEW p \in Procs, Open(p) \/ CreateFails(p) \/ NewWriterFails(p) PROVE LiveKept
  <2>1. fw' = fw \/ fw' = Len(files) + 1
    BY <1>2 DEF Open, CreateFails, NewWriterFails, writer
  <2> QED BY <1>2, <2>1, Opened DEF LiveKept, Live, Visible
<1>3. ASSUME NEW p \in Procs, CloseWriter(p) \/ Sync(p) \/ Rename(p) PROVE LiveKept
  <2>0. \A big \in BOOLEAN : ~AppendBatch(p, big)
    BY <1>3 DEF AppendBatch, CloseWriter, Sync, Rename
  <2>1. /\ fw \in DOMAIN files /\ DOMAIN files' = DOMAIN files
        /\ \A g \in DOMAIN files : g # fw => files'[g] = files[g]
        /\ files'[fw].batches = files[fw].batches
    BY <1>3, <2>0, OpenFileSteps
  <2>2. fw' = fw \/ fw' = NoFile
    BY <1>3 DEF CloseWriter, Sync, Rename, Reset, writer
  <2> QED BY <2>1, <2>2, NoFileIsNoFile DEF LiveKept, Live, Visible, Basic, TypeOK
<1>4. CASE SettleDir
  <2>1. fw' = fw
    BY <1>4 DEF SettleDir, writer
  <2> QED BY <1>4, <2>1, SettleSteps DEF LiveKept, Live, Visible
<1>5. CASE \E N, B \in SUBSET DOMAIN files : Crash(N, B)
  <2>1. fw' = NoFile
    BY <1>5 DEF Crash
  <2>2. /\ DOMAIN files' = DOMAIN files
        /\ \A f \in DOMAIN files : /\ files'[f].name \in {files[f].name, files[f].disk}
                                   /\ files'[f].batches = files[f].batches
    BY <1>5, CrashSteps
  <2> QED BY <2>1, <2>2, NoFileIsNoFile DEF LiveKept, Live, Visible, Settled, Basic, TypeOK
<1> QED BY <1>1, <1>2, <1>3, <1>4, <1>5 DEF Locked

(* The first conjunct of Once, for the steps that append nothing. *)
LEMMA OnceKept ==
  ASSUME Once, LiveKept
  PROVE  \A f, g \in Live' : \A i \in DOMAIN files'[f].batches, j \in DOMAIN files'[g].batches :
           files'[f].batches[i] = files'[g].batches[j] => f = g /\ i = j
<1> SUFFICES ASSUME NEW f \in Live', NEW g \in Live',
                    NEW i \in DOMAIN files'[f].batches, NEW j \in DOMAIN files'[g].batches,
                    files'[f].batches[i] = files'[g].batches[j]
             PROVE  f = g /\ i = j
  OBVIOUS
<1>1. /\ f \in Live /\ files'[f].batches = files[f].batches
      /\ g \in Live /\ files'[g].batches = files[g].batches
  BY DEF LiveKept
<1> QED BY <1>1 DEF Once

LEMMA OnceCallers ==
  ASSUME Basic, Durability, Settled, Calls, Once,
         \/ \E p \in Pushers, b \in Batches : Push(p, b)
         \/ Tick \/ Close \/ Age \/ SettleDir
         \/ \E N, B \in SUBSET DOMAIN files : Crash(N, B)
         \/ \E p \in Procs : Lock(p)
  PROVE  Once'
<1> USE DEF writer, store, caller
<1>1. LiveKept
  BY LiveKeptStep
<1>2. \A b \in Batches : fate'[b] \in {"new", "err"} => fate[b] \in {"new", "err"}
  BY DEF Push, Tick, Close, Age, SettleDir, Crash, Lock, Basic, TypeOK
<1>3. \A p \in Pushers :
        pc'[p] \in {"lock", "open", "append"} \/ (pc'[p] = "unlock" /\ ret'[p] = "err") =>
          Absent(arg'[p])
  <2>1. CASE \E p \in Pushers, b \in Batches : Push(p, b)
    <3>1. PICK p \in Pushers, b \in Batches : Push(p, b)
      BY <2>1
    <3>2. /\ arg'[p] = b /\ fate[b] \in {"new", "err"} /\ ret' = ret
          /\ \A q \in Pushers : q # p => pc'[q] = pc[q] /\ arg'[q] = arg[q]
      BY <3>1 DEF Push, Basic, TypeOK, Procs
    <3> QED BY <3>2 DEF Once
  <2>2. CASE Tick \/ Close \/ Age \/ SettleDir
    <3>1. arg' = arg /\ ret' = ret /\ \A q \in Pushers : pc'[q] = pc[q]
      BY <2>2, ProcsAssumption DEF Tick, Close, Age, SettleDir, Basic, TypeOK, Procs
    <3> QED BY <3>1 DEF Once
  <2>3. CASE \E N, B \in SUBSET DOMAIN files : Crash(N, B)
    BY <2>3 DEF Crash, Procs
  <2>4. ASSUME NEW p \in Procs, Lock(p)
        PROVE  \A q \in Pushers :
                 pc'[q] \in {"lock", "open", "append"} \/ (pc'[q] = "unlock" /\ ret'[q] = "err") =>
                   Absent(arg'[q])
    <3>1. /\ arg' = arg /\ ret' = ret /\ pc[p] = "lock"
          /\ \A q \in Procs : q # p => pc'[q] = pc[q]
      BY <2>4 DEF Lock, Basic, TypeOK
    <3> QED BY <3>1 DEF Once, Procs
  <2> QED BY <2>1, <2>2, <2>3, <2>4
<1> QED BY <1>1, <1>2, <1>3, OnceKept, AbsentKept DEF Once

(* fw.Write puts a batch into the open file that no live file has.         *)
LEMMA OnceAppend ==
  ASSUME Basic, Durability, Calls, Once, NEW p \in Procs, NEW big \in BOOLEAN, AppendBatch(p, big)
  PROVE  Once'
<1> DEFINE b == arg[p]
           n == Len(files[fw].batches) + 1
<1>1. /\ p \in Pushers /\ b \in Batches /\ fw' = fw /\ fw # NoFile /\ fw \in DOMAIN files
      /\ files[fw] \in File /\ DOMAIN files' = DOMAIN files
      /\ \A g \in DOMAIN files : g # fw => files'[g] = files[g]
      /\ files'[fw].name = files[fw].name
      /\ files'[fw].batches = Append(files[fw].batches, b)
  <2>1. ~CloseWriter(p) /\ ~Sync(p) /\ ~Rename(p)
    BY DEF AppendBatch, CloseWriter, Sync, Rename
  <2> QED BY <2>1, OpenFileSteps
<1>2. Live' = Live /\ fw \in Live
  BY <1>1 DEF Live, Visible
<1>3. Absent(b) /\ fate[b] = "sent" /\ pc[p] \in Busy
  BY <1>1 DEF AppendBatch, Once, Calls, Busy, Critical
<1>4. files[fw].batches \in Seq(Batches)
  BY <1>1 DEF File
<1>5. /\ DOMAIN files'[fw].batches = DOMAIN files[fw].batches \cup {n}
      /\ n \notin DOMAIN files[fw].batches
      /\ files'[fw].batches[n] = b
      /\ \A i \in DOMAIN files[fw].batches : files'[fw].batches[i] = files[fw].batches[i]
  BY <1>1, <1>4
<1> HIDE DEF b, n
<1>6. \A f \in Live : \A i \in DOMAIN files'[f].batches :
        \/ i \in DOMAIN files[f].batches /\ files'[f].batches[i] = files[f].batches[i]
        \/ f = fw /\ i = n /\ files'[f].batches[i] = b
  BY <1>1, <1>5 DEF Live, Visible
<1>7. \A f \in Live : \A i \in DOMAIN files[f].batches : files[f].batches[i] # b
  BY <1>3 DEF Absent, In
<1>8. \A f, g \in Live' : \A i \in DOMAIN files'[f].batches, j \in DOMAIN files'[g].batches :
        files'[f].batches[i] = files'[g].batches[j] => f = g /\ i = j
  BY <1>2, <1>6, <1>7 DEF Once
<1>9. \A c : c # b /\ Absent(c) => Absent(c)'
  BY <1>2, <1>6 DEF Absent, In
<1>10. \A q \in Pushers : q # p => pc'[q] = pc[q] /\ ret' = ret /\ arg' = arg
  BY DEF AppendBatch, Goto, Basic, TypeOK, Procs
<1>11. ret[p] = "ok" /\ ret' = ret /\ pc'[p] \in {"close", "unlock"} /\ fate' = fate
  BY DEF AppendBatch, Goto, AfterAppend, Basic, TypeOK, Calls
<1>12. \A q \in Pushers : q # p /\ pc[q] \in Busy => arg[q] # b
  BY <1>1, <1>3 DEF Calls, b
<1>13. \A q \in Pushers :
         pc'[q] \in {"lock", "open", "append"} \/ (pc'[q] = "unlock" /\ ret'[q] = "err") =>
           Absent(arg[q])'
  <2> SUFFICES ASSUME NEW q \in Pushers,
                      pc'[q] \in {"lock", "open", "append"} \/ (pc'[q] = "unlock" /\ ret'[q] = "err")
               PROVE  Absent(arg[q])'
    OBVIOUS
  <2>1. q # p /\ pc'[q] = pc[q] /\ ret' = ret /\ arg' = arg
    BY <1>10, <1>11
  <2>2. arg[q] # b /\ Absent(arg[q])
    BY <1>12, <2>1 DEF Once, Busy, Critical
  <2>3. PICK c : c = arg[q]
    OBVIOUS
  <2>4. Absent(c)'
    BY <1>9, <2>2, <2>3
  <2> QED BY <2>1, <2>3, <2>4 DEF Absent
<1>14. \A c \in Batches : fate'[c] \in {"new", "err"} => Absent(c)'
  BY <1>3, <1>9, <1>11 DEF Once
<1> QED BY <1>8, <1>13, <1>14 DEF Once

LEMMA OnceHolder ==
  ASSUME Basic, Durability, Settled, Acks, Calls, Once, NEW p \in Procs, Locked(p),
         ~\E big \in BOOLEAN : AppendBatch(p, big)
  PROVE  Once'
<1> USE DEF Goto, Refuse, writer, store
<1>1. LiveKept
  BY LiveKeptStep
<1>2. /\ pc[p] \in Critical
      /\ \A q \in Procs : q # p => pc'[q] = pc[q] /\ ret'[q] = ret[q]
  BY HolderAlone
<1>3. pc \in [Procs -> Labels] /\ ret \in [Procs -> {"ok", "err"}]
  BY DEF Basic, TypeOK
<1>4. \A q \in Pushers : q # p => arg'[q] = arg[q]
  BY DEF Locked, Open, CreateFails, NewWriterFails, AppendFails,
     CloseWriter, Sync, CloseFile, Rename, RotateFails, Unlock, Basic, TypeOK
<1>5. p \in Pushers /\ (pc'[p] \in {"lock", "open", "append"} \/ (pc'[p] = "unlock" /\ ret'[p] = "err"))
        => Absent(arg[p])'
  <2> SUFFICES ASSUME p \in Pushers,
                      pc'[p] \in {"lock", "open", "append"} \/ (pc'[p] = "unlock" /\ ret'[p] = "err")
               PROVE  Absent(arg[p])'
    OBVIOUS
  <2>1. CASE Open(p) \/ CreateFails(p) \/ NewWriterFails(p) \/ AppendFails(p)
    <3>1. arg' = arg /\ pc[p] \in {"open", "append"}
      BY <2>1 DEF Open, CreateFails, NewWriterFails, AppendFails
    <3> QED BY <1>1, <3>1, AbsentArg DEF Once
  <2>2. CASE CloseWriter(p) \/ Sync(p) \/ CloseFile(p)
    BY <1>3, <2>2 DEF CloseWriter, Sync, CloseFile
  <2>3. CASE Rename(p)
    BY <1>3, <2>3 DEF Rename, Calls
  <2>4. CASE RotateFails(p)
    <3>1. arg' = arg /\ files' = files /\ fw' = NoFile /\ pc[p] \in Rotating
      BY <2>4 DEF RotateFails, Reset, Rotating
    <3>2. In(arg[p], fw) /\ fw \in DOMAIN files /\ fw # NoFile /\ fw \in Live /\ fw \notin Visible
      BY <3>1 DEF Acks, Basic, TypeOK, Control, Live, Durability, Visible
    <3>3. PICK i \in DOMAIN files[fw].batches : files[fw].batches[i] = arg[p]
      BY <3>2 DEF In
    <3>4. \A f \in Visible : ~In(arg[p], f)
      BY <3>2, <3>3 DEF Once, In, Live
    <3>5. Live' = Visible
      BY <3>1, NoFileIsNoFile DEF Live, Visible, Basic, TypeOK
    <3>6. \A f \in Visible : ~In(arg[p], f)'
      BY <3>1, <3>4 DEF In
    <3> QED BY <3>5, <3>6 DEF Absent
  <2>5. CASE Unlock(p)
    BY <1>3, <2>5, ProcsAssumption DEF Unlock, Procs
  <2> QED BY <2>1, <2>2, <2>3, <2>4, <2>5 DEF Locked
<1>6. \A q \in Pushers :
        pc'[q] \in {"lock", "open", "append"} \/ (pc'[q] = "unlock" /\ ret'[q] = "err") =>
          Absent(arg[q])'
  <2> SUFFICES ASSUME NEW q \in Pushers, q # p,
                      pc'[q] \in {"lock", "open", "append"} \/ (pc'[q] = "unlock" /\ ret'[q] = "err")
               PROVE  Absent(arg[q])'
    BY <1>5
  <2>1. pc'[q] = pc[q] /\ ret'[q] = ret[q] /\ arg'[q] = arg[q]
    BY <1>2, <1>4 DEF Procs
  <2>2. Absent(arg[q])
    BY <2>1 DEF Once
  <2> QED BY <1>1, <2>1, <2>2, AbsentArg
<1>7. \A b \in Batches : fate'[b] \in {"new", "err"} => Absent(b)
  <2>1. CASE Unlock(p) /\ p \in Pushers
    <3>1. fate' = [fate EXCEPT ![arg[p]] = ret[p]] /\ pc[p] = "unlock" /\ arg[p] \in Batches
      BY <2>1 DEF Unlock, Basic, Control, Critical
    <3>2. ret[p] = "err" => Absent(arg[p])
      BY <2>1, <3>1 DEF Once
    <3>3. \A b \in Batches : fate'[b] = IF b = arg[p] THEN ret[p] ELSE fate[b]
      BY <3>1 DEF Basic, TypeOK
    <3>4. ret[p] \in {"ok", "err"}
      BY <1>3
    <3> QED BY <3>2, <3>3, <3>4 DEF Once
  <2>2. CASE ~(Unlock(p) /\ p \in Pushers)
    <3>1. fate' = fate
      BY <2>2 DEF Locked, Open, CreateFails, NewWriterFails, AppendFails,
         CloseWriter, Sync, CloseFile, Rename, RotateFails, Unlock
    <3> QED BY <3>1 DEF Once
  <2> QED BY <2>1, <2>2
<1> QED BY <1>1, <1>6, <1>7, OnceKept, AbsentKept DEF Once

Unique == Basic /\ Durability /\ Settled /\ Acks /\ Calls /\ Once

LEMMA UniqueInit == Init => Unique
<1> SUFFICES ASSUME Init PROVE Unique
  OBVIOUS
<1>1. Basic /\ DOMAIN files = {}
  BY BasicInit, EmptySeq DEF Init
<1>2. Durability /\ Settled /\ Acks
  BY <1>1, ProcsAssumption DEF Init, Durability, Settled, Acks, Procs, NoFile, Rotating
<1>3. Calls /\ Once
  BY <1>1 DEF Init, Calls, Once, Live, Visible, Absent, Busy, Critical, Rotating, Procs
<1> QED BY <1>1, <1>2, <1>3 DEF Unique

LEMMA UniqueStep == Unique /\ [Next]_vars => Unique'
<1> SUFFICES ASSUME Unique, [Next]_vars PROVE Unique'
  OBVIOUS
<1>1. Basic' /\ Durability' /\ Settled' /\ Acks' /\ Calls'
  BY BasicStep, DurabilityStep, SettledStep, AcksStep, CallsStep DEF Unique
<1>2. CASE UNCHANGED vars
  BY <1>2 DEF vars, Unique, Once, Live, Visible, Absent, In, Basic, Durability, Settled, Acks,
     Calls, TypeOK, Control, Accounted, Kept
<1>3. CASE Next
  <2>1. Once'
    BY <1>3, OnceCallers, OnceAppend, OnceHolder DEF Next, Unique
  <2> QED BY <1>1, <2>1 DEF Unique
<1> QED BY <1>2, <1>3

(* A batch that is pushed again after an error never shows its rows twice: *)
(* it is in the visible files at most once, and in none while the caller   *)
(* still holds the error of its last push.                                 *)
THEOREM RowsShownOnce == Spec => []NoDuplicateRows
<1>1. Unique => NoDuplicateRows
  BY DEF Unique, Once, Live, Absent, NoDuplicateRows
<1> QED BY <1>1, UniqueInit, UniqueStep, PTL DEF Spec

-----------------------------------------------------------------------------
(* One signalWriter implements the table of ParquetTable. *)

(* What is reported or lost is never the open file: its batches are the    *)
(* ones that may still become visible.                                     *)
Clean == fw \notin reported \cup cut

TableInv == Basic /\ Durability /\ Settled /\ Clean

LEMMA CleanStep == Basic /\ Clean /\ [Next]_vars => Clean'
<1> SUFFICES ASSUME Basic, Clean, [Next]_vars PROVE Clean'
  OBVIOUS
<1>1. Basic'
  BY BasicStep
<1>2. CASE fw' = NoFile
  <2>1. files' \in Seq(File) /\ reported' \cup cut' \subseteq DOMAIN files'
    BY <1>1 DEF Basic, TypeOK
  <2>2. NoFile \notin DOMAIN files'
    BY <2>1 DEF NoFile
  <2> QED BY <1>2, <2>1, <2>2 DEF Clean
<1>3. ASSUME NEW p \in Procs, Open(p) PROVE Clean'
  <2>1. fw' = Len(files) + 1 /\ reported' = reported /\ cut' = cut
    BY <1>3 DEF Open
  <2>2. Len(files) + 1 \notin DOMAIN files
    BY <1>3, Opened
  <2> QED BY <2>1, <2>2 DEF Basic, TypeOK, Clean
<1>4. CASE fw' # NoFile /\ ~\E p \in Procs : Open(p)
  <2>1. \A p \in Procs : ~Rename(p) /\ ~RotateFails(p) /\ ~CreateFails(p)
    <3>1. \A p \in Procs : CreateFails(p) => fw' = NoFile
      BY DEF CreateFails, writer, Basic, Control
    <3> QED BY <1>4, <3>1 DEF Rename, RotateFails, Reset
  <2>2. fw' = fw /\ reported' = reported /\ cut' = cut
    BY <1>4, <2>1 DEF Next, vars, Locked, Push, Tick, Close, Lock, Age, SettleDir, Crash,
       NewWriterFails, AppendBatch, AppendFails, CloseWriter, Sync, CloseFile, Unlock,
       writer, store, caller
  <2> QED BY <2>2 DEF Clean
<1> QED BY <1>2, <1>3, <1>4

LEMMA TableInvInit == Init => TableInv
<1> SUFFICES ASSUME Init PROVE TableInv
  OBVIOUS
<1> QED BY UniqueInit DEF Unique, TableInv, Clean, Init

LEMMA TableInvStep == TableInv /\ [Next]_vars => TableInv'
  BY BasicStep, DurabilityStep, SettledStep, CleanStep DEF TableInv

(* Files that keep their batches, and readers what they see: a step the    *)
(* table does not notice.                                                  *)
LEMMA Unnoticed ==
  ASSUME Basic, fw' = fw, reported' = reported, cut' = cut, DOMAIN files' = DOMAIN files,
         \A f \in DOMAIN files : /\ files'[f].batches = files[f].batches
                                 /\ files'[f].name = "final" <=> files[f].name = "final"
                                 /\ f \in Visible => files'[f].disk = files[f].disk
  PROVE  UNCHANGED Table!vars
<1>1. Visible' = Visible
  BY DEF Visible
<1>2. \A F : F \subseteq DOMAIN files =>
        UNION {Range(files'[f].batches) : f \in F} = UNION {Range(files[f].batches) : f \in F}
  OBVIOUS
<1>3. reported \subseteq DOMAIN files /\ cut \subseteq DOMAIN files /\ (fw # NoFile => fw \in DOMAIN files)
  BY DEF Basic, TypeOK
<1>4. BatchesOf(reported)' = BatchesOf(reported) /\ BatchesOf(cut)' = BatchesOf(cut)
  BY <1>2, <1>3 DEF BatchesOf
<1>5. [f \in Visible |-> files[f].batches]' = [f \in Visible |-> files[f].batches]
  BY <1>1 DEF Visible
<1>6. {f \in Visible : files[f].disk = "final"}' = {f \in Visible : files[f].disk = "final"}
  BY <1>1 DEF Visible
<1>7. (IF fw = NoFile THEN <<>> ELSE files[fw].batches)' = IF fw = NoFile THEN <<>> ELSE files[fw].batches
  BY <1>3
<1> QED BY <1>4, <1>5, <1>6, <1>7 DEF Table!vars

(* Opening a file, or failing to: it is empty and nobody sees it. *)
LEMMA OpensUnnoticed ==
  ASSUME TableInv, NEW p \in Procs, Open(p) \/ CreateFails(p) \/ NewWriterFails(p)
  PROVE  UNCHANGED Table!vars
<1> DEFINE n == Len(files) + 1
<1>1. /\ fw = NoFile /\ DOMAIN files' = DOMAIN files \cup {n} /\ n \notin DOMAIN files
      /\ \A g \in DOMAIN files : files'[g] = files[g]
      /\ files'[n].name # "final" /\ files'[n].batches = <<>>
  BY Opened DEF TableInv
<1>2. /\ cut' = cut /\ reported \subseteq DOMAIN files /\ cut \subseteq DOMAIN files
      /\ reported' = reported \/ reported' = reported \cup {n}
  BY DEF Open, CreateFails, NewWriterFails, RecordError, TableInv, Basic, TypeOK
<1>3. fw' = n \/ fw' = NoFile
  BY <1>1 DEF Open, CreateFails, NewWriterFails, writer
<1>4. n # NoFile
  BY DEF TableInv, Basic, TypeOK, NoFile
<1> HIDE DEF n
<1>5. Range(<<>>) = {}
  BY DEF Range
<1>6. Visible' = Visible
  BY <1>1 DEF Visible
<1>7. \A F : F \subseteq DOMAIN files =>
        UNION {Range(files'[f].batches) : f \in F} = UNION {Range(files[f].batches) : f \in F}
  BY <1>1
<1>8. BatchesOf(cut)' = BatchesOf(cut)
  BY <1>2, <1>7 DEF BatchesOf
<1>9. BatchesOf(reported)' = BatchesOf(reported)
  <2>1. UNION {Range(files'[f].batches) : f \in reported} = BatchesOf(reported)
    BY <1>2, <1>7 DEF BatchesOf
  <2>2. UNION {Range(files'[f].batches) : f \in reported \cup {n}}
          = UNION {Range(files'[f].batches) : f \in reported}
    BY <1>1, <1>5
  <2> QED BY <1>2, <2>1, <2>2 DEF BatchesOf
<1>10. [f \in Visible |-> files[f].batches]' = [f \in Visible |-> files[f].batches]
  BY <1>1, <1>6 DEF Visible
<1>11. {f \in Visible : files[f].disk = "final"}' = {f \in Visible : files[f].disk = "final"}
  BY <1>1, <1>6 DEF Visible
<1>12. (IF fw = NoFile THEN <<>> ELSE files[fw].batches)' = IF fw = NoFile THEN <<>> ELSE files[fw].batches
  BY <1>1, <1>3, <1>4
<1> QED BY <1>8, <1>9, <1>10, <1>11, <1>12 DEF Table!vars

(* fw.Write returning nil is what accepts a batch. *)
LEMMA AppendAccepts ==
  ASSUME TableInv, NEW p \in Procs, NEW big \in BOOLEAN, AppendBatch(p, big)
  PROVE  \E b \in Batches : Table!Accept(b)
<1>1. ~CloseWriter(p) /\ ~Sync(p) /\ ~Rename(p)
  BY DEF AppendBatch, CloseWriter, Sync, Rename
<1>2. /\ arg[p] \in Batches /\ fw' = fw /\ fw # NoFile /\ fw \in DOMAIN files
      /\ DOMAIN files' = DOMAIN files
      /\ \A g \in DOMAIN files : g # fw => files'[g] = files[g]
      /\ files'[fw].name = files[fw].name /\ files'[fw].disk = files[fw].disk
      /\ files'[fw].batches = Append(files[fw].batches, arg[p])
      /\ reported' = reported /\ cut' = cut
  BY <1>1, OpenFileSteps DEF TableInv
<1>3. fw \notin reported /\ fw \notin cut /\ fw \notin Visible
  BY <1>2 DEF TableInv, Clean, Durability, Visible
<1>4. Visible' = Visible
  BY <1>2 DEF Visible
<1>5. reported \subseteq DOMAIN files /\ cut \subseteq DOMAIN files
  BY DEF TableInv, Basic, TypeOK
<1>6. \A F : F \subseteq DOMAIN files /\ fw \notin F =>
        UNION {Range(files'[f].batches) : f \in F} = UNION {Range(files[f].batches) : f \in F}
  BY <1>2
<1>7. BatchesOf(reported)' = BatchesOf(reported) /\ BatchesOf(cut)' = BatchesOf(cut)
  BY <1>2, <1>3, <1>5, <1>6 DEF BatchesOf
<1>8. [f \in Visible |-> files[f].batches]' = [f \in Visible |-> files[f].batches]
  BY <1>2, <1>3, <1>4 DEF Visible
<1>9. {f \in Visible : files[f].disk = "final"}' = {f \in Visible : files[f].disk = "final"}
  BY <1>2, <1>4 DEF Visible
<1>10. (IF fw = NoFile THEN <<>> ELSE files[fw].batches)'
         = Append(IF fw = NoFile THEN <<>> ELSE files[fw].batches, arg[p])
  BY <1>2
<1>11. PICK b \in Batches : b = arg[p]
  BY <1>2
<1>12. Table!Accept(b)
  BY <1>7, <1>8, <1>9, <1>10, <1>11 DEF Table!Accept
<1> QED BY <1>12

(* The rename shows the whole of the open file at once. *)
LEMMA RenamePublishes ==
  ASSUME TableInv, NEW p \in Procs, Rename(p)
  PROVE  Table!Next
<1>1. ~CloseWriter(p) /\ ~Sync(p) /\ \A big \in BOOLEAN : ~AppendBatch(p, big)
  BY DEF AppendBatch, CloseWriter, Sync, Rename
<1>2. /\ fw' = NoFile /\ fw # NoFile /\ fw \in DOMAIN files /\ DOMAIN files' = DOMAIN files
      /\ \A g \in DOMAIN files : g # fw => files'[g] = files[g]
      /\ files'[fw].name = "final" /\ files'[fw].disk = files[fw].disk
      /\ files'[fw].batches = files[fw].batches
      /\ reported' = reported /\ cut' = cut
  BY <1>1, OpenFileSteps DEF TableInv
<1>3. files[fw].disk # "final" /\ fw \notin Visible
  BY <1>2 DEF TableInv, Durability, Visible
<1>4. Visible' = Visible \cup {fw}
  BY <1>2 DEF Visible
<1>5. reported \subseteq DOMAIN files /\ cut \subseteq DOMAIN files
  BY DEF TableInv, Basic, TypeOK
<1>6. \A f \in DOMAIN files : files'[f].batches = files[f].batches
  BY <1>2
<1>7. \A F : F \subseteq DOMAIN files =>
        UNION {Range(files'[f].batches) : f \in F} = UNION {Range(files[f].batches) : f \in F}
  BY <1>6
<1>8. BatchesOf(reported)' = BatchesOf(reported) /\ BatchesOf(cut)' = BatchesOf(cut)
  BY <1>2, <1>5, <1>7 DEF BatchesOf
<1>9. {f \in Visible : files[f].disk = "final"}' = {f \in Visible : files[f].disk = "final"}
  BY <1>2, <1>3, <1>4 DEF Visible
<1>10. PICK f : f = fw
  OBVIOUS
<1>11. [g \in Visible |-> files[g].batches]'
         = [g \in Visible \cup {f} |-> IF g = f THEN files[f].batches ELSE files[g].batches]
  <2>1. \A g \in Visible \cup {f} :
          files'[g].batches = IF g = f THEN files[f].batches ELSE files[g].batches
    BY <1>2, <1>6, <1>10 DEF Visible
  <2>2. Visible' = Visible \cup {f}
    BY <1>4, <1>10
  <2> QED BY <2>1, <2>2
<1>12. [g \in Visible |-> files[g].batches]'
         = [g \in DOMAIN [h \in Visible |-> files[h].batches] \cup {f} |->
              IF g = f THEN IF fw = NoFile THEN <<>> ELSE files[fw].batches
                       ELSE [h \in Visible |-> files[h].batches][g]]
  BY <1>2, <1>10, <1>11
<1>13. Table!Publish(f)
  BY <1>2, <1>3, <1>8, <1>9, <1>10, <1>12 DEF Table!Publish
<1>14. f \in DOMAIN [g \in Visible |-> files[g].batches]' \ DOMAIN [g \in Visible |-> files[g].batches]
  BY <1>3, <1>10, <1>11
<1> QED BY <1>13, <1>14 DEF Table!Next

(* A failed rotation gives the open file up, with a recorded error. *)
LEMMA FailureGivesUp ==
  ASSUME TableInv, NEW p \in Procs, RotateFails(p)
  PROVE  Table!GiveUp
<1>1. /\ files' = files /\ cut' = cut /\ fw' = NoFile /\ reported' = reported \cup {fw}
      /\ fw # NoFile
  BY DEF RotateFails, RecordError, Reset, TableInv, Basic, Control, Rotating
<1>2. BatchesOf(reported)' = BatchesOf(reported) \cup Range(files[fw].batches)
  BY <1>1 DEF BatchesOf
<1>3. /\ BatchesOf(cut)' = BatchesOf(cut)
      /\ [f \in Visible |-> files[f].batches]' = [f \in Visible |-> files[f].batches]
      /\ {f \in Visible : files[f].disk = "final"}' = {f \in Visible : files[f].disk = "final"}
  BY <1>1 DEF BatchesOf, Visible
<1> QED BY <1>1, <1>2, <1>3 DEF Table!GiveUp, Table!Range, Range

(* The directory is written back. *)
LEMMA SettleSettles == ASSUME TableInv, SettleDir PROVE Table!Settle
<1>1. /\ DOMAIN files' = DOMAIN files
      /\ \A f \in DOMAIN files : /\ files'[f].name = files[f].name
                                 /\ files'[f].disk = files[f].name
                                 /\ files'[f].batches = files[f].batches
  BY SettleSteps DEF TableInv
<1>2. fw' = fw /\ reported' = reported /\ cut' = cut
  BY DEF SettleDir, writer
<1>3. Visible' = Visible
  BY <1>1 DEF Visible
<1>4. reported \subseteq DOMAIN files /\ cut \subseteq DOMAIN files /\ (fw # NoFile => fw \in DOMAIN files)
  BY DEF TableInv, Basic, TypeOK
<1>5. \A F : F \subseteq DOMAIN files =>
        UNION {Range(files'[f].batches) : f \in F} = UNION {Range(files[f].batches) : f \in F}
  BY <1>1
<1>6. BatchesOf(reported)' = BatchesOf(reported) /\ BatchesOf(cut)' = BatchesOf(cut)
  BY <1>2, <1>4, <1>5 DEF BatchesOf
<1>7. [f \in Visible |-> files[f].batches]' = [f \in Visible |-> files[f].batches]
  BY <1>1, <1>3 DEF Visible
<1>8. {f \in Visible : files[f].disk = "final"}' = DOMAIN [f \in Visible |-> files[f].batches]
  BY <1>1, <1>3 DEF Visible
<1>9. (IF fw = NoFile THEN <<>> ELSE files[fw].batches)' = IF fw = NoFile THEN <<>> ELSE files[fw].batches
  BY <1>1, <1>2, <1>4
<1> QED BY <1>6, <1>7, <1>8, <1>9 DEF Table!Settle

(* A crash takes the open file, and what was shown but not settled. *)
LEMMA CrashTakes ==
  ASSUME TableInv, NEW N \in SUBSET DOMAIN files, NEW B \in SUBSET DOMAIN files, Crash(N, B)
  PROVE  \E S \in SUBSET Visible : Table!Crash(S)
<1>1. /\ DOMAIN files' = DOMAIN files
      /\ \A f \in DOMAIN files : /\ files'[f].name \in {files[f].name, files[f].disk}
                                 /\ files'[f].disk = files'[f].name
                                 /\ files'[f].batches = files[f].batches
  BY CrashSteps DEF TableInv
<1>2. /\ fw' = NoFile /\ reported' = reported
      /\ cut' = cut \cup {f \in DOMAIN files : f = fw} \cup {f \in Visible : files'[f].name # "final"}
  BY DEF Crash
<1>3. PICK S : S = Visible'
  OBVIOUS
<1>4. /\ S = {f \in DOMAIN files : files'[f].name = "final"}
      /\ S \subseteq Visible
  BY <1>1, <1>3 DEF Visible, TableInv, Settled
<1>5. {f \in Visible : files[f].disk = "final"} \subseteq S
  BY <1>1, <1>4 DEF Visible
<1>6. {f \in Visible : files[f].disk = "final"}' = S
  BY <1>1, <1>3 DEF Visible
<1>7. [f \in Visible |-> files[f].batches]' = [f \in S |-> [g \in Visible |-> files[g].batches][f]]
  <2>1. \A f \in S : files'[f].batches = [g \in Visible |-> files[g].batches][f]
    BY <1>1, <1>4 DEF Visible
  <2> QED BY <1>3, <2>1
<1>8. \A F : F \subseteq DOMAIN files =>
        UNION {Range(files'[f].batches) : f \in F} = UNION {Range(files[f].batches) : f \in F}
  BY <1>1
<1>9. reported \subseteq DOMAIN files /\ cut \subseteq DOMAIN files /\ (fw # NoFile => fw \in DOMAIN files)
  BY DEF TableInv, Basic, TypeOK
<1>10. BatchesOf(reported)' = BatchesOf(reported)
  BY <1>2, <1>8, <1>9 DEF BatchesOf
<1>11. cut' = cut \cup {f \in DOMAIN files : f = fw} \cup (Visible \ S)
  BY <1>2, <1>4 DEF Visible
<1>12. BatchesOf(cut)' = UNION {Range(files[f].batches) : f \in cut'}
  BY <1>8, <1>9, <1>11 DEF BatchesOf, Visible
<1>13. UNION {Range(files[f].batches) : f \in DOMAIN files \cap {fw}}
         = Range(IF fw = NoFile THEN <<>> ELSE files[fw].batches)
  <2>1. CASE fw = NoFile
    <3>1. DOMAIN files \cap {fw} = {}
      BY <2>1, NoFileIsNoFile DEF TableInv, Basic, TypeOK
    <3> QED BY <2>1, <3>1 DEF Range
  <2>2. CASE fw # NoFile
    <3>1. DOMAIN files \cap {fw} = {fw}
      BY <2>2, <1>9
    <3> QED BY <2>2, <3>1
  <2> QED BY <2>1, <2>2
<1>14. BatchesOf(cut)'
         = BatchesOf(cut) \cup Range(IF fw = NoFile THEN <<>> ELSE files[fw].batches)
                          \cup UNION {Range(files[f].batches) : f \in Visible \ S}
  BY <1>11, <1>12, <1>13 DEF BatchesOf
<1>15. UNION {Range(files[f].batches) : f \in Visible \ S}
         = UNION {Range([g \in Visible |-> files[g].batches][f]) :
                    f \in DOMAIN [g \in Visible |-> files[g].batches] \ S}
  OBVIOUS
<1>16. Table!Crash(S)
  BY <1>2, <1>4, <1>5, <1>6, <1>7, <1>10, <1>14, <1>15 DEF Table!Crash, Table!Range, Range
<1> QED BY <1>4, <1>16

LEMMA TableStarts == Init => Table!Init
<1> SUFFICES ASSUME Init PROVE Table!Init
  OBVIOUS
<1>1. Visible = {} /\ BatchesOf({}) = {}
  BY EmptySeq DEF Init, Visible, BatchesOf
<1> QED BY <1>1 DEF Init, Table!Init

LEMMA TableStep == TableInv /\ [Next]_vars => [Table!Next]_(Table!vars)
<1> SUFFICES ASSUME TableInv, [Next]_vars PROVE Table!Next \/ UNCHANGED Table!vars
  OBVIOUS
<1>1. ASSUME files' = files, cut' = cut, fw' = fw, reported' = reported
      PROVE  UNCHANGED Table!vars
  BY <1>1, Unnoticed DEF TableInv
<1>2. CASE UNCHANGED vars
  BY <1>1, <1>2 DEF vars
<1>3. CASE \/ \E p \in Pushers, b \in Batches : Push(p, b)
           \/ Tick \/ Close \/ Age
           \/ \E p \in Procs : Lock(p) \/ AppendFails(p) \/ CloseFile(p) \/ Unlock(p)
  <2>1. files' = files /\ cut' = cut /\ fw' = fw /\ reported' = reported
    BY <1>3 DEF Push, Tick, Close, Age, Lock, AppendFails, CloseFile, Unlock, store, writer
  <2> QED BY <1>1, <2>1
<1>4. ASSUME NEW p \in Procs, CloseWriter(p) \/ Sync(p) PROVE UNCHANGED Table!vars
  <2>1. ~Rename(p) /\ \A big \in BOOLEAN : ~AppendBatch(p, big)
    BY <1>4 DEF CloseWriter, Sync, AppendBatch, Rename
  <2>2. /\ fw # NoFile /\ DOMAIN files' = DOMAIN files /\ fw' = fw /\ reported' = reported /\ cut' = cut
        /\ \A g \in DOMAIN files : g # fw => files'[g] = files[g]
        /\ files'[fw].name = files[fw].name /\ files'[fw].batches = files[fw].batches
    BY <1>4, <2>1, OpenFileSteps DEF TableInv
  <2>3. fw \notin Visible
    BY <2>2 DEF TableInv, Durability, Visible
  <2> QED BY <2>2, <2>3, Unnoticed DEF TableInv
<1>5. ASSUME NEW p \in Procs, Locked(p) PROVE Table!Next \/ UNCHANGED Table!vars
  <2>1. CASE Open(p) \/ CreateFails(p) \/ NewWriterFails(p)
    BY <2>1, OpensUnnoticed
  <2>2. ASSUME NEW big \in BOOLEAN, AppendBatch(p, big) PROVE Table!Next
    BY <2>2, AppendAccepts DEF Table!Next
  <2>3. CASE Rename(p)
    BY <2>3, RenamePublishes
  <2>4. CASE RotateFails(p)
    BY <2>4, FailureGivesUp DEF Table!Next
  <2> QED BY <1>3, <1>4, <1>5, <2>1, <2>2, <2>3, <2>4 DEF Locked
<1>6. CASE SettleDir
  BY <1>6, SettleSettles DEF Table!Next
<1>7. ASSUME NEW N \in SUBSET DOMAIN files, NEW B \in SUBSET DOMAIN files, Crash(N, B)
      PROVE  Table!Next
  <2>1. PICK S \in SUBSET Visible : Table!Crash(S)
    BY <1>7, CrashTakes
  <2>2. S \in SUBSET DOMAIN [f \in Visible |-> files[f].batches]
    OBVIOUS
  <2> QED BY <2>1, <2>2 DEF Table!Next
<1> QED BY <1>2, <1>3, <1>5, <1>6, <1>7 DEF Next

(* One signalWriter, with its mutex, its system calls, their failures and  *)
(* crashes between any two of them, is the table a reader is promised:     *)
(* accepted batches become visible together, in order, and for good, or    *)
(* are given up with a recorded error, or go with a crash.                 *)
THEOREM WriterImplementsTable == Spec => ImplementsTable
  BY TableInvInit, TableInvStep, TableStarts, TableStep, PTL DEF Spec, ImplementsTable, Table!Spec
=============================================================================
