------------------------- MODULE ParquetExporterProofs -------------------------
(***************************************************************************)
(* Proofs about one parquetExporter, for any tables and requests, any      *)
(* number of failing writer calls and of calls of Shutdown.                *)
(***************************************************************************)
EXTENDS ParquetExporter, TLAPS

-----------------------------------------------------------------------------
(* Type correctness. *)

LEMMA TypeInit == Init => TypeOK
<1> SUFFICES ASSUME Init PROVE TypeOK
  OBVIOUS
<1>1. stops \in 0 .. MaxStops /\ faults \in 0 .. MaxFaults
  BY BoundsAssumption DEF Init
<1>2. ticking \in BOOLEAN /\ tick \in BOOLEAN /\ done \in BOOLEAN
  BY DEF Init
<1> QED BY <1>1, <1>2 DEF Init, TypeOK

LEMMA FaultType == TypeOK /\ Fault => faults' \in 0 .. MaxFaults
  BY BoundsAssumption DEF TypeOK, Fault

(* The three things a call may do to a writer. *)
LEMMA WriterTypes ==
  ASSUME TypeOK, NEW t \in Tables,
         \/ \E new \in SUBSET Requests : Publish(t, new)
         \/ GiveUp(t)
         \/ \E r \in Requests : Buffer(t, r)
         \/ UNCHANGED writers
         \/ opened' = opened \cup {t} /\ UNCHANGED <<buffer, aged, shown, lost>>
  PROVE  /\ buffer' \in [Tables -> SUBSET Requests]
         /\ opened' \subseteq Tables /\ aged' \subseteq opened'
         /\ shown' \in [Tables -> SUBSET Requests]
         /\ lost' \in [Tables -> SUBSET Requests]
<1> USE DEF TypeOK, ResetWriter
<1>1. CASE \E new \in SUBSET Requests : Publish(t, new)
  BY <1>1 DEF Publish
<1>2. CASE GiveUp(t)
  BY <1>2 DEF GiveUp
<1>3. CASE \E r \in Requests : Buffer(t, r)
  BY <1>3 DEF Buffer
<1>4. CASE UNCHANGED writers
  BY <1>4 DEF writers
<1>5. CASE opened' = opened \cup {t} /\ UNCHANGED <<buffer, aged, shown, lost>>
  BY <1>5
<1> QED BY <1>1, <1>2, <1>3, <1>4, <1>5

LEMMA TypeStart == TypeOK /\ (Start \/ StartFails) => TypeOK'
<1> SUFFICES ASSUME TypeOK, Start \/ StartFails PROVE TypeOK'
  OBVIOUS
<1> USE DEF looping, pushing, writers, stopping
<1>1. faults' \in 0 .. MaxFaults
  BY FaultType DEF Start, StartFails, TypeOK
<1>2. ticking' \in BOOLEAN /\ tick' \in BOOLEAN /\ done' \in BOOLEAN
  BY DEF Start, StartFails, TypeOK
<1> QED
  BY <1>1, <1>2 DEF Start, StartFails, MadeOnLoopStart, TypeOK

LEMMA TypePush ==
  ASSUME TypeOK, NEW r \in Requests, Push(r) \/ PushStep(r)
  PROVE  TypeOK'
<1> USE DEF lifecycle, looping, stopping
<1>1. CASE Push(r) \/ PushReturns(r)
  <2>1. ticking' \in BOOLEAN /\ tick' \in BOOLEAN /\ done' \in BOOLEAN
    BY <1>1 DEF Push, PushReturns, TypeOK
  <2>2. todo' \in [Requests -> SUBSET Tables] /\ req' \in [Requests -> {"new", "pushing", "ok", "err"}]
    BY <1>1, KindsAssumption DEF Push, PushReturns, TypeOK
  <2> QED BY <1>1, <2>1, <2>2 DEF Push, PushReturns, writers, TypeOK
<1>2. ASSUME NEW t \in Tables, WriteOk(r, t) \/ WriteFails(r, t) PROVE TypeOK'
  <2>1. /\ todo' = [todo EXCEPT ![r] = @ \ {t}] /\ req' = req
        /\ UNCHANGED <<phase, made, ticking, done, tick, flush, scan, stop, left, stops>>
    BY <1>2 DEF WriteOk, WriteFails, Tried
  <2>2. /\ buffer' \in [Tables -> SUBSET Requests]
        /\ opened' \subseteq Tables /\ aged' \subseteq opened'
        /\ shown' \in [Tables -> SUBSET Requests]
        /\ lost' \in [Tables -> SUBSET Requests]
    BY <1>2, WriterTypes DEF WriteOk, WriteFails
  <2>3. faults' \in 0 .. MaxFaults
    BY <1>2, FaultType DEF WriteOk, WriteFails, TypeOK
  <2>4. firstErr' \subseteq Requests
    BY <1>2 DEF WriteOk, WriteFails, ErrAfterOk, TypeOK
  <2> QED BY <2>1, <2>2, <2>3, <2>4 DEF TypeOK
<1> QED BY <1>1, <1>2 DEF PushStep

LEMMA TypeLoop ==
  ASSUME TypeOK, TickerFires \/ LoopStep \/ \E t \in Tables : Age(t)
  PROVE  TypeOK'
<1> USE DEF lifecycle, pushing, stopping
<1>1. CASE TickerFires \/ Tick \/ RoundEnds \/ LoopEnds
  <2>1. ticking' \in BOOLEAN /\ tick' \in BOOLEAN /\ done' \in BOOLEAN
    BY <1>1 DEF TickerFires, Tick, RoundEnds, LoopEnds, TypeOK
  <2> QED
    BY <1>1, <2>1 DEF TickerFires, Tick, RoundEnds, LoopEnds, AllTables, writers, TypeOK
<1>2. ASSUME NEW t \in Tables, FlushOne(t) PROVE TypeOK'
  <2>1. /\ buffer' \in [Tables -> SUBSET Requests]
        /\ opened' \subseteq Tables /\ aged' \subseteq opened'
        /\ shown' \in [Tables -> SUBSET Requests]
        /\ lost' \in [Tables -> SUBSET Requests]
    BY <1>2, WriterTypes DEF FlushOne
  <2>2. faults' \in 0 .. MaxFaults
    BY <1>2, FaultType DEF FlushOne, TypeOK
  <2> QED BY <1>2, <2>1, <2>2 DEF FlushOne, TypeOK
<1>3. ASSUME NEW t \in Tables, Age(t) PROVE TypeOK'
  BY <1>3 DEF Age, looping, TypeOK
<1> QED BY <1>1, <1>2, <1>3 DEF LoopStep

LEMMA TypeStop == ASSUME TypeOK, Shutdown \/ StopStep PROVE TypeOK'
<1> USE DEF lifecycle, looping, pushing
<1>1. CASE Shutdown \/ SignalDone \/ Waited \/ ShutdownReturns
  <2>1. ticking' \in BOOLEAN /\ tick' \in BOOLEAN /\ done' \in BOOLEAN
    BY <1>1 DEF Shutdown, SignalDone, Waited, ShutdownReturns, TypeOK
  <2>2. stops' \in 0 .. MaxStops
    BY <1>1, BoundsAssumption DEF Shutdown, SignalDone, Waited, ShutdownReturns, TypeOK
  <2> QED
    BY <1>1, <2>1, <2>2 DEF Shutdown, SignalDone, Waited, ShutdownReturns, writers, TypeOK
<1>2. ASSUME NEW t \in Tables, CloseOne(t) PROVE TypeOK'
  <2>1. /\ buffer' \in [Tables -> SUBSET Requests]
        /\ opened' \subseteq Tables /\ aged' \subseteq opened'
        /\ shown' \in [Tables -> SUBSET Requests]
        /\ lost' \in [Tables -> SUBSET Requests]
    BY <1>2, WriterTypes DEF CloseOne
  <2>2. faults' \in 0 .. MaxFaults
    BY <1>2, FaultType DEF CloseOne, TypeOK
  <2>3. left' \subseteq Tables
    BY <1>2 DEF CloseOne, LeftAfter, TypeOK
  <2> QED BY <1>2, <2>1, <2>2, <2>3 DEF CloseOne, TypeOK
<1> QED BY <1>1, <1>2 DEF StopStep

LEMMA TypeStep == TypeOK /\ [Next]_vars => TypeOK'
<1> SUFFICES ASSUME TypeOK, [Next]_vars PROVE TypeOK'
  OBVIOUS
<1>1. CASE UNCHANGED vars
  BY <1>1 DEF vars, TypeOK
<1> QED BY <1>1, TypeStart, TypePush, TypeLoop, TypeStop DEF Next

(* Every variable keeps its type; no file is old that is not open.         *)
THEOREM TypeCorrect == Spec => []TypeOK
  BY TypeInit, TypeStep, PTL DEF Spec

-----------------------------------------------------------------------------
(* A push that returned nil has put its rows into every table. *)

(* The strengthening: as long as a push has met no error, the kinds it has *)
(* behind it are known to their tables.                                    *)
Covered ==
  \A r \in Requests :
    /\ req[r] = "ok" => \A t \in Kinds[r] : Known(r, t)
    /\ req[r] = "pushing" /\ r \notin firstErr =>
         \A t \in Kinds[r] \ todo[r] : Known(r, t)

(* What a call does to one writer loses nothing a table ever knew.         *)
LEMMA KnownKept ==
  ASSUME TypeOK, NEW t \in Tables,
         \/ \E new \in SUBSET Requests : Publish(t, new)
         \/ GiveUp(t)
         \/ \E r \in Requests : Buffer(t, r)
         \/ UNCHANGED <<buffer, shown, lost>>
  PROVE  \A r \in Requests, u \in Tables : Known(r, u) => Known(r, u)'
<1> USE DEF TypeOK, Known
<1>1. CASE \E new \in SUBSET Requests : Publish(t, new)
  BY <1>1 DEF Publish
<1>2. CASE GiveUp(t)
  BY <1>2 DEF GiveUp
<1>3. CASE \E r \in Requests : Buffer(t, r)
  BY <1>3 DEF Buffer
<1>4. CASE UNCHANGED <<buffer, shown, lost>>
  BY <1>4
<1> QED BY <1>1, <1>2, <1>3, <1>4

LEMMA WriteKnown ==
  ASSUME TypeOK, NEW r \in Requests, NEW t \in Tables, WriteOk(r, t)
  PROVE  Known(r, t)'
<1>1. CASE Buffer(t, r)
  BY <1>1 DEF Buffer, Known, TypeOK
<1>2. CASE Publish(t, {r})
  BY <1>2 DEF Publish, Known, TypeOK
<1> QED BY <1>1, <1>2 DEF WriteOk

LEMMA CoveredStep == TypeOK /\ Covered /\ [Next]_vars => Covered'
<1> SUFFICES ASSUME TypeOK, Covered, [Next]_vars PROVE Covered'
  OBVIOUS
<1>0. Kinds \in [Requests -> SUBSET Tables]
  BY KindsAssumption
<1>1. CASE UNCHANGED vars
  BY <1>1 DEF vars, Covered, Known
<1>2. CASE \/ Start \/ StartFails \/ TickerFires \/ Tick \/ RoundEnds \/ LoopEnds
           \/ (\E t \in Tables : Age(t))
           \/ Shutdown \/ SignalDone \/ Waited \/ ShutdownReturns
  <2>1. UNCHANGED <<req, todo, firstErr, buffer, shown, lost>>
    BY <1>2 DEF Start, StartFails, TickerFires, Tick, RoundEnds, LoopEnds, Age, Shutdown,
       SignalDone, Waited, ShutdownReturns, pushing, writers
  <2> QED BY <2>1 DEF Covered, Known
<1>3. ASSUME NEW t \in Tables, FlushOne(t) \/ CloseOne(t) PROVE Covered'
  <2>1. UNCHANGED <<req, todo, firstErr>>
    BY <1>3 DEF FlushOne, CloseOne, pushing
  <2>2. \A r \in Requests, u \in Tables : Known(r, u) => Known(r, u)'
    BY <1>3, KnownKept DEF FlushOne, CloseOne, writers
  <2> QED BY <1>0, <2>1, <2>2 DEF Covered
<1>4. ASSUME NEW r \in Requests, Push(r) \/ PushReturns(r) PROVE Covered'
  <2>1. \A q \in Requests, u \in Tables : Known(q, u)' <=> Known(q, u)
    BY <1>4 DEF Push, PushReturns, writers, Known
  <2>2. \A q \in Requests : q # r => /\ req'[q] = req[q] /\ todo'[q] = todo[q]
                                     /\ q \in firstErr' <=> q \in firstErr
    BY <1>4 DEF Push, PushReturns, TypeOK
  <2>3. CASE Push(r)
    <3>1. req'[r] = "pushing" /\ todo'[r] = Kinds[r]
      BY <2>3 DEF Push, TypeOK
    <3> QED BY <1>0, <2>1, <2>2, <3>1 DEF Covered
  <2>4. CASE PushReturns(r)
    <3>1. /\ req'[r] = (IF r \in firstErr THEN "err" ELSE "ok")
          /\ req[r] = "pushing" /\ todo[r] = {}
      BY <2>4 DEF PushReturns, TypeOK
    <3> QED BY <1>0, <2>1, <2>2, <3>1 DEF Covered
  <2> QED BY <1>4, <2>3, <2>4
<1>5. ASSUME NEW r \in Requests, NEW t \in Tables, WriteOk(r, t) \/ WriteFails(r, t)
      PROVE  Covered'
  <2>1. req' = req /\ todo' = [todo EXCEPT ![r] = @ \ {t}] /\ req[r] = "pushing"
    BY <1>5 DEF WriteOk, WriteFails, Tried, NextKind
  <2>2. \A q \in Requests, u \in Tables : Known(q, u) => Known(q, u)'
    BY <1>5, KnownKept DEF WriteOk, WriteFails, writers
  <2>3. \/ firstErr' = firstErr /\ Known(r, t)'
        \/ firstErr' = firstErr \cup {r}
    BY <1>5, WriteKnown DEF WriteOk, WriteFails, ErrAfterOk
  <2>4. \A q \in Requests : q # r => todo'[q] = todo[q]
    BY <2>1 DEF TypeOK
  <2>5. todo'[r] = todo[r] \ {t}
    BY <2>1 DEF TypeOK
  <2> QED BY <1>0, <2>1, <2>2, <2>3, <2>4, <2>5 DEF Covered
<1> QED
  BY <1>1, <1>2, <1>3, <1>4, <1>5 DEF Next, PushStep, LoopStep, StopStep

(* A push returns nil only if the rows of every kind went into their       *)
(* table: the first error outlives the kinds that come after it, whatever  *)
(* the flush loop rotates in the meantime.                                 *)
THEOREM PushCoversEveryKind == Spec => []OkCoversEveryKind
<1>1. Init => TypeOK /\ Covered
  BY TypeInit DEF Init, Covered
<1>2. TypeOK /\ Covered /\ [Next]_vars => (TypeOK /\ Covered)'
  BY TypeStep, CoveredStep
<1>3. Covered => OkCoversEveryKind
  BY DEF Covered, OkCoversEveryKind
<1> QED BY <1>1, <1>2, <1>3, PTL DEF Spec

-----------------------------------------------------------------------------
(* Start, the flush loop and Shutdown, in any order the collector allows.  *)

(* The strengthening: there is a loop exactly after a Start that returned  *)
(* nil; e.done is closed by the first Shutdown of such an exporter, which  *)
(* then waits for the loop.                                                *)
Orderly ==
  /\ flush = "none" <=> phase # "started"
  /\ phase = "started" => made = Tables
  /\ phase = "new" => stop = "idle" /\ stops = 0
  /\ stop = "once" => phase = "started" /\ ~done
  /\ stop = "wait" => done
  /\ stop = "close" => done \/ phase = "failed"
  /\ done /\ stop # "wait" => flush = "gone"
  /\ stop # "panic"

LEMMA OrderlyStart == TypeOK /\ Orderly /\ (Start \/ StartFails) => Orderly'
  BY DEF Start, StartFails, MadeOnLoopStart, looping, stopping, Orderly, TypeOK

LEMMA OrderlyLoop ==
  ASSUME TypeOK, Orderly, TickerFires \/ LoopStep \/ \E t \in Tables : Age(t)
  PROVE  Orderly'
<1> USE DEF lifecycle, looping, stopping
<1>1. UNCHANGED <<phase, made, done, stop, stops>>
  BY DEF TickerFires, LoopStep, Tick, FlushOne, RoundEnds, LoopEnds, Age
<1>2. \/ flush' = flush
      \/ flush \in {"wait", "scan"} /\ flush' \in {"wait", "scan", "gone"}
  BY DEF TickerFires, LoopStep, Tick, FlushOne, RoundEnds, LoopEnds, Age
<1> QED BY <1>1, <1>2 DEF Orderly

LEMMA OrderlyStop == TypeOK /\ Orderly /\ (Shutdown \/ StopStep) => Orderly'
<1> SUFFICES ASSUME TypeOK, Orderly, Shutdown \/ StopStep PROVE Orderly'
  OBVIOUS
<1> USE DEF lifecycle, looping, Orderly, TypeOK
<1>1. CASE Shutdown
  BY <1>1 DEF Shutdown, OnceBody
<1>2. CASE SignalDone
  BY <1>2 DEF SignalDone
<1>3. CASE Waited
  BY <1>3 DEF Waited, LoopIsGone
<1>4. CASE ShutdownReturns
  BY <1>4 DEF ShutdownReturns
<1>5. CASE \E t \in Tables : CloseOne(t)
  BY <1>5 DEF CloseOne
<1> QED BY <1>1, <1>2, <1>3, <1>4, <1>5 DEF StopStep

LEMMA OrderlyStep == TypeOK /\ Orderly /\ [Next]_vars => Orderly'
<1> SUFFICES ASSUME TypeOK, Orderly, [Next]_vars PROVE Orderly'
  OBVIOUS
<1>1. CASE UNCHANGED vars
  BY <1>1 DEF vars, Orderly
<1>2. CASE \E r \in Requests : Push(r) \/ PushStep(r)
  BY <1>2 DEF Push, PushStep, WriteOk, WriteFails, Tried, PushReturns, lifecycle, looping,
     stopping, Orderly
<1> QED
  BY <1>1, <1>2, OrderlyStart, OrderlyLoop, OrderlyStop DEF Next

(* The loop is gone before Shutdown closes the first writer, and e.done is *)
(* closed once, whether Start failed, and however often Shutdown is called.*)
THEOREM LoopEndsFirst == Spec => []LoopGoneBeforeClose
<1>1. Init => TypeOK /\ Orderly
  BY TypeInit DEF Init, Orderly
<1>2. TypeOK /\ Orderly /\ [Next]_vars => (TypeOK /\ Orderly)'
  BY TypeStep, OrderlyStep
<1>3. Orderly => LoopGoneBeforeClose
  BY DEF Orderly, LoopGoneBeforeClose
<1> QED BY <1>1, <1>2, <1>3, PTL DEF Spec

(* A round of the flush loop only visits writers that exist: the loop runs *)
(* only after a Start that made all of them.                               *)
THEOREM NoNilWriter == Spec => []LoopMeetsNoNil
<1>1. Init => TypeOK /\ Orderly
  BY TypeInit DEF Init, Orderly
<1>2. TypeOK /\ Orderly /\ [Next]_vars => (TypeOK /\ Orderly)'
  BY TypeStep, OrderlyStep
<1>3. TypeOK /\ Orderly => LoopMeetsNoNil
  BY DEF TypeOK, Orderly, LoopMeetsNoNil
<1> QED BY <1>1, <1>2, <1>3, PTL DEF Spec

-----------------------------------------------------------------------------
(* Shutdown leaves nothing in an open file. *)

(* The strengthening: rows are only buffered in an open file, nobody       *)
(* pushes once a Shutdown was called, and the files that are open while it *)
(* closes the writers are those it has still to come to.                   *)
Draining ==
  /\ \A r \in Requests : req[r] = "pushing" => phase = "started" /\ stops = 0
  /\ \A t \in Tables : buffer[t] # {} => t \in opened
  /\ phase # "started" => opened = {}
  /\ stop # "idle" => stops > 0
  /\ stop \in {"once", "wait"} => left = made
  /\ stop = "close" => opened \subseteq left
  /\ stop = "idle" /\ stops > 0 => opened = {}

(* A file that is published or given up is the only one to be closed.      *)
LEMMA WriterCloses ==
  ASSUME TypeOK, Draining, NEW t \in Tables,
         GiveUp(t) \/ \E new \in SUBSET Requests : Publish(t, new)
  PROVE  /\ opened' = opened \ {t}
         /\ \A u \in Tables : buffer'[u] # {} => u \in opened'
  BY DEF GiveUp, Publish, ResetWriter, TypeOK, Draining

LEMMA DrainingPush ==
  ASSUME TypeOK, Orderly, Draining, NEW r \in Requests, Push(r) \/ PushStep(r)
  PROVE  Draining'
<1> USE DEF lifecycle, looping, stopping
<1>1. UNCHANGED <<phase, made, stop, left, stops>>
  BY DEF Push, PushStep, WriteOk, WriteFails, Tried, PushReturns
<1>2. phase = "started" /\ stops = 0 /\ stop = "idle"
  BY DEF Push, PushStep, WriteOk, WriteFails, NextKind, PushReturns, Draining, TypeOK
<1>3. \A t \in Tables : buffer'[t] # {} => t \in opened'
  <2>1. CASE UNCHANGED writers
    BY <2>1 DEF writers, Draining
  <2>2. ASSUME NEW t \in Tables,
               GiveUp(t) \/ Publish(t, {r}) PROVE \A u \in Tables : buffer'[u] # {} => u \in opened'
    BY <2>2, WriterCloses
  <2>3. ASSUME NEW t \in Tables, Buffer(t, r) PROVE \A u \in Tables : buffer'[u] # {} => u \in opened'
    BY <2>3 DEF Buffer, Draining, TypeOK
  <2>4. ASSUME NEW t \in Tables, opened' = opened \cup {t}, buffer' = buffer
        PROVE  \A u \in Tables : buffer'[u] # {} => u \in opened'
    BY <2>4 DEF Draining
  <2> QED
    BY <2>1, <2>2, <2>3, <2>4 DEF Push, PushStep, WriteOk, WriteFails, PushReturns
<1> QED BY <1>1, <1>2, <1>3 DEF Draining

LEMMA DrainingStop ==
  ASSUME TypeOK, Orderly, Draining, Shutdown \/ StopStep
  PROVE  Draining'
<1> USE DEF lifecycle, looping, pushing
<1>1. CASE Shutdown
  <2>1. opened \subseteq made
    BY <1>1 DEF Orderly, Draining, TypeOK
  <2> QED
    BY <1>1, <2>1, BoundsAssumption DEF Shutdown, Quiet, OnceBody, writers, Draining, TypeOK
<1>2. CASE SignalDone
  BY <1>2 DEF SignalDone, writers, Draining, Orderly
<1>3. CASE Waited
  <2>1. opened \subseteq made
    BY DEF Orderly, Draining, TypeOK
  <2> QED BY <1>3, <2>1 DEF Waited, writers, Draining
<1>4. CASE ShutdownReturns
  BY <1>4 DEF ShutdownReturns, writers, Draining
<1>5. ASSUME NEW t \in Tables, CloseOne(t) PROVE Draining'
  <2>1. \A r \in Requests : req[r] # "pushing"
    BY <1>5, BoundsAssumption DEF CloseOne, Draining, TypeOK
  <2>2. left' = left \ {t} /\ UNCHANGED <<req, phase, stop, stops>> /\ stop = "close"
    BY <1>5 DEF CloseOne, LeftAfter
  <2>3. opened' = opened \ {t} /\ \A u \in Tables : buffer'[u] # {} => u \in opened'
    <3>1. CASE UNCHANGED writers /\ t \notin opened
      BY <3>1 DEF writers, Draining
    <3>2. CASE GiveUp(t) \/ Publish(t, {})
      BY <3>2, WriterCloses
    <3> QED BY <1>5, <3>1, <3>2 DEF CloseOne
  <2> QED BY <2>1, <2>2, <2>3 DEF Draining
<1> QED BY <1>1, <1>2, <1>3, <1>4, <1>5 DEF StopStep

LEMMA DrainingLoop ==
  ASSUME TypeOK, Orderly, Draining,
         Start \/ StartFails \/ TickerFires \/ LoopStep \/ \E t \in Tables : Age(t)
  PROVE  Draining'
<1> USE DEF lifecycle, looping, pushing, stopping
<1>1. CASE Start \/ StartFails
  BY <1>1 DEF Start, StartFails, writers, Orderly, Draining
<1>2. CASE TickerFires \/ Tick \/ RoundEnds \/ LoopEnds \/ \E t \in Tables : Age(t)
  BY <1>2 DEF TickerFires, Tick, RoundEnds, LoopEnds, Age, writers, Draining
<1>3. ASSUME NEW t \in Tables, FlushOne(t) PROVE Draining'
  <2>1. opened' \subseteq opened /\ \A u \in Tables : buffer'[u] # {} => u \in opened'
    <3>1. CASE UNCHANGED writers
      BY <3>1 DEF writers, Draining
    <3>2. CASE GiveUp(t) \/ Publish(t, {})
      BY <3>2, WriterCloses
    <3> QED BY <1>3, <3>1, <3>2 DEF FlushOne
  <2>2. UNCHANGED <<req, phase, made, stop, left, stops>>
    BY <1>3 DEF FlushOne
  <2> QED BY <2>1, <2>2 DEF Draining
<1> QED BY <1>1, <1>2, <1>3 DEF LoopStep

LEMMA DrainingStep == TypeOK /\ Orderly /\ Draining /\ [Next]_vars => Draining'
<1> SUFFICES ASSUME TypeOK, Orderly, Draining, [Next]_vars PROVE Draining'
  OBVIOUS
<1>1. CASE UNCHANGED vars
  BY <1>1 DEF vars, Draining
<1> QED
  BY <1>1, DrainingPush, DrainingStop, DrainingLoop DEF Next

(* "Shutdown flushes and closes all open writers so no data is lost on     *)
(* stop": after it nothing is buffered and no file is open, also when      *)
(* writers failed to close, when Start had failed, and when it is called   *)
(* again.                                                                  *)
THEOREM ShutdownFlushes == Spec => []ShutdownLeavesNothing
<1> DEFINE IInv == TypeOK /\ Orderly /\ Draining
<1>1. Init => IInv
  BY TypeInit DEF Init, Orderly, Draining
<1>2. IInv /\ [Next]_vars => IInv'
  BY TypeStep, OrderlyStep, DrainingStep
<1>3. IInv => ShutdownLeavesNothing
  BY DEF Draining, ShutdownLeavesNothing
<1> QED BY <1>1, <1>2, <1>3, PTL DEF Spec

=============================================================================
