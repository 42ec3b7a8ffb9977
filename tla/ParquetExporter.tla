-------------------------- MODULE ParquetExporter --------------------------
(***************************************************************************)
(* One parquetExporter (exporter/parquetexporter, exporter.go): Start, the *)
(* push functions, the flush loop and Shutdown, over one signalWriter per  *)
(* table.  A call into a signalWriter holds its mutex from end to end, so  *)
(* here it is one step on a table as ParquetTable describes it:            *)
(* ParquetWriter shows that the calls of the code amount to that.          *)
(*                                                                         *)
(* External, modelled from the use made of it: the collector, which starts *)
(* an exporter before what feeds it, stops it after, and may stop one      *)
(* whose Start failed; and the caller of a push that was refused, which    *)
(* may push the same request again.                                        *)
(***************************************************************************)
EXTENDS Naturals, FiniteSets

CONSTANTS
  Tables,      \* one signalWriter each
  Requests,    \* what is pushed
  Kinds,       \* the tables each request has rows for
  MaxFaults,   \* bound on failing writer calls
  MaxStops     \* bound on calls of Shutdown

ASSUME KindsAssumption == Kinds \in [Requests -> (SUBSET Tables) \ {{}}]
ASSUME BoundsAssumption == MaxFaults \in Nat /\ MaxStops \in Nat

VARIABLES
  phase,    \* of the component: new, started, or failed to start
  made,     \* tables whose signalWriter exists
  ticking,  \* e.ticker is set and not stopped
  tick,     \* a tick waits in e.ticker.C
  done,     \* e.done is closed
  flush,    \* where the flush loop is
  scan,     \* tables the flush loop has left in this round
  req,      \* what became of each request
  todo,     \* kinds the push of a request has left
  firstErr, \* requests whose push has met an error
  buffer,   \* per table: the requests whose rows are in the open file
  opened,   \* tables with an open file
  aged,     \* tables whose open file is older than FlushInterval
  shown,    \* per table: the requests whose rows are visible
  lost,     \* per table: the requests whose rows went down with a file
  stop,     \* where Shutdown is
  left,     \* writers Shutdown has left to close
  stops,    \* calls of Shutdown so far
  faults    \* failing writer calls so far

lifecycle == <<phase, made, ticking, done>>
looping   == <<tick, flush, scan>>
pushing   == <<req, todo, firstErr>>
writers   == <<buffer, opened, aged, shown, lost>>
stopping  == <<stop, left, stops>>
vars == <<phase, made, ticking, done, tick, flush, scan, req, todo, firstErr, buffer,
          opened, aged, shown, lost, stop, left, stops, faults>>

TypeOK ==
  /\ phase \in {"new", "started", "failed"}
  /\ made \subseteq Tables
  /\ ticking \in BOOLEAN /\ tick \in BOOLEAN /\ done \in BOOLEAN
  /\ flush \in {"none", "wait", "scan", "gone"}
  /\ scan \subseteq Tables
  /\ req \in [Requests -> {"new", "pushing", "ok", "err"}]
  /\ todo \in [Requests -> SUBSET Tables]
  /\ firstErr \subseteq Requests
  /\ buffer \in [Tables -> SUBSET Requests]
  /\ opened \subseteq Tables /\ aged \subseteq opened
  /\ shown \in [Tables -> SUBSET Requests]
  /\ lost \in [Tables -> SUBSET Requests]
  /\ stop \in {"idle", "once", "wait", "close", "panic"}
  /\ left \subseteq Tables
  /\ stops \in 0 .. MaxStops
  /\ faults \in 0 .. MaxFaults

Init ==
  /\ phase = "new" /\ made = {} /\ ticking = FALSE /\ done = FALSE
  /\ tick = FALSE /\ flush = "none" /\ scan = {}
  /\ req = [r \in Requests |-> "new"]
  /\ todo = [r \in Requests |-> {}]
  /\ firstErr = {}
  /\ buffer = [t \in Tables |-> {}]
  /\ opened = {} /\ aged = {}
  /\ shown = [t \in Tables |-> {}]
  /\ lost = [t \in Tables |-> {}]
  /\ stop = "idle" /\ left = {} /\ stops = 0
  /\ faults = 0

Fault == faults < MaxFaults /\ faults' = faults + 1

-----------------------------------------------------------------------------
(* Start: the writers, the ticker, the flush loop. *)

(* What Start has set up when it returns nil.  The mutant starts the loop  *)
(* before the writers of all tables exist.                                 *)
SomeMadeOnLoopStart == made' \in SUBSET Tables
MadeOnLoopStart     == made' = Tables

Start ==
  /\ phase = "new" /\ stop = "idle"
  /\ phase' = "started"
  /\ MadeOnLoopStart
  /\ ticking' = TRUE
  /\ flush' = "wait"
  /\ UNCHANGED <<done, tick, scan, pushing, writers, stopping, faults>>

(* newSignalWriter fails for some table: Start returns at once, with the   *)
(* writers made so far and neither ticker nor loop.                        *)
StartFails ==
  /\ phase = "new" /\ stop = "idle"
  /\ Fault
  /\ phase' = "failed"
  /\ made' \in SUBSET Tables /\ made' # Tables
  /\ UNCHANGED <<ticking, done, looping, pushing, writers, stopping>>

-----------------------------------------------------------------------------
(* Calls into one writer. *)

(* The writer is reset.  The mutant lets the next file inherit its age. *)
ResetKeepsAge(t) == opened' = opened \ {t} /\ UNCHANGED aged
ResetWriter(t)   == opened' = opened \ {t} /\ aged' = aged \ {t}

(* The open file of t becomes visible, with what else was just written.    *)
Publish(t, new) ==
  /\ shown' = [shown EXCEPT ![t] = @ \cup buffer[t] \cup new]
  /\ buffer' = [buffer EXCEPT ![t] = {}]
  /\ ResetWriter(t)
  /\ UNCHANGED lost

(* A failed rotation: the error is recorded, the file given up. *)
GiveUp(t) ==
  /\ lost' = [lost EXCEPT ![t] = @ \cup buffer[t]]
  /\ buffer' = [buffer EXCEPT ![t] = {}]
  /\ ResetWriter(t)
  /\ UNCHANGED shown

Buffer(t, r) ==
  /\ buffer' = [buffer EXCEPT ![t] = @ \cup {r}]
  /\ opened' = opened \cup {t}
  /\ UNCHANGED <<aged, shown, lost>>

-----------------------------------------------------------------------------
(* pushTraces, pushLogs, pushMetrics. *)

(* The collector pushes once the exporter has started and until it stops.  *)
Push(r) ==
  /\ phase = "started" /\ stop = "idle" /\ stops = 0
  /\ req[r] \in {"new", "err"}
  /\ req' = [req EXCEPT ![r] = "pushing"]
  /\ todo' = [todo EXCEPT ![r] = Kinds[r]]
  /\ firstErr' = firstErr \ {r}
  /\ UNCHANGED <<lifecycle, looping, writers, stopping, faults>>

(* The next kind, in any order: a Go map is ranged over. *)
NextKind(r, t) == req[r] = "pushing" /\ t \in todo[r]

Tried(r, t) ==
  /\ todo' = [todo EXCEPT ![r] = @ \ {t}]
  /\ UNCHANGED <<req, lifecycle, looping, stopping>>

(* The error kept after a kind went well.  The mutant overwrites it.       *)
ErrOverwritten(r) == firstErr \ {r}
ErrAfterOk(r)     == firstErr

WriteOk(r, t) ==
  /\ NextKind(r, t)
  /\ Tried(r, t)
  /\ Buffer(t, r) \/ Publish(t, {r})
  /\ firstErr' = ErrAfterOk(r)
  /\ UNCHANGED faults

(* write fails: nothing opened, or the batch refused and the open file     *)
(* kept, or the rotation failed and the open file given up.                *)
WriteFails(r, t) ==
  /\ NextKind(r, t)
  /\ Fault
  /\ Tried(r, t)
  /\ firstErr' = firstErr \cup {r}
  /\ \/ UNCHANGED writers
     \/ /\ opened' = opened \cup {t}
        /\ UNCHANGED <<buffer, aged, shown, lost>>
     \/ GiveUp(t)

PushReturns(r) ==
  /\ req[r] = "pushing" /\ todo[r] = {}
  /\ req' = [req EXCEPT ![r] = IF r \in firstErr THEN "err" ELSE "ok"]
  /\ UNCHANGED <<todo, firstErr, lifecycle, looping, writers, stopping, faults>>

-----------------------------------------------------------------------------
(* flushLoop and rotateAllForAge. *)

Age(t) ==
  /\ t \in opened \ aged
  /\ aged' = aged \cup {t}
  /\ UNCHANGED <<lifecycle, looping, pushing, buffer, opened, shown, lost, stopping, faults>>

(* The writers a round visits.  The mutant forgets the metric writers'     *)
(* map: here, whatever table is chosen last.                               *)
AllButOne == Tables \ {CHOOSE t \in Tables : TRUE}
AllTables == Tables

TickerFires ==
  /\ ticking /\ ~tick
  /\ tick' = TRUE
  /\ UNCHANGED <<flush, scan, lifecycle, pushing, writers, stopping, faults>>

Tick ==
  /\ flush = "wait" /\ tick
  /\ tick' = FALSE
  /\ flush' = "scan"
  /\ scan' = AllTables
  /\ UNCHANGED <<lifecycle, pushing, writers, stopping, faults>>

(* maybeRotateForAge on one writer; a failure is logged and the round goes *)
(* on with the next.                                                       *)
FlushOne(t) ==
  /\ flush = "scan" /\ t \in scan
  /\ scan' = scan \ {t}
  /\ \/ t \notin aged /\ UNCHANGED <<writers, faults>>
     \/ t \in aged /\ Publish(t, {}) /\ UNCHANGED faults
     \/ t \in aged /\ Fault /\ GiveUp(t)
  /\ UNCHANGED <<tick, flush, lifecycle, pushing, stopping>>

RoundEnds ==
  /\ flush = "scan" /\ scan = {}
  /\ flush' = "wait"
  /\ UNCHANGED <<tick, scan, lifecycle, pushing, writers, stopping, faults>>

(* case <-e.done; when a tick is ready too, either case may be taken. *)
LoopEnds ==
  /\ flush = "wait" /\ done
  /\ flush' = "gone"
  /\ UNCHANGED <<tick, scan, lifecycle, pushing, writers, stopping, faults>>

-----------------------------------------------------------------------------
(* Shutdown. *)

Quiet == \A r \in Requests : req[r] # "pushing"

(* shutdownOnce: the body runs in the first call only, and only with a     *)
(* ticker.  The mutant does not look whether Start got as far as that.     *)
OnceBodyUnchecked == ~done
OnceBody          == ~done /\ phase = "started"

Shutdown ==
  /\ phase # "new" /\ stop = "idle" /\ stops < MaxStops /\ Quiet
  /\ stops' = stops + 1
  /\ stop' = IF OnceBody THEN "once" ELSE "close"
  /\ left' = made
  /\ UNCHANGED <<lifecycle, looping, pushing, writers, faults>>

(* close(e.done); e.ticker.Stop(). *)
SignalDone ==
  /\ stop = "once"
  /\ done' = TRUE
  /\ ticking' = FALSE
  /\ stop' = IF done THEN "panic" ELSE "wait"
  /\ UNCHANGED <<phase, made, left, stops, looping, pushing, writers, faults>>

(* e.wg.Wait() returns.  The mutant does not wait. *)
NoWait     == TRUE
LoopIsGone == flush = "gone"

Waited ==
  /\ stop = "wait"
  /\ LoopIsGone
  /\ stop' = "close"
  /\ UNCHANGED <<left, stops, lifecycle, looping, pushing, writers, faults>>

(* What is left to close after one writer: the mutant returns on the first *)
(* error and so leaves the others open.                                    *)
LeftAfterReturning(t, failed) == IF failed THEN {} ELSE left \ {t}
LeftAfter(t, failed)          == left \ {t}

CloseOne(t) ==
  /\ stop = "close" /\ t \in left
  /\ \/ /\ IF t \in opened THEN Publish(t, {}) ELSE UNCHANGED writers
        /\ left' = LeftAfter(t, FALSE)
        /\ UNCHANGED faults
     \/ /\ t \in opened
        /\ Fault
        /\ GiveUp(t)
        /\ left' = LeftAfter(t, TRUE)
  /\ UNCHANGED <<stop, stops, lifecycle, looping, pushing>>

ShutdownReturns ==
  /\ stop = "close" /\ left = {}
  /\ stop' = "idle"
  /\ UNCHANGED <<left, stops, lifecycle, looping, pushing, writers, faults>>

-----------------------------------------------------------------------------
PushStep(r) ==
  \/ \E t \in Tables : WriteOk(r, t) \/ WriteFails(r, t)
  \/ PushReturns(r)
LoopStep == Tick \/ (\E t \in Tables : FlushOne(t)) \/ RoundEnds \/ LoopEnds
StopStep == SignalDone \/ Waited \/ (\E t \in Tables : CloseOne(t)) \/ ShutdownReturns

Next ==
  \/ Start \/ StartFails
  \/ \E r \in Requests : Push(r) \/ PushStep(r)
  \/ \E t \in Tables : Age(t)
  \/ TickerFires \/ LoopStep
  \/ Shutdown \/ StopStep

Spec == Init /\ [][Next]_vars

(* Goroutines run, files age, the ticker fires until it is stopped: then   *)
(* at most one tick is left, so the loop comes to see that done is closed. *)
Fairness ==
  /\ \A r \in Requests : WF_vars(PushStep(r))
  /\ \A t \in Tables : WF_vars(Age(t))
  /\ WF_vars(TickerFires)
  /\ WF_vars(LoopStep)
  /\ WF_vars(StopStep)

FairSpec == Spec /\ Fairness

-----------------------------------------------------------------------------
(* Properties. *)

Known(r, t) == r \in buffer[t] \cup shown[t] \cup lost[t]

(* A push that returned nil has put its rows into every table it has rows  *)
(* for: an error met by one kind is not forgotten over the kinds after it. *)
OkCoversEveryKind ==
  \A r \in Requests : req[r] = "ok" => \A t \in Kinds[r] : Known(r, t)

(* "Callers that dereference writers rely on the ticker only running after *)
(* a successful Start": the loop never meets a writer that is nil.         *)
LoopMeetsNoNil == flush = "scan" => scan \subseteq made

(* The loop is gone before Shutdown closes the first writer, and the       *)
(* channel is closed once however often Shutdown is called.                *)
LoopGoneBeforeClose ==
  /\ stop = "close" => flush \in {"none", "gone"}
  /\ stop # "panic"

(* "Shutdown flushes and closes all open writers so no data is lost on     *)
(* stop": when it has returned nothing is buffered, even if a writer       *)
(* failed to close; the rows are visible or went with a recorded error.    *)
ShutdownLeavesNothing ==
  stop = "idle" /\ stops > 0 => opened = {} /\ \A t \in Tables : buffer[t] = {}

(* Accepted rows do not wait for the next push to become visible. *)
RowsLeaveBuffer ==
  \A r \in Requests, t \in Tables : r \in buffer[t] ~> r \notin buffer[t]

(* Shutdown returns, after a failed Start and while the loop runs too. *)
ShutdownEnds == stop # "idle" ~> stop = "idle"
=============================================================================
