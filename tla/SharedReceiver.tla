--------------------------- MODULE SharedReceiver ---------------------------
(***************************************************************************)
(* The receiver shared by the pipelines of all signals                     *)
(* (receiver/natsjetstreamreceiver, factory.go): the store of receivers by *)
(* component.ID, the wrapper each pipeline gets, and the receiver's Start  *)
(* and Shutdown behind them, over several configurations of one collector. *)
(* receiver/snmpreceiver has the same store and wrapper.                   *)
(*                                                                         *)
(* External, modelled from the use made of it: the collector builds a      *)
(* wrapper for every signal of the configuration, starts them one by one   *)
(* in any order, shuts all of them down, started or not, when one fails or *)
(* when the configuration changes, and then builds the next ones.          *)
(***************************************************************************)
EXTENDS Naturals, FiniteSets

CONSTANTS
  Kinds,     \* traces, metrics, logs
  MaxGens,   \* bound on configurations
  MaxFaults  \* bound on failing creations and starts

ASSUME BoundsAssumption == MaxGens \in Nat /\ MaxFaults \in Nat

(* A receiver is known by the generation it was created in; 0 is none. *)
Gens == 0 .. MaxGens
None == 0

VARIABLES
  host,    \* what the collector does
  gen,     \* the configuration it does it for
  wanted,  \* kinds of the configuration
  wrapper, \* the receiver behind the wrapper of each kind
  begun,   \* wrappers whose Start was called
  ended,   \* wrappers whose Shutdown was called
  store,   \* the receiver in the store
  next,    \* the configuration whose consumer each receiver has for each kind
  started, \* receivers whose startOnce is done
  stopped, \* receivers whose stopOnce is done
  conn,    \* receivers with an open connection
  iters,   \* kinds with an iterator, by receiver
  loops,   \* kinds with a running loop, by receiver
  faults

collector == <<host, gen, wanted, wrapper>>
receivers == <<started, stopped, conn, iters, loops>>
vars == <<host, gen, wanted, wrapper, begun, ended, store, next, started, stopped, conn,
          iters, loops, faults>>

TypeOK ==
  /\ host \in {"idle", "building", "starting", "running", "stopping"}
  /\ gen \in Gens
  /\ wanted \subseteq Kinds
  /\ wrapper \in [Kinds -> Gens]
  /\ begun \subseteq wanted /\ ended \subseteq wanted
  /\ store \in Gens
  /\ next \in [Gens -> [Kinds -> Gens]]
  /\ started \subseteq Gens /\ stopped \subseteq Gens /\ conn \subseteq started
  /\ iters \in [Gens -> SUBSET Kinds]
  /\ loops \in [Gens -> SUBSET Kinds]
  /\ \A i \in Gens : loops[i] \subseteq iters[i]
  /\ faults \in 0 .. MaxFaults

Init ==
  /\ host = "idle" /\ gen = 0 /\ wanted = {}
  /\ wrapper = [k \in Kinds |-> None]
  /\ begun = {} /\ ended = {}
  /\ store = None
  /\ next = [i \in Gens |-> [k \in Kinds |-> None]]
  /\ started = {} /\ stopped = {} /\ conn = {}
  /\ iters = [i \in Gens |-> {}]
  /\ loops = [i \in Gens |-> {}]
  /\ faults = 0

Built == {k \in wanted : wrapper[k] # None}

-----------------------------------------------------------------------------
(* A new configuration. *)

Configure(K) ==
  /\ host = "idle" /\ gen < MaxGens
  /\ host' = "building" /\ gen' = gen + 1 /\ wanted' = K
  /\ wrapper' = [k \in Kinds |-> None]
  /\ begun' = {} /\ ended' = {}
  /\ UNCHANGED <<store, next, receivers, faults>>

(* getOrCreateReceiver *)
GetOrCreate == IF store # None THEN store ELSE gen

(* createTracesReceiver, createMetricsReceiver, createLogsReceiver *)
Create(k) ==
  /\ host = "building" /\ k \in wanted \ Built
  /\ store' = GetOrCreate
  /\ next' = [next EXCEPT ![store'][k] = gen]
  /\ wrapper' = [wrapper EXCEPT ![k] = store']
  /\ host' = IF Built \cup {k} = wanted THEN "starting" ELSE "building"
  /\ UNCHANGED <<gen, wanted, begun, ended, receivers, faults>>

(* The receiver of the first wrapper cannot be made: nothing is stored and *)
(* no consumer is registered, and the collector gives the configuration up.*)
CreateFails(k) ==
  /\ host = "building" /\ k \in wanted \ Built /\ store = None
  /\ faults < MaxFaults /\ faults' = faults + 1
  /\ host' = "idle"
  /\ UNCHANGED <<gen, wanted, wrapper, begun, ended, store, next, receivers>>

-----------------------------------------------------------------------------
(* receiverWrapper.Start *)

(* The kinds the receiver creates consumers and iterators for.  The mutant *)
(* only serves the signal it is started for.                               *)
OnlyItsOwn(i, k) == {k}
Registered(i, k) == {q \in Kinds : next[i][q] # None}

WrapperStarts(k) ==
  /\ host = "starting" /\ k \in wanted \ begun
  /\ begun' = begun \cup {k}

Progress == host' = IF begun' = wanted THEN "running" ELSE "starting"

(* The first call: connect, one iterator for each registered kind, and     *)
(* then the loops.                                                         *)
Start(k) ==
  LET i == wrapper[k] IN
  /\ WrapperStarts(k) /\ i \notin started
  /\ started' = started \cup {i}
  /\ conn' = conn \cup {i}
  /\ iters' = [iters EXCEPT ![i] = Registered(i, k)]
  /\ loops' = [loops EXCEPT ![i] = iters'[i]]
  /\ Progress
  /\ UNCHANGED <<gen, wanted, wrapper, ended, store, next, stopped, faults>>

(* It may fail before or after any iterator: the connection is closed, the *)
(* iterators are kept, and the collector gives up.                         *)
StartFails(k) ==
  LET i == wrapper[k] IN
  /\ WrapperStarts(k) /\ i \notin started
  /\ faults < MaxFaults /\ faults' = faults + 1
  /\ started' = started \cup {i}
  /\ \E K \in SUBSET Registered(i, k) : iters' = [iters EXCEPT ![i] = K]
  /\ host' = "stopping"
  /\ UNCHANGED <<gen, wanted, wrapper, ended, store, next, stopped, conn, loops>>

(* Every later call returns nil. *)
StartAgain(k) ==
  /\ WrapperStarts(k) /\ wrapper[k] \in started
  /\ Progress
  /\ UNCHANGED <<gen, wanted, wrapper, ended, store, next, receivers, faults>>

-----------------------------------------------------------------------------
(* receiverWrapper.Shutdown *)

Stop ==
  /\ host = "running"
  /\ host' = "stopping"
  /\ UNCHANGED <<gen, wanted, wrapper, begun, ended, store, next, receivers, faults>>

WrapperEnds(k) ==
  /\ host = "stopping" /\ k \in wanted \ ended
  /\ ended' = ended \cup {k}
  /\ host' = IF ended' = wanted THEN "idle" ELSE "stopping"

(* store.remove.  The mutant forgets it. *)
KeepInStore == store
Removed     == None

(* What Shutdown leaves of the loops.  The mutant stops that of one signal.*)
OthersLoop(i, k) == loops[i] \ {k}
NoLoops(i, k)    == {}

Shutdown(k) ==
  LET i == wrapper[k] IN
  /\ WrapperEnds(k) /\ i \notin stopped
  /\ stopped' = stopped \cup {i}
  /\ loops' = [loops EXCEPT ![i] = NoLoops(i, k)]
  /\ conn' = conn \ {i}
  /\ store' = Removed
  /\ UNCHANGED <<gen, wanted, wrapper, begun, next, started, iters, faults>>

ShutdownAgain(k) ==
  /\ WrapperEnds(k) /\ wrapper[k] \in stopped
  /\ UNCHANGED <<gen, wanted, wrapper, begun, store, next, receivers, faults>>

-----------------------------------------------------------------------------
Next ==
  \/ \E K \in (SUBSET Kinds) \ {{}} : Configure(K)
  \/ \E k \in Kinds : \/ Create(k) \/ CreateFails(k)
                      \/ Start(k) \/ StartFails(k) \/ StartAgain(k)
                      \/ Shutdown(k) \/ ShutdownAgain(k)
  \/ Stop

Spec == Init /\ [][Next]_vars

-----------------------------------------------------------------------------
(* Properties. *)

(* Start of every wrapper returned nil, most of them without doing         *)
(* anything: then there is a running loop for every kind of this           *)
(* configuration, and it feeds the consumer of this configuration.  A      *)
(* receiver left over from an earlier one would swallow Start.             *)
RunningServesEveryKind ==
  host = "running" =>
    \A k \in wanted : LET i == wrapper[k] IN
      i \in conn /\ k \in loops[i] /\ next[i][k] = gen

(* Nothing outlives its configuration: a loop feeds a consumer of the      *)
(* collector's present pipelines, and Shutdown of all wrappers, after a    *)
(* start that failed as well, leaves no connection and no loop, so that    *)
(* the next configuration starts afresh ("a single NATS connection",       *)
(* through every reload).                                                  *)
StopLeavesNothing ==
  /\ \A i \in Gens, k \in Kinds :
       k \in loops[i] => next[i][k] = gen /\ host \in {"starting", "running", "stopping"}
  /\ host = "idle" => store = None /\ conn = {} /\ \A i \in Gens : loops[i] = {}
=============================================================================
