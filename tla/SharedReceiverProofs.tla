-------------------------- MODULE SharedReceiverProofs --------------------------
(***************************************************************************)
(* Proofs about the receiver shared by the pipelines of all signals, for   *)
(* any kinds, any number of configurations, failing creations and starts.  *)
(***************************************************************************)
EXTENDS SharedReceiver, TLAPS

-----------------------------------------------------------------------------
(* Type correctness. *)

LEMMA GenTypes == Gens \subseteq Nat /\ None \in Gens /\ MaxGens \in Nat
  BY BoundsAssumption DEF Gens, None

(* A receiver has no loop before it is started: a Start that fails leaves  *)
(* the iterators it created, and no loop without one.                      *)
Basic == TypeOK /\ \A i \in Gens \ started : loops[i] = {}

LEMMA TypeInit == Init => Basic
<1> SUFFICES ASSUME Init PROVE Basic
  OBVIOUS
<1>1. faults \in 0 .. MaxFaults
  BY BoundsAssumption DEF Init
<1> QED BY <1>1, GenTypes DEF Init, Basic, TypeOK, None

LEMMA TypeBuild ==
  ASSUME Basic, \/ \E K \in (SUBSET Kinds) \ {{}} : Configure(K)
                \/ \E k \in Kinds : Create(k) \/ CreateFails(k)
  PROVE  Basic'
<1> USE GenTypes DEF receivers, Basic, TypeOK
<1>1. CASE \E K \in (SUBSET Kinds) \ {{}} : Configure(K)
  <2>1. gen' \in Gens
    BY <1>1 DEF Configure, Gens
  <2> QED BY <1>1, <2>1 DEF Configure
<1>2. CASE \E k \in Kinds : Create(k)
  <2>1. PICK k \in Kinds : Create(k)
    BY <1>2
  <2>2. store' \in Gens /\ next' = [next EXCEPT ![store'][k] = gen]
    BY <2>1 DEF Create, GetOrCreate
  <2>3. next' \in [Gens -> [Kinds -> Gens]]
    BY <2>2
  <2> QED BY <2>1, <2>2, <2>3 DEF Create
<1>3. ASSUME NEW k \in Kinds, CreateFails(k) PROVE Basic'
  <2>1. faults' \in 0 .. MaxFaults
    BY <1>3, BoundsAssumption DEF CreateFails
  <2> QED BY <1>3, <2>1 DEF CreateFails
<1> QED BY <1>1, <1>2, <1>3

LEMMA TypeStarts ==
  ASSUME Basic, NEW k \in Kinds, Start(k) \/ StartFails(k) \/ StartAgain(k)
  PROVE  Basic'
<1> USE GenTypes DEF receivers, WrapperStarts, Progress, Registered, Basic, TypeOK
<1>1. wrapper[k] \in Gens
  OBVIOUS
<1>2. CASE Start(k)
  <2>1. /\ iters' = [iters EXCEPT ![wrapper[k]] = Registered(wrapper[k], k)]
        /\ loops' = [loops EXCEPT ![wrapper[k]] = iters'[wrapper[k]]]
    BY <1>2 DEF Start
  <2>2. /\ iters' \in [Gens -> SUBSET Kinds] /\ loops' \in [Gens -> SUBSET Kinds]
        /\ \A i \in Gens : loops'[i] \subseteq iters'[i]
    BY <1>1, <2>1
  <2> QED BY <1>1, <1>2, <2>2 DEF Start
<1>3. CASE StartFails(k)
  <2>1. /\ wrapper[k] \notin started /\ UNCHANGED <<loops, conn>>
        /\ \E K \in SUBSET Kinds : iters' = [iters EXCEPT ![wrapper[k]] = K]
    BY <1>3 DEF StartFails
  <2>2. iters' \in [Gens -> SUBSET Kinds]
    BY <1>1, <2>1
  <2>3. faults' \in 0 .. MaxFaults
    BY <1>3, BoundsAssumption DEF StartFails
  <2>4. \A i \in Gens : loops'[i] \subseteq iters'[i]
    BY <1>1, <2>1
  <2>5. started' = started \cup {wrapper[k]}
    BY <1>3 DEF StartFails
  <2>6. \A i \in Gens \ started' : loops'[i] = {}
    BY <2>1, <2>5
  <2> QED BY <1>1, <1>3, <2>1, <2>2, <2>3, <2>4, <2>5, <2>6 DEF StartFails
<1>4. CASE StartAgain(k)
  BY <1>4 DEF StartAgain
<1> QED BY <1>2, <1>3, <1>4

LEMMA TypeStops ==
  ASSUME Basic, Stop \/ \E k \in Kinds : Shutdown(k) \/ ShutdownAgain(k)
  PROVE  Basic'
<1> USE GenTypes DEF receivers, WrapperEnds, Basic, TypeOK
<1>1. CASE Stop
  BY <1>1 DEF Stop
<1>2. ASSUME NEW k \in Kinds, Shutdown(k) PROVE Basic'
  BY <1>2 DEF Shutdown, NoLoops, Removed
<1>3. ASSUME NEW k \in Kinds, ShutdownAgain(k) PROVE Basic'
  BY <1>3 DEF ShutdownAgain
<1> QED BY <1>1, <1>2, <1>3

LEMMA TypeStep == Basic /\ [Next]_vars => Basic'
<1> SUFFICES ASSUME Basic, [Next]_vars PROVE Basic'
  OBVIOUS
<1>1. CASE UNCHANGED vars
  BY <1>1 DEF vars, Basic, TypeOK
<1> QED BY <1>1, TypeBuild, TypeStarts, TypeStops DEF Next

(* Every variable keeps its type, and a loop never runs without an         *)
(* iterator of its own.                                                    *)
THEOREM TypeCorrect == Spec => []TypeOK
<1>1. Basic => TypeOK
  BY DEF Basic
<1> QED BY <1>1, TypeInit, TypeStep, PTL DEF Spec

-----------------------------------------------------------------------------
(* One receiver per configuration, from its first wrapper to its last.     *)

(* Who knows whom: the wrappers of a configuration share the receiver made *)
(* for it, which has this configuration's consumers and no other; later    *)
(* receivers are untouched, and earlier ones have neither loop nor         *)
(* connection.                                                             *)
Shared ==
  /\ host # "idle" => gen # None /\ wanted # {}
  /\ \A k \in Built : wrapper[k] = gen
  /\ host \in {"starting", "running", "stopping"} => Built = wanted
  /\ \A k \in Kinds : next[gen][k] = IF k \in Built THEN gen ELSE None
  /\ \A i \in Gens : i > gen => /\ \A k \in Kinds : next[i][k] = None
                                /\ i \notin started \cup stopped
  /\ \A i \in Gens : i # gen => loops[i] = {} /\ i \notin conn

(* What that receiver does: it is in the store until it is shut down, the  *)
(* first wrapper starts it and its loops, and the first one stops them.    *)
Served ==
  /\ host = "idle" => store = None /\ loops[gen] = {} /\ gen \notin conn
  /\ host = "building" => store = IF Built = {} THEN None ELSE gen
  /\ host = "building" => begun = {}
  /\ host \in {"building", "starting"} => (gen \in started <=> begun # {})
  /\ host \in {"building", "starting", "running"} => gen \notin stopped /\ ended = {}
  /\ host = "running" => gen \in started
  /\ host \in {"starting", "running"} /\ gen \in started => gen \in conn /\ loops[gen] = wanted
  /\ host = "stopping" => (gen \in stopped <=> ended # {})
  /\ host = "stopping" /\ ended # {} => store = None /\ loops[gen] = {} /\ gen \notin conn
  /\ loops[gen] \subseteq Built

Inv == Basic /\ Shared /\ Served

LEMMA InvInit == Init => Inv
<1> SUFFICES ASSUME Init PROVE Inv
  OBVIOUS
<1>1. Basic /\ gen \in Gens
  BY TypeInit DEF Basic, TypeOK
<1>2. Built = {}
  BY DEF Init, Built
<1> QED BY <1>1, <1>2 DEF Init, Inv, Shared, Served

LEMMA InvConfigure ==
  ASSUME Inv, NEW K \in (SUBSET Kinds) \ {{}}, Configure(K)
  PROVE  Shared' /\ Served'
<1> USE GenTypes DEF receivers
<1>1. /\ host' = "building" /\ gen' = gen + 1 /\ wanted' = K /\ begun' = {} /\ ended' = {}
      /\ host = "idle" /\ UNCHANGED <<store, next, started, stopped, conn, loops>>
      /\ wrapper' = [k \in Kinds |-> None]
  BY DEF Configure
<1>2. gen \in Gens /\ gen + 1 \in Gens
  BY DEF Configure, Gens, Inv, Basic, TypeOK
<1>3. Built' = {}
  BY <1>1 DEF Built
<1>4. gen + 1 \notin started \cup stopped /\ \A k \in Kinds : next[gen + 1][k] = None
  BY <1>2 DEF Inv, Shared
<1>5. \A i \in Gens : loops[i] = {} /\ i \notin conn
  BY <1>1 DEF Inv, Shared, Served
<1>6. Shared'
  <2>1. gen' # None
    BY <1>1, <1>2 DEF None
  <2>2. \A k \in Kinds : next'[gen'][k] = IF k \in Built' THEN gen' ELSE None
    BY <1>1, <1>3, <1>4
  <2>3. \A i \in Gens : i > gen' => i > gen
    BY <1>1, <1>2
  <2>4. \A i \in Gens : i > gen' => /\ \A k \in Kinds : next'[i][k] = None
                                    /\ i \notin started' \cup stopped'
    BY <1>1, <2>3 DEF Inv, Shared
  <2>5. \A i \in Gens : loops'[i] = {} /\ i \notin conn'
    BY <1>1, <1>5
  <2>6. host' = "building" /\ wanted' # {}
    BY <1>1
  <2> QED BY <1>3, <2>1, <2>2, <2>4, <2>5, <2>6 DEF Shared
<1>7. Served'
  BY <1>1, <1>2, <1>3, <1>4, <1>5 DEF Inv, Served
<1> QED BY <1>6, <1>7

LEMMA InvCreate ==
  ASSUME Inv, NEW k \in Kinds, Create(k)
  PROVE  Shared' /\ Served'
<1> USE GenTypes DEF receivers
<1>1. /\ host = "building" /\ k \in wanted \ Built /\ gen # None /\ gen \in Gens
      /\ UNCHANGED <<gen, wanted, begun, ended, started, stopped, conn, loops>>
  BY DEF Create, Inv, Shared, Basic, TypeOK
<1>2. store' = gen
  BY <1>1 DEF Create, GetOrCreate, Inv, Served, None
<1>3. wrapper' = [wrapper EXCEPT ![k] = gen] /\ next' = [next EXCEPT ![gen][k] = gen]
  BY <1>2 DEF Create
<1>4. Built' = Built \cup {k}
  BY <1>1, <1>3 DEF Built, Inv, Basic, TypeOK
<1>5. \A q \in Built' : wrapper'[q] = gen
  BY <1>1, <1>3, <1>4 DEF Built, Inv, Basic, TypeOK, Shared
<1>6. /\ \A q \in Kinds : next'[gen][q] = IF q \in Built' THEN gen ELSE None
      /\ \A i \in Gens : i # gen => next'[i] = next[i]
  BY <1>1, <1>3, <1>4 DEF Inv, Basic, TypeOK, Shared
<1>7. host' \in {"building", "starting"} /\ (host' = "starting" => Built' = wanted)
  BY <1>4 DEF Create
<1>8. Shared'
  BY <1>1, <1>5, <1>6, <1>7 DEF Inv, Shared
<1>9. begun = {} /\ gen \notin started /\ ended = {} /\ gen \notin stopped /\ loops[gen] = {}
  BY <1>1 DEF Inv, Basic, Served
<1>10. Served'
  BY <1>1, <1>2, <1>4, <1>7, <1>9 DEF Served
<1> QED BY <1>8, <1>10

LEMMA InvCreateFails ==
  ASSUME Inv, NEW k \in Kinds, CreateFails(k)
  PROVE  Shared' /\ Served'
<1> USE GenTypes DEF receivers
<1>1. /\ host = "building" /\ host' = "idle" /\ store = None
      /\ UNCHANGED <<gen, wanted, wrapper, begun, ended, store, next, started, stopped, conn, loops>>
  BY DEF CreateFails
<1>2. Built' = Built
  BY <1>1 DEF Built
<1>3. Shared'
  BY <1>1, <1>2 DEF Inv, Shared
<1>4. gen \notin started /\ loops[gen] = {} /\ gen \notin conn /\ gen \in Gens
  BY <1>1 DEF Inv, Basic, TypeOK, Served
<1>5. Served'
  BY <1>1, <1>2, <1>4 DEF Served
<1> QED BY <1>3, <1>5

(* The steps of a configuration that is built. *)
LEMMA BuiltKept ==
  ASSUME Inv, host \in {"starting", "running", "stopping"},
         UNCHANGED <<gen, wanted, wrapper, next>>,
         host' \in {"starting", "running", "stopping", "idle"},
         \A i \in Gens : i # gen => /\ loops'[i] = loops[i]
                                    /\ i \in conn' => i \in conn
                                    /\ i \in started' \cup stopped' => i \in started \cup stopped
  PROVE  Shared'
<1>1. Built' = Built
  BY DEF Built
<1> QED BY <1>1, GenTypes DEF Inv, Shared, Basic, TypeOK

LEMMA InvStarts ==
  ASSUME Inv, NEW k \in Kinds, Start(k) \/ StartFails(k) \/ StartAgain(k)
  PROVE  Shared' /\ Served'
<1> USE GenTypes DEF receivers
<1>1. /\ host = "starting" /\ k \in wanted \ begun /\ begun' = begun \cup {k}
      /\ UNCHANGED <<gen, wanted, wrapper, ended, store, next, stopped>>
  BY DEF Start, StartFails, StartAgain, WrapperStarts
<1>2. wrapper[k] = gen /\ Built = wanted /\ gen \in Gens /\ wanted \subseteq Kinds /\ gen # None
  BY <1>1 DEF Inv, Shared, Basic, TypeOK
<1>3. Built' = Built
  BY <1>1 DEF Built
<1>4. gen \notin stopped /\ ended = {} /\ (gen \in started <=> begun # {})
  BY <1>1 DEF Inv, Served
<1>5. CASE Start(k)
  <2>1. Registered(gen, k) = wanted
    BY <1>2 DEF Registered, Inv, Shared
  <2>2. /\ started' = started \cup {gen} /\ conn' = conn \cup {gen}
        /\ iters' = [iters EXCEPT ![gen] = wanted] /\ loops' = [loops EXCEPT ![gen] = iters'[gen]]
    BY <1>2, <1>5, <2>1 DEF Start
  <2>3. loops' = [loops EXCEPT ![gen] = wanted]
    BY <1>2, <2>2 DEF Inv, Basic, TypeOK
  <2>4. loops'[gen] = wanted /\ \A i \in Gens : i # gen => loops'[i] = loops[i]
    BY <1>2, <2>3 DEF Inv, Basic, TypeOK
  <2>5. host' \in {"starting", "running"}
    BY <1>5 DEF Start, Progress
  <2>6. Shared'
    BY <1>1, <2>2, <2>4, <2>5, BuiltKept
  <2>7. Served'
    BY <1>1, <1>2, <1>3, <1>4, <2>2, <2>4, <2>5 DEF Served
  <2> QED BY <2>6, <2>7
<1>6. CASE StartFails(k)
  <2>1. started' = started \cup {gen} /\ conn' = conn /\ loops' = loops /\ host' = "stopping"
    BY <1>2, <1>6 DEF StartFails
  <2>2. Shared'
    BY <1>1, <2>1, BuiltKept
  <2>3. Served'
    BY <1>1, <1>3, <1>4, <2>1 DEF Served, Inv
  <2> QED BY <2>2, <2>3
<1>7. CASE StartAgain(k)
  <2>1. UNCHANGED <<started, conn, loops>> /\ gen \in started /\ host' \in {"starting", "running"}
    BY <1>2, <1>7 DEF StartAgain, Progress
  <2>2. Shared'
    BY <1>1, <2>1, BuiltKept
  <2>3. Served'
    BY <1>1, <1>3, <1>4, <2>1 DEF Served, Inv
  <2> QED BY <2>2, <2>3
<1> QED BY <1>5, <1>6, <1>7

LEMMA InvStops ==
  ASSUME Inv, Stop \/ \E k \in Kinds : Shutdown(k) \/ ShutdownAgain(k)
  PROVE  Shared' /\ Served'
<1> USE GenTypes DEF receivers
<1>1. CASE Stop
  <2>1. /\ host = "running" /\ host' = "stopping"
        /\ UNCHANGED <<gen, wanted, wrapper, begun, ended, store, next, started, stopped, conn, loops>>
    BY <1>1 DEF Stop
  <2>2. Built' = Built
    BY <2>1 DEF Built
  <2>3. Shared'
    BY <2>1, BuiltKept
  <2>4. Served'
    BY <2>1, <2>2 DEF Inv, Served
  <2> QED BY <2>3, <2>4
<1>2. ASSUME NEW k \in Kinds, Shutdown(k) \/ ShutdownAgain(k) PROVE Shared' /\ Served'
  <2>1. /\ host = "stopping" /\ k \in wanted \ ended /\ ended' = ended \cup {k}
        /\ host' \in {"idle", "stopping"}
        /\ UNCHANGED <<gen, wanted, wrapper, begun, next, started>>
    BY <1>2 DEF Shutdown, ShutdownAgain, WrapperEnds
  <2>2. wrapper[k] = gen /\ Built = wanted /\ gen \in Gens
    BY <2>1 DEF Inv, Shared, Basic, TypeOK
  <2>3. Built' = Built
    BY <2>1 DEF Built
  <2>4. /\ gen \in stopped' /\ store' = None /\ loops'[gen] = {} /\ gen \notin conn'
        /\ \A i \in Gens : i # gen => /\ loops'[i] = loops[i]
                                      /\ i \in conn' <=> i \in conn
                                      /\ i \in stopped' <=> i \in stopped
    <3>1. CASE Shutdown(k)
      BY <2>2, <3>1 DEF Shutdown, NoLoops, Removed, Inv, Basic, TypeOK
    <3>2. CASE ShutdownAgain(k)
      BY <2>1, <2>2, <3>2 DEF ShutdownAgain, Inv, Served
    <3> QED BY <1>2, <3>1, <3>2
  <2>5. Shared'
    BY <2>1, <2>4, BuiltKept
  <2>6. Served'
    BY <2>1, <2>3, <2>4 DEF Served
  <2> QED BY <2>5, <2>6
<1> QED BY <1>1, <1>2

LEMMA InvStep == Inv /\ [Next]_vars => Inv'
<1> SUFFICES ASSUME Inv, [Next]_vars PROVE Inv'
  OBVIOUS
<1>1. Basic'
  BY TypeStep DEF Inv
<1>2. CASE UNCHANGED vars
  BY <1>1, <1>2 DEF vars, Inv, Shared, Served, Built
<1>3. CASE Next
  BY <1>1, <1>3, InvConfigure, InvCreate, InvCreateFails, InvStarts, InvStops DEF Next, Inv
<1> QED BY <1>2, <1>3

(* Once Start of every wrapper returned nil, most of them without doing    *)
(* anything, a loop runs for every kind of the configuration and feeds the *)
(* consumer of this configuration, whatever earlier ones left behind.      *)
THEOREM EveryKindServed == Spec => []RunningServesEveryKind
<1>1. Inv => RunningServesEveryKind
  BY DEF Inv, Shared, Served, Basic, TypeOK, RunningServesEveryKind
<1> QED BY <1>1, InvInit, InvStep, PTL DEF Spec

(* No loop outlives its configuration, and Shutdown of all wrappers, after *)
(* a failed start too, leaves no connection, no loop and an empty store.   *)
THEOREM NothingOutlivesItsConfiguration == Spec => []StopLeavesNothing
<1>1. Inv => StopLeavesNothing
  <2> SUFFICES ASSUME Inv PROVE StopLeavesNothing
    OBVIOUS
  <2>1. gen \in Gens /\ conn \subseteq Gens
    BY DEF Inv, Basic, TypeOK
  <2>2. host \in {"idle", "building"} => loops[gen] = {}
    BY <2>1 DEF Inv, Basic, Served
  <2>3. \A i \in Gens, k \in Kinds : k \in loops[i] => i = gen /\ next[i][k] = gen
    BY <2>1 DEF Inv, Shared, Served
  <2>4. \A i \in Gens, k \in Kinds : k \in loops[i] => host \in {"starting", "running", "stopping"}
    BY <2>2, <2>3 DEF Inv, Basic, TypeOK
  <2>5. host = "idle" => store = None /\ conn = {} /\ \A i \in Gens : loops[i] = {}
    BY <2>1, <2>2 DEF Inv, Shared, Served
  <2> QED BY <2>3, <2>4, <2>5 DEF StopLeavesNothing
<1> QED BY <1>1, InvInit, InvStep, PTL DEF Spec

=============================================================================
