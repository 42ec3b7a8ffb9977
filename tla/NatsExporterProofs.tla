--------------------------- MODULE NatsExporterProofs ---------------------------
(***************************************************************************)
(* Proofs about one natsJetStreamExporter, for any messages, any limit on  *)
(* the publishes that wait for an answer, and any number of pushes,        *)
(* refusals, lost messages and disconnections.                             *)
(***************************************************************************)
EXTENDS NatsExporter, FiniteSetTheorems, TLAPS

-----------------------------------------------------------------------------
(* Type correctness. *)

(* The client holds finitely many publishes, which gives its limit its     *)
(* meaning when the messages are not finitely many.                        *)
Basic == TypeOK /\ IsFiniteSet(pending)

LEMMA BasicInit == Init => Basic
<1> SUFFICES ASSUME Init PROVE Basic
  OBVIOUS
<1>1. 0 \in 0 .. MaxPushes /\ 0 \in 0 .. MaxFaults /\ MaxPending \in Nat
  BY BoundsAssumption, PendingAssumption
<1>2. IsFiniteSet(pending) /\ Cardinality(pending) = 0
  BY FS_EmptySet DEF Init
<1>3. async \in BOOLEAN /\ subject \in BOOLEAN /\ deadline \in BOOLEAN
  BY DEF Init
<1>4. faults \in 0 .. MaxFaults /\ pushes \in [Msgs -> 0 .. MaxPushes]
  BY <1>1 DEF Init
<1> QED BY <1>1, <1>2, <1>3, <1>4 DEF Init, Basic, TypeOK

(* Answered publishes leave a set that is still small enough. *)
LEMMA PendingShrinks ==
  ASSUME Basic, pending' \subseteq pending
  PROVE  pending' \subseteq Msgs /\ IsFiniteSet(pending') /\ Cardinality(pending') <= MaxPending
<1>1. IsFiniteSet(pending') /\ Cardinality(pending') <= Cardinality(pending)
  BY FS_Subset DEF Basic
<1>2. Cardinality(pending) \in Nat /\ Cardinality(pending') \in Nat
  BY <1>1, FS_CardinalityType DEF Basic
<1> QED BY <1>1, <1>2, PendingAssumption DEF Basic, TypeOK

LEMMA FaultType == Basic /\ Fault => faults' \in 0 .. MaxFaults
  BY BoundsAssumption DEF Basic, TypeOK, Fault

LEMMA PushingType ==
  ASSUME Basic, NEW m \in Msgs, Pushing(m)
  PROVE  pushes' \in [Msgs -> 0 .. MaxPushes]
<1>1. pushes[m] + 1 \in 0 .. MaxPushes
  BY BoundsAssumption DEF Basic, TypeOK, Pushing
<1> QED BY <1>1 DEF Basic, TypeOK, Pushing

(* What is done in a call of a push function. *)
Push(m) == PushSkipped(m) \/ PushGarbled(m) \/ PushSync(m) \/ SyncOk(m) \/ SyncFails(m) \/ PushAsync(m) \/ PushRefused(m)

LEMMA BasicPush ==
  ASSUME Basic, NEW m \in Msgs,
         Push(m)
  PROVE  Basic'
<1> USE DEF setting, component, network, client, Basic, TypeOK, Publishing, Push
<1>1. async' \in BOOLEAN /\ subject' \in BOOLEAN /\ deadline' \in BOOLEAN
  BY DEF PushSkipped, PushGarbled, PushSync, SyncOk, SyncFails, PushAsync, PushRefused
<1>2. CASE PushSync(m)
  BY <1>1, <1>2, PushingType DEF PushSync
<1>3. CASE SyncOk(m)
  BY <1>1, <1>3 DEF SyncOk
<1>4. CASE SyncFails(m)
  BY <1>1, <1>4 DEF SyncFails, SyncVerdict, Classify
<1>5. CASE PushAsync(m)
  <2>1. pending' = pending \cup {m} /\ Cardinality(pending) < MaxPending
    BY <1>5 DEF PushAsync
  <2>2. /\ IsFiniteSet(pending \cup {m}) /\ Cardinality(pending) \in Nat
        /\ Cardinality(pending \cup {m}) \in {Cardinality(pending), Cardinality(pending) + 1}
    BY FS_AddElement, FS_CardinalityType
  <2>3. IsFiniteSet(pending') /\ Cardinality(pending') <= MaxPending
    BY <2>1, <2>2, PendingAssumption
  <2> QED BY <1>1, <1>5, <2>1, <2>3, PushingType DEF PushAsync
<1>6. CASE PushRefused(m)
  BY <1>1, <1>6, PushingType DEF PushRefused, Classify
<1>7. CASE PushSkipped(m)
  BY <1>1, <1>7, PushingType DEF PushSkipped
<1>8. CASE PushGarbled(m)
  BY <1>1, <1>8, PushingType DEF PushGarbled
<1> QED BY <1>2, <1>3, <1>4, <1>5, <1>6, <1>7, <1>8

LEMMA BasicServer ==
  ASSUME Basic, NEW m \in Msgs, Server(m)
  PROVE  Basic'
<1> USE DEF setting, component, network, client, RecordPublishError
<1>1. async' \in BOOLEAN /\ subject' \in BOOLEAN /\ deadline' \in BOOLEAN
  BY DEF Server, Store, Refuse, NoAnswer, Acknowledged, Basic, TypeOK
<1>2. pending' \subseteq pending
  BY DEF Server, Store, Refuse, NoAnswer, Acknowledged
<1>3. faults' \in 0 .. MaxFaults
  BY FaultType DEF Server, Store, Refuse, NoAnswer, Acknowledged, Basic, TypeOK
<1>4. /\ wire' \subseteq Msgs /\ stored' \subseteq Msgs /\ acks' \subseteq Msgs
      /\ dropped' \subseteq Msgs /\ counted' \subseteq Msgs /\ gone' \subseteq Msgs
  BY DEF Server, Store, Refuse, NoAnswer, Acknowledged, Basic, TypeOK
<1>5. UNCHANGED <<phase, pushes, conn, push>>
  BY DEF Server, Store, Refuse, NoAnswer, Acknowledged
<1> QED BY <1>1, <1>2, <1>3, <1>4, <1>5, PendingShrinks DEF Basic, TypeOK

LEMMA BasicOthers ==
  ASSUME Basic, Start \/ StartFails \/ Disconnect \/ Reconnect \/ GiveUp \/ Shutdown
  PROVE  Basic'
<1> USE DEF setting, component, network, client, RecordPublishError, Close, Hangup, Shutdown
<1>1. async' \in BOOLEAN /\ subject' \in BOOLEAN /\ deadline' \in BOOLEAN
  BY DEF Start, StartFails, Disconnect, Reconnect, GiveUp, ShutdownWaits, ShutdownCloses,
     Flushed, ContextDone, Basic, TypeOK
<1>2. pending' \subseteq pending
  BY DEF Start, StartFails, Disconnect, Reconnect, GiveUp, ShutdownWaits, ShutdownCloses,
     Flushed, ContextDone
<1>3. faults' \in 0 .. MaxFaults
  BY FaultType DEF Start, StartFails, Disconnect, Reconnect, GiveUp, ShutdownWaits,
     ShutdownCloses, Flushed, ContextDone, Basic, TypeOK
<1>4. /\ wire' \subseteq Msgs /\ stored' \subseteq Msgs /\ acks' \subseteq Msgs
      /\ dropped' \subseteq Msgs /\ counted' \subseteq Msgs /\ gone' \subseteq Msgs
  BY DEF Start, StartFails, Disconnect, Reconnect, GiveUp, ShutdownWaits, ShutdownCloses,
     Flushed, ContextDone, Basic, TypeOK
<1>5. /\ UNCHANGED <<pushes, push>>
      /\ phase' \in {"new", "started", "failed", "flushing", "closed", "expired"}
      /\ conn' \in {"none", "up", "down", "closed"}
  BY DEF Start, StartFails, Disconnect, Reconnect, GiveUp, ShutdownWaits, ShutdownCloses,
     Flushed, ContextDone, Basic, TypeOK
<1> QED BY <1>1, <1>2, <1>3, <1>4, <1>5, PendingShrinks DEF Basic, TypeOK

LEMMA BasicStep == Basic /\ [Next]_vars => Basic'
<1> SUFFICES ASSUME Basic, [Next]_vars PROVE Basic'
  OBVIOUS
<1>1. CASE UNCHANGED vars
  BY <1>1 DEF vars, Basic, TypeOK
<1> QED BY <1>1, BasicPush, BasicServer, BasicOthers DEF Next, Push

(* Every variable keeps its type; the client never holds more publishes    *)
(* without an answer than it may.                                          *)
THEOREM TypeCorrect == Spec => []TypeOK
<1>1. Basic => TypeOK
  BY DEF Basic
<1> QED BY <1>1, BasicInit, BasicStep, PTL DEF Spec

-----------------------------------------------------------------------------
(* What the answer of a push means. *)

(* The strengthening: an acknowledgement on its way is one of a message in *)
(* the stream; nothing was taken before Start or waits on a connection     *)
(* that is closed; and what was dropped was dropped with it, by the client *)
(* or by an ended context.                                                 *)
Unpushed == phase \in {"new", "failed"} => pending = {} /\ dropped = {}
Connected ==
  /\ phase = "started" => conn # "none"
  /\ phase \in {"closed", "expired"} => conn = "closed"
Dropping ==
  /\ conn \notin {"up", "down"} => pending = {}
  /\ dropped # {} => conn = "closed" /\ phase # "closed"
  /\ ~async => pending = {} /\ dropped = {}

Answers ==
  /\ acks \subseteq stored
  /\ Unpushed /\ Connected /\ Dropping
  /\ SyncOkIsStored
  /\ GivenUpForCause
  /\ \A m \in Msgs : async /\ subject /\ push[m] = "ok" =>
       m \in stored \cup pending \cup counted \cup dropped

(* Nothing takes a message out of the stream, or an error out of the       *)
(* count; what leaves the pending ones unstored is counted or dropped.     *)
LEMMA AnswersPush ==
  ASSUME Basic, Answers, NEW m \in Msgs,
         Push(m)
  PROVE  Answers'
<1> USE DEF setting, component, network, client, Publishing, Push
<1>1. /\ UNCHANGED <<async, subject, phase, conn, stored, dropped, counted>> /\ acks' \subseteq acks
      /\ pending' = pending \/ (async /\ phase = "started" /\ conn # "closed" /\ pending' = pending \cup {m})
      /\ \A q \in Msgs : q # m => push'[q] = push[q] /\ (q \in gone' <=> q \in gone)
  BY DEF PushSkipped, PushGarbled, PushSync, SyncOk, SyncFails, PushAsync, PushRefused, Pushing,
     Basic, TypeOK
<1>2. /\ ~async /\ subject /\ push'[m] = "ok" => m \in stored
      /\ async /\ subject /\ push'[m] = "ok" => m \in stored \cup pending'
      /\ push'[m] = "permanent" => m \in Garbled \cup gone'
  <2>1. CASE PushSync(m)
    BY <2>1 DEF PushSync, Basic, TypeOK
  <2>2. CASE SyncOk(m)
    BY <2>2 DEF SyncOk, Answers, Basic, TypeOK
  <2>3. CASE SyncFails(m)
    BY <2>3 DEF SyncFails, SyncVerdict, Classify, Basic, TypeOK
  <2>4. CASE PushAsync(m)
    BY <2>4 DEF PushAsync, Basic, TypeOK
  <2>5. CASE PushRefused(m)
    BY <2>5 DEF PushRefused, Classify, Basic, TypeOK
  <2>6. CASE PushSkipped(m) \/ PushGarbled(m)
    BY <2>6 DEF PushSkipped, PushGarbled, Basic, TypeOK
  <2> QED BY <2>1, <2>2, <2>3, <2>4, <2>5, <2>6
<1>3. conn = "closed" \/ conn \in {"up", "down"} \/ phase # "started"
  BY DEF Basic, TypeOK, Answers, Connected
<1> QED
  BY <1>1, <1>2, <1>3 DEF Answers, Unpushed, Connected, Dropping, SyncOkIsStored, GivenUpForCause

LEMMA AnswersNetwork ==
  ASSUME Basic, Answers, \E m \in Msgs : Server(m)
  PROVE  Answers'
<1> USE DEF setting, component, network, client, RecordPublishError
<1>1. /\ UNCHANGED <<async, subject, phase, conn, push, dropped>>
      /\ gone \subseteq gone' /\ stored \subseteq stored' /\ acks' \subseteq stored'
  BY DEF Server, Store, Refuse, NoAnswer, Acknowledged, Answers
<1>2. /\ pending' \subseteq pending /\ counted \subseteq counted'
      /\ pending \subseteq pending' \cup counted' \cup stored'
  BY DEF Server, Store, Refuse, NoAnswer, Acknowledged, Answers
<1> QED
  BY <1>1, <1>2 DEF Answers, Unpushed, Connected, Dropping, SyncOkIsStored, GivenUpForCause

LEMMA AnswersLife ==
  ASSUME Basic, Answers, Start \/ StartFails \/ Disconnect \/ Reconnect \/ GiveUp \/ Shutdown
  PROVE  Answers'
<1> USE DEF setting, component, network, client, RecordPublishError, Close, Hangup, Shutdown
<1>1. /\ UNCHANGED <<async, subject, push, gone, stored>> /\ acks' \subseteq acks
      /\ pending' \subseteq pending /\ counted \subseteq counted' /\ dropped \subseteq dropped'
      /\ pending \subseteq pending' \cup counted' \cup dropped'
      /\ dropped' \subseteq dropped \cup pending
  BY DEF Start, StartFails, Disconnect, Reconnect, GiveUp, ShutdownWaits, ShutdownCloses,
     Flushed, ContextDone
<1>2. Unpushed'
  BY DEF Start, StartFails, Disconnect, Reconnect, GiveUp, ShutdownWaits, ShutdownCloses,
     Flushed, ContextDone, Answers, Unpushed
<1>3. Connected'
  BY DEF Start, StartFails, Disconnect, Reconnect, GiveUp, ShutdownWaits, ShutdownCloses,
     Flushed, ContextDone, Answers, Connected
<1>4. Dropping'
  <2>1. CASE Start \/ StartFails
    BY <2>1 DEF Start, StartFails, Answers, Unpushed, Dropping
  <2>2. CASE Disconnect \/ Reconnect
    BY <2>2 DEF Disconnect, Reconnect, Answers, Dropping
  <2>3. CASE GiveUp
    BY <2>3 DEF GiveUp, Answers, Connected, Dropping
  <2>4. CASE ShutdownWaits
    BY <2>4 DEF ShutdownWaits, Answers, Dropping
  <2>5. CASE ShutdownCloses
    BY <2>5 DEF ShutdownCloses, MustFlush, Answers, Unpushed, Dropping
  <2>6. CASE Flushed \/ ContextDone
    BY <2>6 DEF Flushed, ContextDone, Answers, Dropping
  <2> QED BY <2>1, <2>2, <2>3, <2>4, <2>5, <2>6
<1> QED BY <1>1, <1>2, <1>3, <1>4 DEF Answers, SyncOkIsStored, GivenUpForCause

LEMMA AnswersInit == Init => Basic /\ Answers
  BY BasicInit
     DEF Init, Answers, Unpushed, Connected, Dropping, SyncOkIsStored, GivenUpForCause

LEMMA AnswersStep == Basic /\ Answers /\ [Next]_vars => (Basic /\ Answers)'
<1> SUFFICES ASSUME Basic, Answers, [Next]_vars PROVE (Basic /\ Answers)'
  OBVIOUS
<1>1. CASE UNCHANGED vars
  BY <1>1, BasicStep
     DEF vars, setting, Answers, Unpushed, Connected, Dropping, SyncOkIsStored, GivenUpForCause
<1>2. CASE Next
  BY <1>2, BasicStep, AnswersPush, AnswersNetwork, AnswersLife DEF Next, Push
<1> QED BY <1>1, <1>2

(* A push of a signal that has a subject and is published synchronously    *)
(* returns nil only when the message is in the stream, through any         *)
(* timeouts, repeated pushes and reconnections before it.                  *)
THEOREM OkMeansStored == Spec => []SyncOkIsStored
<1>1. Answers => SyncOkIsStored
  BY DEF Answers
<1> QED BY <1>1, AnswersInit, AnswersStep, PTL DEF Spec

(* Only a message that cannot be marshalled, or that the server refused,   *)
(* is given up for good; a missing answer never is an answer.              *)
THEOREM PermanentForCause == Spec => []GivenUpForCause
<1>1. Answers => GivenUpForCause
  BY DEF Answers
<1> QED BY <1>1, AnswersInit, AnswersStep, PTL DEF Spec

(* A message that publishAsync took is in the stream, was counted as an    *)
(* error, may still be answered, or was dropped with a connection that the *)
(* client gave up or that Shutdown closed when its context ended: through  *)
(* any disconnections, refusals and orders of answers.                     *)
THEOREM AsyncNeverForgotten == Spec => []AsyncAccounted
<1>1. Answers => AsyncAccounted
  BY DEF Answers, Dropping, AsyncAccounted
<1> QED BY <1>1, AnswersInit, AnswersStep, PTL DEF Spec

=============================================================================
