---------------------------- MODULE NatsExporter ----------------------------
(***************************************************************************)
(* One natsJetStreamExporter (exporter/natsjetstreamexporter, exporter.go):*)
(* Start, the push functions with publishSync and publishAsync,            *)
(* classifyError, the handler of asynchronous failures, and Shutdown.      *)
(*                                                                         *)
(* External, modelled from the use made of it: the NATS connection, which  *)
(* goes down and may come up again, takes messages also while it is down,  *)
(* and on coming up fails what waits for an acknowledgement; the server,   *)
(* which may refuse a message or never answer; and what feeds the          *)
(* exporter, which pushes only to a started exporter, stops before it, and *)
(* may push again what was refused.  There is an exporter for each signal  *)
(* (factory.go): all messages of one have the same subject, or none.       *)
(***************************************************************************)
EXTENDS Naturals, FiniteSets

CONSTANTS
  Msgs,
  Garbled,    \* those that MarshalProto fails for
  MaxPending, \* asynchronous publishes the client holds
  MaxPushes,  \* bound on pushes of one message
  MaxFaults   \* bound on refusals, lost messages and disconnections

ASSUME GarbledAssumption == Garbled \subseteq Msgs
ASSUME PendingAssumption == MaxPending \in Nat \ {0}
ASSUME BoundsAssumption == MaxPushes \in Nat /\ MaxFaults \in Nat

VARIABLES
  async,    \* Config.PublishAsync
  subject,  \* Config.Subjects has one for the signal
  deadline, \* the context given to Shutdown has a deadline
  phase,   \* of the component
  conn,    \* of the connection
  push,    \* what became of the last push of each message
  pushes,  \* pushes of each message
  wire,    \* messages on their way to the server
  stored,  \* messages in the stream
  acks,    \* messages whose acknowledgement is on its way
  pending, \* asynchronous publishes that wait for an answer
  dropped, \* those that waited when the connection was closed
  counted, \* messages recordPublishError was called for
  gone,    \* messages the server refused for want of the stream
  faults

setting   == <<async, subject, deadline>>
component == <<setting, phase, pushes>>
network   == <<conn, wire, stored, acks>>
client    == <<pending, dropped, counted>>
vars == <<async, subject, deadline, phase, conn, push, pushes, wire, stored, acks, pending, dropped,
          counted, gone, faults>>

TypeOK ==
  /\ async \in BOOLEAN /\ subject \in BOOLEAN /\ deadline \in BOOLEAN
  /\ phase \in {"new", "started", "failed", "flushing", "closed", "expired"}
  /\ conn \in {"none", "up", "down", "closed"}
  /\ push \in [Msgs -> {"idle", "waiting", "ok", "retryable", "permanent"}]
  /\ pushes \in [Msgs -> 0 .. MaxPushes]
  /\ wire \subseteq Msgs /\ stored \subseteq Msgs /\ acks \subseteq Msgs
  /\ pending \subseteq Msgs /\ Cardinality(pending) <= MaxPending
  /\ dropped \subseteq Msgs /\ counted \subseteq Msgs
  /\ gone \subseteq Msgs
  /\ faults \in 0 .. MaxFaults

Init ==
  /\ async \in BOOLEAN /\ subject \in BOOLEAN /\ deadline \in BOOLEAN
  /\ phase = "new" /\ conn = "none"
  /\ push = [m \in Msgs |-> "idle"]
  /\ pushes = [m \in Msgs |-> 0]
  /\ wire = {} /\ stored = {} /\ acks = {}
  /\ pending = {} /\ dropped = {} /\ counted = {} /\ gone = {}
  /\ faults = 0

Fault == faults < MaxFaults /\ faults' = faults + 1

-----------------------------------------------------------------------------
(* Start: connect, and look for the stream. *)

Start ==
  /\ phase = "new"
  /\ phase' = "started" /\ conn' = "up"
  /\ UNCHANGED <<setting, push, pushes, wire, stored, acks, client, gone, faults>>

StartFails ==
  /\ phase = "new"
  /\ Fault
  /\ phase' = "failed" /\ conn' \in {"none", "closed"}
  /\ UNCHANGED <<setting, push, pushes, wire, stored, acks, client, gone>>

-----------------------------------------------------------------------------
(* pushTraces, pushMetrics, pushLogs. *)

Pushing(m) ==
  /\ phase = "started"
  /\ push[m] \in {"idle", "retryable"} /\ pushes[m] < MaxPushes
  /\ pushes' = [pushes EXCEPT ![m] = @ + 1]

(* "Subject not configured, skip": nil, and nothing is published. *)
PushSkipped(m) ==
  /\ Pushing(m) /\ ~subject
  /\ push' = [push EXCEPT ![m] = "ok"]
  /\ UNCHANGED <<setting, phase, network, client, gone, faults>>

PushGarbled(m) ==
  /\ Pushing(m) /\ subject /\ m \in Garbled
  /\ push' = [push EXCEPT ![m] = "permanent"]
  /\ UNCHANGED <<setting, phase, network, client, gone, faults>>

(* Everything else goes to publish. *)
Publishing(m) == Pushing(m) /\ subject /\ m \notin Garbled

-----------------------------------------------------------------------------
(* publish. *)

(* classifyError: the stream that does not exist is the one error that     *)
(* stays.  The mutant takes a stream that does not answer for one that     *)
(* does not exist.                                                         *)
SilentIsPermanent(e) == IF e \in {"stream_not_found", "no_response"} THEN "permanent"
                                                                     ELSE "retryable"
Classify(e) == IF e = "stream_not_found" THEN "permanent" ELSE "retryable"

(* publishSync sends the message and waits for its acknowledgement ...     *)
PushSync(m) ==
  /\ ~async /\ Publishing(m) /\ conn # "closed"
  /\ push' = [push EXCEPT ![m] = "waiting"]
  /\ wire' = wire \cup {m} /\ acks' = acks \ {m} /\ gone' = gone \ {m}
  /\ UNCHANGED <<setting, phase, conn, stored, client, faults>>

SyncOk(m) ==
  /\ push[m] = "waiting" /\ m \in acks /\ conn = "up"
  /\ push' = [push EXCEPT ![m] = "ok"]
  /\ acks' = acks \ {m}
  /\ UNCHANGED <<component, conn, wire, stored, client, gone, faults>>

(* ... or for as long as it may take: the message may be in the stream.    *)
(* The mutant reports success.                                             *)
ErrorIgnored(e) == "ok"
SyncVerdict(e)  == Classify(e)

SyncFails(m) ==
  /\ push[m] = "waiting"
  /\ \E e \in {"timeout", "no_response"} \cup {x \in {"stream_not_found"} : m \in gone} :
       push' = [push EXCEPT ![m] = SyncVerdict(e)]
  /\ UNCHANGED <<component, network, client, gone, faults>>

(* publishAsync hands the message to the client and returns. *)
PushAsync(m) ==
  /\ async /\ Publishing(m) /\ conn # "closed" /\ Cardinality(pending) < MaxPending
  /\ push' = [push EXCEPT ![m] = "ok"]
  /\ wire' = wire \cup {m} /\ pending' = pending \cup {m}
  /\ UNCHANGED <<setting, phase, conn, stored, acks, dropped, counted, gone, faults>>

(* Too many wait for an answer, or the connection is closed. *)
PushRefused(m) ==
  /\ Publishing(m)
  /\ conn = "closed" \/ (async /\ Cardinality(pending) = MaxPending)
  /\ push' = [push EXCEPT ![m] = Classify("other")]
  /\ UNCHANGED <<setting, phase, network, client, gone, faults>>

-----------------------------------------------------------------------------
(* The server and the connection. *)

Store(m) ==
  /\ conn = "up" /\ m \in wire
  /\ wire' = wire \ {m} /\ stored' = stored \cup {m} /\ acks' = acks \cup {m}
  /\ UNCHANGED <<component, conn, push, client, gone, faults>>

(* The handler registered in Start, for an answer that is an error.  The   *)
(* mutant logs it and leaves the counter alone.                            *)
OnlyLogged(S)         == UNCHANGED counted
RecordPublishError(S) == counted' = counted \cup S

(* The server refuses the message, which a synchronous caller is told too. *)
Refuse(m) ==
  /\ conn = "up" /\ m \in wire
  /\ Fault
  /\ wire' = wire \ {m}
  /\ gone' = gone \cup {m}
  /\ pending' = pending \ {m}
  /\ RecordPublishError({m} \cap pending)
  /\ UNCHANGED <<component, conn, push, stored, acks, dropped>>

(* The message gets lost, or the server never answers. *)
NoAnswer(m) ==
  /\ m \in wire
  /\ Fault
  /\ wire' = wire \ {m}
  /\ UNCHANGED <<component, conn, push, stored, acks, client, gone>>

Acknowledged(m) ==
  /\ conn = "up" /\ m \in acks \cap pending
  /\ acks' = acks \ {m} /\ pending' = pending \ {m}
  /\ UNCHANGED <<component, conn, push, wire, stored, dropped, counted, gone, faults>>

Disconnect ==
  /\ conn = "up"
  /\ Fault
  /\ conn' = "down" /\ acks' = {}
  /\ UNCHANGED <<component, push, wire, stored, client, gone>>

(* The client fails the publishes that wait for an answer. *)
Reconnect ==
  /\ conn = "down"
  /\ conn' = "up" /\ pending' = {}
  /\ RecordPublishError(pending)
  /\ UNCHANGED <<component, push, wire, stored, acks, dropped, gone, faults>>

(* Nobody will answer for what waits when the connection is closed. *)
Hangup(waiting) ==
  /\ conn' = "closed" /\ wire' = {} /\ acks' = {}
  /\ pending' = {} /\ dropped' = dropped \cup waiting

(* MaxReconnects is reached; the client may or may not fail what waits.    *)
GiveUp ==
  /\ conn = "down"
  /\ Fault
  /\ \E failed \in {{}, pending} : Hangup(pending \ failed) /\ RecordPublishError(failed)
  /\ UNCHANGED <<component, push, stored, gone>>

-----------------------------------------------------------------------------
(* Shutdown. *)

Close(end) ==
  /\ phase' = end
  /\ Hangup(pending)
  /\ UNCHANGED <<setting, push, pushes, stored, counted, gone, faults>>

(* Nothing to wait for in synchronous mode. *)
MustFlush == async

Fed == \E m \in Msgs : push[m] = "waiting"

ShutdownWaits ==
  /\ phase = "started" /\ ~Fed
  /\ MustFlush
  /\ phase' = "flushing"
  /\ UNCHANGED <<setting, push, pushes, network, client, gone, faults>>

ShutdownCloses ==
  /\ phase \in {"started", "failed"} /\ ~Fed
  /\ phase = "started" => ~MustFlush
  /\ Close("closed")

(* PublishAsyncComplete is closed when every publish has its answer: never *)
(* again once one has been dropped.                                        *)
Flushed ==
  /\ phase = "flushing" /\ pending = {} /\ dropped = {}
  /\ Close("closed")

(* The select also has ctx.Done(); the mutant only waits.                  *)
CtxIgnored == FALSE
CtxDone    == deadline

ContextDone ==
  /\ phase = "flushing" /\ CtxDone
  /\ Close("expired")

-----------------------------------------------------------------------------
Shutdown == ShutdownWaits \/ ShutdownCloses \/ Flushed \/ ContextDone

Server(m) == Store(m) \/ Refuse(m) \/ NoAnswer(m) \/ Acknowledged(m)

Next ==
  \/ Start \/ StartFails
  \/ \E m \in Msgs : \/ PushSkipped(m) \/ PushGarbled(m)
                     \/ PushSync(m) \/ SyncOk(m) \/ SyncFails(m)
                     \/ PushAsync(m) \/ PushRefused(m)
                     \/ Server(m)
  \/ Disconnect \/ Reconnect \/ GiveUp
  \/ Shutdown

Spec == Init /\ [][Next]_vars

(* A synchronous publish times out, and a server that can be reached       *)
(* answers; nothing makes the connection come up again.                    *)
Fairness ==
  /\ \A m \in Msgs : WF_vars(SyncOk(m) \/ SyncFails(m)) /\ WF_vars(Server(m))
  /\ WF_vars(Flushed \/ ContextDone)

FairSpec == Spec /\ Fairness

-----------------------------------------------------------------------------
(* Properties. *)

(* publishSync: a push of a signal that has a subject and returns nil has  *)
(* put the message in the stream, through timeouts, repeated pushes and    *)
(* reconnections.  (Without a subject nil means that it was skipped.)      *)
SyncOkIsStored == \A m \in Msgs : ~async /\ subject /\ push[m] = "ok" => m \in stored

(* classifyError and the push functions: a push fails for good only when   *)
(* the message cannot be marshalled or its last publish was refused for    *)
(* want of the stream, never because an answer is missing: whoever feeds   *)
(* the exporter gives such a message up.                                   *)
GivenUpForCause == \A m \in Msgs : push[m] = "permanent" => m \in Garbled \cup gone

(* publishAsync, the error handler and Shutdown: a message that was taken  *)
(* is in the stream, or counted as an error, or may still be answered.  It *)
(* is dropped without a count only with a connection that the client gave  *)
(* up, or that Shutdown closed because its context ended: a Shutdown that  *)
(* has flushed leaves none.                                                *)
AsyncAccounted ==
  \A m \in Msgs : async /\ subject /\ push[m] = "ok" =>
    \/ m \in stored \cup counted
    \/ m \in pending /\ conn \in {"up", "down"}
    \/ m \in dropped /\ conn = "closed" /\ phase # "closed"

(* Shutdown returns when its context ends, whatever the server does.       *)
ShutdownEnds == deadline => (phase = "flushing" ~> phase \in {"closed", "expired"})
=============================================================================
