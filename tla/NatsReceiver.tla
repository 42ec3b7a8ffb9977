---------------------------- MODULE NatsReceiver ----------------------------
(***************************************************************************)
(* The NATS JetStream receiver for one signal                              *)
(* (receiver/natsjetstreamreceiver, receiver.go): Start, signalLoop,       *)
(* handleMessage, ackOrNak and Shutdown, in several collectors that share  *)
(* one durable consumer.                                                   *)
(*                                                                         *)
(* External, modelled from the use made of it: the JetStream server and    *)
(* its client.  A message is delivered at most MaxDeliver times; it is     *)
(* redelivered when AckWait passes without an answer or when the delay of  *)
(* a nak is over; an ack or a term settles it whichever delivery it        *)
(* answers; answers may be lost.  Next asks the server for messages with a *)
(* pull that expires after a while; the client keeps what is delivered in  *)
(* a buffer that Next takes from.  After Drain no more arrive, and Next    *)
(* reports a closed iterator once the buffer is empty.                     *)
(***************************************************************************)
EXTENDS Naturals, Sequences, FiniteSets

CONSTANTS
  Receivers,      \* collectors with the same consumer name
  Msgs,           \* messages of the stream
  Poison,         \* messages that do not unmarshal
  NoMsg,
  MaxDeliver,     \* Config.MaxDeliver
  MaxAckPending,  \* Config.MaxAckPending
  MaxFaults,      \* bound on refusals, fetch errors and lost answers
  MaxStops        \* bound on shutdowns and crashes

ASSUME MsgsAssumption == Poison \subseteq Msgs /\ NoMsg \notin Msgs
ASSUME LimitsAssumption == MaxDeliver \in Nat \ {0} /\ MaxAckPending \in Nat \ {0}
ASSUME BoundsAssumption == MaxFaults \in Nat /\ MaxStops \in Nat

VARIABLES
  srv,        \* the server's view of each message
  deliveries, \* times each message was delivered
  expired,    \* times AckWait passed over each message
  consumed,   \* times the next consumer accepted each message
  refused,    \* messages the next consumer refused for good
  pull,       \* the server holds a pull of this receiver
  buf,        \* delivered messages waiting in each receiver's iterator
  iter,       \* each receiver's iterator
  loop,       \* where each signalLoop is
  cur,        \* the message each loop handles
  verdict,    \* what the loop is about to answer
  cancelled,  \* the loop's context is done
  conn,       \* the connection is open
  shut,       \* where Shutdown is
  stops,      \* shutdowns and crashes so far
  faults      \* failures so far

server == <<srv, deliveries, expired>>
next   == <<consumed, refused>>
client == <<pull, buf, iter, conn>>
looping == <<loop, cur, verdict>>
vars == <<srv, deliveries, expired, consumed, refused, pull, buf, iter, loop, cur,
          verdict, cancelled, conn, shut, stops, faults>>

Settled == {"acked", "termed", "exhausted"}

TypeOK ==
  /\ srv \in [Msgs -> {"ready", "pending", "delayed"} \cup Settled]
  /\ deliveries \in [Msgs -> 0 .. MaxDeliver]
  /\ expired \in [Msgs -> Nat]
  /\ consumed \in [Msgs -> Nat]
  /\ refused \subseteq Msgs
  /\ pull \in [Receivers -> BOOLEAN]
  /\ buf \in [Receivers -> Seq(Msgs)]
  /\ iter \in [Receivers -> {"none", "open", "draining", "closed"}]
  /\ loop \in [Receivers -> {"off", "check", "next", "handle", "answer", "backoff", "gone"}]
  /\ cur \in [Receivers -> Msgs \cup {NoMsg}]
  /\ verdict \in [Receivers -> {"none", "ack", "term", "nak"}]
  /\ cancelled \in [Receivers -> BOOLEAN]
  /\ conn \in [Receivers -> BOOLEAN]
  /\ shut \in [Receivers -> {"no", "drain", "wait", "done"}]
  /\ stops \in 0 .. MaxStops
  /\ faults \in 0 .. MaxFaults

Init ==
  /\ srv = [m \in Msgs |-> "ready"]
  /\ deliveries = [m \in Msgs |-> 0]
  /\ expired = [m \in Msgs |-> 0]
  /\ consumed = [m \in Msgs |-> 0]
  /\ refused = {}
  /\ pull = [r \in Receivers |-> FALSE]
  /\ buf = [r \in Receivers |-> <<>>]
  /\ iter = [r \in Receivers |-> "none"]
  /\ loop = [r \in Receivers |-> "off"]
  /\ cur = [r \in Receivers |-> NoMsg]
  /\ verdict = [r \in Receivers |-> "none"]
  /\ cancelled = [r \in Receivers |-> FALSE]
  /\ conn = [r \in Receivers |-> FALSE]
  /\ shut = [r \in Receivers |-> "no"]
  /\ stops = 0
  /\ faults = 0

Fault == faults < MaxFaults /\ faults' = faults + 1

-----------------------------------------------------------------------------
(* The server. *)

AckPending == Cardinality({m \in Msgs : srv[m] \in {"pending", "delayed"}})

Deliver(r, m) ==
  /\ pull[r] /\ iter[r] = "open" /\ conn[r]
  /\ srv[m] = "ready" /\ deliveries[m] < MaxDeliver
  /\ AckPending < MaxAckPending
  /\ srv' = [srv EXCEPT ![m] = "pending"]
  /\ deliveries' = [deliveries EXCEPT ![m] = @ + 1]
  /\ buf' = [buf EXCEPT ![r] = Append(@, m)]
  /\ UNCHANGED <<expired, next, pull, iter, conn, looping, cancelled, shut, stops, faults>>

(* Delivered once more, or never again. *)
Again(m) == IF deliveries[m] < MaxDeliver THEN "ready" ELSE "exhausted"

PullExpires(r) ==
  /\ pull[r]
  /\ pull' = [pull EXCEPT ![r] = FALSE]
  /\ UNCHANGED <<server, next, buf, iter, conn, looping, cancelled, shut, stops, faults>>

AckWaitPasses(m) ==
  /\ srv[m] = "pending"
  /\ srv' = [srv EXCEPT ![m] = Again(m)]
  /\ expired' = [expired EXCEPT ![m] = @ + 1]
  /\ UNCHANGED <<deliveries, next, client, looping, cancelled, shut, stops, faults>>

NakDelayPasses(m) ==
  /\ srv[m] = "delayed"
  /\ srv' = [srv EXCEPT ![m] = Again(m)]
  /\ UNCHANGED <<deliveries, expired, next, client, looping, cancelled, shut, stops, faults>>

-----------------------------------------------------------------------------
(* Start: connect, create the consumer and its iterator, start the loop.   *)
(* A step of it that fails closes the connection, and the collector is     *)
(* started anew.                                                           *)

Starting(r) == loop[r] = "off" /\ shut[r] = "no" /\ ~conn[r] /\ iter[r] = "none"

StartFails(r) ==
  /\ Starting(r)
  /\ Fault
  /\ UNCHANGED <<server, next, client, looping, cancelled, shut, stops>>

Start(r) ==
  /\ Starting(r)
  /\ conn' = [conn EXCEPT ![r] = TRUE]
  /\ iter' = [iter EXCEPT ![r] = "open"]
  /\ loop' = [loop EXCEPT ![r] = "check"]
  /\ UNCHANGED <<server, next, pull, buf, cur, verdict, cancelled, shut, stops, faults>>

-----------------------------------------------------------------------------
(* signalLoop. *)

(* The select at the top of the loop. *)
Check(r) ==
  /\ loop[r] = "check"
  /\ loop' = [loop EXCEPT ![r] = IF cancelled[r] THEN "gone" ELSE "next"]
  /\ UNCHANGED <<server, next, client, cur, verdict, cancelled, shut, stops, faults>>

(* iter.Next() asks for messages ... *)
Ask(r) ==
  /\ loop[r] = "next" /\ iter[r] = "open" /\ ~pull[r]
  /\ pull' = [pull EXCEPT ![r] = TRUE]
  /\ UNCHANGED <<server, next, buf, iter, conn, looping, cancelled, shut, stops, faults>>

(* ... and returns one ... *)
TakeMsg(r) ==
  /\ loop[r] = "next" /\ iter[r] \in {"open", "draining"} /\ buf[r] # <<>>
  /\ cur' = [cur EXCEPT ![r] = Head(buf[r])]
  /\ buf' = [buf EXCEPT ![r] = Tail(@)]
  /\ loop' = [loop EXCEPT ![r] = "handle"]
  /\ UNCHANGED <<server, next, pull, iter, conn, verdict, cancelled, shut, stops, faults>>

(* ... or finds the iterator drained ... *)
IterClosed(r) ==
  /\ loop[r] = "next" /\ iter[r] = "draining" /\ buf[r] = <<>>
  /\ iter' = [iter EXCEPT ![r] = "closed"]
  /\ loop' = [loop EXCEPT ![r] = "gone"]
  /\ UNCHANGED <<server, next, pull, buf, conn, cur, verdict, cancelled, shut, stops, faults>>

(* ... or fails, after which the loop waits for a second or for ctx.  The  *)
(* mutant returns instead of going on.                                     *)
LoopEnds        == "gone"
AfterFetchError == "backoff"

FetchError(r) ==
  /\ loop[r] = "next" /\ iter[r] \in {"open", "draining"}
  /\ Fault
  /\ loop' = [loop EXCEPT ![r] = AfterFetchError]
  /\ UNCHANGED <<server, next, client, cur, verdict, cancelled, shut, stops>>

BackoffEnds(r) ==
  /\ loop[r] = "backoff"
  /\ \E after \in {"check"} \cup {a \in {"gone"} : cancelled[r]} :
       loop' = [loop EXCEPT ![r] = after]
  /\ UNCHANGED <<server, next, client, cur, verdict, cancelled, shut, stops, faults>>

(* handleMessage: unmarshal, hand over, and decide what to answer. *)
Decide(r, v) ==
  /\ verdict' = [verdict EXCEPT ![r] = v]
  /\ loop' = [loop EXCEPT ![r] = "answer"]

HandlePoison(r) ==
  /\ loop[r] = "handle" /\ cur[r] \in Poison
  /\ Decide(r, "term")
  /\ UNCHANGED <<server, next, client, cur, cancelled, shut, stops, faults>>

(* ackOrNak.  The mutants swap nil for an error, and term for nak.         *)
NilIsNak       == "nak"
OnNil          == "ack"
RetryableTerm  == "term"
OnRetryable    == "nak"

HandleOk(r) ==
  /\ loop[r] = "handle" /\ cur[r] \notin Poison
  /\ consumed' = [consumed EXCEPT ![cur[r]] = @ + 1]
  /\ Decide(r, OnNil)
  /\ UNCHANGED <<server, refused, client, cur, cancelled, shut, stops, faults>>

HandleRetryable(r) ==
  /\ loop[r] = "handle" /\ cur[r] \notin Poison
  /\ Fault
  /\ Decide(r, OnRetryable)
  /\ UNCHANGED <<server, next, client, cur, cancelled, shut, stops>>

HandlePermanent(r) ==
  /\ loop[r] = "handle" /\ cur[r] \notin Poison
  /\ Fault
  /\ refused' = refused \cup {cur[r]}
  /\ Decide(r, "term")
  /\ UNCHANGED <<server, consumed, client, cur, cancelled, shut, stops>>

(* The server takes an ack or a term unless the message is settled, and a  *)
(* nak if the message waits for an answer.                                 *)
Answered(m, v) ==
  CASE v = "ack"  /\ srv[m] \notin Settled  -> "acked"
    [] v = "term" /\ srv[m] \notin Settled  -> "termed"
    [] v = "nak"  /\ srv[m] = "pending"     -> "delayed"
    [] OTHER                                -> srv[m]

(* On to the next message. *)
HandlingEnds(r) ==
  /\ cur' = [cur EXCEPT ![r] = NoMsg]
  /\ verdict' = [verdict EXCEPT ![r] = "none"]
  /\ loop' = [loop EXCEPT ![r] = "check"]

Answer(r) ==
  /\ loop[r] = "answer" /\ conn[r]
  /\ srv' = [srv EXCEPT ![cur[r]] = Answered(cur[r], verdict[r])]
  /\ HandlingEnds(r)
  /\ UNCHANGED <<deliveries, expired, next, client, cancelled, shut, stops, faults>>

(* The answer fails or gets lost: it is logged at most. *)
AnswerLost(r) ==
  /\ loop[r] = "answer"
  /\ Fault
  /\ HandlingEnds(r)
  /\ UNCHANGED <<server, next, client, cancelled, shut, stops>>

-----------------------------------------------------------------------------
(* Shutdown: cancel, drain the iterator, wait for the loop, close.         *)

Cancel(r) ==
  /\ shut[r] = "no" /\ conn[r] /\ stops < MaxStops
  /\ stops' = stops + 1
  /\ cancelled' = [cancelled EXCEPT ![r] = TRUE]
  /\ shut' = [shut EXCEPT ![r] = "drain"]
  /\ UNCHANGED <<server, next, client, looping, faults>>

(* Drain wakes a Next that waits on an empty buffer.  The mutant leaves    *)
(* the iterator alone and relies on the context.                           *)
LeftOpen(r) == iter[r]
Drained(r)  == IF iter[r] = "open" THEN "draining" ELSE iter[r]

Drain(r) ==
  /\ shut[r] = "drain"
  /\ iter' = [iter EXCEPT ![r] = Drained(r)]
  /\ shut' = [shut EXCEPT ![r] = "wait"]
  /\ UNCHANGED <<server, next, pull, buf, conn, looping, cancelled, stops, faults>>

(* shutdownWG.Wait().  The mutant closes the connection at once. *)
NoWait(r)   == TRUE
LoopGone(r) == loop[r] \in {"off", "gone"}

CloseConn(r) ==
  /\ shut[r] = "wait" /\ LoopGone(r)
  /\ conn' = [conn EXCEPT ![r] = FALSE]
  /\ shut' = [shut EXCEPT ![r] = "done"]
  /\ UNCHANGED <<server, next, pull, buf, iter, looping, cancelled, stops, faults>>

(* A new collector takes the place of one that has stopped, or crashed.    *)
Fresh(r) ==
  /\ pull' = [pull EXCEPT ![r] = FALSE]
  /\ buf' = [buf EXCEPT ![r] = <<>>]
  /\ iter' = [iter EXCEPT ![r] = "none"]
  /\ loop' = [loop EXCEPT ![r] = "off"]
  /\ cur' = [cur EXCEPT ![r] = NoMsg]
  /\ verdict' = [verdict EXCEPT ![r] = "none"]
  /\ cancelled' = [cancelled EXCEPT ![r] = FALSE]
  /\ conn' = [conn EXCEPT ![r] = FALSE]
  /\ shut' = [shut EXCEPT ![r] = "no"]

Replace(r) ==
  /\ shut[r] = "done"
  /\ Fresh(r)
  /\ UNCHANGED <<server, next, stops, faults>>

Crash(r) ==
  /\ shut[r] # "done" /\ conn[r] /\ stops < MaxStops
  /\ stops' = stops + 1
  /\ Fresh(r)
  /\ UNCHANGED <<server, next, faults>>

-----------------------------------------------------------------------------
Loop(r) ==
  \/ Check(r) \/ Ask(r) \/ TakeMsg(r) \/ IterClosed(r) \/ FetchError(r) \/ BackoffEnds(r)
  \/ HandlePoison(r) \/ HandleOk(r) \/ HandleRetryable(r) \/ HandlePermanent(r)
  \/ Answer(r) \/ AnswerLost(r)

Stopping(r) == Drain(r) \/ CloseConn(r)

Next ==
  \/ \E r \in Receivers : \/ Start(r) \/ StartFails(r) \/ Loop(r) \/ Cancel(r) \/ Stopping(r)
                          \/ Replace(r) \/ Crash(r) \/ PullExpires(r)
                          \/ \E m \in Msgs : Deliver(r, m)
  \/ \E m \in Msgs : AckWaitPasses(m) \/ NakDelayPasses(m)

Spec == Init /\ [][Next]_vars

(* Goroutines run, timers fire, a collector that went away comes back, and *)
(* the server delivers what is ready to somebody who asks.                 *)
Fairness ==
  /\ \A r \in Receivers : /\ WF_vars(Loop(r)) /\ WF_vars(Stopping(r))
                          /\ WF_vars(Start(r)) /\ WF_vars(Replace(r))
  /\ \A r \in Receivers : WF_vars(PullExpires(r))
  /\ \A m \in Msgs : /\ WF_vars(AckWaitPasses(m)) /\ WF_vars(NakDelayPasses(m))
                     /\ SF_vars(\E r \in Receivers : Deliver(r, m))

FairSpec == Spec /\ Fairness

-----------------------------------------------------------------------------
(* Properties. *)

(* What the stream can rely on: an ack says that the next consumer has the *)
(* data, a term that the message does not parse or was refused for good    *)
(* (ackOrNak, handleMessage), the server gives up only after MaxDeliver    *)
(* deliveries, and through crashes, redeliveries and lost answers a        *)
(* message leaves the stream once.                                         *)
Outcome(m) == CASE srv[m] = "acked"     -> "done"
                [] srv[m] = "termed"    -> "dropped"
                [] srv[m] = "exhausted" -> "given up"
                [] OTHER                -> "queued"

D == INSTANCE Delivery WITH outcome <- [m \in Msgs |-> Outcome(m)], tries <- deliveries,
                            taken <- {m \in Msgs : consumed[m] > 0}

ImplementsDelivery == D!Spec

(* The receiver hands a message over a second time only after AckWait has  *)
(* passed over it: not because of a refusal, a nak or another receiver.    *)
DuplicatesOnlyByAckWait == \A m \in Msgs : consumed[m] <= 1 + expired[m]

(* Shutdown closes the connection when the loop is gone: no message is     *)
(* handed over that can no longer be answered.                             *)
NoHandlingAfterClose ==
  \A r \in Receivers : loop[r] \in {"handle", "answer"} => conn[r]

(* A message waits for an answer or a redelivery for as long as it is not  *)
(* settled, and in the end it is, through crashes and lost answers.        *)
EveryMessageSettles == \A m \in Msgs : <>(srv[m] \in Settled)

(* Shutdown returns, even while Next waits for a message. *)
ShutdownReturns == \A r \in Receivers : shut[r] = "drain" ~> shut[r] \in {"done", "no"}

(* "Graceful shutdown with Drain() to process in-flight messages": when    *)
(* the loop ends, the messages already delivered have been handled.        *)
InFlightProcessed == \A r \in Receivers : loop[r] = "gone" => buf[r] = <<>>
=============================================================================
