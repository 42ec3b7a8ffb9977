------------------------- MODULE NatsReceiverProofs -------------------------
(***************************************************************************)
(* Proofs about the NATS JetStream receiver, for any number of collectors, *)
(* messages, redeliveries, faults and crashes: what the stream is promised *)
(* (Delivery) is kept.                                                     *)
(***************************************************************************)
EXTENDS NatsReceiver, SequenceTheorems, FiniteSetTheorems, TLAPS

Busy == {"handle", "answer"}

(* A loop is at a message that was delivered, and so was every message in  *)
(* a buffer; the answer it is about to give is earned; and it runs over an *)
(* open connection.                                                        *)
Delivered(m) == deliveries[m] > 0

AtMessage(r) == loop[r] \in Busy => cur[r] \in Msgs /\ Delivered(cur[r])
Buffered(r)  == \A n \in 1 .. Len(buf[r]) : Delivered(buf[r][n])
Earned(r)    == loop[r] = "answer" =>
                  /\ verdict[r] = "ack"  => consumed[cur[r]] > 0
                  /\ verdict[r] = "term" => cur[r] \in Poison \cup refused
Connected(r) == loop[r] \notin {"off", "gone"} => conn[r]

Good(r) == AtMessage(r) /\ Buffered(r) /\ Earned(r) /\ Connected(r)

Inv == TypeOK /\ \A r \in Receivers : Good(r)

-----------------------------------------------------------------------------
LEMMA InvInit == Init => Inv
  BY MsgsAssumption, LimitsAssumption, BoundsAssumption
     DEF Init, Inv, TypeOK, Settled, Busy, Good, AtMessage, Buffered, Earned, Connected

(* Type correctness, action by action. *)
LEMMA TypeServer ==
  ASSUME Inv,
         \/ \E r \in Receivers, m \in Msgs : Deliver(r, m)
         \/ \E r \in Receivers : PullExpires(r)
         \/ \E m \in Msgs : AckWaitPasses(m) \/ NakDelayPasses(m)
  PROVE  TypeOK'
<1> USE MsgsAssumption, LimitsAssumption, BoundsAssumption
<1> USE DEF Inv, TypeOK, Settled, server, next, client, looping
<1>1. ASSUME NEW r \in Receivers, NEW m \in Msgs, Deliver(r, m) PROVE TypeOK'
  <2>1. buf' \in [Receivers -> Seq(Msgs)]
    <3>1. Append(buf[r], m) \in Seq(Msgs)
      BY AppendProperties
    <3> QED BY <1>1, <3>1 DEF Deliver
  <2> QED BY <1>1, <2>1 DEF Deliver
<1>2. ASSUME NEW r \in Receivers, PullExpires(r) PROVE TypeOK'
  <2>1. pull' \in [Receivers -> BOOLEAN]
    BY <1>2, Zenon DEF PullExpires
  <2> QED BY <1>2, <2>1 DEF PullExpires
<1>3. ASSUME NEW m \in Msgs, AckWaitPasses(m) \/ NakDelayPasses(m) PROVE TypeOK'
  <2>1. srv' \in [Msgs -> {"ready", "pending", "delayed"} \cup Settled]
    BY <1>3 DEF AckWaitPasses, NakDelayPasses, Again
  <2>2. expired' \in [Msgs -> Nat]
    <3>1. AckWaitPasses(m) => expired' \in [Msgs -> Nat]
      BY DEF AckWaitPasses
    <3>2. NakDelayPasses(m) => expired' \in [Msgs -> Nat]
      BY DEF NakDelayPasses
    <3> QED BY <1>3, <3>1, <3>2
  <2>3. UNCHANGED <<deliveries, consumed, refused, pull, buf, iter, conn, loop, cur, verdict,
                    cancelled, shut, stops, faults>>
    BY <1>3 DEF AckWaitPasses, NakDelayPasses
  <2> QED BY <2>1, <2>2, <2>3
<1> QED BY <1>1, <1>2, <1>3

LEMMA TypeLoop ==
  ASSUME Inv, NEW r \in Receivers, Loop(r)
  PROVE  TypeOK'
<1> USE MsgsAssumption, LimitsAssumption, BoundsAssumption
<1> USE DEF Inv, TypeOK, Settled, server, next, client, looping, Fault
<1>1. CASE Check(r)
  BY <1>1 DEF Check
<1>7. CASE Ask(r)
  <2>1. pull' \in [Receivers -> BOOLEAN]
    BY <1>7, Zenon DEF Ask
  <2> QED BY <1>7, <2>1 DEF Ask
<1>8. CASE IterClosed(r)
  BY <1>8 DEF IterClosed
<1>10. CASE FetchError(r)
  BY <1>10 DEF FetchError, AfterFetchError
<1>9. CASE BackoffEnds(r)
  <2>1. PICK after \in {"check", "gone"} : loop' = [loop EXCEPT ![r] = after]
    BY <1>9 DEF BackoffEnds
  <2>2. loop' \in [Receivers -> {"off", "check", "next", "handle", "answer", "backoff", "gone"}]
    BY <2>1
  <2> QED BY <1>9, <2>2 DEF BackoffEnds
<1>2. CASE TakeMsg(r)
  <2>1. Head(buf[r]) \in Msgs /\ Tail(buf[r]) \in Seq(Msgs)
    BY <1>2, HeadTailProperties DEF TakeMsg
  <2> QED BY <1>2, <2>1 DEF TakeMsg
<1>3. CASE HandlePoison(r)
  BY <1>3 DEF HandlePoison, Decide
<1>12. CASE HandleRetryable(r)
  BY <1>12 DEF HandleRetryable, Decide, OnRetryable
<1>11. CASE HandlePermanent(r)
  <2>1. cur[r] \in Msgs
    BY <1>11 DEF HandlePermanent, Good, AtMessage, Busy
  <2> QED BY <1>11, <2>1 DEF HandlePermanent, Decide
<1>4. CASE HandleOk(r)
  <2>1. cur[r] \in Msgs
    BY <1>4 DEF HandleOk, Good, AtMessage, Busy
  <2>2. consumed' \in [Msgs -> Nat]
    BY <1>4, <2>1 DEF HandleOk
  <2> QED BY <1>4, <2>2 DEF HandleOk, Decide, OnNil
<1>5. CASE Answer(r)
  <2>1. srv' \in [Msgs -> {"ready", "pending", "delayed"} \cup Settled]
    BY <1>5 DEF Answer, Answered, Good, AtMessage, Busy
  <2> QED BY <1>5, <2>1 DEF Answer, HandlingEnds
<1>6. CASE AnswerLost(r)
  BY <1>6 DEF AnswerLost, HandlingEnds
<1> QED BY <1>1, <1>2, <1>3, <1>4, <1>5, <1>6, <1>7, <1>8, <1>9, <1>10, <1>11, <1>12 DEF Loop

LEMMA TypeLife ==
  ASSUME Inv, NEW r \in Receivers,
         \/ Start(r) \/ StartFails(r) \/ Cancel(r) \/ Stopping(r) \/ Replace(r) \/ Crash(r)
  PROVE  TypeOK'
<1> USE MsgsAssumption, LimitsAssumption, BoundsAssumption
<1> USE DEF Inv, TypeOK, server, next, client, looping, Fault
<1>1. CASE StartFails(r)
  BY <1>1 DEF StartFails
<1>2. CASE Start(r)
  <2>1. conn' \in [Receivers -> BOOLEAN]
    BY <1>2, Zenon DEF Start
  <2> QED BY <1>2, <2>1 DEF Start
<1>3. CASE Cancel(r)
  <2>1. cancelled' \in [Receivers -> BOOLEAN]
    BY <1>3, Zenon DEF Cancel
  <2> QED BY <1>3, <2>1 DEF Cancel
<1>4. CASE Drain(r)
  BY <1>4 DEF Drain, Drained
<1>5. CASE CloseConn(r)
  <2>1. conn' \in [Receivers -> BOOLEAN]
    BY <1>5, Zenon DEF CloseConn
  <2> QED BY <1>5, <2>1 DEF CloseConn
<1>6. CASE Replace(r) \/ Crash(r)
  <2>1. Fresh(r)
    BY <1>6 DEF Replace, Crash
  <2>2. pull' \in [Receivers -> BOOLEAN]
    BY <2>1, Zenon DEF Fresh
  <2>3. conn' \in [Receivers -> BOOLEAN]
    BY <2>1, Zenon DEF Fresh
  <2>4. cancelled' \in [Receivers -> BOOLEAN]
    BY <2>1, Zenon DEF Fresh
  <2>5. /\ buf' \in [Receivers -> Seq(Msgs)]
        /\ iter' \in [Receivers -> {"none", "open", "draining", "closed"}]
        /\ loop' \in [Receivers -> {"off", "check", "next", "handle", "answer", "backoff", "gone"}]
        /\ cur' \in [Receivers -> Msgs \cup {NoMsg}]
        /\ verdict' \in [Receivers -> {"none", "ack", "term", "nak"}]
        /\ shut' \in [Receivers -> {"no", "drain", "wait", "done"}]
    BY <2>1 DEF Fresh
  <2>6. UNCHANGED <<srv, deliveries, expired, consumed, refused, faults>> /\ stops' \in 0 .. MaxStops
    BY <1>6 DEF Replace, Crash
  <2> QED BY <2>2, <2>3, <2>4, <2>5, <2>6
<1> QED BY <1>1, <1>2, <1>3, <1>4, <1>5, <1>6 DEF Stopping

LEMMA TypeStep == Inv /\ [Next]_vars => TypeOK'
<1>1. Inv /\ UNCHANGED vars => TypeOK'
  BY DEF Inv, TypeOK, vars
<1> QED BY <1>1, TypeServer, TypeLoop, TypeLife DEF Next

-----------------------------------------------------------------------------
(* What was delivered, accepted or refused remains so, and a collector     *)
(* whose own state does not change stays as it should be.                  *)
Grows ==
  /\ \A m \in Msgs : /\ deliveries[m] > 0 => deliveries'[m] > 0
                     /\ consumed[m] > 0 => consumed'[m] > 0
  /\ refused \subseteq refused'

Frame(q) == /\ loop'[q] = loop[q] /\ cur'[q] = cur[q] /\ verdict'[q] = verdict[q]
            /\ buf'[q] = buf[q] /\ conn'[q] = conn[q]

LEMMA Stays ==
  ASSUME Inv, Grows, NEW q \in Receivers, Frame(q)
  PROVE  Good(q)'
<1> USE DEF Inv, Good, TypeOK, Grows, Frame, Busy
<1>1. \A n \in 1 .. Len(buf[q]) : buf[q][n] \in Msgs
  BY ElementOfSeq
<1>2. Buffered(q)'
  BY <1>1 DEF Buffered, Delivered
<1>3. AtMessage(q)'
  BY DEF AtMessage, Delivered
<1>4. Earned(q)'
  BY DEF Earned, AtMessage
<1>5. Connected(q)'
  BY DEF Connected
<1> QED BY <1>2, <1>3, <1>4, <1>5

LEMMA GoodServer ==
  ASSUME Inv,
         \/ \E r \in Receivers, m \in Msgs : Deliver(r, m)
         \/ \E r \in Receivers : PullExpires(r)
         \/ \E m \in Msgs : AckWaitPasses(m) \/ NakDelayPasses(m)
  PROVE  \A q \in Receivers : Good(q)'
<1> USE DEF server, next, client, looping
<1>1. ASSUME NEW r \in Receivers, NEW m \in Msgs, Deliver(r, m), NEW q \in Receivers PROVE Good(q)'
  <2>1. Grows
    BY <1>1 DEF Deliver, Grows, Inv, TypeOK
  <2>2. CASE q # r
    BY <1>1, <2>1, <2>2, Stays DEF Deliver, Frame, Inv, TypeOK
  <2>3. CASE q = r
    <3>1. AtMessage(r)' /\ Earned(r)' /\ Connected(r)'
      BY <1>1, <2>1 DEF Deliver, Grows, Inv, TypeOK, Good, AtMessage, Delivered, Earned, Connected, Busy
    <3>2. buf'[r] = Append(buf[r], m) /\ buf[r] \in Seq(Msgs) /\ deliveries'[m] > 0
      BY <1>1 DEF Deliver, Inv, TypeOK
    <3>3. Len(buf'[r]) = Len(buf[r]) + 1 /\ Len(buf[r]) \in Nat
          /\ buf'[r][Len(buf[r]) + 1] = m /\ \A n \in 1 .. Len(buf[r]) : buf'[r][n] = buf[r][n]
      BY <3>2, AppendProperties, LenProperties
    <3>4. \A n \in 1 .. Len(buf[r]) : buf[r][n] \in Msgs /\ deliveries[buf[r][n]] > 0
      BY <3>2, ElementOfSeq DEF Inv, Good, Buffered, Delivered
    <3>5. Buffered(r)'
      BY <2>1, <3>2, <3>3, <3>4 DEF Buffered, Delivered, Grows
    <3> QED BY <2>3, <3>1, <3>5 DEF Good
  <2> QED BY <2>2, <2>3
<1>2. ASSUME NEW r \in Receivers, PullExpires(r), NEW q \in Receivers PROVE Good(q)'
  BY <1>2, Stays DEF PullExpires, Frame, Grows
<1>3. ASSUME NEW m \in Msgs, AckWaitPasses(m) \/ NakDelayPasses(m), NEW q \in Receivers
      PROVE  Good(q)'
  BY <1>3, Stays DEF AckWaitPasses, NakDelayPasses, Frame, Grows
<1> QED BY <1>1, <1>2, <1>3

LEMMA GoodLoop ==
  ASSUME Inv, NEW r \in Receivers, Loop(r)
  PROVE  \A q \in Receivers : Good(q)'
<1> USE DEF server, next, client, looping, Fault
<1>0. cur[r] \in Msgs \/ loop[r] \notin Busy
  BY DEF Inv, Good, AtMessage
<1>1. Grows
  <2>1. CASE HandleOk(r)
    <3>1. cur[r] \in Msgs
      BY <1>0, <2>1 DEF HandleOk, Busy
    <3> QED BY <2>1, <3>1 DEF HandleOk, Grows, Inv, TypeOK
  <2>2. CASE HandlePermanent(r)
    BY <2>2 DEF HandlePermanent, Grows
  <2>3. CASE ~HandleOk(r) /\ ~HandlePermanent(r)
    <3>1. UNCHANGED <<deliveries, consumed, refused>>
      BY <2>3 DEF Loop, Check, Ask, TakeMsg, IterClosed, FetchError, BackoffEnds, HandlePoison,
         HandleRetryable, Answer, AnswerLost
    <3> QED BY <3>1 DEF Grows
  <2> QED BY <2>1, <2>2, <2>3
<1>2. ASSUME NEW q \in Receivers, q # r PROVE Good(q)'
  <2>1. Frame(q)
    BY <1>2 DEF Loop, Check, Ask, TakeMsg, IterClosed, FetchError, BackoffEnds, HandlePoison, HandleOk,
       HandleRetryable, HandlePermanent, Answer, AnswerLost, Decide, HandlingEnds, Frame, Inv, TypeOK
  <2> QED BY <1>1, <2>1, Stays
<1>3. Connected(r)'
  BY DEF Loop, Check, Ask, TakeMsg, IterClosed, FetchError, AfterFetchError, BackoffEnds, HandlePoison,
     HandleOk, HandleRetryable, HandlePermanent, Answer, AnswerLost, Decide, HandlingEnds,
     Inv, TypeOK, Good, Connected
<1>4. CASE TakeMsg(r)
  <2>1. buf[r] \in Seq(Msgs) /\ buf[r] # <<>> /\ buf'[r] = Tail(buf[r]) /\ cur'[r] = Head(buf[r])
        /\ loop'[r] = "handle" /\ UNCHANGED deliveries
    BY <1>4 DEF TakeMsg, Inv, TypeOK
  <2>2. Head(buf[r]) = buf[r][1] /\ Len(buf[r]) \in Nat \ {0}
    BY <2>1, HeadTailProperties, LenProperties, EmptySeq
  <2>3. cur'[r] \in Msgs /\ deliveries[cur'[r]] > 0
    BY <2>1, <2>2, ElementOfSeq DEF Inv, Good, Buffered, Delivered
  <2>4. Buffered(r)'
    <3>1. \A n \in 1 .. Len(Tail(buf[r])) : n + 1 \in 1 .. Len(buf[r]) /\ Tail(buf[r])[n] = buf[r][n + 1]
      BY <2>1, <2>2, HeadTailProperties
    <3> QED BY <2>1, <3>1 DEF Inv, Good, Buffered, Delivered
  <2> QED BY <1>2, <1>3, <2>1, <2>3, <2>4 DEF Good, AtMessage, Delivered, Earned
<1>5. CASE ~TakeMsg(r)
  <2>1. buf' = buf /\ (loop'[r] \in Busy => loop[r] \in Busy /\ cur'[r] = cur[r])
    BY <1>5 DEF Loop, Check, Ask, IterClosed, FetchError, AfterFetchError, BackoffEnds, HandlePoison,
       HandleOk, HandleRetryable, HandlePermanent, Answer, AnswerLost, Decide, HandlingEnds, Busy,
       Inv, TypeOK
  <2>2. Buffered(r)'
    <3>1. \A n \in 1 .. Len(buf[r]) : buf[r][n] \in Msgs
      BY ElementOfSeq DEF Inv, TypeOK
    <3> QED BY <1>1, <2>1, <3>1 DEF Inv, Good, Buffered, Delivered, Grows
  <2>3. AtMessage(r)'
    BY <1>1, <2>1 DEF Inv, Good, AtMessage, Delivered, Grows
  <2>4. Earned(r)'
    BY <1>0, <1>5 DEF Loop, Check, Ask, IterClosed, FetchError, AfterFetchError, BackoffEnds, HandlePoison,
       HandleOk, HandleRetryable, HandlePermanent, Answer, AnswerLost, Decide, HandlingEnds, Busy,
       OnNil, OnRetryable, Inv, TypeOK, Good, Earned
  <2> QED BY <1>2, <1>3, <2>2, <2>3, <2>4 DEF Good
<1> QED BY <1>4, <1>5

LEMMA GoodLife ==
  ASSUME Inv, NEW r \in Receivers,
         \/ Start(r) \/ StartFails(r) \/ Cancel(r) \/ Stopping(r) \/ Replace(r) \/ Crash(r)
  PROVE  \A q \in Receivers : Good(q)'
<1> USE DEF server, next, client, looping, Fault
<1>1. Grows
  BY DEF Start, StartFails, Cancel, Stopping, Drain, CloseConn, Replace, Crash, Grows
<1>2. ASSUME NEW q \in Receivers, q # r PROVE Good(q)'
  <2>1. Frame(q)
    BY <1>2 DEF Start, StartFails, Cancel, Stopping, Drain, CloseConn, Replace, Crash, Fresh, Frame,
       Inv, TypeOK
  <2> QED BY <1>1, <2>1, Stays
<1>3. CASE StartFails(r) \/ Cancel(r) \/ Drain(r)
  BY <1>1, <1>2, <1>3, Stays DEF StartFails, Cancel, Drain, Frame
<1>4. CASE Start(r)
  <2>1. loop'[r] = "check" /\ conn'[r] /\ buf' = buf /\ UNCHANGED deliveries
    BY <1>4 DEF Start, Inv, TypeOK
  <2> QED BY <1>2, <2>1 DEF Inv, Good, AtMessage, Buffered, Delivered, Earned, Connected, Busy
<1>5. CASE CloseConn(r)
  <2>1. loop'[r] \in {"off", "gone"} /\ buf' = buf /\ UNCHANGED deliveries
    BY <1>5 DEF CloseConn, LoopGone
  <2> QED BY <1>2, <2>1 DEF Inv, Good, AtMessage, Buffered, Delivered, Earned, Connected, Busy
<1>6. CASE Replace(r) \/ Crash(r)
  <2>1. loop'[r] = "off" /\ buf'[r] = <<>>
    BY <1>6 DEF Replace, Crash, Fresh, Inv, TypeOK
  <2> QED BY <1>2, <2>1 DEF Good, AtMessage, Buffered, Earned, Connected, Busy
<1> QED BY <1>3, <1>4, <1>5, <1>6 DEF Stopping

LEMMA InvStep == Inv /\ [Next]_vars => Inv'
<1>1. Inv /\ UNCHANGED vars => \A q \in Receivers : Good(q)'
  BY DEF Inv, Good, AtMessage, Buffered, Delivered, Earned, Connected, vars
<1>2. Inv /\ [Next]_vars => \A q \in Receivers : Good(q)'
  BY <1>1, GoodServer, GoodLoop, GoodLife DEF Next
<1> QED BY <1>2, TypeStep DEF Inv

THEOREM Invariance == Spec => []Inv
  BY InvInit, InvStep, PTL DEF Spec

(* The state variables keep their types.                                   *)
THEOREM TypeCorrect == Spec => []TypeOK
<1>1. Inv => TypeOK
  BY DEF Inv
<1> QED BY <1>1, Invariance, PTL

(* No message is handed over that can no longer be answered: Shutdown      *)
(* closes the connection after the loop is gone, and a loop that begins    *)
(* finds it open.                                                          *)
THEOREM HandlesConnected == Spec => []NoHandlingAfterClose
<1>1. Inv => NoHandlingAfterClose
  BY DEF Inv, Good, Connected, NoHandlingAfterClose
<1> QED BY <1>1, Invariance, PTL

-----------------------------------------------------------------------------
(* The refinement: what each step is to the stream.                        *)

LEMMA StartsQueued == Init => D!Init
  BY DEF Init, D!Init, Outcome

(* A step that changes none of what the stream sees is none to it.         *)
LEMMA Unseen ==
  ASSUME UNCHANGED <<srv, deliveries, consumed, refused>>
  PROVE  UNCHANGED D!vars
BY DEF D!vars, Outcome

(* A message that changes its place with the server.                       *)
LEMMA Moves ==
  ASSUME Inv, NEW m \in Msgs, NEW s, srv' = [srv EXCEPT ![m] = s]
  PROVE  [n \in Msgs |-> Outcome(n)]' =
           [[n \in Msgs |-> Outcome(n)] EXCEPT
              ![m] = CASE s = "acked"     -> "done"
                       [] s = "termed"    -> "dropped"
                       [] s = "exhausted" -> "given up"
                       [] OTHER           -> "queued"]
BY DEF Inv, TypeOK, Outcome

LEMMA DeliverTries ==
  ASSUME Inv, NEW r \in Receivers, NEW m \in Msgs, Deliver(r, m)
  PROVE  D!Try(m)
<1>1. srv[m] = "ready" /\ srv' = [srv EXCEPT ![m] = "pending"] /\ UNCHANGED <<consumed, refused>>
      /\ deliveries[m] < MaxDeliver /\ deliveries' = [deliveries EXCEPT ![m] = @ + 1]
  BY DEF Deliver, next
<1>2. [n \in Msgs |-> Outcome(n)]' = [n \in Msgs |-> Outcome(n)]
  <2>1. \A n \in Msgs : Outcome(n)' = Outcome(n)
    BY <1>1 DEF Inv, TypeOK, Outcome
  <2> QED BY <2>1
<1> QED BY <1>1, <1>2 DEF D!Try, Outcome

(* The server gives up on a message that was delivered MaxDeliver times,   *)
(* and queues any other again.                                             *)
LEMMA GivesUp ==
  ASSUME Inv, NEW m \in Msgs, srv[m] \in {"pending", "delayed"},
         srv' = [srv EXCEPT ![m] = Again(m)], UNCHANGED <<deliveries, consumed, refused>>
  PROVE  D!GiveUp(m) \/ UNCHANGED D!vars
<1>1. CASE deliveries[m] < MaxDeliver
  <2>1. \A n \in Msgs : Outcome(n)' = Outcome(n)
    BY <1>1 DEF Again, Inv, TypeOK, Outcome
  <2> QED BY <2>1 DEF D!vars
<1>2. CASE ~(deliveries[m] < MaxDeliver)
  <2>1. deliveries[m] = MaxDeliver
    BY <1>2, LimitsAssumption DEF Inv, TypeOK
  <2>2. srv' = [srv EXCEPT ![m] = "exhausted"] /\ Outcome(m) = "queued"
    BY <1>2 DEF Again, Outcome
  <2>3. [n \in Msgs |-> Outcome(n)]' = [[n \in Msgs |-> Outcome(n)] EXCEPT ![m] = "given up"]
    BY <2>2, Moves
  <2> QED BY <2>1, <2>2, <2>3 DEF D!GiveUp, D!Leaves
<1> QED BY <1>1, <1>2

LEMMA AcceptTakes ==
  ASSUME Inv, NEW r \in Receivers, NEW m \in Msgs, cur[r] = m, HandleOk(r)
  PROVE  D!Take(m)
<1>1. m \notin Poison /\ deliveries[m] > 0
  BY DEF HandleOk, Inv, Good, AtMessage, Delivered, Busy
<1>2. consumed' = [consumed EXCEPT ![m] = @ + 1] /\ UNCHANGED <<srv, deliveries, refused>>
  BY DEF HandleOk, server
<1>3. {n \in Msgs : consumed[n] > 0}' = {n \in Msgs : consumed[n] > 0} \cup {m}
  BY <1>2 DEF Inv, TypeOK
<1>4. [n \in Msgs |-> Outcome(n)]' = [n \in Msgs |-> Outcome(n)]
  BY <1>2 DEF Outcome
<1> QED BY <1>1, <1>2, <1>3, <1>4 DEF D!Take, D!Tried

LEMMA RefusalRefuses ==
  ASSUME Inv, NEW r \in Receivers, HandlePermanent(r)
  PROVE  D!Refuse(cur[r])
<1>1. cur[r] \in Msgs \ Poison /\ deliveries[cur[r]] > 0
  BY DEF HandlePermanent, Inv, Good, AtMessage, Delivered, Busy
<1>2. refused' = refused \cup {cur[r]} /\ UNCHANGED <<srv, deliveries, consumed>>
  BY DEF HandlePermanent, server
<1>3. [n \in Msgs |-> Outcome(n)]' = [n \in Msgs |-> Outcome(n)]
  BY <1>2 DEF Outcome
<1> QED BY <1>1, <1>2, <1>3 DEF D!Refuse, D!Tried

(* An answer settles a message that is still queued, and only as earned.   *)
LEMMA AnswerSettles ==
  ASSUME Inv, NEW r \in Receivers, Answer(r)
  PROVE  D!Settle(cur[r]) \/ D!Drop(cur[r]) \/ UNCHANGED D!vars
<1> DEFINE m == cur[r]
<1>1. m \in Msgs /\ srv' = [srv EXCEPT ![m] = Answered(m, verdict[r])]
      /\ UNCHANGED <<deliveries, consumed, refused>>
  BY DEF Answer, next, Inv, Good, AtMessage, Busy
<1>2. CASE verdict[r] = "ack" /\ srv[m] \notin Settled
  <2>1. m \in {n \in Msgs : consumed[n] > 0}
    BY <1>1, <1>2 DEF Answer, Inv, Good, Earned
  <2>2. srv' = [srv EXCEPT ![m] = "acked"] /\ Outcome(m) = "queued"
    BY <1>1, <1>2 DEF Answered, Outcome, Settled
  <2>3. [n \in Msgs |-> Outcome(n)]' = [[n \in Msgs |-> Outcome(n)] EXCEPT ![m] = "done"]
    BY <1>1, <2>2, Moves
  <2> QED BY <1>1, <2>1, <2>2, <2>3 DEF D!Settle, D!Leaves
<1>3. CASE verdict[r] = "term" /\ srv[m] \notin Settled
  <2>1. m \in Poison \cup refused
    BY <1>3 DEF Answer, Inv, Good, Earned
  <2>2. srv' = [srv EXCEPT ![m] = "termed"] /\ Outcome(m) = "queued"
    BY <1>1, <1>3 DEF Answered, Outcome, Settled
  <2>3. [n \in Msgs |-> Outcome(n)]' = [[n \in Msgs |-> Outcome(n)] EXCEPT ![m] = "dropped"]
    BY <1>1, <2>2, Moves
  <2> QED BY <1>1, <2>1, <2>2, <2>3 DEF D!Drop, D!Leaves
<1>4. CASE verdict[r] \notin {"ack", "term"} \/ srv[m] \in Settled
  <2>1. \A n \in Msgs : Outcome(n)' = Outcome(n)
    BY <1>1, <1>4 DEF Answered, Outcome, Settled, Inv, TypeOK
  <2> QED BY <1>1, <2>1 DEF D!vars
<1> QED BY <1>2, <1>3, <1>4

(* Every other step of a collector is its own affair.                      *)
LEMMA LoopSeen ==
  ASSUME Inv, NEW r \in Receivers, Loop(r)
  PROVE  D!Next \/ UNCHANGED D!vars
<1>1. loop[r] \in Busy => cur[r] \in Msgs
  BY DEF Inv, Good, AtMessage
<1>2. CASE HandleOk(r)
  <2>1. cur[r] \in Msgs
    BY <1>1, <1>2 DEF HandleOk, Busy
  <2> QED BY <1>2, <2>1, AcceptTakes DEF D!Next
<1>3. CASE HandlePermanent(r)
  BY <1>1, <1>3, RefusalRefuses DEF HandlePermanent, Busy, D!Next
<1>4. CASE Answer(r)
  <2>1. cur[r] \in Msgs
    BY <1>1, <1>4 DEF Answer, Busy
  <2> QED BY <1>4, <2>1, AnswerSettles DEF D!Next
<1>5. CASE ~HandleOk(r) /\ ~HandlePermanent(r) /\ ~Answer(r)
  <2>1. UNCHANGED <<srv, deliveries, consumed, refused>>
    BY <1>5 DEF Loop, Check, Ask, TakeMsg, IterClosed, FetchError, BackoffEnds, HandlePoison,
       HandleRetryable, AnswerLost, server, next
  <2> QED BY <2>1, Unseen
<1> QED BY <1>2, <1>3, <1>4, <1>5

LEMMA StepSeen == Inv /\ [Next]_vars => [D!Next]_(D!vars)
<1> SUFFICES ASSUME Inv, [Next]_vars PROVE D!Next \/ UNCHANGED D!vars
  OBVIOUS
<1>1. CASE UNCHANGED vars
  BY <1>1, Unseen DEF vars
<1>2. ASSUME NEW r \in Receivers,
             \/ Start(r) \/ StartFails(r) \/ Cancel(r) \/ Stopping(r) \/ Replace(r) \/ Crash(r)
             \/ PullExpires(r)
      PROVE  UNCHANGED D!vars
  BY <1>2, Unseen DEF Start, StartFails, Cancel, Stopping, Drain, CloseConn, Replace, Crash, PullExpires,
     server, next
<1>3. ASSUME NEW r \in Receivers, NEW m \in Msgs, Deliver(r, m) PROVE D!Next
  BY <1>3, DeliverTries DEF D!Next
<1>4. ASSUME NEW m \in Msgs, AckWaitPasses(m) \/ NakDelayPasses(m) PROVE D!Next \/ UNCHANGED D!vars
  <2>1. D!GiveUp(m) \/ UNCHANGED D!vars
    BY <1>4, GivesUp DEF AckWaitPasses, NakDelayPasses, next
  <2> QED BY <2>1 DEF D!Next
<1> QED BY <1>1, <1>2, <1>3, <1>4, LoopSeen DEF Next

(* Through crashes, redeliveries, lost answers and shutdowns of any number *)
(* of collectors, a message leaves the stream once, and only because the   *)
(* next consumer took it, it is of no use, or it was delivered MaxDeliver  *)
(* times.                                                                  *)
THEOREM Implements == Spec => ImplementsDelivery
  BY StartsQueued, StepSeen, Invariance, PTL DEF Spec, ImplementsDelivery, D!Spec

-----------------------------------------------------------------------------
(* Duplicates.  A copy of a message that may still be handed over is in a  *)
(* buffer, at a loop before the hand-over, or at a loop that is about to   *)
(* nak it: the nak will bring another.  Place 0 of a collector is its      *)
(* loop, the others are those of its buffer.                               *)
Unhandled(q) == loop[q] = "handle" \/ (loop[q] = "answer" /\ verdict[q] = "nak")

Holds(q, n, m) ==
  \/ n = 0 /\ Unhandled(q) /\ cur[q] = m
  \/ n \in 1 .. Len(buf[q]) /\ buf[q][n] = m

Places(m) == {x \in Receivers \X Nat : Holds(x[1], x[2], m)}

(* The server will send one more, unless AckWait passes first. *)
Owed(m) == IF srv[m] \in {"ready", "delayed"} THEN 1 ELSE 0

(* Every hand-over, every copy and the one the server owes is paid for: by *)
(* the message itself, and by each time that AckWait passed over it.       *)
Paid(m) ==
  /\ IsFiniteSet(Places(m))
  /\ consumed[m] + Cardinality(Places(m)) + Owed(m) <= 1 + expired[m]

AllPaid == \A m \in Msgs : Paid(m)

LEMMA PaidInit == Init => AllPaid
<1> SUFFICES ASSUME Init, NEW m \in Msgs PROVE Paid(m)
  BY DEF AllPaid
<1>1. Places(m) = {}
  BY DEF Init, Places, Holds, Unhandled
<1>2. IsFiniteSet(Places(m)) /\ Cardinality(Places(m)) = 0
  BY <1>1, FS_EmptySet
<1> QED BY <1>2 DEF Init, Paid, Owed

(* A step after which no new place holds the message, ...                  *)
LEMMA Lowers ==
  ASSUME NEW m \in Msgs, TypeOK, TypeOK', Paid(m),
         \A q \in Receivers, n \in Nat : Holds(q, n, m)' => Holds(q, n, m),
         consumed'[m] + Owed(m)' + expired[m] <= consumed[m] + Owed(m) + expired'[m]
  PROVE  Paid(m)'
<1>1. Places(m)' \subseteq Places(m)
  BY DEF Places
<1>2. IsFiniteSet(Places(m)') /\ Cardinality(Places(m)') <= Cardinality(Places(m))
  BY <1>1, FS_Subset DEF Paid
<1>3. Cardinality(Places(m)) \in Nat /\ Cardinality(Places(m)') \in Nat
  BY <1>2, FS_CardinalityType DEF Paid
<1>4. {consumed[m], expired[m], consumed'[m], expired'[m], Owed(m), Owed(m)'} \subseteq Nat
  BY DEF TypeOK, Owed
<1> QED BY <1>2, <1>3, <1>4 DEF Paid

(* ... or one place fewer does, and the message was accepted or is owed,   *)
LEMMA Spends ==
  ASSUME NEW m \in Msgs, TypeOK, TypeOK', Paid(m),
         NEW r \in Receivers, NEW k \in Nat, Holds(r, k, m), ~Holds(r, k, m)',
         \A q \in Receivers, n \in Nat : Holds(q, n, m)' => Holds(q, n, m),
         consumed'[m] + Owed(m)' + expired[m] <= consumed[m] + Owed(m) + expired'[m] + 1
  PROVE  Paid(m)'
<1>1. <<r, k>> \in Places(m)
  BY DEF Places
<1>2. Places(m)' \subseteq Places(m) \ {<<r, k>>}
  BY DEF Places
<1>3. /\ IsFiniteSet(Places(m) \ {<<r, k>>})
      /\ Cardinality(Places(m) \ {<<r, k>>}) = Cardinality(Places(m)) - 1
  BY <1>1, FS_RemoveElement DEF Paid
<1>4. IsFiniteSet(Places(m)') /\ Cardinality(Places(m)') <= Cardinality(Places(m)) - 1
  BY <1>2, <1>3, FS_Subset
<1>5. Cardinality(Places(m)) \in Nat /\ Cardinality(Places(m)') \in Nat
  BY <1>4, FS_CardinalityType DEF Paid
<1>6. {consumed[m], expired[m], consumed'[m], expired'[m], Owed(m), Owed(m)'} \subseteq Nat
  BY DEF TypeOK, Owed
<1> QED BY <1>4, <1>5, <1>6 DEF Paid

(* ... or one place more does, and what the server owed was delivered.     *)
LEMMA Fills ==
  ASSUME NEW m \in Msgs, TypeOK, TypeOK', Paid(m),
         NEW r \in Receivers, NEW k \in Nat,
         \A q \in Receivers, n \in Nat : Holds(q, n, m)' => Holds(q, n, m) \/ (q = r /\ n = k),
         consumed'[m] + Owed(m)' + expired[m] + 1 <= consumed[m] + Owed(m) + expired'[m]
  PROVE  Paid(m)'
<1>1. Places(m)' \subseteq Places(m) \cup {<<r, k>>}
  BY DEF Places
<1>2. Cardinality(Places(m)) \in Nat
  BY FS_CardinalityType DEF Paid
<1>3. /\ IsFiniteSet(Places(m) \cup {<<r, k>>})
      /\ Cardinality(Places(m) \cup {<<r, k>>}) <= Cardinality(Places(m)) + 1
  <2>1. IsFiniteSet(Places(m))
    BY DEF Paid
  <2>2. /\ IsFiniteSet(Places(m) \cup {<<r, k>>})
        /\ \/ Cardinality(Places(m) \cup {<<r, k>>}) = Cardinality(Places(m))
           \/ Cardinality(Places(m) \cup {<<r, k>>}) = Cardinality(Places(m)) + 1
    BY <2>1, FS_AddElement, Zenon
  <2> QED BY <1>2, <2>2
<1>4. IsFiniteSet(Places(m)') /\ Cardinality(Places(m)') <= Cardinality(Places(m) \cup {<<r, k>>})
  BY <1>1, <1>3, FS_Subset
<1>5. Cardinality(Places(m)') \in Nat /\ Cardinality(Places(m) \cup {<<r, k>>}) \in Nat
  BY <1>3, <1>4, FS_CardinalityType
<1>6. {consumed[m], expired[m], consumed'[m], expired'[m], Owed(m), Owed(m)'} \subseteq Nat
  BY DEF TypeOK, Owed
<1> QED BY <1>2, <1>3, <1>4, <1>5, <1>6 DEF Paid

(* Next moves every message of a buffer one place on, the first to the     *)
(* loop.                                                                   *)
LEMMA Shifts ==
  ASSUME NEW m \in Msgs, Inv, TypeOK', Paid(m), NEW r \in Receivers, TakeMsg(r)
  PROVE  Paid(m)'
<1>1. /\ buf[r] \in Seq(Msgs) /\ buf[r] # <<>> /\ buf'[r] = Tail(buf[r]) /\ cur'[r] = Head(buf[r])
      /\ UNCHANGED <<srv, consumed, expired>>
      /\ \A q \in Receivers : q # r => /\ buf'[q] = buf[q] /\ cur'[q] = cur[q] /\ loop'[q] = loop[q]
                                       /\ verdict'[q] = verdict[q]
      /\ loop'[r] = "handle"
  BY DEF TakeMsg, Inv, TypeOK, server, next
<1>2. /\ Head(buf[r]) = buf[r][1] /\ Len(buf[r]) \in Nat \ {0}
      /\ Len(Tail(buf[r])) = Len(buf[r]) - 1
      /\ \A n \in 1 .. Len(Tail(buf[r])) : Tail(buf[r])[n] = buf[r][n + 1]
  BY <1>1, HeadTailProperties, LenProperties, EmptySeq
<1>3. \A n \in Nat : Holds(r, n, m)' => Holds(r, n + 1, m)
  BY <1>1, <1>2 DEF Holds
<1>4. \A q \in Receivers, n \in Nat : q # r /\ Holds(q, n, m)' => Holds(q, n, m)
  BY <1>1 DEF Holds, Unhandled
<1> DEFINE before == [x \in Places(m)' |-> IF x[1] = r THEN <<r, x[2] + 1>> ELSE x]
<1>5. before \in Injection(Places(m)', Places(m))
  <2>1. ASSUME NEW x \in Places(m)' PROVE before[x] \in Places(m)
    <3>1. x \in Receivers \X Nat /\ Holds(x[1], x[2], m)'
      BY DEF Places
    <3>2. CASE x[1] = r
      BY <1>3, <3>1, <3>2 DEF Places
    <3>3. CASE x[1] # r
      BY <1>4, <3>1, <3>3 DEF Places
    <3> QED BY <3>2, <3>3
  <2>2. ASSUME NEW x \in Places(m)', NEW y \in Places(m)', before[x] = before[y] PROVE x = y
    <3>1. x \in Receivers \X Nat /\ y \in Receivers \X Nat
      BY DEF Places
    <3> QED BY <2>2, <3>1
  <2> QED BY <2>1, <2>2 DEF Injection, IsInjective
<1> HIDE DEF before
<1>6. IsFiniteSet(Places(m)') /\ Cardinality(Places(m)') <= Cardinality(Places(m))
  BY <1>5, FS_Injection DEF Paid
<1>7. Cardinality(Places(m)) \in Nat /\ Cardinality(Places(m)') \in Nat
  BY <1>6, FS_CardinalityType DEF Paid
<1>8. {consumed[m], expired[m], Owed(m)} \subseteq Nat /\ Owed(m)' = Owed(m)
  BY <1>1 DEF Inv, TypeOK, Owed
<1> QED BY <1>1, <1>6, <1>7, <1>8 DEF Paid

(* What the server does.                                                   *)
LEMMA PaidServer ==
  ASSUME Inv, TypeOK', NEW m \in Msgs, Paid(m),
         \/ \E r \in Receivers, k \in Msgs : Deliver(r, k)
         \/ \E r \in Receivers : PullExpires(r)
         \/ \E k \in Msgs : AckWaitPasses(k) \/ NakDelayPasses(k)
  PROVE  Paid(m)'
<1>0. TypeOK
  BY DEF Inv
<1> USE DEF server, next, client, looping
<1>1. ASSUME NEW r \in Receivers, NEW k \in Msgs, Deliver(r, k) PROVE Paid(m)'
  <2>1. /\ buf' = [buf EXCEPT ![r] = Append(buf[r], k)] /\ buf[r] \in Seq(Msgs)
        /\ UNCHANGED <<consumed, expired, loop, cur, verdict>>
        /\ srv[k] = "ready" /\ srv' = [srv EXCEPT ![k] = "pending"]
    BY <1>0, <1>1 DEF Deliver, TypeOK
  <2>2. /\ Len(buf[r]) \in Nat /\ Len(buf'[r]) = Len(buf[r]) + 1 /\ buf'[r][Len(buf[r]) + 1] = k
        /\ \A n \in 1 .. Len(buf[r]) : buf'[r][n] = buf[r][n]
        /\ \A q \in Receivers : q # r => buf'[q] = buf[q]
    BY <1>0, <2>1, AppendProperties, LenProperties DEF TypeOK
  <2>3. \A q \in Receivers, n \in Nat :
          Holds(q, n, m)' => Holds(q, n, m) \/ (q = r /\ n = Len(buf[r]) + 1 /\ m = k)
    BY <2>1, <2>2 DEF Holds, Unhandled
  <2>4. CASE m = k
    <3>1. Owed(m) = 1 /\ Owed(m)' = 0
      BY <1>0, <2>1, <2>4 DEF Owed, TypeOK
    <3>2. consumed'[m] + Owed(m)' + expired[m] + 1 <= consumed[m] + Owed(m) + expired'[m]
      BY <1>0, <2>1, <3>1 DEF TypeOK
    <3>3. Len(buf[r]) + 1 \in Nat
      BY <2>2
    <3>4. \A q \in Receivers, n \in Nat : Holds(q, n, m)' => Holds(q, n, m) \/ (q = r /\ n = Len(buf[r]) + 1)
      BY <2>3
    <3> QED BY <1>0, <3>2, <3>3, <3>4, Fills
  <2>5. CASE m # k
    <3>1. Owed(m)' = Owed(m) /\ Owed(m) \in Nat
      BY <1>0, <2>1, <2>5 DEF Owed, TypeOK
    <3>2. consumed'[m] + Owed(m)' + expired[m] <= consumed[m] + Owed(m) + expired'[m]
      BY <1>0, <2>1, <3>1 DEF TypeOK
    <3> QED BY <1>0, <2>3, <2>5, <3>2, Lowers
  <2> QED BY <2>4, <2>5
<1>2. ASSUME NEW r \in Receivers, PullExpires(r) PROVE Paid(m)'
  <2>1. UNCHANGED <<srv, consumed, expired, buf, loop, cur, verdict>>
    BY <1>2 DEF PullExpires
  <2>2. \A q \in Receivers, n \in Nat : Holds(q, n, m)' => Holds(q, n, m)
    BY <2>1 DEF Holds, Unhandled
  <2>3. consumed'[m] + Owed(m)' + expired[m] <= consumed[m] + Owed(m) + expired'[m]
    BY <1>0, <2>1 DEF TypeOK, Owed
  <2> QED BY <1>0, <2>2, <2>3, Lowers
<1>3. ASSUME NEW k \in Msgs, AckWaitPasses(k) \/ NakDelayPasses(k) PROVE Paid(m)'
  <2>1. UNCHANGED <<consumed, buf, loop, cur, verdict>>
    BY <1>3 DEF AckWaitPasses, NakDelayPasses
  <2>2. \A q \in Receivers, n \in Nat : Holds(q, n, m)' => Holds(q, n, m)
    BY <2>1 DEF Holds, Unhandled
  <2>3. Owed(m)' + expired[m] <= Owed(m) + expired'[m]
    <3>1. CASE AckWaitPasses(k) /\ k = m
      <4>1. Owed(m) = 0 /\ expired'[m] = expired[m] + 1 /\ expired[m] \in Nat
        BY <1>0, <3>1 DEF AckWaitPasses, TypeOK, Owed
      <4>2. Owed(m)' \in {0, 1}
        BY DEF Owed
      <4> QED BY <4>1, <4>2
    <3>2. CASE AckWaitPasses(k) /\ k # m
      <4>1. Owed(m)' = Owed(m) /\ expired'[m] = expired[m]
        BY <1>0, <3>2 DEF AckWaitPasses, TypeOK, Owed
      <4>2. Owed(m) \in {0, 1} /\ expired[m] \in Nat
        BY <1>0 DEF TypeOK, Owed
      <4> QED BY <4>1, <4>2
    <3>3. CASE NakDelayPasses(k)
      <4>1. expired' = expired /\ Owed(m) \in {0, 1} /\ Owed(m)' \in {0, 1}
        BY <3>3 DEF NakDelayPasses, Owed
      <4>2. k = m => Owed(m) = 1
        BY <3>3 DEF NakDelayPasses, Owed
      <4>3. k # m => Owed(m)' = Owed(m)
        BY <1>0, <3>3 DEF NakDelayPasses, TypeOK, Owed
      <4> QED BY <1>0, <4>1, <4>2, <4>3 DEF TypeOK
    <3> QED BY <1>3, <3>1, <3>2, <3>3
  <2>4. consumed'[m] + Owed(m)' + expired[m] <= consumed[m] + Owed(m) + expired'[m]
    <3>1. {consumed[m], expired[m], expired'[m], Owed(m), Owed(m)'} \subseteq Nat
      BY <1>0 DEF TypeOK, Owed
    <3> QED BY <2>1, <2>3, <3>1
  <2> QED BY <1>0, <2>2, <2>4, Lowers
<1> QED BY <1>1, <1>2, <1>3

(* What a loop does: it hands over, naks, or takes the next one.           *)
LEMMA PaidLoop ==
  ASSUME Inv, TypeOK', NEW m \in Msgs, Paid(m), NEW r \in Receivers, Loop(r)
  PROVE  Paid(m)'
<1>0. TypeOK /\ (loop[r] \in Busy => cur[r] \in Msgs)
  BY DEF Inv, Good, AtMessage
<1> USE DEF server, next, client, looping, Fault
<1>1. CASE TakeMsg(r)
  BY <1>1, Shifts
<1>2. CASE ~TakeMsg(r)
  <2>1. /\ UNCHANGED <<buf, expired>>
        /\ \A q \in Receivers : q # r =>
             loop'[q] = loop[q] /\ cur'[q] = cur[q] /\ verdict'[q] = verdict[q]
    BY <1>0, <1>2 DEF Loop, Check, Ask, IterClosed, FetchError, BackoffEnds, HandlePoison, HandleOk,
       HandleRetryable, HandlePermanent, Answer, AnswerLost, Decide, HandlingEnds, TypeOK
  <2>2. Unhandled(r)' => Unhandled(r) /\ cur'[r] = cur[r]
    <3>1. CASE Ask(r)
      BY <3>1 DEF Ask, Unhandled
    <3>2. CASE Check(r) \/ IterClosed(r) \/ FetchError(r) \/ BackoffEnds(r)
      BY <1>0, <3>2 DEF Check, IterClosed, FetchError, AfterFetchError, BackoffEnds, Unhandled, TypeOK
    <3>3. CASE HandlePoison(r) \/ HandleOk(r) \/ HandlePermanent(r)
      BY <1>0, <3>3 DEF HandlePoison, HandleOk, HandlePermanent, Decide, OnNil, Unhandled, TypeOK
    <3>4. CASE HandleRetryable(r)
      BY <3>4 DEF HandleRetryable, Unhandled
    <3>5. CASE Answer(r) \/ AnswerLost(r)
      BY <1>0, <3>5 DEF Answer, AnswerLost, HandlingEnds, Unhandled, TypeOK
    <3> QED BY <1>2, <3>1, <3>2, <3>3, <3>4, <3>5 DEF Loop
  <2>3. \A q \in Receivers, n \in Nat : Holds(q, n, m)' => Holds(q, n, m)
    BY <2>1, <2>2 DEF Holds, Unhandled
  <2>4. {consumed[m], expired[m], consumed'[m], Owed(m), Owed(m)'} \subseteq Nat
    BY <1>0 DEF TypeOK, Owed
  <2>5. CASE HandleOk(r)
    <3>1. Owed(m)' = Owed(m) /\ cur[r] \in Msgs /\ consumed' = [consumed EXCEPT ![cur[r]] = @ + 1]
      BY <1>0, <2>5 DEF HandleOk, Owed, Busy
    <3>2. CASE cur[r] = m
      <4>1. Holds(r, 0, m) /\ ~Holds(r, 0, m)'
        BY <1>0, <2>5, <3>2 DEF HandleOk, Decide, OnNil, Holds, Unhandled, TypeOK
      <4>2. consumed'[m] = consumed[m] + 1
        BY <1>0, <3>1, <3>2 DEF TypeOK
      <4>3. consumed'[m] + Owed(m)' + expired[m] <= consumed[m] + Owed(m) + expired'[m] + 1
        BY <2>1, <2>4, <3>1, <4>2
      <4> QED BY <1>0, <2>3, <4>1, <4>3, Spends
    <3>3. CASE cur[r] # m
      <4>1. consumed'[m] = consumed[m]
        BY <1>0, <3>1, <3>3 DEF TypeOK
      <4>2. consumed'[m] + Owed(m)' + expired[m] <= consumed[m] + Owed(m) + expired'[m]
        BY <2>1, <2>4, <3>1, <4>1
      <4> QED BY <1>0, <2>3, <4>2, Lowers
    <3> QED BY <3>2, <3>3
  <2>6. CASE Answer(r)
    <3>1. /\ UNCHANGED consumed /\ cur[r] \in Msgs /\ loop[r] = "answer"
          /\ srv' = [srv EXCEPT ![cur[r]] = Answered(cur[r], verdict[r])]
      BY <1>0, <2>6 DEF Answer, Busy
    <3>2. CASE cur[r] = m /\ verdict[r] = "nak" /\ srv[m] = "pending"
      <4>1. Holds(r, 0, m) /\ ~Holds(r, 0, m)'
        BY <1>0, <2>6, <3>1, <3>2 DEF Answer, HandlingEnds, Holds, Unhandled, TypeOK
      <4>2. Owed(m)' <= Owed(m) + 1
        BY DEF Owed
      <4>3. consumed'[m] + Owed(m)' + expired[m] <= consumed[m] + Owed(m) + expired'[m] + 1
        BY <2>1, <2>4, <3>1, <4>2
      <4> QED BY <1>0, <2>3, <4>1, <4>3, Spends
    <3>3. CASE ~(cur[r] = m /\ verdict[r] = "nak" /\ srv[m] = "pending")
      <4>1. Owed(m)' <= Owed(m)
        BY <1>0, <3>1, <3>3 DEF Answered, Owed, Settled, TypeOK
      <4>2. consumed'[m] + Owed(m)' + expired[m] <= consumed[m] + Owed(m) + expired'[m]
        BY <2>1, <2>4, <3>1, <4>1
      <4> QED BY <1>0, <2>3, <4>2, Lowers
    <3> QED BY <3>2, <3>3
  <2>7. CASE ~HandleOk(r) /\ ~Answer(r)
    <3>1. UNCHANGED <<srv, consumed>>
      BY <1>2, <2>7 DEF Loop, Check, Ask, IterClosed, FetchError, BackoffEnds, HandlePoison,
         HandleRetryable, HandlePermanent, AnswerLost
    <3>2. Owed(m)' = Owed(m)
      BY <3>1 DEF Owed
    <3>3. consumed'[m] + Owed(m)' + expired[m] <= consumed[m] + Owed(m) + expired'[m]
      BY <2>1, <2>4, <3>1, <3>2
    <3> QED BY <1>0, <2>3, <3>3, Lowers
  <2> QED BY <2>5, <2>6, <2>7
<1> QED BY <1>1, <1>2

(* A collector that starts, stops or crashes: copies vanish at most.       *)
LEMMA PaidLife ==
  ASSUME Inv, TypeOK', NEW m \in Msgs, Paid(m), NEW r \in Receivers,
         \/ Start(r) \/ StartFails(r) \/ Cancel(r) \/ Stopping(r) \/ Replace(r) \/ Crash(r)
  PROVE  Paid(m)'
<1>0. TypeOK
  BY DEF Inv
<1> USE DEF server, next, client, looping, Fault
<1>1. UNCHANGED <<srv, consumed, expired>>
  BY DEF Start, StartFails, Cancel, Stopping, Drain, CloseConn, Replace, Crash
<1>2. ASSUME NEW q \in Receivers
      PROVE  /\ buf'[q] = buf[q] \/ buf'[q] = <<>>
             /\ Unhandled(q)' => Unhandled(q) /\ cur'[q] = cur[q]
  <2>1. CASE StartFails(r) \/ Cancel(r) \/ Stopping(r)
    BY <2>1 DEF StartFails, Cancel, Stopping, Drain, CloseConn, Unhandled
  <2>2. CASE Start(r)
    BY <1>0, <2>2 DEF Start, Unhandled, TypeOK
  <2>3. CASE Replace(r) \/ Crash(r)
    <3>1. Fresh(r)
      BY <2>3 DEF Replace, Crash
    <3> QED BY <1>0, <3>1 DEF Fresh, Unhandled, TypeOK
  <2> QED BY <2>1, <2>2, <2>3
<1>3. \A q \in Receivers, n \in Nat : Holds(q, n, m)' => Holds(q, n, m)
  BY <1>2 DEF Holds
<1>4. consumed'[m] + Owed(m)' + expired[m] <= consumed[m] + Owed(m) + expired'[m]
  BY <1>0, <1>1 DEF TypeOK, Owed
<1> QED BY <1>0, <1>3, <1>4, Lowers

LEMMA PaidStep == Inv /\ AllPaid /\ [Next]_vars => AllPaid'
<1> SUFFICES ASSUME Inv, AllPaid, [Next]_vars, NEW m \in Msgs PROVE Paid(m)'
  BY DEF AllPaid
<1>1. Paid(m) /\ TypeOK'
  BY TypeStep DEF AllPaid
<1>2. CASE UNCHANGED vars
  BY <1>1, <1>2 DEF vars, Paid, Places, Holds, Unhandled, Owed
<1>3. CASE Next
  BY <1>1, <1>3, PaidServer, PaidLoop, PaidLife DEF Next
<1> QED BY <1>2, <1>3

(* With any number of collectors, crashes, refusals and lost answers, a    *)
(* message is handed over once, and once more at most for each time that   *)
(* AckWait passed over it.                                                 *)
THEOREM HandedOverOnce == Spec => []DuplicatesOnlyByAckWait
<1>1. Inv /\ AllPaid => DuplicatesOnlyByAckWait
  <2> SUFFICES ASSUME Inv, AllPaid, NEW m \in Msgs PROVE consumed[m] <= 1 + expired[m]
    BY DEF DuplicatesOnlyByAckWait
  <2>1. Paid(m)
    BY DEF AllPaid
  <2>2. Cardinality(Places(m)) \in Nat
    BY <2>1, FS_CardinalityType DEF Paid
  <2> QED BY <2>1, <2>2 DEF Paid, Owed, Inv, TypeOK
<1> QED BY <1>1, PaidInit, PaidStep, Invariance, PTL DEF Spec
=============================================================================
