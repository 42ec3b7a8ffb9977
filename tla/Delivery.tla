------------------------------ MODULE Delivery ------------------------------
(***************************************************************************)
(* What the JetStream receiver promises to the stream it consumes          *)
(* (receiver/natsjetstreamreceiver, handleMessage and ackOrNak, and the    *)
(* delivery limits it asks of the server in ensureConsumer): a message     *)
(* stays in the queue until the next consumer has taken it, it turned out  *)
(* to be unusable, or it was tried MaxDeliver times; and what happened to  *)
(* it then is final.                                                       *)
(***************************************************************************)
EXTENDS Naturals

CONSTANTS Msgs, Poison, MaxDeliver

VARIABLES
  outcome, \* of each message
  tries,   \* times it was delivered
  taken,   \* messages the next consumer has accepted, once or more often
  refused  \* messages the next consumer has refused for good

vars == <<outcome, tries, taken, refused>>

Init ==
  /\ outcome = [m \in Msgs |-> "queued"]
  /\ tries = [m \in Msgs |-> 0]
  /\ taken = {} /\ refused = {}

Try(m) ==
  /\ outcome[m] = "queued" /\ tries[m] < MaxDeliver
  /\ tries' = [tries EXCEPT ![m] = @ + 1]
  /\ UNCHANGED <<outcome, taken, refused>>

(* A copy of a message may reach the consumer even after another one was   *)
(* answered, but not before the message was delivered at all.              *)
Tried(m) == m \notin Poison /\ tries[m] > 0

Take(m) ==
  /\ Tried(m)
  /\ taken' = taken \cup {m}
  /\ UNCHANGED <<outcome, tries, refused>>

Refuse(m) ==
  /\ Tried(m)
  /\ refused' = refused \cup {m}
  /\ UNCHANGED <<outcome, tries, taken>>

Leaves(m, how) ==
  /\ outcome[m] = "queued"
  /\ outcome' = [outcome EXCEPT ![m] = how]
  /\ UNCHANGED <<tries, taken, refused>>

Settle(m) == m \in taken /\ Leaves(m, "done")
Drop(m)   == m \in Poison \cup refused /\ Leaves(m, "dropped")
GiveUp(m) == tries[m] = MaxDeliver /\ Leaves(m, "given up")

Next == \E m \in Msgs : Try(m) \/ Take(m) \/ Refuse(m) \/ Settle(m) \/ Drop(m) \/ GiveUp(m)

Spec == Init /\ [][Next]_vars
=============================================================================
