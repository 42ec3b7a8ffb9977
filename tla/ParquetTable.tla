---------------------------- MODULE ParquetTable ----------------------------
(***************************************************************************)
(* What one Parquet table promises to whoever reads its directory, without *)
(* locks, file descriptors or system calls.  A batch that was accepted     *)
(* waits in `pending`; the whole of `pending` becomes visible in one step, *)
(* in order, as one file that never changes; or it is given up, and then   *)
(* an error was recorded; or the machine stops and takes it along.         *)
(*                                                                         *)
(* ParquetWriter implements this specification.                            *)
(***************************************************************************)
EXTENDS Naturals, Sequences, Functions

CONSTANT Batches

VARIABLES
  pending,   \* the accepted batches that no reader sees yet, in order
  shown,     \* file id -> the batches a reader finds in that file
  settled,   \* ids of the shown files that a crash can no longer withdraw
  reported,  \* batches given up after a recorded error
  lost       \* batches a crash took

vars == <<pending, shown, settled, reported, lost>>

TypeOK ==
  /\ pending \in Seq(Batches)
  /\ DOMAIN shown \subseteq Nat
  /\ \A f \in DOMAIN shown : shown[f] \in Seq(Batches)
  /\ settled \subseteq DOMAIN shown
  /\ reported \subseteq Batches
  /\ lost \subseteq Batches

Init ==
  /\ pending = <<>>
  /\ shown = [f \in {} |-> <<>>]
  /\ settled = {}
  /\ reported = {}
  /\ lost = {}

Accept(b) ==
  /\ pending' = Append(pending, b)
  /\ UNCHANGED <<shown, settled, reported, lost>>

(* All of pending at once, under an id no shown file has. *)
Publish(f) ==
  /\ f \notin DOMAIN shown
  /\ shown' = [g \in DOMAIN shown \cup {f} |-> IF g = f THEN pending ELSE shown[g]]
  /\ pending' = <<>>
  /\ UNCHANGED <<settled, reported, lost>>

GiveUp ==
  /\ pending' = <<>>
  /\ reported' = reported \cup Range(pending)
  /\ UNCHANGED <<shown, settled, lost>>

Settle ==
  /\ settled' = DOMAIN shown
  /\ UNCHANGED <<pending, shown, reported, lost>>

(* What survives is a set of whole files that holds every settled one. *)
Crash(S) ==
  /\ settled \subseteq S
  /\ S \subseteq DOMAIN shown
  /\ shown' = [f \in S |-> shown[f]]
  /\ settled' = S
  /\ lost' = lost \cup Range(pending)
                  \cup UNION {Range(shown[f]) : f \in DOMAIN shown \ S}
  /\ pending' = <<>>
  /\ UNCHANGED reported

Next ==
  \/ \E b \in Batches : Accept(b)
  \/ \E f \in DOMAIN shown' \ DOMAIN shown : Publish(f)
  \/ GiveUp
  \/ Settle
  \/ \E S \in SUBSET DOMAIN shown : Crash(S)

Spec == Init /\ [][Next]_vars
=============================================================================
