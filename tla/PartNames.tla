----------------------------- MODULE PartNames -----------------------------
(***************************************************************************)
(* How signalWriters name their files (exporter/parquetexporter, writer.go *)
(* openLocked): part-<UnixNano>-<seq>.parquet, with .part appended until   *)
(* the rename.  os.Create truncates a file that exists and os.Rename       *)
(* replaces one, so two files of one directory must never share a name:    *)
(* not between the writers of several exporters that were given the same   *)
(* directory, and not between a process and the one before it.             *)
(*                                                                         *)
(* seq belongs to the process: every exporter counts it up, and a restart  *)
(* begins at zero again.  Assumed of the machine: the clock is not set     *)
(* back, and a restart takes longer than a nanosecond.                     *)
(***************************************************************************)
EXTENDS Naturals

CONSTANTS
  Writers,     \* signalWriters, of any exporter of the process
  Dirs,        \* directories
  Dir,         \* the directory of each writer
  MaxSeq,      \* bound on the files of one process
  MaxClock     \* bound on the clock

ASSUME DirAssumption == Dir \in [Writers -> Dirs]
ASSUME BoundsAssumption == MaxSeq \in Nat /\ MaxClock \in Nat

VARIABLES
  clock,   \* time.Now().UnixNano()
  seq,     \* the package-level counter
  boot,    \* the clock when the process started
  pc,      \* of each writer: idle, stamped, named, or open
  stamp,   \* the time each writer has read
  num,     \* the number each writer has drawn
  parts,   \* names whose .part file exists
  finals   \* names whose .parquet file exists

vars == <<clock, seq, boot, pc, stamp, num, parts, finals>>

Names == Dirs \X Nat \X Nat

TypeOK ==
  /\ clock \in Nat /\ seq \in Nat /\ boot \in Nat
  /\ pc \in [Writers -> {"idle", "stamped", "named", "open"}]
  /\ stamp \in [Writers -> Nat]
  /\ num \in [Writers -> Nat]
  /\ parts \subseteq Names
  /\ finals \subseteq Names

Init ==
  /\ clock = 0 /\ seq = 0 /\ boot = 0
  /\ pc = [w \in Writers |-> "idle"]
  /\ stamp = [w \in Writers |-> 0]
  /\ num = [w \in Writers |-> 0]
  /\ parts = {}
  /\ finals = {}

(* The path of the file a writer is at.  The mutant leaves the time out.   *)
Unstamped(w) == <<Dir[w], 0, num[w]>>
Name(w)      == <<Dir[w], stamp[w], num[w]>>

(* The arguments of Sprintf are evaluated in order: the clock, then seq.   *)
ReadClock(w) ==
  /\ pc[w] = "idle"
  /\ stamp' = [stamp EXCEPT ![w] = clock]
  /\ pc' = [pc EXCEPT ![w] = "stamped"]
  /\ UNCHANGED <<clock, seq, boot, num, parts, finals>>

(* seq.Add(1) returns the new value, in one atomic step. *)
DrawSeq(w) ==
  /\ pc[w] = "stamped"
  /\ seq < MaxSeq
  /\ seq' = seq + 1
  /\ num' = [num EXCEPT ![w] = seq']
  /\ pc' = [pc EXCEPT ![w] = "named"]
  /\ UNCHANGED <<clock, boot, stamp, parts, finals>>

Create(w) ==
  /\ pc[w] = "named"
  /\ parts' = parts \cup {Name(w)}
  /\ pc' = [pc EXCEPT ![w] = "open"]
  /\ UNCHANGED <<clock, seq, boot, stamp, num, finals>>

(* os.Create fails, or NewFileWriter after it, which leaves the file.      *)
CreateFails(w) ==
  /\ pc[w] = "named"
  /\ parts' \in {parts, parts \cup {Name(w)}}
  /\ pc' = [pc EXCEPT ![w] = "idle"]
  /\ UNCHANGED <<clock, seq, boot, stamp, num, finals>>

Rename(w) ==
  /\ pc[w] = "open"
  /\ parts' = parts \ {Name(w)}
  /\ finals' = finals \cup {Name(w)}
  /\ pc' = [pc EXCEPT ![w] = "idle"]
  /\ UNCHANGED <<clock, seq, boot, stamp, num>>

(* A rotation that fails leaves the .part file where it is. *)
GiveUp(w) ==
  /\ pc[w] = "open"
  /\ pc' = [pc EXCEPT ![w] = "idle"]
  /\ UNCHANGED <<clock, seq, boot, stamp, num, parts, finals>>

Tick ==
  /\ clock < MaxClock
  /\ clock' = clock + 1
  /\ UNCHANGED <<seq, boot, pc, stamp, num, parts, finals>>

(* The process ends at any point and another one starts. *)
Restart ==
  /\ clock < MaxClock
  /\ clock' = clock + 1
  /\ boot' = clock + 1
  /\ seq' = 0
  /\ pc' = [w \in Writers |-> "idle"]
  /\ UNCHANGED <<stamp, num, parts, finals>>

Next ==
  \/ \E w \in Writers : \/ ReadClock(w) \/ DrawSeq(w) \/ Create(w) \/ CreateFails(w)
                        \/ Rename(w) \/ GiveUp(w)
  \/ Tick
  \/ Restart

Spec == Init /\ [][Next]_vars

-----------------------------------------------------------------------------
(* os.Create never truncates a file of this or an earlier process, and     *)
(* os.Rename never replaces one: a name is given out once ("the package-   *)
(* level seq atomic is used across instances to prevent filename           *)
(* collisions", factory.go).                                               *)
NamesAreFresh ==
  \A w \in Writers :
    /\ pc[w] = "named" => Name(w) \notin parts \cup finals
    /\ pc[w] = "open"  => Name(w) \notin finals
    /\ \A v \in Writers : v # w /\ pc[v] = "open" /\ pc[w] \in {"named", "open"}
                            => Name(v) # Name(w)
=============================================================================
