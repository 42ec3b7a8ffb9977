--------------------------- MODULE PartNamesProofs ---------------------------
(***************************************************************************)
(* No file name is given out twice, for any number of writers,             *)
(* directories and restarts.                                               *)
(***************************************************************************)
EXTENDS PartNames, TLAPS

Time(n) == n[2]
Num(n)  == n[3]

(* The inductive invariant: a name of this process carries a time since    *)
(* boot and a number drawn from seq, and a number is drawn once; a name    *)
(* of an earlier process carries an earlier time.                          *)
Ages ==
  /\ boot <= clock
  /\ \A n \in parts \cup finals : Time(n) <= clock /\ (Time(n) >= boot => Num(n) <= seq)

Draws ==
  \A w \in Writers :
    /\ pc[w] # "idle" => boot <= stamp[w] /\ stamp[w] <= clock
    /\ pc[w] \in {"named", "open"} => num[w] <= seq
    /\ \A v \in Writers : v # w /\ pc[v] \in {"named", "open"} /\ pc[w] \in {"named", "open"}
                            => num[v] # num[w]

Unused ==
  \A w \in Writers :
    /\ pc[w] = "named" => \A n \in parts \cup finals : Time(n) >= boot => Num(n) # num[w]
    /\ pc[w] = "open"  => \A n \in finals : Time(n) >= boot => Num(n) # num[w]

Inv == TypeOK /\ Ages /\ Draws /\ Unused

LEMMA NameParts ==
  ASSUME TypeOK, NEW w \in Writers
  PROVE  Name(w) \in Names /\ Time(Name(w)) = stamp[w] /\ Num(Name(w)) = num[w]
  BY DirAssumption DEF TypeOK, Name, Names, Time, Num

LEMMA InvInit == Init => Inv
  BY DEF Init, Inv, TypeOK, Ages, Draws, Unused

LEMMA InvNext == Inv /\ [Next]_vars => Inv'
<1> SUFFICES ASSUME Inv, [Next]_vars PROVE Inv'
  OBVIOUS
<1> USE DEF Inv, TypeOK
<1>t. \A n \in parts \cup finals : Time(n) \in Nat /\ Num(n) \in Nat
  BY DEF Names, Time, Num
<1>1. ASSUME NEW w \in Writers, ReadClock(w) PROVE Inv'
  BY <1>1, <1>t DEF ReadClock, Ages, Draws, Unused
<1>2. ASSUME NEW w \in Writers, DrawSeq(w) PROVE Inv'
  <2>1. TypeOK' /\ Ages'
    BY <1>2, <1>t DEF DrawSeq, Ages
  <2>2. /\ num' = [num EXCEPT ![w] = seq + 1] /\ pc' = [pc EXCEPT ![w] = "named"]
        /\ UNCHANGED <<clock, boot, stamp, parts, finals>> /\ seq' = seq + 1
        /\ pc[w] = "stamped"
    BY <1>2 DEF DrawSeq
  <2>3. Draws'
    BY <2>2 DEF Draws
  <2>4. Unused'
    BY <2>2, <1>t DEF Unused, Ages
  <2> QED BY <2>1, <2>3, <2>4
<1>3. ASSUME NEW w \in Writers, Create(w) PROVE Inv'
  <2>1. /\ parts' = parts \cup {Name(w)} /\ pc' = [pc EXCEPT ![w] = "open"]
        /\ UNCHANGED <<clock, seq, boot, stamp, num, finals>> /\ pc[w] = "named"
    BY <1>3 DEF Create
  <2>2. TypeOK' /\ Ages' /\ Draws'
    BY <2>1, <1>t, NameParts DEF Ages, Draws
  <2>3. Unused'
    BY <2>1, <1>t, NameParts DEF Unused, Draws
  <2> QED BY <2>2, <2>3
<1>4. ASSUME NEW w \in Writers, CreateFails(w) \/ GiveUp(w) PROVE Inv'
  <2>1. /\ parts' \in {parts, parts \cup {Name(w)}}
        /\ pc[w] \in {"named", "open"} /\ pc' = [pc EXCEPT ![w] = "idle"]
        /\ parts' # parts => pc[w] = "named"
        /\ UNCHANGED <<clock, seq, boot, stamp, num, finals>>
    BY <1>4 DEF CreateFails, GiveUp
  <2>2. TypeOK' /\ Ages' /\ Draws'
    BY <2>1, <1>t, NameParts DEF Ages, Draws
  <2>3. Unused'
    BY <2>1, <1>t, NameParts DEF Unused, Draws
  <2> QED BY <2>2, <2>3
<1>5. ASSUME NEW w \in Writers, Rename(w) PROVE Inv'
  <2>1. /\ parts' = parts \ {Name(w)} /\ finals' = finals \cup {Name(w)}
        /\ pc' = [pc EXCEPT ![w] = "idle"]
        /\ UNCHANGED <<clock, seq, boot, stamp, num>> /\ pc[w] = "open"
    BY <1>5 DEF Rename
  <2>2. TypeOK' /\ Ages' /\ Draws'
    BY <2>1, <1>t, NameParts DEF Ages, Draws
  <2>3. Unused'
    BY <2>1, <1>t, NameParts DEF Unused, Draws
  <2> QED BY <2>2, <2>3
<1>6. CASE Tick
  BY <1>6, <1>t DEF Tick, Ages, Draws, Unused
<1>7. CASE Restart
  BY <1>7, <1>t DEF Restart, Ages, Draws, Unused
<1>8. CASE UNCHANGED vars
  BY <1>8 DEF vars, Ages, Draws, Unused
<1> QED BY <1>1, <1>2, <1>3, <1>4, <1>5, <1>6, <1>7, <1>8 DEF Next

(* Type correctness, for every clock and every number of restarts. *)
THEOREM TypeCorrect == Spec => []TypeOK
<1>1. Inv => TypeOK
  BY DEF Inv
<1> QED BY <1>1, InvInit, InvNext, PTL DEF Spec

(* Whatever writers share a directory and however often the collector is   *)
(* restarted, os.Create finds no file of its name and os.Rename replaces   *)
(* none.                                                                   *)
THEOREM NoNameTwice == Spec => []NamesAreFresh
<1>1. Inv => NamesAreFresh
  <2> SUFFICES ASSUME Inv, NEW w \in Writers
               PROVE  /\ pc[w] = "named" => Name(w) \notin parts \cup finals
                      /\ pc[w] = "open"  => Name(w) \notin finals
                      /\ \A v \in Writers :
                           v # w /\ pc[v] = "open" /\ pc[w] \in {"named", "open"}
                             => Name(v) # Name(w)
    BY DEF NamesAreFresh
  <2>1. \A v \in Writers : Time(Name(v)) = stamp[v] /\ Num(Name(v)) = num[v]
    BY NameParts DEF Inv
  <2> QED BY <2>1 DEF Inv, TypeOK, Draws, Unused
<1> QED BY <1>1, InvInit, InvNext, PTL DEF Spec

=============================================================================
