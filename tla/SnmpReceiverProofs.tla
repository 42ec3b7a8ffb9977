------------------------- MODULE SnmpReceiverProofs -------------------------
(***************************************************************************)
(* Proofs about one SNMP receiver, for every set of targets, groups and    *)
(* packets.                                                                *)
(***************************************************************************)
EXTENDS SnmpReceiver, SequenceTheorems, TLAPS

Ended == {"off", "gone"}

(* Nothing runs before Start has ended, and after Shutdown.  A connection  *)
(* is in r.connections exactly while it is open, until Shutdown closes all *)
(* of them; a loop runs only over one of these.                            *)
Owned ==
  /\ phase \in {"new", "connecting", "failed"} =>
       (\A t \in Targets : loop[t] = "off") /\ listener = "off"
  /\ phase = "closed" => (\A t \in Targets : loop[t] \in Ended) /\ listener \in Ended
  /\ phase # "closed" => \A t \in Targets : socket[t] = "open" <=> t \in connections
  /\ phase = "closed" => \A t \in Targets : socket[t] # "open"
  /\ \A t \in Targets : loop[t] \notin Ended => t \in connections

(* The socket of the trap listener is open at most while it runs. *)
Listening == listener \in {"off", "starting", "gone"} => udp # "open"

(* Between a read and the next the listener is at a datagram. *)
AtPacket == listener \in {"checking", "consuming", "answering"} => packet \in Decoded

Typed == TypeOK /\ AtPacket
Inv   == Typed /\ Owned /\ Listening

-----------------------------------------------------------------------------
LEMMA TypeInit == Init => Typed
<1> SUFFICES ASSUME Init PROVE Typed
  OBVIOUS
<1>1. polls \in BOOLEAN /\ traps \in BOOLEAN /\ accepted \in Seq(Entry)
  <2>1. PICK s \in Setups : polls = s.polls /\ traps = s.traps /\ accepted = s.accepted
    BY Zenon DEF Init
  <2>2. s \in [polls : BOOLEAN, traps : BOOLEAN, accepted : Seq(Entry)]
    BY SetupsAssumption, Zenon
  <2>3. s.polls \in BOOLEAN /\ s.traps \in BOOLEAN /\ s.accepted \in Seq(Entry)
    BY <2>2, Zenon
  <2> QED BY <2>1, <2>3, Zenon
<1> QED BY <1>1 DEF Init, Typed, AtPacket, TypeOK, Phases

(* What UnmarshalTrap leaves on a packet are the parameters of an entry.   *)
LEMMA TableOfUsms ==
  ASSUME NEW as \in Seq(Entry)
  PROVE  UsmTable(as) \cup {NoUsm} \subseteq Usms
<1>1. NoUsm \in Usms
  BY DEF NoUsm, Usms, AuthProtocols, PrivProtocols
<1>2. ASSUME NEW e \in Entry PROVE USM(e) \in Usms
  <2>1. e.user \in Names \cup {""} /\ e.authProtocol \in Names \cup {""}
        /\ e.privProtocol \in Names \cup {""}
    BY DEF Entry
  <2>2. MapAuthProtocol(e.authProtocol) \in AuthProtocols
    BY DEF MapAuthProtocol, AuthProtocols
  <2>3. MapPrivacyProtocol(e.privProtocol) \in PrivProtocols
    BY DEF MapPrivacyProtocol, PrivProtocols
  <2> QED BY <2>1, <2>2, <2>3 DEF USM, Usms
<1>3. ASSUME NEW n \in DOMAIN as PROVE as[n] \in Entry
  BY LenProperties, ElementOfSeq
<1>4. \A u \in UsmTable(as) : \E n \in DOMAIN as : u = USM(as[n])
  BY DEF UsmTable
<1> QED BY <1>1, <1>2, <1>3, <1>4

LEMMA TypeStarting == ASSUME Typed, Starting PROVE Typed'
<1> USE DEF Typed, AtPacket, TypeOK, Phases, config, conns, polling, trapping
<1>1. CASE TrapperFails
  BY <1>1 DEF TrapperFails
<1>2. CASE StartBegins
  BY <1>2 DEF StartBegins
<1>3. ASSUME NEW t \in Targets, Connect(t) PROVE Typed'
  BY <1>3 DEF Connect
<1>4. CASE ConnectFails
  BY <1>4 DEF ConnectFails, Close, Opened, Forgotten
<1>5. CASE StartEnds
  BY <1>5 DEF StartEnds, ListenerStart
<1> QED BY <1>1, <1>2, <1>3, <1>4, <1>5 DEF Starting

LEMMA TypePolling == ASSUME Typed, NEW t \in Targets, Polling(t) PROVE Typed'
<1> USE DEF Typed, AtPacket, TypeOK, Phases, config, conns, polling, trapping
<1>1. CASE GroupRead(t)
  BY <1>1 DEF GroupRead, Missing, AfterGroup, AfterRound, TickAfter
<1>2. CASE GroupSkipped(t)
  BY <1>2 DEF GroupSkipped, Missing, AfterGroup, AfterRound, TickAfter
<1>3. CASE Sent(t)
  BY <1>3 DEF Sent, TickAfter
<1>4. CASE TickFires(t)
  BY <1>4 DEF TickFires
<1>5. CASE NextRound(t)
  BY <1>5 DEF NextRound
<1>6. CASE LoopEnds(t)
  BY <1>6 DEF LoopEnds
<1> QED BY <1>1, <1>2, <1>3, <1>4, <1>5, <1>6 DEF Polling

LEMMA TypeTrapping == ASSUME Typed, Trapping PROVE Typed'
<1> USE DEF Typed, AtPacket, TypeOK, Phases, config, conns, polling, trapping
<1>1. CASE Listen \/ ListenFails
  BY <1>1 DEF Listen, ListenFails
<1>2. CASE SocketCloses \/ ReadFails
  BY <1>2 DEF SocketCloses, AfterCancel, ReadFails
<1>3. ASSUME NEW p \in Packets, Receive(p) PROVE Typed'
  <2>1. PICK u \in UsmTable(accepted) \cup {NoUsm} : packet' = [msg |-> p, usm |-> u]
    BY <1>3 DEF Receive
  <2>2. u \in Usms
    BY <2>1, TableOfUsms
  <2>3. packet' \in Decoded
    BY <2>1, <2>2 DEF Decoded
  <2>4. /\ listener' = "checking"
        /\ UNCHANGED <<polls, traps, accepted, phase, ctx, connections, socket, closedTwice, loop,
                       got, skipped, tick, udp, handed, acked>>
        /\ listener = "reading"
    BY <1>3 DEF Receive
  <2> HIDE DEF Decoded
  <2> QED BY <2>3, <2>4
<1>4. CASE Rejected \/ Authorized
  BY <1>4 DEF Rejected, Authorized
<1>5. CASE Consumed
  <2>1. packet \in Decoded /\ packet.msg \in Packets
    BY <1>5 DEF Consumed, Decoded
  <2>2. handed' \subseteq Packets
    BY <1>5, <2>1 DEF Consumed
  <2>3. (listener' = "answering" /\ packet' = packet) \/ (listener' = "reading" /\ packet' = NoPacket)
    BY <1>5 DEF Consumed, Answering
  <2> QED BY <1>5, <2>1, <2>2, <2>3 DEF Consumed
<1>6. CASE Answer \/ AnswerFails
  <2>1. packet \in Decoded /\ packet.msg \in Packets
    BY <1>6 DEF Answer, AnswerFails, Decoded
  <2>2. acked' \subseteq Packets
    BY <1>6, <2>1 DEF Answer, AnswerFails
  <2> QED BY <1>6, <2>2 DEF Answer, AnswerFails
<1> QED BY <1>1, <1>2, <1>3, <1>4, <1>5, <1>6 DEF Trapping

LEMMA TypeStopping == ASSUME Typed, Shutdown \/ ShutdownEnds PROVE Typed'
<1> USE DEF Typed, AtPacket, TypeOK, Phases, config, conns, polling, trapping
<1>1. CASE Shutdown
  BY <1>1 DEF Shutdown
<1>2. CASE ShutdownEnds
  BY <1>2 DEF ShutdownEnds, Close
<1> QED BY <1>1, <1>2

LEMMA TypeStep == Typed /\ [Next]_vars => Typed'
<1>1. Typed /\ UNCHANGED vars => Typed'
  BY DEF Typed, AtPacket, TypeOK, vars
<1> QED BY <1>1, TypeStarting, TypePolling, TypeTrapping, TypeStopping DEF Next

(* Type correctness. *)
THEOREM TypeCorrect == Spec => []TypeOK
<1>1. Typed => TypeOK
  BY DEF Typed
<1> QED BY <1>1, TypeInit, TypeStep, PTL DEF Spec
-----------------------------------------------------------------------------
(* Connections, loops and the trap socket. *)

LEMMA OwnedInit == Init => Owned /\ Listening /\ ClosedOnce
  BY DEF Init, Owned, Ended, Listening, ClosedOnce

LEMMA OwnedStarting ==
  ASSUME Typed, Owned, Starting
  PROVE  Owned'
<1> USE DEF Typed, TypeOK, Owned, Ended, config, conns, polling, trapping
<1>1. CASE TrapperFails
  BY <1>1 DEF TrapperFails
<1>2. CASE StartBegins
  BY <1>2 DEF StartBegins
<1>3. ASSUME NEW t \in Targets, Connect(t) PROVE Owned'
  BY <1>3 DEF Connect
<1>4. CASE ConnectFails
  BY <1>4 DEF ConnectFails, Close, Opened, Forgotten
<1>5. CASE StartEnds
  BY <1>5 DEF StartEnds
<1> QED BY <1>1, <1>2, <1>3, <1>4, <1>5 DEF Starting

LEMMA OwnedPolling ==
  ASSUME Typed, Owned, NEW t \in Targets, Polling(t)
  PROVE  Owned'
<1> USE DEF Typed, TypeOK, Owned, Ended, config, conns, polling, trapping
<1>1. CASE GroupRead(t)
  BY <1>1 DEF GroupRead
<1>2. CASE GroupSkipped(t)
  BY <1>2 DEF GroupSkipped
<1>3. CASE Sent(t)
  BY <1>3 DEF Sent
<1>4. CASE TickFires(t)
  BY <1>4 DEF TickFires
<1>5. CASE NextRound(t)
  BY <1>5 DEF NextRound
<1>6. CASE LoopEnds(t)
  BY <1>6 DEF LoopEnds
<1> QED BY <1>1, <1>2, <1>3, <1>4, <1>5, <1>6 DEF Polling

LEMMA OwnedTrapping ==
  ASSUME Typed, Owned, Trapping
  PROVE  Owned'
<1> USE DEF Typed, TypeOK, Owned, Ended, config, conns, polling, trapping
<1>1. CASE Listen \/ ListenFails
  BY <1>1 DEF Listen, ListenFails
<1>2. CASE SocketCloses \/ ReadFails
  BY <1>2 DEF SocketCloses, ReadFails
<1>3. ASSUME NEW p \in Packets, Receive(p) PROVE Owned'
  BY <1>3 DEF Receive
<1>4. CASE Rejected \/ Authorized \/ Consumed
  BY <1>4 DEF Rejected, Authorized, Consumed
<1>5. CASE Answer \/ AnswerFails
  BY <1>5 DEF Answer, AnswerFails
<1> QED BY <1>1, <1>2, <1>3, <1>4, <1>5 DEF Trapping

LEMMA OwnedStopping ==
  ASSUME Typed, Owned, Shutdown \/ ShutdownEnds
  PROVE  Owned'
<1> USE DEF Typed, TypeOK, Owned, Ended, config, conns, polling, trapping
<1>1. CASE Shutdown
  BY <1>1 DEF Shutdown
<1>2. CASE ShutdownEnds
  BY <1>2 DEF ShutdownEnds, Close, Waited
<1> QED BY <1>1, <1>2

LEMMA ListeningStep ==
  ASSUME Typed, Owned, Listening, [Next]_vars
  PROVE  Listening'
<1> USE DEF Listening, config, conns, polling, trapping
<1>1. CASE Starting
  BY <1>1 DEF Owned, Typed, TypeOK, Starting, TrapperFails, StartBegins, Connect, ConnectFails,
     StartEnds, ListenerStart
<1>2. CASE Trapping
  BY <1>2 DEF Trapping, Listen, ListenFails, SocketCloses, AfterCancel, ReadFails, Rejected,
     Authorized, Consumed, Answering, Answer, AnswerFails, Receive
<1>3. ASSUME NEW t \in Targets, Polling(t) PROVE Listening'
  BY <1>3 DEF Polling, GroupRead, GroupSkipped, Sent, TickFires, NextRound, LoopEnds
<1>4. CASE Shutdown \/ ShutdownEnds
  BY <1>4 DEF Shutdown, ShutdownEnds
<1>5. CASE UNCHANGED vars
  BY <1>5 DEF vars
<1> QED BY <1>1, <1>2, <1>3, <1>4, <1>5 DEF Next

LEMMA InvStep == Inv /\ [Next]_vars => Inv'
<1>1. Owned /\ UNCHANGED vars => Owned'
  BY DEF Owned, vars
<1>2. Inv /\ [Next]_vars => Owned'
  BY <1>1, OwnedStarting, OwnedPolling, OwnedTrapping, OwnedStopping DEF Inv, Next
<1> QED BY <1>2, TypeStep, ListeningStep DEF Inv

THEOREM Invariance == Spec => []Inv
<1>1. Init => Inv
  BY TypeInit, OwnedInit DEF Inv
<1> QED BY <1>1, InvStep, PTL DEF Spec

(* No poll reads a connection that Shutdown, or a Start that failed, has   *)
(* closed.                                                                 *)
THEOREM ReadsOpenConnections == Spec => []NoUseAfterClose
<1>1. Inv => NoUseAfterClose
  BY DEF Inv, Owned, Ended, NoUseAfterClose
<1> QED BY <1>1, Invariance, PTL

(* However far Start came, nothing is left after Shutdown: no goroutine,   *)
(* no connection, no socket.                                               *)
THEOREM NothingLeft == Spec => []ShutdownLeavesNothing
<1>1. Inv => ShutdownLeavesNothing
  BY DEF Inv, Owned, Ended, Listening, ShutdownLeavesNothing
<1> QED BY <1>1, Invariance, PTL

(* A connection is closed once: what is in r.connections is open until     *)
(* Shutdown closes it, and a Start that fails takes it out.                *)
LEMMA ClosedOnceStep == Inv /\ ClosedOnce /\ [Next]_vars => ClosedOnce'
<1> SUFFICES ASSUME Inv, ClosedOnce, [Next]_vars PROVE ClosedOnce'
  OBVIOUS
<1> USE DEF ClosedOnce, config, conns, polling, trapping
<1>1. ASSUME phase # "closed", Close(connections) PROVE ClosedOnce'
  <2>1. ~ \E t \in connections : socket[t] = "closed"
    BY <1>1 DEF Inv, Typed, TypeOK, Owned
  <2> QED BY <1>1, <2>1, Zenon DEF Close
<1>2. CASE Starting
  BY <1>1, <1>2 DEF Starting, TrapperFails, StartBegins, Connect, ConnectFails, Opened, StartEnds
<1>3. CASE Trapping
  BY <1>3 DEF Trapping, Listen, ListenFails, SocketCloses, ReadFails, Rejected,
     Authorized, Consumed, Answer, AnswerFails, Receive
<1>4. ASSUME NEW t \in Targets, Polling(t) PROVE ClosedOnce'
  BY <1>4 DEF Polling, GroupRead, GroupSkipped, Sent, TickFires, NextRound, LoopEnds
<1>5. CASE Shutdown \/ ShutdownEnds
  BY <1>1, <1>5 DEF Shutdown, ShutdownEnds
<1>6. CASE UNCHANGED vars
  BY <1>6 DEF vars
<1> QED BY <1>2, <1>3, <1>4, <1>5, <1>6 DEF Next

THEOREM NoDoubleClose == Spec => []ClosedOnce
  BY OwnedInit, Invariance, ClosedOnceStep, PTL DEF Spec

-----------------------------------------------------------------------------
(* Traps. *)

(* The two lists of protocol names agree: an entry that Validate accepts   *)
(* is used with the level it asks for, by requests (Flags) and against     *)
(* traps (Want), and with its own protocol.                                *)
THEOREM LevelAsConfigured ==
  ASSUME NEW e \in Entry, IsV3(e), ValidEntry(e)
  PROVE  /\ Want(USM(e)) = Configured(e)
         /\ Flags(USM(e)) = Configured(e)
         /\ e.authProtocol # "" => USM(e).auth = Upper[e.authProtocol]
<1>1. e.authProtocol # "" => ValidAuthProtocol(e.authProtocol)
  BY DEF ValidEntry, IsV3
<1>2. e.privProtocol # "" => ValidPrivacyProtocol(e.privProtocol) /\ e.authProtocol # ""
  BY DEF ValidEntry, IsV3
<1>3. /\ e.authProtocol # "" => USM(e).auth = Upper[e.authProtocol]
      /\ USM(e).auth = "NoAuth" <=> e.authProtocol = ""
  BY <1>1 DEF USM, MapAuthProtocol, ValidAuthProtocol
<1>4. USM(e).priv = "NoPriv" <=> e.privProtocol = ""
  BY <1>2 DEF USM, MapPrivacyProtocol, ValidPrivacyProtocol
<1>5. CASE e.privProtocol # ""
  BY <1>2, <1>3, <1>4, <1>5 DEF Want, Flags, Configured, All
<1>6. CASE e.privProtocol = "" /\ e.authProtocol # ""
  BY <1>3, <1>4, <1>6 DEF Want, Flags, Configured, All
<1>7. CASE e.privProtocol = "" /\ e.authProtocol = ""
  BY <1>3, <1>4, <1>7 DEF Want, Flags, Configured, All
<1> QED BY <1>3, <1>5, <1>6, <1>7

(* isAuthorized looks at flags, and at the encryption only under both of   *)
(* them; that suffices, because no entry asks for privacy alone.  It looks *)
(* at one entry only; that suffices, because a user has no other.          *)
LEMMA AuthorizedEarned ==
  ASSUME accepted \in Seq(Entry), ValidAccepted(accepted), NEW p \in Packets, NEW u,
         Decodes(accepted, p, u), IsAuthorized(accepted, p, u)
  PROVE  Earned(p)
<1>1. CASE p.version = "v3"
  <2>1. /\ p.usm /\ u \in UsmTable(accepted) /\ Verifies(u, p)
        /\ p.flags = All => p.encrypted
        /\ Want(u) \subseteq p.flags
    BY <1>1 DEF IsAuthorized, Decodes
  <2>2. PICK n \in DOMAIN accepted : IsV3(accepted[n]) /\ u = USM(accepted[n])
    BY <2>1 DEF UsmTable
  <2>3. accepted[n] \in Entry /\ ValidEntry(accepted[n])
    BY <2>2 DEF ValidAccepted
  <2>4. n \in EntriesOf(p)
    BY <2>1, <2>2 DEF EntriesOf, Verifies, USM
  <2>5. \A k \in EntriesOf(p) : k = n
    BY <2>4 DEF EntriesOf, ValidAccepted
  <2>6. Configured(accepted[n]) \subseteq p.flags
    BY <2>1, <2>2, <2>3, LevelAsConfigured
  <2>7. "priv" \in Configured(accepted[n]) => p.flags = All /\ p.encrypted
    <3>1. "priv" \in Configured(accepted[n]) => Configured(accepted[n]) = All
      BY <2>2, <2>3 DEF Configured, ValidEntry, IsV3, All
    <3>2. p.flags \subseteq All
      BY PacketsAssumption DEF Packet
    <3> QED BY <2>1, <2>6, <3>1, <3>2
  <2>8. Configured(accepted[n]) \subseteq Protection(p)
    <3>1. Configured(accepted[n]) \subseteq All
      BY DEF Configured
    <3> QED BY <2>6, <2>7, <3>1 DEF Protection, All
  <2>9. "auth" \in Configured(accepted[n]) => p.signed = Upper[accepted[n].authProtocol]
    <3>1. "auth" \in Configured(accepted[n]) => accepted[n].authProtocol # ""
      BY DEF Configured
    <3> QED BY <2>1, <2>2, <2>3, <2>6, <3>1, LevelAsConfigured DEF Verifies
  <2>10. MeetsEntry(p, accepted[n])
    BY <2>8, <2>9 DEF MeetsEntry
  <2> QED BY <1>1, <2>1, <2>4, <2>5, <2>10 DEF Earned
<1>2. CASE p.version # "v3"
  BY <1>2 DEF IsAuthorized, Earned
<1> QED BY <1>1, <1>2

LEMMA EarnedStays ==
  ASSUME UNCHANGED config, NEW p, Earned(p)
  PROVE  Earned(p)'
  BY DEF config, Earned, EntriesOf, MeetsEntry

(* At isAuthorized a datagram was verified, past it it is authorized, and  *)
(* past handleTrap it was handed over.                                     *)
Trapped ==
  /\ ValidAccepted(accepted)
  /\ listener \in {"checking", "consuming"} => Decodes(accepted, packet.msg, packet.usm)
  /\ listener = "consuming" => IsAuthorized(accepted, packet.msg, packet.usm)
  /\ listener = "answering" => packet.msg \in handed /\ packet.msg.inform
  /\ TrapsAreEarned

LEMMA TrappedStep == Typed /\ Trapped /\ [Next]_vars => Trapped'
<1> SUFFICES ASSUME Typed, Trapped, [Next]_vars PROVE Trapped'
  OBVIOUS
<1> USE DEF Trapped, TrapsAreEarned, conns, polling, trapping
<1>0. UNCHANGED config
  BY DEF Next, vars, config, Starting, TrapperFails, StartBegins, Connect, ConnectFails, StartEnds,
     Trapping, Listen, ListenFails, SocketCloses, ReadFails, Receive, Rejected, Authorized, Consumed,
     Answer, AnswerFails, Polling, GroupRead, GroupSkipped, Sent, TickFires, NextRound, LoopEnds,
     Shutdown, ShutdownEnds
<1>a. accepted' = accepted
  BY <1>0 DEF config
<1>b. \A p : Earned(p) => Earned(p)'
  BY <1>0, EarnedStays
<1>1. CASE Listen \/ ListenFails \/ SocketCloses \/ ReadFails \/ Rejected \/ AnswerFails
  BY <1>1, <1>a, <1>b DEF Listen, ListenFails, SocketCloses, ReadFails, Rejected, AnswerFails
<1>2. ASSUME NEW p \in Packets, Receive(p) PROVE Trapped'
  BY <1>2, <1>a, <1>b DEF Receive
<1>3. CASE Authorized
  BY <1>3, <1>a, <1>b DEF Authorized
<1>4. CASE Consumed
  <2>1. packet \in Decoded
    BY <1>4 DEF Consumed, Typed, AtPacket
  <2>2. Earned(packet.msg)
    BY <1>4, <2>1, AuthorizedEarned DEF Consumed, Typed, TypeOK, Decoded
  <2>3. PICK q : q = packet.msg
    OBVIOUS
  <2>4. Earned(q)'
    BY <1>b, <2>2, <2>3
  <2> QED BY <1>4, <1>a, <1>b, <2>3, <2>4 DEF Consumed, Answering
<1>5. CASE Answer
  BY <1>5, <1>a, <1>b DEF Answer
<1>6. CASE Starting
  BY <1>6, <1>a, <1>b DEF Starting, TrapperFails, StartBegins, Connect, ConnectFails, StartEnds, ListenerStart
<1>7. ASSUME NEW t \in Targets, Polling(t) PROVE Trapped'
  BY <1>7, <1>a, <1>b DEF Polling, GroupRead, GroupSkipped, Sent, TickFires, NextRound, LoopEnds
<1>8. CASE Shutdown \/ ShutdownEnds
  BY <1>8, <1>a, <1>b DEF Shutdown, ShutdownEnds
<1>9. CASE UNCHANGED vars
  BY <1>9, <1>a, <1>b DEF vars
<1> QED BY <1>1, <1>2, <1>3, <1>4, <1>5, <1>6, <1>7, <1>8, <1>9 DEF Next, Trapping

(* A trap that was handed over had the community or the protection that    *)
(* every entry of its user asks for, and only such an inform was           *)
(* acknowledged.                                                           *)
THEOREM OnlyAcceptedTraps == Spec => []TrapsAreEarned
<1>1. Init => Typed /\ Trapped
  BY TypeInit DEF Init, Trapped, TrapsAreEarned
<1>2. Trapped => TrapsAreEarned
  BY DEF Trapped
<1> QED BY <1>1, <1>2, TypeStep, TrappedStep, PTL DEF Spec

=============================================================================
