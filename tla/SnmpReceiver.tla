---------------------------- MODULE SnmpReceiver ----------------------------
(***************************************************************************)
(* One SNMP receiver (receiver/snmpreceiver: receiver.go,                  *)
(* internal/poller/poller.go, internal/trapper/trapper.go): Start connects *)
(* to the targets and starts a poll loop for each of them and the trap     *)
(* listener; Shutdown cancels their context, waits for them and closes the *)
(* connections.                                                            *)
(*                                                                         *)
(* External, modelled from the use made of it: the agents and the library  *)
(* that asks them (a Get or a Walk ends, well or with an error, because    *)
(* each has a timeout and a number of retries); the senders of traps and   *)
(* the library that decodes them; the consumers, whose calls return.       *)
(***************************************************************************)
EXTENDS SnmpAuth, FiniteSets

CONSTANTS
  Targets,  \* config.Targets
  Groups,   \* the metric groups of a target
  Packets,  \* datagrams of senders of traps
  NoPacket,
  Setups    \* configurations: [polls, traps, accepted]

ASSUME PacketsAssumption == Packets \subseteq Packet /\ NoPacket \notin [msg : Packet, usm : Usms]
ASSUME SetupsAssumption ==
  Setups \subseteq [polls : BOOLEAN, traps : BOOLEAN, accepted : Seq(Entry)]
(* A target without groups is never polled; the loop of one is left out. *)
ASSUME GroupsAssumption == Groups # {}

(* What the listener has at hand after UnmarshalTrap. *)
Decoded == [msg : Packets, usm : Usms]

VARIABLES
  polls,       \* nextMetrics is set and there are targets
  traps,       \* nextLogs and TrapListener are set
  accepted,    \* the entries of accepted_auth
  phase,       \* of Start and Shutdown
  ctx,         \* loopCtx: "nil" until Start makes it
  connections, \* r.connections
  socket,      \* the connection of each target
  closedTwice, \* a connection was closed that was closed before
  loop,        \* the goroutine of each target
  got,         \* groups that gave metrics in this round
  skipped,     \* groups that gave none
  tick,        \* its ticker: none yet, quiet, or due
  listener,    \* the goroutine of the trap listener
  packet,      \* the datagram it is at, with the parameters that verified it
  udp,         \* its socket
  handed,      \* datagrams the log consumer was called with
  acked        \* informs that were acknowledged

config   == <<polls, traps, accepted>>
polling  == <<loop, got, skipped, tick>>
trapping == <<listener, packet, udp, handed, acked>>
conns    == <<connections, socket, closedTwice>>
vars     == <<polls, traps, accepted, phase, ctx, connections, socket, closedTwice, loop, got, skipped,
              tick, listener, packet, udp, handed, acked>>

Phases == {"new", "connecting", "running", "failed", "stopping", "closed"}

(* A poll loop and the listener exist after Start only; the listener only  *)
(* when there is somebody to take its logs; every ticker is that of a      *)
(* running loop.                                                           *)
TypeOK ==
  /\ polls \in BOOLEAN /\ traps \in BOOLEAN /\ accepted \in Seq(Entry)
  /\ phase \in Phases
  /\ ctx \in {"nil", "live", "cancelled"}
  /\ connections \subseteq Targets
  /\ socket \in [Targets -> {"none", "open", "closed"}]
  /\ closedTwice \in BOOLEAN
  /\ loop \in [Targets -> {"off", "collecting", "sending", "waiting", "gone"}]
  /\ got \in [Targets -> SUBSET Groups]
  /\ skipped \in [Targets -> SUBSET Groups]
  /\ tick \in [Targets -> {"none", "quiet", "due"}]
  /\ listener \in {"off", "starting", "reading", "checking", "consuming", "answering", "gone"}
  /\ packet \in Decoded \cup {NoPacket}
  /\ udp \in {"none", "open", "closed"}
  /\ handed \subseteq Packets /\ acked \subseteq Packets
  /\ traps \/ listener = "off"
  /\ \A t \in Targets : /\ polls \/ loop[t] = "off"
                        /\ tick[t] = "none" \/ loop[t] \notin {"off", "gone"}
                        /\ got[t] \cap skipped[t] = {}

(* The collector starts only with a configuration that Validate accepts.   *)
Init ==
  /\ \E s \in Setups : /\ ValidAccepted(s.accepted)
                       /\ polls = s.polls /\ traps = s.traps /\ accepted = s.accepted
  /\ phase = "new" /\ ctx = "nil"
  /\ connections = {} /\ socket = [t \in Targets |-> "none"] /\ closedTwice = FALSE
  /\ loop = [t \in Targets |-> "off"]
  /\ got = [t \in Targets |-> {}] /\ skipped = [t \in Targets |-> {}]
  /\ tick = [t \in Targets |-> "none"]
  /\ listener = "off" /\ packet = NoPacket /\ udp = "none"
  /\ handed = {} /\ acked = {}

-----------------------------------------------------------------------------
(* Start. *)

(* A Start that fails closes the connections it has made and forgets them. *)
(* The mutants leave them open, and remember them.                         *)
LeftOpen   == {}
Opened     == connections
Remembered == connections
Forgotten  == {}

(* conn.Close() of some connections. *)
Close(s) ==
  /\ socket' = [t \in Targets |-> IF t \in s THEN "closed" ELSE socket[t]]
  /\ closedTwice' = (closedTwice \/ \E t \in s : socket[t] = "closed")

(* newTrapper finds the credentials of accepted_auth unusable. *)
TrapperFails ==
  /\ phase = "new" /\ traps
  /\ phase' = "failed"
  /\ UNCHANGED <<config, ctx, conns, polling, trapping>>

StartBegins ==
  /\ phase = "new"
  /\ phase' = "connecting" /\ ctx' = "live"
  /\ UNCHANGED <<config, conns, polling, trapping>>

(* buildTargetDefs connects to one target after the other.  Whether its    *)
(* scalar attributes can be read makes no difference.                      *)
Connect(t) ==
  /\ phase = "connecting" /\ polls /\ t \notin connections
  /\ socket' = [socket EXCEPT ![t] = "open"]
  /\ connections' = connections \cup {t}
  /\ UNCHANGED <<config, phase, ctx, closedTwice, polling, trapping>>

ConnectFails ==
  /\ phase = "connecting" /\ polls /\ connections # Targets
  /\ Close(Opened) /\ connections' = Forgotten
  /\ phase' = "failed" /\ ctx' = "cancelled"
  /\ UNCHANGED <<config, polling, trapping>>

(* The mutant starts the listener without looking for a log consumer.      *)
AlwaysListens == "starting"
ListenerStart == IF traps THEN "starting" ELSE "off"

StartEnds ==
  /\ phase = "connecting" /\ (~polls \/ connections = Targets)
  /\ phase' = "running"
  /\ loop' = [t \in Targets |-> IF polls THEN "collecting" ELSE "off"]
  /\ listener' = ListenerStart
  /\ UNCHANGED <<config, ctx, conns, got, skipped, tick, packet, udp, handed, acked>>

-----------------------------------------------------------------------------
(* pollTarget and collectAndSend: the loop of one target. *)

Missing(t) == Groups \ (got[t] \cup skipped[t])

(* After the last group: the consumer, when there is something for it, or  *)
(* the wait for the ticker.  A group that fails is passed over.  The       *)
(* mutant ends the loop of a target that gave nothing.                     *)
GivesUp(gave)    == IF gave = {} THEN "gone" ELSE "sending"
AfterRound(gave) == IF gave = {} THEN "waiting" ELSE "sending"
AfterGroup(t, g, gave) == IF Missing(t) = {g} THEN AfterRound(gave) ELSE "collecting"

(* The ticker is made when the first round is over. *)
TickAfter(t, next) == IF tick[t] = "none" /\ next = "waiting" THEN "quiet" ELSE tick[t]

GroupRead(t) ==
  /\ loop[t] = "collecting"
  /\ \E g \in Missing(t) :
       LET gave == got[t] \cup {g}
           next == AfterGroup(t, g, gave)
       IN /\ got' = [got EXCEPT ![t] = gave]
          /\ loop' = [loop EXCEPT ![t] = next]
          /\ tick' = [tick EXCEPT ![t] = TickAfter(t, next)]
  /\ UNCHANGED <<config, phase, ctx, conns, skipped, trapping>>

(* A Get or a Walk fails, or there is no metric among its values. *)
GroupSkipped(t) ==
  /\ loop[t] = "collecting"
  /\ \E g \in Missing(t) :
       LET next == AfterGroup(t, g, got[t])
       IN /\ skipped' = [skipped EXCEPT ![t] = @ \cup {g}]
          /\ loop' = [loop EXCEPT ![t] = next]
          /\ tick' = [tick EXCEPT ![t] = TickAfter(t, next)]
  /\ UNCHANGED <<config, phase, ctx, conns, got, trapping>>

(* ConsumeMetrics returns; what it refuses is lost. *)
Sent(t) ==
  /\ loop[t] = "sending"
  /\ loop' = [loop EXCEPT ![t] = "waiting"]
  /\ tick' = [tick EXCEPT ![t] = TickAfter(t, "waiting")]
  /\ UNCHANGED <<config, phase, ctx, conns, got, skipped, trapping>>

(* The ticker's channel holds one tick; those that find it full are lost.  *)
TickFires(t) ==
  /\ tick[t] = "quiet"
  /\ tick' = [tick EXCEPT ![t] = "due"]
  /\ UNCHANGED <<config, phase, ctx, conns, loop, got, skipped, trapping>>

(* The select: when the context is done and a tick is due, either branch.  *)
NextRound(t) ==
  /\ loop[t] = "waiting" /\ tick[t] = "due"
  /\ tick' = [tick EXCEPT ![t] = "quiet"]
  /\ loop' = [loop EXCEPT ![t] = "collecting"]
  /\ got' = [got EXCEPT ![t] = {}] /\ skipped' = [skipped EXCEPT ![t] = {}]
  /\ UNCHANGED <<config, phase, ctx, conns, trapping>>

LoopEnds(t) ==
  /\ loop[t] = "waiting" /\ ctx = "cancelled"
  /\ loop' = [loop EXCEPT ![t] = "gone"]
  /\ tick' = [tick EXCEPT ![t] = "none"]
  /\ UNCHANGED <<config, phase, ctx, conns, got, skipped, trapping>>

-----------------------------------------------------------------------------
(* The trap listener. *)

(* ResolveUDPAddr and ListenUDP, in the listener's own goroutine: Start    *)
(* has returned when they fail.                                            *)
Listen ==
  /\ listener = "starting"
  /\ udp' = "open" /\ listener' = "reading"
  /\ UNCHANGED <<config, phase, ctx, conns, polling, packet, handed, acked>>

ListenFails ==
  /\ listener = "starting"
  /\ listener' = "gone"
  /\ UNCHANGED <<config, phase, ctx, conns, polling, packet, udp, handed, acked>>

(* context.AfterFunc closes the socket under the listener.  The mutant     *)
(* leaves it to the listener.                                              *)
StaysOpen   == udp
AfterCancel == "closed"

SocketCloses ==
  /\ ctx = "cancelled" /\ udp = "open"
  /\ udp' = AfterCancel
  /\ UNCHANGED <<config, phase, ctx, conns, polling, listener, packet, handed, acked>>

(* A datagram that does not verify is dropped without a trace. *)
Receive(p) ==
  /\ listener = "reading" /\ udp = "open"
  /\ \E u \in UsmTable(accepted) \cup {NoUsm} :
       Decodes(accepted, p, u) /\ packet' = [msg |-> p, usm |-> u]
  /\ listener' = "checking"
  /\ UNCHANGED <<config, phase, ctx, conns, polling, udp, handed, acked>>

(* A read fails: the listener goes on, unless it is to end. *)
ReadFails ==
  /\ listener = "reading"
  /\ ctx = "cancelled" \/ udp = "closed"
  /\ listener' = "gone" /\ udp' = "closed"
  /\ UNCHANGED <<config, phase, ctx, conns, polling, packet, handed, acked>>

(* What follows a packet that was handed over. *)
Answering(p) == IF p.msg.inform THEN "answering" ELSE "reading"

Rejected ==
  /\ listener = "checking" /\ ~IsAuthorized(accepted, packet.msg, packet.usm)
  /\ listener' = "reading" /\ packet' = NoPacket
  /\ UNCHANGED <<config, phase, ctx, conns, polling, udp, handed, acked>>

Authorized ==
  /\ listener = "checking" /\ IsAuthorized(accepted, packet.msg, packet.usm)
  /\ listener' = "consuming"
  /\ UNCHANGED <<config, phase, ctx, conns, polling, packet, udp, handed, acked>>

(* ConsumeLogs returns; what it refuses is lost, and acknowledged. *)
Consumed ==
  /\ listener = "consuming"
  /\ handed' = handed \cup {packet.msg}
  /\ listener' = Answering(packet)
  /\ packet' = IF listener' = "reading" THEN NoPacket ELSE packet
  /\ UNCHANGED <<config, phase, ctx, conns, polling, udp, acked>>

Answer ==
  /\ listener = "answering" /\ udp = "open"
  /\ acked' = acked \cup {packet.msg}
  /\ listener' = "reading" /\ packet' = NoPacket
  /\ UNCHANGED <<config, phase, ctx, conns, polling, udp, handed>>

AnswerFails ==
  /\ listener = "answering"
  /\ listener' = "reading" /\ packet' = NoPacket
  /\ UNCHANGED <<config, phase, ctx, conns, polling, udp, handed, acked>>

-----------------------------------------------------------------------------
(* Shutdown: of a receiver that runs, whose Start failed, or that was not  *)
(* started at all.                                                         *)

Shutdown ==
  /\ phase \in {"new", "running", "failed"}
  /\ phase' = "stopping"
  /\ ctx' = IF ctx = "nil" THEN "nil" ELSE "cancelled"
  /\ UNCHANGED <<config, conns, polling, trapping>>

(* shutdownWG.Wait: poller.Run returns when every loop has, and the        *)
(* listener.  The mutant does not wait.                                    *)
NoWait == TRUE
Waited == /\ \A t \in Targets : loop[t] \in {"off", "gone"}
          /\ listener \in {"off", "gone"}

ShutdownEnds ==
  /\ phase = "stopping" /\ Waited
  /\ Close(connections)
  /\ phase' = "closed"
  /\ UNCHANGED <<config, ctx, connections, polling, trapping>>

-----------------------------------------------------------------------------
Starting == \/ TrapperFails \/ StartBegins \/ ConnectFails \/ StartEnds
            \/ \E t \in Targets : Connect(t)

Polling(t) == \/ GroupRead(t) \/ GroupSkipped(t) \/ Sent(t)
              \/ TickFires(t) \/ NextRound(t) \/ LoopEnds(t)

Trapping == \/ Listen \/ ListenFails \/ SocketCloses \/ ReadFails
            \/ Rejected \/ Authorized \/ Consumed \/ Answer \/ AnswerFails
            \/ \E p \in Packets : Receive(p)

Next == \/ Starting \/ Trapping \/ Shutdown \/ ShutdownEnds
        \/ \E t \in Targets : Polling(t)

Spec == Init /\ [][Next]_vars

(* Requests to agents and consumers end, timers fire, goroutines run.  The *)
(* select of a poll loop picks among its ready branches at random: with    *)
(* the context done it does not pick the ticker for ever, hence SF.        *)
(* Nothing is assumed of Receive: traps may come or not.                   *)
Fairness ==
  /\ \A t \in Targets : /\ WF_vars(GroupRead(t) \/ GroupSkipped(t))
                        /\ WF_vars(Sent(t))
                        /\ WF_vars(TickFires(t)) /\ WF_vars(NextRound(t))
                        /\ SF_vars(LoopEnds(t))
  /\ WF_vars(Listen \/ ListenFails) /\ WF_vars(SocketCloses)
  /\ WF_vars(udp = "closed" /\ ReadFails)
  /\ WF_vars(Rejected \/ Authorized) /\ WF_vars(Consumed)
  /\ WF_vars(Answer \/ AnswerFails)
  /\ WF_vars(ShutdownEnds)

FairSpec == Spec /\ Fairness

-----------------------------------------------------------------------------
(* Properties. *)

(* A connection that is being read is open: Shutdown closes it after       *)
(* poller.Run has returned, and a failing Start before any loop runs.      *)
NoUseAfterClose ==
  \A t \in Targets : loop[t] = "collecting" => socket[t] = "open"

(* No connection is closed twice: a Start that fails closes those it made, *)
(* and the Shutdown after it finds none.                                   *)
ClosedOnce == ~closedTwice

(* After Shutdown nothing is left of the receiver, however far its Start   *)
(* came: no goroutine, no open connection, no socket.                      *)
ShutdownLeavesNothing ==
  phase = "closed" =>
    /\ \A t \in Targets : loop[t] \in {"off", "gone"} /\ socket[t] # "open"
    /\ listener \in {"off", "gone"} /\ udp # "open"

(* A trap reaches the consumer only with a community of accepted_auth, or  *)
(* with every protection that any entry of its user asks for (README, Trap *)
(* authentication): signed with the entry's own protocol, however its name *)
(* is spelled, and with the protection the packet had, not the one it      *)
(* claims.  And an inform is acknowledged only after that: its sender need *)
(* not send it again.                                                      *)
Protection(p) == {a \in p.flags : \/ a = "auth"
                                  \/ a = "priv" /\ "auth" \in p.flags /\ p.encrypted}

EntriesOf(p) == {n \in DOMAIN accepted : IsV3(accepted[n]) /\ accepted[n].user = p.user}

MeetsEntry(p, e) ==
  /\ Configured(e) \subseteq Protection(p)
  /\ "auth" \in Configured(e) => p.signed = Upper[e.authProtocol]

Earned(p) ==
  IF p.version = "v3"
  THEN /\ p.usm /\ EntriesOf(p) # {}
       /\ \A n \in EntriesOf(p) : MeetsEntry(p, accepted[n])
  ELSE AcceptAll(accepted) \/ p.community \in Communities(accepted)

TrapsAreEarned ==
  /\ \A p \in handed : Earned(p)
  /\ \A p \in acked : p.inform /\ p \in handed

(* While the receiver runs, every target is polled again and again,        *)
(* whatever fails: its agent, its consumer, the other targets.             *)
EveryTargetKeepsPolling ==
  \A t \in Targets : (phase = "running" /\ polls) ~> (loop[t] = "collecting" \/ phase # "running")

(* Shutdown returns: cancelling the context ends every wait of the loops   *)
(* and of the listener, at whatever point it comes.                        *)
ShutdownReturns == phase = "stopping" ~> phase = "closed"

=============================================================================
