\* Two targets, two groups, the trap listener with several accepted_auth; failing starts and Shutdown.
CONSTANTS
  Targets = {t1, t2}
  Groups = {g1, g2}
  Packets <- MCPackets
  NoPacket = nopacket
  Names <- MCNames
  Upper <- MCUpper
  Setups <- MCSetups
SPECIFICATION FairSpec
INVARIANTS
  TypeOK
  NoUseAfterClose
  ClosedOnce
  ShutdownLeavesNothing
  TrapsAreEarned
PROPERTIES
  EveryTargetKeepsPolling
  ShutdownReturns
\* A receiver that has been shut down stops.
CHECK_DEADLOCK FALSE
