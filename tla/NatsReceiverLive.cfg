\* One collector, two messages, one of which may wait for an answer.
CONSTANTS
  Receivers = {r1}
  Msgs = {good, bad}
  Poison = {bad}
  NoMsg = nomsg
  MaxDeliver = 2
  MaxAckPending = 1
  MaxFaults = 2
  MaxStops = 1
SPECIFICATION FairSpec
PROPERTIES
  EveryMessageSettles
  ShutdownReturns
\* Nothing is left to do when every message is settled.
CHECK_DEADLOCK FALSE
