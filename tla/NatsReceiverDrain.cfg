\* What the documentation says of Drain.
CONSTANTS
  Receivers = {r1, r2}
  Msgs = {good, bad}
  Poison = {bad}
  NoMsg = nomsg
  MaxDeliver = 2
  MaxAckPending = 2
  MaxFaults = 0
  MaxStops = 1
SPECIFICATION Spec
INVARIANT InFlightProcessed
CHECK_DEADLOCK FALSE
