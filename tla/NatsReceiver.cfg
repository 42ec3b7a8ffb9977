\* Delivery, redelivery, refusal, lost answers, shutdown and crash.
CONSTANTS
  Receivers = {r1, r2}
  Msgs = {good, bad}
  Poison = {bad}
  NoMsg = nomsg
  MaxDeliver = 2
  MaxAckPending = 2
  MaxFaults = 2
  MaxStops = 1
SPECIFICATION Spec
SYMMETRY ReceiverSymmetry
INVARIANTS
  DuplicatesOnlyByAckWait
  NoHandlingAfterClose
PROPERTY ImplementsDelivery
\* Nothing is left to do when every message is settled.
CHECK_DEADLOCK FALSE
