\* Both ways of publishing, with and without a deadline for Shutdown.
CONSTANTS
  Msgs = {m1, m2, m3, m4}
  Garbled = {m4}
  MaxPending = 2
  MaxPushes = 2
  MaxFaults = 2
SPECIFICATION FairSpec
INVARIANTS
  SyncOkIsStored
  GivenUpForCause
  AsyncAccounted
PROPERTY ShutdownEnds
\* Nothing happens after Shutdown.
CHECK_DEADLOCK FALSE
