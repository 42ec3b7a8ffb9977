\* Start, pushes, flush loop and Shutdown of one exporter, with failing writers.
CONSTANTS
  gauge = gauge
  sum = sum
  both = both
  onlyGauge = onlyGauge
  Tables <- MCTables
  Requests <- MCRequests
  Kinds <- MCKinds
  MaxFaults = 2
  MaxStops = 2
SPECIFICATION FairSpec
INVARIANTS
  TypeOK
  OkCoversEveryKind
  LoopMeetsNoNil
  LoopGoneBeforeClose
  ShutdownLeavesNothing
PROPERTIES
  RowsLeaveBuffer
  ShutdownEnds
\* A collector that has been shut down stops.
CHECK_DEADLOCK FALSE
