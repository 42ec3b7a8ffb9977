\* Three configurations, the first starts of which may fail.
CONSTANTS
  Kinds = {traces, metrics, logs}
  MaxGens = 3
  MaxFaults = 2
SPECIFICATION Spec
SYMMETRY KindSymmetry
INVARIANTS
  RunningServesEveryKind
  StopLeavesNothing
\* The last configuration ends.
CHECK_DEADLOCK FALSE
